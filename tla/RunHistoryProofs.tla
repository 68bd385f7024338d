--------------------------- MODULE RunHistoryProofs ---------------------------
(***************************************************************************)
(* Theorems about what a row may say of its past, for any tasks and any    *)
(* budgets: a rework never fails, attempts are bounded, a cached PR state  *)
(* is the attempt's own, and `done` means shipped.                         *)
(*                                                                         *)
(* None of the four is inductive: most writes are made on the word of a    *)
(* snapshot. History adds what the snapshot still has in common with the   *)
(* row when it is used: in the row loop (SnapOK) and while a claim is      *)
(* being launched (ClaimOK).                                               *)
(***************************************************************************)
EXTENDS RunLifecycleProofs

Claiming == pc \in {"worktree", "launchClaim", "seedClaim"}

\* The row loop has still to come to this row.
Awaited(t) == pc \in {"rows", "handin"} /\ t \in todo

\* The four properties, for a row with this PR on GitHub, its task listed or not;
\* and no row, no rework.
Fits(r, pull, open) ==
    /\ r.rework => r.status \notin {"none", "failed"}
    /\ r.attempt <= MaxAttempts
    /\ r.pr \in {"merged", "closed"} => pull = r.pr
    /\ r.status = "done" => pull = "merged" \/ (r.pr = "none" /\ ~open)

RowOK(t) == Fits(row[t], gh[t], t \in tracker)

\* Nobody but the tick marks a run as a rework, as done, or with a PR.
SnapOK(t) ==
    /\ snap[t].attempt <= MaxAttempts
    /\ Awaited(t) =>
          /\ row[t].rework => snap[t].rework
          /\ row[t].status # "done"
          /\ row[t].pr \in {"none", snap[t].pr}
          /\ snap[t].pr \in {"merged", "closed"} => gh[t] = snap[t].pr

\* A fresh dispatch is of a run with attempts left that is no rework, or of one
\* whose row is cleared.
ClaimOK ==
    Claiming => RunWillRelaunch(snap[cur]) /\ (~Requeued => ~row[cur].rework)

LoopOK == gone \cap tracker = {} /\ (pc = "handin" => cur \notin todo)

Rows == \A t \in Tasks : RowOK(t) /\ SnapOK(t)

History == Rows /\ LoopOK /\ ClaimOK

Typed == TypeOK /\ CurOK

-----------------------------------------------------------------------------
(* Rows that are written.                                                  *)

\* The row that is not there fits.
LEMMA NoRowFits == ASSUME NEW pull, NEW open PROVE Fits(NoRow, pull, open)
  BY BudgetAssumption DEF Fits, NoRow

\* One row is written, with one that fits; the others are left alone.
LEMMA UpdateFits ==
    ASSUME Typed, Rows, NEW t \in Tasks, NEW new \in Row, Update(t, new),
           Exists(t) => Fits(new, gh'[t], t \in tracker'),
           gh' \in [Tasks -> PrLive], \A u \in Tasks \ {t} : gh'[u] = gh[u],
           gh[t] \in {"merged", "closed"} => gh'[t] = gh[t], tracker' \subseteq tracker
    PROVE  \A u \in Tasks : RowOK(u)'
<1> SUFFICES ASSUME NEW u \in Tasks PROVE RowOK(u)'
  OBVIOUS
<1>1. RowOK(u) /\ row' = [row EXCEPT ![t] = IF Exists(t) THEN new ELSE @] /\ row \in [Tasks -> Row]
  BY DEF Typed, TypeOK, Rows, Update
<1>2. CASE u # t
  BY <1>1, <1>2 DEF RowOK, Fits
<1>3. CASE u = t /\ Exists(t)
  BY <1>1, <1>3 DEF RowOK
<1>4. CASE u = t /\ ~Exists(t)
  BY <1>1, <1>4 DEF RowOK, Fits, Exists
<1> QED
  BY <1>2, <1>3, <1>4

\* No row is written.
LEMMA SameFits ==
    ASSUME Rows, UNCHANGED row, tracker' \subseteq tracker,
           \A u \in Tasks : gh[u] \in {"merged", "closed"} => gh'[u] = gh[u]
    PROVE  \A u \in Tasks : RowOK(u)'
  BY DEF Rows, RowOK, Fits

\* In the row loop, a visit leaves the rows that are still awaited alone.
LEMMA VisitSnaps ==
    ASSUME Typed, Rows, NEW t \in Tasks, Visit(t),
           pc \in {"rows", "handin"} \/ pc' \notin {"rows", "handin"},
           \A u \in Tasks \ {t} : row'[u] = row[u] /\ gh'[u] = gh[u]
    PROVE  \A u \in Tasks : SnapOK(u)'
<1> SUFFICES ASSUME NEW u \in Tasks PROVE SnapOK(u)'
  OBVIOUS
<1>1. SnapOK(u) /\ snap \in [Tasks -> Row]
  BY DEF Typed, TypeOK, Rows
<1>2. todo' = todo \ {t} /\ snap' = [snap EXCEPT ![t] = NoRow] /\ NoRow.attempt <= MaxAttempts
  BY BudgetAssumption DEF Visit, NoRow
<1>3. CASE u = t
  BY <1>1, <1>2, <1>3 DEF SnapOK, Awaited
<1>4. CASE u # t
  <2>1. row'[u] = row[u] /\ gh'[u] = gh[u] /\ snap'[u] = snap[u] /\ (u \in todo' => u \in todo)
    BY <1>1, <1>2, <1>4
  <2> QED
    BY <1>1, <2>1 DEF SnapOK, Awaited
<1> QED
  BY <1>3, <1>4

-----------------------------------------------------------------------------
(* Phase 1: reconciling one row.                                           *)

\* Reconciling a row writes one that fits.
LEMMA ReconcileFits ==
    ASSUME Typed, History, NEW t \in Tasks, Reconcile(t)
    PROVE  \A u \in Tasks : RowOK(u)'
<1>t. /\ row[t] \in Row /\ snap[t] \in Row /\ gh[t] \in PrLive /\ gh \in [Tasks -> PrLive]
      /\ row \in [Tasks -> Row] /\ gone \cap tracker = {}
  BY DEF Typed, TypeOK, History, LoopOK
<1>h. RowOK(t) /\ SnapOK(t) /\ Rows
  BY DEF History, Rows
<1>v. VisitRow(t) /\ Awaited(t) /\ tracker' = tracker
  BY DEF Reconcile, ReconcileMerged, ReconcileClosed, ApplyPush, PushFails, BeginHandIn,
         LeaveReview, LeaveWork, WindowGone, WatchdogNudge, WatchdogFail, LeaveAlone,
         VisitRow, Visit, Awaited
<1>s. /\ row[t].rework => snap[t].rework
      /\ row[t].status # "done"
      /\ row[t].pr \in {"none", snap[t].pr}
      /\ snap[t].pr \in {"merged", "closed"} => gh[t] = snap[t].pr
      /\ snap[t].attempt <= MaxAttempts /\ snap[t].attempt \in Int
  BY <1>h, <1>v, <1>t DEF SnapOK, Row
<1>r. Exists(t) => Fits(row[t], gh[t], t \in tracker)
  BY <1>h DEF RowOK
<1>p. /\ PrLive \subseteq PrCached /\ "unread" \in PrCached /\ row[t].pr \in PrCached
      /\ row[t].infra \in Nat /\ MaxAttempts \in Nat
  BY <1>t, BudgetAssumption DEF Row, PrLive, PrCached
\* A write that leaves GitHub alone.
<1>w. ASSUME NEW new \in Row, Update(t, new), UNCHANGED gh,
             Exists(t) => Fits(new, gh[t], t \in tracker)
      PROVE  \A u \in Tasks : RowOK(u)'
  BY <1>h, <1>v, <1>t, <1>w, UpdateFits
<1>e. ASSUME NEW s \in Status, NEW p \in PrCached
      PROVE  [row[t] EXCEPT !.status = s, !.pr = p] \in Row
  BY <1>t DEF Row
<1>1. CASE ReconcileMerged(t)
  <2>1. gh[t] = "merged"
    BY <1>1, <1>s DEF ReconcileMerged, Shipped
  <2>2. [row[t] EXCEPT !.status = "done"] \in Row
    BY <1>t DEF Row, Status
  <2>3. Exists(t) => Fits([row[t] EXCEPT !.status = "done"], gh[t], t \in tracker)
    BY <1>r, <1>t, <2>1 DEF Fits, Row
  <2> QED
    BY <1>1, <2>2, <2>3, <1>w DEF ReconcileMerged, Finish
<1>2. CASE ReconcileClosed(t)
  <2>2. [row[t] EXCEPT !.status = "closed"] \in Row
    BY <1>t DEF Row, Status
  <2>3. Exists(t) => Fits([row[t] EXCEPT !.status = "closed"], gh[t], t \in tracker)
    BY <1>r, <1>t DEF Fits, Row
  <2> QED
    BY <1>2, <2>2, <2>3, <1>w DEF ReconcileClosed, Finish
<1>3. CASE ApplyPush(t)
  <2>1. PICK titled \in BOOLEAN :
          /\ gh' = [gh EXCEPT ![t] = IF titled /\ snap[t].pr = "none" /\ @ = "none" THEN "open" ELSE @]
          /\ Update(t, [row[t] EXCEPT
                 !.pr = IF titled /\ snap[t].pr = "none" /\ @ = "none" THEN "unread" ELSE @,
                 !.tried = {}])
    BY <1>3 DEF ApplyPush
  <2> DEFINE p == IF titled /\ snap[t].pr = "none" /\ row[t].pr = "none" THEN "unread" ELSE row[t].pr
             new == [row[t] EXCEPT !.pr = p, !.tried = {}]
  <2>2. p \in PrCached /\ new \in Row
    BY <1>t, <1>p DEF Row
  <2>3. Update(t, new)
    BY <2>1, <1>t DEF Row
  <2>4. /\ gh' \in [Tasks -> PrLive] /\ \A u \in Tasks \ {t} : gh'[u] = gh[u]
        /\ gh'[t] = gh[t] \/ gh[t] = "none"
    BY <2>1, <1>t DEF PrLive
  <2>5. Exists(t) => Fits(new, gh'[t], t \in tracker')
    BY <1>r, <1>t, <1>s, <1>v, <2>4 DEF Fits, Row
  <2> QED
    BY <2>2, <2>3, <2>4, <2>5, <1>h, <1>v, UpdateFits
<1>4. CASE PushFails(t)
  <2>1. /\ gh' \in [Tasks -> PrLive] /\ \A u \in Tasks \ {t} : gh'[u] = gh[u]
        /\ gh'[t] = gh[t] \/ gh[t] = "none"
    BY <1>4, <1>t DEF PushFails, PrLive
  <2>2. CASE UNCHANGED row
    BY <2>1, <2>2, <1>h, <1>v, SameFits
  <2>3. CASE Escalated(t)
    <3> DEFINE new == [row[t] EXCEPT !.status = "needs_human"]
    <3>1. new \in Row /\ Update(t, new)
      BY <2>3, <1>t DEF Escalated, SetStatus, Row, Status, Review
    <3>2. Exists(t) => Fits(new, gh'[t], t \in tracker')
      BY <1>r, <1>t, <1>v, <2>1 DEF Fits, Row
    <3> QED
      BY <3>1, <3>2, <2>1, <1>h, <1>v, UpdateFits
  <2> QED
    BY <1>4, <2>2, <2>3 DEF PushFails
<1>5. CASE BeginHandIn(t)
  BY <1>5, <1>h, <1>v, SameFits DEF BeginHandIn
<1>6. CASE LeaveReview(t)
  <2>1. PICK answered \in BOOLEAN :
          LET pr == LiveOrCached(t, answered)
          IN  \/ MayLeave(t, answered) /\ Update(t, [row[t] EXCEPT !.status = "done", !.pr = pr])
              \/ ~MayLeave(t, answered) /\ Update(t, [row[t] EXCEPT !.pr = pr])
    BY <1>6 DEF LeaveReview, Finish
  <2> DEFINE p == LiveOrCached(t, answered)
  <2>2. p \in PrCached /\ (p \in {"merged", "closed"} => gh[t] = p \/ p = row[t].pr)
    BY <1>t, <1>p DEF LiveOrCached
  <2>3. t \notin tracker /\ UNCHANGED gh
    BY <1>6, <1>t DEF LeaveReview
  <2>4. CASE MayLeave(t, answered)
    <3> DEFINE new == [row[t] EXCEPT !.status = "done", !.pr = p]
    <3>1. new \in Row /\ Update(t, new)
      BY <2>1, <2>2, <2>4, <1>e DEF Status
    <3>2. gh[t] = "merged" \/ p = "none"
      BY <2>4, <1>s DEF MayLeave, LiveOrCached
    <3>3. Exists(t) => Fits(new, gh[t], t \in tracker)
      BY <1>r, <1>t, <2>2, <2>3, <3>2 DEF Fits, Row
    <3> QED
      BY <3>1, <3>3, <2>3, <1>w
  <2>5. CASE ~MayLeave(t, answered)
    <3> DEFINE new == [row[t] EXCEPT !.pr = p]
    <3>1. new \in Row /\ Update(t, new)
      BY <2>1, <2>2, <2>5, <1>t DEF Row
    <3>2. Exists(t) => Fits(new, gh[t], t \in tracker)
      BY <1>r, <1>t, <2>2, <1>s DEF Fits, Row
    <3> QED
      BY <3>1, <3>2, <2>3, <1>w
  <2> QED
    BY <2>4, <2>5
<1>7. CASE LeaveWork(t)
  <2> DEFINE new == [row[t] EXCEPT !.status = "done", !.pr = "merged"]
  <2>1. gh[t] = "merged"
    BY <1>7, <1>s DEF LeaveWork
  <2>2. new \in Row
    BY <1>e DEF Status, PrCached
  <2>3. Exists(t) => Fits(new, gh[t], t \in tracker)
    BY <1>r, <1>t, <2>1 DEF Fits, Row
  <2> QED
    BY <1>7, <2>2, <2>3, <1>w DEF LeaveWork, Finish
\* Both ways to lose an agent.
<1>f. ASSUME NEW n \in Int, n <= MaxAttempts, AgentFailed(t, n), UNCHANGED gh
      PROVE  \A u \in Tasks : RowOK(u)'
  <2>1. CASE IsRework(snap[t])
    <3>1. SentBack(row[t]) \in Row /\ Update(t, SentBack(row[t]))
      BY <1>f, <2>1, <1>t, SentBackType DEF AgentFailed, ReworkFailed
    <3>2. /\ SentBack(row[t]).status = "changes_requested"
          /\ SentBack(row[t]).attempt = row[t].attempt /\ SentBack(row[t]).pr = row[t].pr
      BY <1>t DEF SentBack, Row
    <3>3. Exists(t) => Fits(SentBack(row[t]), gh[t], t \in tracker)
      BY <1>r, <3>2 DEF Fits
    <3> QED
      BY <3>1, <3>3, <1>f, <1>w
  <2>2. CASE ~IsRework(snap[t])
    <3> DEFINE new == [row[t] EXCEPT !.status = "failed", !.attempt = n]
    <3>1. new \in Row /\ Update(t, new)
      BY <1>f, <2>2, <1>t DEF AgentFailed, Row, Status
    <3>2. new.attempt = n /\ new.status = "failed" /\ new.pr = row[t].pr /\ new.rework = row[t].rework
      BY <1>t DEF Row
    <3>3. Exists(t) => Fits(new, gh[t], t \in tracker)
      BY <1>r, <1>s, <3>2, <2>2, <1>f DEF Fits, IsRework
    <3> QED
      BY <3>1, <3>3, <1>f, <1>w
  <2> QED
    BY <2>1, <2>2
<1>8. CASE WindowGone(t)
  <2>1. snap[t].attempt - 1 \in Int /\ snap[t].attempt - 1 <= MaxAttempts
    BY <1>s, <1>p
  <2> QED
    BY <1>8, <2>1, <1>s, <1>f DEF WindowGone
<1>9. CASE WatchdogNudge(t)
  <2> DEFINE new == [row[t] EXCEPT !.nudged = TRUE]
  <2>1. new \in Row /\ (Exists(t) => Fits(new, gh[t], t \in tracker))
    BY <1>t, <1>r DEF Fits, Row
  <2> QED
    BY <1>9, <2>1, <1>w DEF WatchdogNudge
<1>10. CASE WatchdogFail(t)
  <2>1. CASE Exists(t)
    <3>1. row[t].attempt \in Int /\ row[t].attempt <= MaxAttempts
      BY <2>1, <1>r, <1>t DEF Fits, Row
    <3> QED
      BY <1>10, <3>1, <1>f DEF WatchdogFail
  <2>2. CASE ~Exists(t)
    <3>1. UNCHANGED gh /\ \E new : Update(t, new)
      BY <1>10 DEF WatchdogFail, AgentFailed, ReworkFailed
    <3>2. UNCHANGED row
      BY <3>1, <2>2, <1>t DEF Update
    <3> QED
      BY <3>1, <3>2, <1>h, <1>v, SameFits
  <2> QED
    BY <2>1, <2>2
<1>11. CASE LeaveAlone(t)
  BY <1>11, <1>h, <1>v, SameFits DEF LeaveAlone
<1> QED
  BY <1>1, <1>2, <1>3, <1>4, <1>5, <1>6, <1>7, <1>8, <1>9, <1>10, <1>11 DEF Reconcile

\* Reconciling a row keeps the history.
LEMMA ReconcileHistory ==
    ASSUME Typed, History, NEW t \in Tasks, Reconcile(t)
    PROVE  History'
<1>t. /\ row \in [Tasks -> Row] /\ gh \in [Tasks -> PrLive] /\ t \in todo /\ pc = "rows"
      /\ Typed /\ Rows /\ LoopOK
  BY DEF Typed, TypeOK, History, Reconcile, ReconcileMerged, ReconcileClosed, ApplyPush, PushFails,
         BeginHandIn, LeaveReview, LeaveWork, WindowGone, WatchdogNudge, WatchdogFail, LeaveAlone,
         VisitRow, Visit
<1>1. /\ Visit(t) /\ UNCHANGED <<gone, tracker>>
      /\ pc' = "rows" \/ (pc' = "handin" /\ cur' = t)
  BY <1>t DEF Reconcile, ReconcileMerged, ReconcileClosed, ApplyPush, PushFails, BeginHandIn,
         LeaveReview, LeaveWork, WindowGone, WatchdogNudge, WatchdogFail, LeaveAlone, VisitRow
<1>2. \A u \in Tasks \ {t} : row'[u] = row[u] /\ gh'[u] = gh[u]
  <2>1. UNCHANGED row \/ \E new : Update(t, new)
    BY DEF Reconcile, ReconcileMerged, ReconcileClosed, ApplyPush, PushFails, BeginHandIn,
           LeaveReview, LeaveWork, WindowGone, WatchdogNudge, WatchdogFail, LeaveAlone,
           Finish, Escalated, SetStatus, AgentFailed, ReworkFailed
  <2>2. UNCHANGED gh \/ \E x : gh' = [gh EXCEPT ![t] = x]
    BY DEF Reconcile, ReconcileMerged, ReconcileClosed, ApplyPush, PushFails, BeginHandIn,
           LeaveReview, LeaveWork, WindowGone, WatchdogNudge, WatchdogFail, LeaveAlone
  <2> QED
    BY <2>1, <2>2, <1>t DEF Update
<1>3. \A u \in Tasks : RowOK(u)' /\ SnapOK(u)'
  BY <1>1, <1>2, <1>t, ReconcileFits, VisitSnaps
<1>4. LoopOK'
  BY <1>1, <1>t DEF LoopOK, Visit
<1> QED
  BY <1>1, <1>3, <1>4 DEF History, Rows, ClaimOK, Claiming

-----------------------------------------------------------------------------
(* The rest of phase 1, and phases 1b to 1d.                               *)

\* A new loop reads its rows, and keeps nothing of an earlier one.
LEMMA NewLoop ==
    ASSUME Typed, History, \A u \in Tasks : RowOK(u)', snap' = row \/ snap' = row',
           pc' \notin {"rows", "handin"} \cup {"worktree", "launchClaim", "seedClaim"},
           UNCHANGED <<gone, tracker>>
    PROVE  History'
<1>1. \A u \in Tasks : snap'[u].attempt <= MaxAttempts
  BY DEF History, Rows, RowOK, Fits
<1>2. \A u \in Tasks : SnapOK(u)'
  BY <1>1 DEF SnapOK, Awaited
<1> QED
  BY <1>2 DEF History, Rows, LoopOK, ClaimOK, Claiming

\* A step in a loop that reconciles nothing and claims nothing.
LEMMA LoopHistory ==
    ASSUME Typed, History, \A u \in Tasks : RowOK(u)',
           \A u \in Tasks : snap'[u].attempt = snap[u].attempt \/ snap'[u] = NoRow,
           pc' \notin {"rows", "handin"} \cup {"worktree", "launchClaim", "seedClaim"},
           UNCHANGED gone \/ gone' = {}, tracker' \subseteq tracker
    PROVE  History'
<1>1. \A u \in Tasks : snap'[u].attempt <= MaxAttempts
  BY BudgetAssumption DEF History, Rows, SnapOK, NoRow
<1>2. \A u \in Tasks : SnapOK(u)'
  BY <1>1 DEF SnapOK, Awaited
<1> QED
  BY <1>2 DEF History, Rows, LoopOK, ClaimOK, Claiming

\* The tick starts: the states GitHub answers for are read, and every row that
\* will be visited is in the snapshot as it is.
LEMMA StartHistory == ASSUME Typed, History, StartTick PROVE History'
<1>t. row \in [Tasks -> Row] /\ gh \in [Tasks -> PrLive] /\ tracker \subseteq Tasks
  BY DEF Typed, TypeOK
<1>1. PICK readable \in SUBSET {t \in Tasks : row[t].pr \in {"unread", "open"}} :
        row' = [t \in Tasks |-> IF t \in readable THEN [row[t] EXCEPT !.pr = gh[t]] ELSE row[t]]
  BY DEF StartTick
<1>2. /\ snap' = row' /\ pc' = "rows" /\ UNCHANGED <<gh, tracker>> /\ gone' \cap tracker = {}
      /\ todo' = {t \in Tasks : row'[t].status \in Active \cup MergeWatched}
  BY <1>t DEF StartTick, world
<1>3. ASSUME NEW u \in Tasks PROVE RowOK(u)'
  <2>1. Fits(row[u], gh[u], u \in tracker) /\ row[u] \in Row
    BY <1>t DEF History, Rows, RowOK
  <2>2. CASE row'[u] = row[u]
    BY <2>1, <2>2, <1>2 DEF RowOK
  <2>3. CASE row'[u] = [row[u] EXCEPT !.pr = gh[u]] /\ row[u].pr \in {"unread", "open"}
    <3>1. Fits(row'[u], gh[u], u \in tracker)
      BY <2>1, <2>3 DEF Fits, Row
    <3> QED
      BY <3>1, <1>2 DEF RowOK
  <2> QED
    BY <1>1, <2>2, <2>3
<1>4. ASSUME NEW u \in Tasks PROVE SnapOK(u)'
  <2>1. Fits(row'[u], gh'[u], u \in tracker') /\ snap'[u] = row'[u]
    BY <1>2, <1>3 DEF RowOK
  <2>2. u \in todo' => row'[u].status # "done"
    BY <1>2 DEF Active, MergeWatched, Review
  <2> QED
    BY <2>1, <2>2 DEF SnapOK, Awaited, Fits
<1> QED
  BY <1>2, <1>3, <1>4 DEF History, Rows, LoopOK, ClaimOK, Claiming

\* The hand-in writes the live PR state, or the one it had.
LEMMA HandInHistory == ASSUME Typed, History, CompleteHandIn PROVE History'
<1>t. /\ row \in [Tasks -> Row] /\ gh \in [Tasks -> PrLive] /\ cur \in Tasks /\ row[cur] \in Row
      /\ pc = "handin" /\ cur \notin todo /\ Rows /\ Typed /\ gone \cap tracker = {}
  BY DEF Typed, TypeOK, CurOK, Holding, CompleteHandIn, History, LoopOK
<1>1. PICK answered \in BOOLEAN :
        Update(cur, [row[cur] EXCEPT !.status = "awaiting_review",
                                     !.pr = LiveOrCached(cur, answered)])
  BY DEF CompleteHandIn
<1> DEFINE p == LiveOrCached(cur, answered)
           new == [row[cur] EXCEPT !.status = "awaiting_review", !.pr = p]
<1>2. p \in PrCached /\ (p \in {"merged", "closed"} => gh[cur] = p \/ p = row[cur].pr)
  BY <1>t DEF LiveOrCached, PrLive, PrCached, Row
<1>3. new \in Row
  BY <1>t, <1>2 DEF Row, Status, Review
<1>4. Exists(cur) => Fits(new, gh[cur], cur \in tracker)
  <2>1. Fits(row[cur], gh[cur], cur \in tracker)
    BY <1>t DEF Rows, RowOK
  <2> QED
    BY <2>1, <1>2, <1>t DEF Fits, Row
<1>5. UNCHANGED <<gh, tracker, todo, snap, gone>> /\ pc' = "rows"
  BY DEF CompleteHandIn
<1>6. \A u \in Tasks : RowOK(u)'
  BY <1>1, <1>3, <1>4, <1>5, <1>t, UpdateFits
<1>7. ASSUME NEW u \in Tasks PROVE SnapOK(u)'
  <2>1. u # cur => row'[u] = row[u]
    BY <1>1, <1>t DEF Update
  <2> QED
    BY <1>5, <1>t, <2>1 DEF SnapOK, Awaited, Rows
<1> QED
  BY <1>5, <1>6, <1>7, <1>t DEF History, Rows, LoopOK, ClaimOK, Claiming

\* The row loop ends and the windows of the runs that are over are killed.
LEMMA ReapHistory == ASSUME Typed, History, EndRows \/ Reap PROVE History'
<1>1. UNCHANGED <<row, gh, tracker, gone>>
  BY DEF EndRows, Reap, world
<1>2. \A u \in Tasks : RowOK(u)'
  BY <1>1, SameFits DEF History
<1>3. CASE EndRows
  BY <1>2, <1>3, LoopHistory DEF EndRows, world
<1>4. CASE Reap
  BY <1>1, <1>2, <1>4, NewLoop DEF Reap
<1> QED
  BY <1>3, <1>4

\* An edit of a row that keeps its attempt, its PR and its being a rework, and
\* neither fails it nor says it is done.
Plain(t, new) ==
    /\ new.rework = row[t].rework /\ new.attempt = row[t].attempt /\ new.pr = row[t].pr
    /\ new.status = row[t].status \/ new.status \notin {"none", "failed", "done"}

LEMMA PlainFits ==
    ASSUME Rows, NEW t \in Tasks, NEW new, Plain(t, new)
    PROVE  Fits(new, gh[t], t \in tracker)
  BY DEF Rows, RowOK, Fits, Plain

\* Such a write, or none, while GitHub settles PRs and the tracker drops tasks.
LEMMA PlainWrite ==
    ASSUME Typed, Rows, NEW t \in Tasks, NEW new \in Row, Update(t, new),
           Plain(t, new), gh' \in [Tasks -> PrLive], \A u \in Tasks : gh'[u] = gh[u] \/ gh[u] = "open",
           row[t].pr \in {"merged", "closed"} => gh'[t] = gh[t], tracker' \subseteq tracker
    PROVE  \A u \in Tasks : RowOK(u)'
<1> SUFFICES ASSUME NEW u \in Tasks PROVE RowOK(u)'
  OBVIOUS
<1>1. RowOK(u) /\ row \in [Tasks -> Row] /\ Fits(new, gh[t], t \in tracker)
  BY PlainFits DEF Typed, TypeOK, Rows
<1>2. row'[u] = row[u] \/ (u = t /\ row'[u] = new)
  BY <1>1 DEF Update
<1>3. Fits(row'[u], gh[u], u \in tracker)
  BY <1>1, <1>2 DEF RowOK
<1> QED
  BY <1>3 DEF RowOK, Fits

\* Red checks and conflicts on the runs under review.
LEMMA ReviewFits ==
    ASSUME Typed, History,
           (\E t \in Tasks : CheckReview(t)) \/ SendBack \/ SendRefused
    PROVE  \A u \in Tasks : RowOK(u)'
<1>t. row \in [Tasks -> Row] /\ gh \in [Tasks -> PrLive] /\ Rows
  BY DEF Typed, TypeOK, History
<1>g. UNCHANGED <<gh, tracker>>
  BY DEF CheckReview, RedCI, RedAtSetup, BaseConflict, BaseMerged, BaseInfra, EscalateReview,
         ReviewQuiet, VisitReview, SendBack, SendRefused, EndSend, world
<1>w. ASSUME NEW t \in Tasks, NEW new \in Row, Update(t, new), Plain(t, new)
      PROVE  \A u \in Tasks : RowOK(u)'
  BY <1>w, <1>t, <1>g, PlainWrite
<1>b. \A n \in Nat : Bump(n) \in Nat
  BY BumpType
<1>1. ASSUME NEW t \in Tasks, CheckReview(t) PROVE \A u \in Tasks : RowOK(u)'
  <2>t. row[t] \in Row
    BY <1>t
  <2>1. CASE RedCI(t)
    <3> DEFINE new == [row[t] EXCEPT !.tried = @ \cup {"ci"}, !.infra = Bump(@)]
    <3>1. new \in Row /\ Plain(t, new)
      BY <2>t, <1>b DEF Row, Plain
    <3> QED
      BY <3>1, <2>1, <1>w DEF RedCI
  <2>2. CASE RedAtSetup(t)
    <3> DEFINE new == [row[t] EXCEPT !.tried = @ \cup {"ci"}]
    <3>1. new \in Row /\ Plain(t, new)
      BY <2>t DEF Row, Plain
    <3> QED
      BY <3>1, <2>2, <1>w DEF RedAtSetup
  <2>3. CASE BaseConflict(t)
    <3> DEFINE n == IF row[t].conflicts < FreeConflicts THEN row[t].conflicts + 1 ELSE row[t].conflicts
    <3>1. n \in Nat
      BY <2>t, BudgetAssumption DEF Row
    <3>2. Update(t, [row[t] EXCEPT !.tried = @ \cup {"conflict"}, !.conflicts = n])
      BY <2>3, <2>t DEF BaseConflict, Row
    <3> HIDE DEF n
    <3> DEFINE new == [row[t] EXCEPT !.tried = @ \cup {"conflict"}, !.conflicts = n]
    <3>3. new \in Row /\ Plain(t, new)
      BY <2>t, <3>1 DEF Row, Plain
    <3> QED
      BY <3>2, <3>3, <1>w
  <2>4. CASE BaseMerged(t)
    <3>1. PICK burnt \in {{}, row[t].tried \cup {"conflict"}} :
            Update(t, [row[t] EXCEPT !.tried = burnt])
      BY <2>4 DEF BaseMerged
    <3> DEFINE new == [row[t] EXCEPT !.tried = burnt]
    <3>2. new \in Row /\ Plain(t, new)
      BY <2>t DEF Row, Plain
    <3> QED
      BY <3>1, <3>2, <1>w
  <2>5. CASE BaseInfra(t)
    <3> DEFINE new == [row[t] EXCEPT !.tried = @ \cup {"conflict"}, !.infra = Bump(@)]
    <3>1. new \in Row /\ Plain(t, new)
      BY <2>t, <1>b DEF Row, Plain
    <3> QED
      BY <3>1, <2>5, <1>w DEF BaseInfra
  <2>6. CASE EscalateReview(t)
    <3> DEFINE new == [row[t] EXCEPT !.status = "needs_human"]
    <3>1. new \in Row /\ Plain(t, new)
      BY <2>t DEF Row, Plain, Status, Review
    <3> QED
      BY <3>1, <2>6, <1>w DEF EscalateReview, Escalated, SetStatus
  <2>7. CASE ReviewQuiet(t)
    BY <2>7, <1>t, <1>g, SameFits DEF ReviewQuiet
  <2> QED
    BY <1>1, <2>1, <2>2, <2>3, <2>4, <2>5, <2>6, <2>7 DEF CheckReview
<1>2. ASSUME SendBack \/ SendRefused PROVE \A u \in Tasks : RowOK(u)'
  <2>t. cur \in Tasks /\ row[cur] \in Row
    BY <1>2, <1>t DEF Typed, CurOK, Holding, SendBack, SendRefused, Sending
  <2>1. CASE SendBack
    <3> DEFINE new == [row[cur] EXCEPT !.status = "changes_requested", !.cause = SendCause]
    <3>1. new \in Row /\ Plain(cur, new)
      BY <2>t DEF Row, Plain, Status, Review, SendCause, Causes
    <3> QED
      BY <3>1, <2>t, <2>1, <1>w DEF SendBack, RequestChanges
  <2>2. CASE SendRefused
    <3> DEFINE back(n) == IF n > 0 THEN n - 1 ELSE n
               i == back(row[cur].infra)
               c == back(row[cur].conflicts)
               X == row[cur].tried \ {"conflict"}
    <3>1. i \in Nat /\ c \in Nat /\ X \subseteq {"ci", "conflict"}
      BY <2>t DEF Row
    <3>2. \/ Update(cur, [row[cur] EXCEPT !.infra = i])
          \/ Update(cur, [row[cur] EXCEPT !.conflicts = c, !.tried = X])
          \/ Update(cur, [row[cur] EXCEPT !.tried = X])
      BY <2>2 DEF SendRefused, Sending
    <3> HIDE DEF i, c, X
    <3>3. /\ [row[cur] EXCEPT !.infra = i] \in Row /\ Plain(cur, [row[cur] EXCEPT !.infra = i])
          /\ [row[cur] EXCEPT !.conflicts = c, !.tried = X] \in Row
          /\ Plain(cur, [row[cur] EXCEPT !.conflicts = c, !.tried = X])
          /\ [row[cur] EXCEPT !.tried = X] \in Row /\ Plain(cur, [row[cur] EXCEPT !.tried = X])
      BY <2>t, <3>1 DEF Row, Plain
    <3> QED
      BY <3>2, <3>3, <2>t, <1>w
  <2> QED
    BY <1>2, <2>1, <2>2
<1> QED
  BY <1>1, <1>2

LEMMA ReviewHistory ==
    ASSUME Typed, History,
           (\E t \in Tasks : CheckReview(t)) \/ SendBack \/ SendRefused \/ EndReview
    PROVE  History'
<1>1. CASE EndReview
  <2>1. UNCHANGED <<row, gh, tracker>>
    BY <1>1 DEF EndReview, world
  <2>2. \A u \in Tasks : RowOK(u)'
    BY <2>1, SameFits DEF History
  <2> QED
    BY <1>1, <2>1, <2>2, NewLoop DEF EndReview
<1>2. CASE (\E t \in Tasks : CheckReview(t)) \/ SendBack \/ SendRefused
  <2>1. \A u \in Tasks : RowOK(u)'
    BY <1>2, ReviewFits
  <2>2. /\ UNCHANGED <<gone, tracker>>
        /\ pc' \in {"review", "sendInfra", "sendConflict", "sendReview"}
        /\ UNCHANGED snap \/ \E t \in Tasks : snap' = [snap EXCEPT ![t] = NoRow]
    BY <1>2 DEF CheckReview, RedCI, RedAtSetup, Conflicting, BaseConflict, BaseMerged, BaseInfra,
                EscalateReview, ReviewQuiet, VisitReview, Visit, SendBack, SendRefused, EndSend,
                world, local
  <2>3. \A u \in Tasks : snap'[u].attempt = snap[u].attempt \/ snap'[u] = NoRow
    BY <2>2 DEF Typed, TypeOK
  <2> QED
    BY <2>1, <2>2, <2>3, LoopHistory
<1> QED
  BY <1>1, <1>2

\* Step 1d keeps the history.
LEMMA CapsHistory ==
    ASSUME Typed, History, (\E t \in Tasks : CheckCaps(t)) \/ CapMark \/ EndCaps \/ Held
                             \/ CountSlots \/ SelectReworks \/ EndClaims \/ Crash
    PROVE  History'
<1>t. /\ row \in [Tasks -> Row] /\ gh \in [Tasks -> PrLive] /\ Rows
      /\ snap \in [Tasks -> Row]
  BY DEF Typed, TypeOK, History
\* The steps that write nothing.
<1>1. ASSUME EndCaps \/ Held \/ CountSlots \/ EndClaims \/ Crash PROVE History'
  <2>1. /\ UNCHANGED <<row, gh, tracker>> /\ (UNCHANGED gone \/ gone' = {})
        /\ pc' \in {"idle", "count", "judge"}
        /\ UNCHANGED snap \/ snap' = [t \in Tasks |-> NoRow]
    BY <1>1 DEF EndCaps, Held, CountSlots, EndClaims, Crash, EndTick, world
  <2>2. \A u \in Tasks : RowOK(u)'
    BY <2>1, <1>t, SameFits
  <2> QED
    BY <2>1, <2>2, LoopHistory
<1>2. ASSUME SelectReworks PROVE History'
  <2>1. UNCHANGED <<row, gh, tracker>>
    BY <1>2 DEF SelectReworks, world
  <2>2. \A u \in Tasks : RowOK(u)'
    BY <2>1, <1>t, SameFits
  <2> QED
    BY <1>2, <2>1, <2>2, NewLoop DEF SelectReworks
<1>3. ASSUME NEW t \in Tasks, CheckCaps(t) PROVE History'
  <2>t. row[t] \in Row
    BY <1>t
  <2>2. \A u \in Tasks : RowOK(u)'
    <3>1. CASE CapEscalate(t)
      <4> DEFINE new == [row[t] EXCEPT !.status = "needs_human"]
      <4>1. new \in Row /\ Plain(t, new)
        BY <2>t DEF Row, Plain, Status, Review
      <4>2. Update(t, new) /\ UNCHANGED <<gh, tracker>>
        BY <3>1 DEF CapEscalate, Escalated, SetStatus, world
      <4> QED
        BY <4>1, <4>2, <1>t, PlainWrite
    <3>2. CASE CapRequeue(t) /\ CloseAllowed(row[t], TRUE)
      <4> DEFINE new == [row[t] EXCEPT !.status = "closed", !.requeue = TRUE]
      <4>1. new \in Row /\ Plain(t, new)
        BY <2>t DEF Row, Plain, Status
      <4>2. Update(t, new) /\ tracker' = tracker /\ ClosePr(t, TRUE)
        BY <3>2 DEF CapRequeue, CloseRow
      <4>3. /\ gh' \in [Tasks -> PrLive] /\ \A u \in Tasks : gh'[u] = gh[u] \/ gh[u] = "open"
            /\ row[t].pr \in {"merged", "closed"} => gh'[t] = gh[t]
        BY <4>2, <1>t DEF ClosePr, PrLive
      <4> QED
        BY <4>1, <4>2, <4>3, <1>t, PlainWrite
    <3>3. CASE UNCHANGED <<row, gh, tracker>>
      BY <3>3, <1>t, SameFits
    <3> QED
      BY <1>3, <3>1, <3>2, <3>3 DEF CheckCaps, CapRequeue, HasBudget, world
  <2>3. /\ snap' = [snap EXCEPT ![t] = NoRow] /\ pc' \in {"caps", "capMark"}
        /\ UNCHANGED <<gone, tracker>>
    BY <1>3 DEF CheckCaps, CapEscalate, CapRequeue, HasBudget, VisitCaps, Visit, world
  <2> QED
    BY <2>2, <2>3, <1>t, LoopHistory
<1>4. ASSUME CapMark PROVE History'
  <2> DEFINE new == [row[cur] EXCEPT !.capReq = TRUE]
  <2>1. cur \in Tasks /\ row[cur] \in Row
    BY <1>4, <1>t DEF Typed, CurOK, Holding, CapMark
  <2>2. new \in Row /\ Plain(cur, new)
    BY <2>1 DEF Row, Plain
  <2>3. /\ Update(cur, new) /\ UNCHANGED <<gh, tracker, snap, gone>> /\ pc' = "caps"
    BY <1>4 DEF CapMark, world
  <2>4. \A u \in Tasks : RowOK(u)'
    BY <2>1, <2>2, <2>3, <1>t, PlainWrite
  <2> QED
    BY <2>3, <2>4, LoopHistory
<1> QED
  BY <1>1, <1>2, <1>3, <1>4

-----------------------------------------------------------------------------
(* Everybody else.                                                         *)

\* Nobody but the tick does more to a row than edit its status and budgets, or
\* drop it; GitHub settles open PRs.
LEMMA OutsideWrites ==
    ASSUME Typed, History, NEW t \in Tasks, Agent(t) \/ Elsewhere(t) \/ Operator(t) \/ TmuxRestarts
    PROVE  /\ \/ UNCHANGED row \/ Update(t, NoRow)
              \/ \E new \in Row : Update(t, new) /\ Plain(t, new)
           /\ gh' \in [Tasks -> PrLive] /\ \A u \in Tasks : gh'[u] = gh[u] \/ gh[u] = "open"
           /\ row[t].pr \in {"merged", "closed"} => gh'[t] = gh[t]
           /\ tracker' \subseteq tracker /\ UNCHANGED local
<1>t. /\ row \in [Tasks -> Row] /\ gh \in [Tasks -> PrLive] /\ row[t] \in Row
      /\ row[t].pr \in {"merged", "closed"} => gh[t] = row[t].pr
  BY DEF Typed, TypeOK, History, Rows, RowOK, Fits
<1>c. /\ UNCHANGED local
      /\ UNCHANGED tracker \/ LeaveTracker(t)
      /\ UNCHANGED gh \/ SettlePr(t) \/ \E asked \in BOOLEAN : ClosePr(t, asked)
  BY DEF Agent, Elsewhere, Operator, TmuxRestarts, Outside, RequestPush, RequestTaskFinished,
         DisputeRework, AgentIdles, WindowDies, SettlePr, LeaveTracker, Block, CloseRun,
         Reopen, Retry, DeleteRun, world
<1>1. tracker' \subseteq tracker /\ UNCHANGED local
  BY <1>c DEF LeaveTracker
<1>2. /\ gh' \in [Tasks -> PrLive] /\ \A u \in Tasks : gh'[u] = gh[u] \/ gh[u] = "open"
      /\ row[t].pr \in {"merged", "closed"} => gh'[t] = gh[t]
  <2>1. CASE UNCHANGED gh
    BY <2>1, <1>t
  <2>2. CASE gh[t] = "open" /\ \E s \in {"merged", "closed"} : gh' = [gh EXCEPT ![t] = s]
    BY <2>2, <1>t DEF PrLive
  <2> QED
    BY <1>c, <2>1, <2>2 DEF SettlePr, ClosePr
<1>3. UNCHANGED row \/ Update(t, NoRow) \/ \E new \in Row : Update(t, new) /\ Plain(t, new)
  <2>1. CASE DisputeRework(t)
    <3>1. /\ [row[t] EXCEPT !.status = "needs_human"] \in Row
          /\ Plain(t, [row[t] EXCEPT !.status = "needs_human"])
          /\ [row[t] EXCEPT !.status = "awaiting_review", !.tried = {}] \in Row
          /\ Plain(t, [row[t] EXCEPT !.status = "awaiting_review", !.tried = {}])
      BY <1>t DEF Row, Plain, Status, Review
    <3> QED
      BY <3>1, <2>1 DEF DisputeRework, SetStatus
  <2>2. CASE Block(t)
    <3>1. /\ [row[t] EXCEPT !.status = "changes_requested", !.cause = "review"] \in Row
          /\ Plain(t, [row[t] EXCEPT !.status = "changes_requested", !.cause = "review"])
      BY <1>t DEF Row, Plain, Status, Review, Causes
    <3> QED
      BY <3>1, <2>2 DEF Block, RequestChanges
  <2>3. ASSUME NEW force \in BOOLEAN, NEW requeue \in BOOLEAN, CloseRun(t, force, requeue)
        PROVE  \E new \in Row : Update(t, new) /\ Plain(t, new)
    <3>1. /\ [row[t] EXCEPT !.status = "closed", !.requeue = requeue] \in Row
          /\ Plain(t, [row[t] EXCEPT !.status = "closed", !.requeue = requeue])
      BY <1>t DEF Row, Plain, Status
    <3> QED
      BY <3>1, <2>3 DEF CloseRun, CloseRow
  <2>4. CASE Reopen(t)
    <3>1. PICK burnt \in {{}, row[t].tried} :
            Update(t, [row[t] EXCEPT !.status = "awaiting_review", !.tried = burnt])
      BY <2>4 DEF Reopen
    <3>2. /\ [row[t] EXCEPT !.status = "awaiting_review", !.tried = burnt] \in Row
          /\ Plain(t, [row[t] EXCEPT !.status = "awaiting_review", !.tried = burnt])
      BY <1>t DEF Row, Plain, Status, Review
    <3> QED
      BY <3>1, <3>2
  <2>5. CASE Retry(t)
    <3> DEFINE n == row[t].retries + 1
               c == IF row[t].cause = "conflict" THEN "review" ELSE row[t].cause
               new == [row[t] EXCEPT !.status = "changes_requested", !.retries = n, !.cause = c]
    <3>1. n \in Nat /\ c \in Causes
      BY <1>t DEF Row, Causes
    <3>2. Update(t, new)
      BY <2>5, <1>t DEF Retry, Row
    <3> HIDE DEF n, c
    <3>3. new \in Row /\ Plain(t, new)
      BY <3>1, <1>t DEF Row, Plain, Status, Review
    <3> QED
      BY <3>2, <3>3
  <2>6. CASE DeleteRun(t)
    BY <2>6 DEF DeleteRun
  <2>7. \/ UNCHANGED row \/ DisputeRework(t) \/ Block(t) \/ Reopen(t) \/ Retry(t) \/ DeleteRun(t)
        \/ \E force, requeue \in BOOLEAN : CloseRun(t, force, requeue)
    BY DEF Agent, Elsewhere, Operator, TmuxRestarts, RequestPush, RequestTaskFinished,
           AgentIdles, WindowDies, SettlePr, LeaveTracker, world
  <2> QED
    BY <2>1, <2>2, <2>3, <2>4, <2>5, <2>6, <2>7
<1> QED
  BY <1>1, <1>2, <1>3

\* So the snapshot keeps what it has in common with the row.
LEMMA OutsideHistory ==
    ASSUME Typed, History, NEW t \in Tasks, Agent(t) \/ Elsewhere(t) \/ Operator(t) \/ TmuxRestarts
    PROVE  History'
<1>t. row \in [Tasks -> Row] /\ Rows /\ NoRow \in Row
  BY NoRowType DEF Typed, TypeOK, History
<1>w. /\ gh' \in [Tasks -> PrLive] /\ \A u \in Tasks : gh'[u] = gh[u] \/ gh[u] = "open"
      /\ row[t].pr \in {"merged", "closed"} => gh'[t] = gh[t]
      /\ tracker' \subseteq tracker /\ UNCHANGED local
  BY OutsideWrites
<1>1. ASSUME NEW u \in Tasks
      PROVE  \/ row'[u] = row[u] \/ row'[u] = NoRow
             \/ row'[u] \in Row /\ Plain(u, row'[u])
  <2>1. CASE UNCHANGED row
    BY <2>1
  <2>2. ASSUME NEW new, Update(t, new) PROVE row'[u] = row[u] \/ (u = t /\ row'[u] = new)
    BY <2>2, <1>t DEF Update
  <2> QED
    BY <2>1, <2>2, OutsideWrites
<1>2. ASSUME NEW u \in Tasks PROVE RowOK(u)' /\ SnapOK(u)' /\ (row'[u].rework => row[u].rework)
  <2>1. Fits(row[u], gh[u], u \in tracker) /\ SnapOK(u)
    BY <1>t DEF Rows, RowOK
  <2>2. NoRow.rework = FALSE /\ NoRow.status = "none" /\ NoRow.pr = "none" /\ NoRow.attempt = 0
    BY DEF NoRow
  <2>3. Fits(row'[u], gh[u], u \in tracker)
    BY <1>1, <1>t, <2>1, PlainFits, NoRowFits
  <2>4. RowOK(u)'
    BY <2>3, <1>w DEF RowOK, Fits
  <2>5. SnapOK(u)'
    BY <1>1, <1>w, <2>1, <2>2 DEF SnapOK, Awaited, Plain, local
  <2> QED
    BY <1>1, <2>2, <2>4, <2>5 DEF Plain
<1>3. ClaimOK'
  <2>1. Claiming => cur \in Tasks
    BY DEF Typed, CurOK, Holding, Claiming
  <2> QED
    BY <1>2, <1>w, <2>1 DEF History, ClaimOK, Claiming, Requeued, RunWillRelaunch, local
<1>4. LoopOK'
  BY <1>w DEF History, LoopOK, local
<1> QED
  BY <1>2, <1>3, <1>4 DEF History, Rows

-----------------------------------------------------------------------------
(* Dispatch.                                                               *)

\* A rework that died fits: it goes back to changes_requested.
LEMMA SentBackWrite ==
    ASSUME Typed, Rows, NEW t \in Tasks, ReworkFailed(t), UNCHANGED <<gh, tracker>>
    PROVE  \A u \in Tasks : RowOK(u)'
<1>t. row[t] \in Row /\ gh \in [Tasks -> PrLive] /\ Fits(row[t], gh[t], t \in tracker)
  BY DEF Typed, TypeOK, Rows, RowOK
<1>1. SentBack(row[t]) \in Row /\ Update(t, SentBack(row[t]))
  BY <1>t, SentBackType DEF ReworkFailed
<1>2. /\ SentBack(row[t]).status = "changes_requested"
      /\ SentBack(row[t]).attempt = row[t].attempt /\ SentBack(row[t]).pr = row[t].pr
  BY <1>t DEF SentBack, Row
<1>3. Fits(SentBack(row[t]), gh[t], t \in tracker)
  BY <1>t, <1>2 DEF Fits
<1> QED
  BY <1>1, <1>3, <1>t, UpdateFits

\* Re-spawning a rework keeps the history.
LEMMA ReworkHistory ==
    ASSUME Typed, History, (\E t \in Tasks : StartRework(t)) \/ EndReworks
    PROVE  History'
<1>t. /\ row \in [Tasks -> Row] /\ gh \in [Tasks -> PrLive] /\ Rows
      /\ snap \in [Tasks -> Row]
  BY DEF Typed, TypeOK, History
<1>1. CASE EndReworks
  <2>1. \A u \in Tasks : RowOK(u)'
    BY <1>1, <1>t, SameFits DEF EndReworks, world
  <2> QED
    BY <1>1, <2>1, LoopHistory DEF EndReworks, world
<1>2. ASSUME NEW t \in Tasks, StartRework(t) PROVE History'
  <2>t. /\ row[t] \in Row /\ snap[t] \in Row /\ UNCHANGED <<gh, tracker, gone>>
        /\ pc' \in {"rework", "launchRework"}
        /\ UNCHANGED snap \/ snap' = [snap EXCEPT ![t] = NoRow]
    BY <1>2, <1>t DEF StartRework, Respawn, RespawnEscalates, RespawnAborts, VisitRework, world
  <2>1. \A u \in Tasks : RowOK(u)'
    <3>1. CASE Respawn(t)
      <4> DEFINE n == IF snap[t].cause = "infra" THEN snap[t].review ELSE Bump(snap[t].review)
                 new == [row[t] EXCEPT !.status = "running", !.rework = TRUE, !.wid = FALSE,
                                       !.nudged = FALSE, !.review = n]
      <4>1. n \in Nat
        BY <2>t, BumpType DEF Row
      <4>2. Update(t, new)
        BY <3>1 DEF Respawn
      <4> HIDE DEF n
      <4>3. new \in Row
        BY <2>t, <4>1 DEF Row, Status, Active
      <4>4. new.status = "running" /\ new.attempt = row[t].attempt /\ new.pr = row[t].pr
        BY <2>t DEF Row
      <4>5. Fits(new, gh[t], t \in tracker)
        <5> HIDE DEF new
        <5>1. Fits(row[t], gh[t], t \in tracker)
          BY <1>t DEF Rows, RowOK
        <5> QED
          BY <4>4, <5>1 DEF Fits
      <4> QED
        BY <4>2, <4>3, <4>5, <2>t, <1>t, UpdateFits
    <3>2. CASE RespawnEscalates(t)
      <4> DEFINE new == [row[t] EXCEPT !.status = "needs_human"]
      <4>1. new \in Row /\ Plain(t, new)
        BY <2>t DEF Row, Plain, Status, Review
      <4>2. Update(t, new)
        BY <3>2 DEF RespawnEscalates, Escalated, SetStatus
      <4> QED
        BY <4>1, <4>2, <2>t, <1>t, PlainWrite
    <3>3. CASE RespawnAborts(t)
      BY <3>3, <2>t, <1>t, SentBackWrite DEF RespawnAborts
    <3> QED
      BY <1>2, <3>1, <3>2, <3>3 DEF StartRework
  <2> QED
    BY <2>1, <2>t, <1>t, LoopHistory
<1> QED
  BY <1>1, <1>2

\* A row is taken for a claim only if it is no rework, unless it will be cleared.
LEMMA TakeHistory ==
    ASSUME Typed, History, NEW t \in Tasks, StartClaim(t) PROVE History'
<1>t. row \in [Tasks -> Row] /\ snap \in [Tasks -> Row] /\ Rows /\ pc = "claim"
  BY DEF Typed, TypeOK, History, StartClaim, NotForClaim, ReadForClaim, VisitClaim
<1>1. UNCHANGED <<row, gh, tracker, gone>>
  BY DEF StartClaim, NotForClaim, ReadForClaim, VisitClaim, world
<1>2. \A u \in Tasks : RowOK(u)'
  BY <1>1, <1>t, SameFits
<1>3. CASE NotForClaim(t)
  BY <1>1, <1>2, <1>3, <1>t, LoopHistory DEF NotForClaim
<1>4. CASE ReadForClaim(t)
  <2>1. /\ RunWillRelaunch(row[t]) /\ snap' = [snap EXCEPT ![t] = row[t]]
        /\ pc' = "worktree" /\ cur' = t
    BY <1>4 DEF ReadForClaim
  <2>2. \A u \in Tasks : snap'[u].attempt <= MaxAttempts
    BY <2>1, <1>t DEF Rows, RowOK, SnapOK, Fits
  <2>3. \A u \in Tasks : SnapOK(u)'
    BY <2>1, <2>2 DEF SnapOK, Awaited
  <2>4. row[t].status # "closed" => ~row[t].rework
    <3>1. row[t].status # "closed" => row[t].status \in {"none", "failed"}
      BY <2>1, <1>t DEF RunWillRelaunch, NotClaimable, Row, Status
    <3> QED
      BY <3>1, <1>t DEF Rows, RowOK, Fits
  <2>5. snap'[t] = row[t] /\ row'[t] = row[t]
    BY <2>1, <1>1, <1>t
  <2>6. ClaimOK'
    BY <2>1, <2>4, <2>5 DEF ClaimOK, Requeued, RunWillRelaunch
  <2> QED
    BY <1>1, <1>2, <2>1, <2>3, <2>6 DEF History, Rows, LoopOK
<1> QED
  BY <1>3, <1>4 DEF StartClaim

\* What an upsert of a claim writes: a fresh attempt within its bound, that is
\* no rework, and without the PR it replaces.
LEMMA ClaimedFits ==
    ASSUME Typed, History, Claiming, NEW s \in {"claimed", "failed", "needs_human"}
    PROVE  LET new == Upserted(row[cur], s)
           IN  /\ new.status = s /\ ~new.rework
               /\ new.attempt <= MaxAttempts
               /\ IF Requeued THEN new.pr = "none" ELSE new.pr = row[cur].pr
<1>t. cur \in Tasks /\ row[cur] \in Row /\ snap[cur] \in Row /\ row \in [Tasks -> Row]
  BY DEF Typed, TypeOK, CurOK, Holding, Claiming
<1>1. NextAttempt <= MaxAttempts
  <2>1. RunWillRelaunch(snap[cur])
    BY DEF History, ClaimOK
  <2>2. CASE snap[cur].status = "none" \/ Requeued
    BY <2>2, BudgetAssumption DEF NextAttempt
  <2>3. CASE ~(snap[cur].status = "none" \/ Requeued)
    <3>1. snap[cur].status = "failed"
      BY <2>1, <2>3, <1>t DEF RunWillRelaunch, NotClaimable, Requeued, Row, Status
    <3>2. snap[cur].attempt < MaxAttempts /\ snap[cur].attempt \in Int
      BY <2>1, <3>1, <1>t DEF RunWillRelaunch, Row
    <3> QED
      BY <2>3, <3>2, BudgetAssumption DEF NextAttempt
  <2> QED
    BY <2>2, <2>3
<1> DEFINE new == [row[cur] EXCEPT !.status = s, !.attempt = NextAttempt]
<1>2. /\ new.status = s /\ new.attempt = NextAttempt
      /\ new.rework = row[cur].rework /\ new.pr = row[cur].pr
  BY <1>t DEF Row
<1>3. CASE Requeued
  BY <1>1, <1>2, <1>3 DEF Upserted, Cleared, NoRow
<1>4. CASE ~Requeued
  <2>1. ~row[cur].rework
    BY <1>4 DEF History, ClaimOK
  <2> QED
    BY <1>1, <1>2, <1>4, <2>1 DEF Upserted
<1> QED
  BY <1>3, <1>4

\* A claim's upsert, on the branch it has or a new one, leaves rows that fit.
LEMMA UpsertWrite ==
    ASSUME Typed, History, Claiming,
           NEW s \in {"claimed", "failed", "needs_human"}, NEW new,
           new.status = s, new.rework = Upserted(row[cur], s).rework,
           new.attempt = Upserted(row[cur], s).attempt, new.pr = Upserted(row[cur], s).pr,
           Upsert(cur, new), UNCHANGED gh \/ NewBranch, tracker' = tracker
    PROVE  (\A u \in Tasks : RowOK(u)') /\ ~row'[cur].rework
<1>t. /\ cur \in Tasks /\ row \in [Tasks -> Row] /\ gh \in [Tasks -> PrLive]
      /\ \A u \in Tasks : Fits(row[u], gh[u], u \in tracker)
  BY DEF Typed, TypeOK, CurOK, Holding, Claiming, History, Rows, RowOK
<1>1. /\ ~new.rework /\ new.attempt <= MaxAttempts
      /\ IF Requeued THEN new.pr = "none" ELSE new.pr = row[cur].pr
  BY ClaimedFits
<1>2. row' = [row EXCEPT ![cur] = new]
  BY DEF Upsert
<1>3. /\ \A u \in Tasks \ {cur} : gh'[u] = gh[u]
      /\ ~Requeued => gh'[cur] = gh[cur]
  BY <1>t DEF NewBranch
<1>4. ASSUME NEW u \in Tasks PROVE RowOK(u)'
  <2>1. CASE u # cur
    BY <2>1, <1>2, <1>3, <1>t DEF RowOK
  <2>2. CASE u = cur
    <3>1. row'[u] = new
      BY <2>2, <1>2, <1>t
    <3>2. Fits(new, gh'[cur], cur \in tracker')
      BY <1>1, <1>3, <1>t DEF Fits
    <3> QED
      BY <2>2, <3>1, <3>2 DEF RowOK
  <2> QED
    BY <2>1, <2>2
<1> QED
  BY <1>1, <1>2, <1>4, <1>t

\* Launching keeps the history.
LEMMA LaunchHistory == ASSUME Typed, History, Launch PROVE History'
<1>t. /\ row \in [Tasks -> Row] /\ gh \in [Tasks -> PrLive] /\ snap \in [Tasks -> Row]
      /\ cur \in Tasks /\ row[cur] \in Row /\ Rows
  BY DEF Typed, TypeOK, CurOK, Holding, History, Launch, Claim, ClaimFails, OpenWindow, Seed,
         LaunchFails, Launching, Seeding
<1>g. UNCHANGED <<tracker, gone>>
  BY DEF Launch, Claim, ClaimFails, OpenWindow, Seed, LaunchFails, EndLaunch
\* While the claim is under way its snapshot stays.
<1>c. ASSUME UNCHANGED <<snap, cur>>, pc' \notin {"rows", "handin"}, \A u \in Tasks : RowOK(u)',
             pc' \in {"launchClaim", "seedClaim"} =>
               Claiming /\ (~Requeued => ~row'[cur].rework)
      PROVE  History'
  <2>1. \A u \in Tasks : SnapOK(u)'
    BY <1>c DEF SnapOK, Awaited, Rows, History
  <2>2. pc' # "worktree"
    BY DEF Launch, Claim, ClaimFails, OpenWindow, Seed, LaunchFails, EndLaunch
  <2>3. ClaimOK'
    BY <1>c, <2>2 DEF ClaimOK, Claiming, Requeued, RunWillRelaunch, History
  <2> QED
    BY <1>c, <1>g, <2>1, <2>3 DEF History, Rows, LoopOK
<1>e. ASSUME EndLaunch, \A u \in Tasks : RowOK(u)' PROVE History'
  <2>1. pc' \in {"rework", "claim"} /\ snap' = [snap EXCEPT ![cur] = NoRow]
    BY <1>e DEF EndLaunch
  <2> QED
    BY <2>1, <1>e, <1>g, <1>t, LoopHistory
<1>1. CASE Claim
  <2> DEFINE up == Upserted(row[cur], "claimed")
             new == [up EXCEPT !.wid = FALSE, !.nudged = FALSE]
  <2>1. up \in Row /\ up.status = "claimed"
    BY <1>t, UpsertedType DEF Typed, Status, Active
  <2>2. new.status = "claimed" /\ new.rework = up.rework /\ new.attempt = up.attempt /\ new.pr = up.pr
    <3> HIDE DEF up
    <3> QED
      BY <2>1 DEF Row
  <2>3. Upsert(cur, new) /\ NewBranch /\ UNCHANGED <<snap, cur>> /\ pc' = "launchClaim" /\ Claiming
    BY <1>1 DEF Claim, Claiming
  <2> HIDE DEF new
  <2>4. (\A u \in Tasks : RowOK(u)') /\ ~row'[cur].rework
    BY <2>2, <2>3, <1>g, UpsertWrite
  <2> QED
    BY <2>3, <2>4, <1>c
<1>2. CASE ClaimFails
  <2>1. PICK s \in {"failed", "needs_human"} : Upsert(cur, Upserted(row[cur], s))
    BY <1>2 DEF ClaimFails
  <2>2. Upserted(row[cur], s).status = s
    BY <1>t, UpsertedType DEF Typed, Status, Review
  <2>3. NewBranch /\ EndLaunch /\ Claiming
    BY <1>2 DEF ClaimFails, Claiming
  <2>4. \A u \in Tasks : RowOK(u)'
    BY <2>1, <2>2, <2>3, <1>g, UpsertWrite
  <2> QED
    BY <2>3, <2>4, <1>e
<1>3. CASE OpenWindow
  <2> DEFINE new == [row[cur] EXCEPT !.wid = TRUE]
  <2>1. new \in Row /\ Plain(cur, new)
    BY <1>t DEF Row, Plain
  <2>2. Update(cur, new) /\ UNCHANGED <<gh, snap, cur>> /\ pc' \in {"seedRework", "seedClaim"}
    BY <1>3 DEF OpenWindow
  <2>3. \A u \in Tasks : RowOK(u)'
    BY <2>1, <2>2, <1>g, <1>t, PlainWrite
  <2>4. pc' = "seedClaim" => pc = "launchClaim"
    BY <1>3 DEF OpenWindow, ForRework, Launching
  <2>5. row'[cur] = row[cur] \/ row'[cur] = new
    BY <2>2, <1>t DEF Update
  <2>6. row'[cur].rework => row[cur].rework
    BY <2>1, <2>5 DEF Plain
  <2>7. pc' \in {"launchClaim", "seedClaim"} => Claiming /\ (~Requeued => ~row'[cur].rework)
    BY <2>2, <2>4, <2>6 DEF Claiming, History, ClaimOK
  <2> QED
    BY <2>2, <2>3, <2>7, <1>c
<1>4. CASE Seed
  <2> DEFINE new == [row[cur] EXCEPT !.status = "running"]
  <2>1. new \in Row /\ Plain(cur, new)
    BY <1>t DEF Row, Plain, Status, Active
  <2>2. (UNCHANGED row \/ Update(cur, new)) /\ UNCHANGED gh /\ EndLaunch
    BY <1>4 DEF Seed, SetStatus
  <2>3. CASE UNCHANGED row
    BY <2>2, <2>3, <1>g, <1>t, <1>e, SameFits
  <2>4. CASE Update(cur, new)
    BY <2>1, <2>2, <2>4, <1>g, <1>t, <1>e, PlainWrite
  <2> QED
    BY <2>2, <2>3, <2>4
<1>5. CASE LaunchFails
  <2>1. UNCHANGED gh /\ EndLaunch
    BY <1>5 DEF LaunchFails
  <2>2. CASE ForRework
    <3>1. ReworkFailed(cur)
      BY <1>5, <2>2 DEF LaunchFails
    <3> QED
      BY <3>1, <2>1, <1>g, <1>t, <1>e, SentBackWrite
  <2>3. CASE ~ForRework
    <3>1. Upsert(cur, Upserted(row[cur], "failed")) /\ Claiming
      BY <1>5, <2>3 DEF LaunchFails, ForRework, Launching, Seeding, Claiming
    <3>2. Upserted(row[cur], "failed").status = "failed"
      BY <1>t, UpsertedType DEF Typed, Status
    <3>3. \A u \in Tasks : RowOK(u)'
      BY <3>1, <3>2, <2>1, <1>g, UpsertWrite
    <3> QED
      BY <3>3, <2>1, <1>e
  <2> QED
    BY <2>2, <2>3
<1> QED
  BY <1>1, <1>2, <1>3, <1>4, <1>5 DEF Launch

-----------------------------------------------------------------------------
(* The theorems.                                                           *)

Inv == IInv /\ History

LEMMA HistoryInit == ASSUME Init PROVE Inv
<1>1. \A u \in Tasks : RowOK(u)
  BY NoRowFits DEF Init, RowOK
<1>2. \A u \in Tasks : SnapOK(u)
  BY BudgetAssumption DEF Init, SnapOK, Awaited, NoRow
<1> QED
  BY <1>1, <1>2, InitInv DEF Init, Inv, History, Rows, LoopOK, ClaimOK, Claiming

LEMMA HistoryNext == ASSUME Inv, [Next]_vars PROVE Inv'
<1>t. Typed /\ History /\ IInv
  BY DEF Inv, IInv, Typed
<1>1. ASSUME NEW t \in Tasks, Reconcile(t) PROVE History'
  BY <1>1, <1>t, ReconcileHistory
<1>2. ASSUME StartTick \/ CompleteHandIn \/ EndRows \/ Reap PROVE History'
  BY <1>2, <1>t, StartHistory, HandInHistory, ReapHistory
<1>3. ASSUME (\E t \in Tasks : CheckReview(t)) \/ SendBack \/ SendRefused \/ EndReview
      PROVE  History'
  BY <1>3, <1>t, ReviewHistory
<1>4. ASSUME (\E t \in Tasks : CheckCaps(t)) \/ CapMark \/ EndCaps \/ Held \/ CountSlots
               \/ SelectReworks \/ EndClaims \/ Crash
      PROVE  History'
  BY <1>4, <1>t, CapsHistory
<1>5. ASSUME (\E t \in Tasks : StartRework(t)) \/ EndReworks PROVE History'
  BY <1>5, <1>t, ReworkHistory
<1>6. ASSUME NEW t \in Tasks, StartClaim(t) PROVE History'
  BY <1>6, <1>t, TakeHistory
<1>7. ASSUME Launch PROVE History'
  BY <1>7, <1>t, LaunchHistory
<1>8. ASSUME NEW t \in Tasks, Agent(t) \/ Elsewhere(t) \/ Operator(t) \/ TmuxRestarts
      PROVE  History'
  BY <1>8, <1>t, OutsideHistory
<1>9. ASSUME TmuxRestarts PROVE History'
  BY <1>8, <1>9 DEF TmuxRestarts
<1>10. ASSUME UNCHANGED vars PROVE History'
  BY <1>10, <1>t DEF vars, local, world, History, Rows, RowOK, SnapOK, Awaited, LoopOK, ClaimOK,
     Claiming, Requeued, RunWillRelaunch
<1>11. History'
  BY <1>1, <1>2, <1>3, <1>4, <1>5, <1>6, <1>7, <1>8, <1>9, <1>10 DEF Next, Tick
<1> QED
  BY <1>11, <1>t, NextInv DEF Inv

LEMMA Invariance == Spec => []Inv
<1>1. Init => Inv
  BY HistoryInit
<1>2. Inv /\ [Next]_vars => Inv'
  BY HistoryNext
<1> QED
  BY <1>1, <1>2, PTL DEF Spec

\* No interleaving puts a rework into `failed`, from which it would be dispatched
\* afresh without its verdict and its budgets (_rework_failed).
THEOREM ReworksNeverFail == Spec => []ReworkNeverFails
<1>1. Inv => ReworkNeverFails
  BY DEF Inv, History, Rows, RowOK, Fits, ReworkNeverFails
<1> QED
  BY <1>1, Invariance, PTL

\* A task is dispatched afresh at most MAX_ATTEMPTS times in a row, though the
\* attempt is written from a snapshot and refunded by a tmux restart.
THEOREM AttemptsBounded == Spec => []AttemptBound
<1>1. Inv => AttemptBound
  BY DEF Inv, History, Rows, RowOK, Fits, AttemptBound
<1> QED
  BY <1>1, Invariance, PTL

\* A settled PR state in a row is that of the attempt's own PR, requeues, stale
\* writes and unanswered reads included.
THEOREM CachedPrsTrue == Spec => []CachedPrIsTrue
<1>1. Inv => CachedPrIsTrue
  BY DEF Inv, History, Rows, RowOK, Fits, CachedPrIsTrue
<1> QED
  BY <1>1, Invariance, PTL

\* A run is marked done only for work that shipped, or that left the tracker
\* without a PR.
THEOREM DoneIsShipped == Spec => []DoneMeansShipped
<1>1. Inv => DoneMeansShipped
  BY DEF Inv, History, Rows, RowOK, Fits, DoneMeansShipped
<1> QED
  BY <1>1, Invariance, PTL

=============================================================================
