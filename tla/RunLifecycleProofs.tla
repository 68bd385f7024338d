------------------------- MODULE RunLifecycleProofs -------------------------
(***************************************************************************)
(* Theorems about RunLifecycle, for any tasks and any budgets: the types,  *)
(* and that the runs never take more slots than there are.                 *)
(*                                                                         *)
(* The inductive invariant is TypeOK, CurOK (the tick holds a row whenever *)
(* its next step is about one) and SlotsReserved. Only the dispatch steps  *)
(* disturb SlotsReserved; of all the others it is enough that they make no *)
(* row active (Shrinks).                                                   *)
(***************************************************************************)
EXTENDS RunLifecycle, FiniteSetTheorems, TLAPS

\* The tick holds a row exactly while it hands in, charges, marks or launches it.
Holding == {"handin", "sendInfra", "sendConflict", "sendReview", "capMark",
            "worktree", "launchRework", "launchClaim", "seedRework", "seedClaim"}

CurOK == pc \in Holding => cur \in Tasks

\* What every step but a launch does to the table.
Shrinks == row' \in [Tasks -> Row] /\ ActiveRuns' \subseteq ActiveRuns

-----------------------------------------------------------------------------
(* The shapes of an edited row.                                            *)

\* A counter that saturates still counts.
LEMMA BumpType == ASSUME NEW n \in Nat PROVE Bump(n) \in Nat
  BY BudgetAssumption DEF Bump

\* The row that is not there is a row.
LEMMA NoRowType == NoRow \in Row
  BY DEF NoRow, Row, Status, Active, Review, PrCached, Causes

\* The states in which a run holds no slot.
LEMMA RestingStatuses ==
    {"awaiting_review", "needs_human", "changes_requested", "done", "closed", "failed"}
        \subseteq Status \ Active
  BY DEF Status, Review, Active

\* A run sent back to its rework loop has a well-typed row, and holds no slot.
LEMMA SentBackType ==
    ASSUME NEW r \in Row
    PROVE  SentBack(r) \in Row /\ SentBack(r).status = "changes_requested"
<1>1. Bump(r.infra) \in Nat
  BY BumpType DEF Row
<1>2. (IF r.status = "running" THEN "infra" ELSE r.cause) \in Causes
  BY DEF Row, Causes
<1>3. "changes_requested" \in Status
  BY DEF Status, Review
<1>4. \A i \in Nat, c \in Causes, s \in Status :
        [r EXCEPT !.status = s, !.rework = TRUE, !.wid = FALSE, !.infra = i, !.cause = c] \in Row
  BY DEF Row
<1>5. SentBack(r) \in Row
  BY <1>1, <1>2, <1>3, <1>4 DEF SentBack
<1>6. SentBack(r).status = "changes_requested"
  BY DEF SentBack, Row
<1> QED
  BY <1>5, <1>6

\* An update that makes no row active.
LEMMA UpdateShrinks ==
    ASSUME row \in [Tasks -> Row], NEW t \in Tasks, NEW new \in Row, Update(t, new),
           new.status \notin Active \/ new.status = row[t].status
    PROVE  Shrinks
<1>1. row' \in [Tasks -> Row]
  BY DEF Update
<1>2. ASSUME NEW u \in Tasks, row'[u].status \in Active PROVE row[u].status \in Active
  BY <1>2 DEF Update
<1> QED
  BY <1>1, <1>2 DEF Shrinks, ActiveRuns, WithStatus

\* A table that is left alone.
LEMMA SameShrinks == ASSUME row \in [Tasks -> Row], UNCHANGED row PROVE Shrinks
  BY DEF Shrinks, ActiveRuns, WithStatus

\* A new status is all that a run changes.
LEMMA SetStatusShrinks ==
    ASSUME row \in [Tasks -> Row], NEW t \in Tasks, NEW s \in Status \ Active, SetStatus(t, s)
    PROVE  Shrinks
<1> DEFINE new == [row[t] EXCEPT !.status = s]
<1>1. new \in Row /\ new.status \notin Active
  BY DEF Row
<1> QED
  BY <1>1, UpdateShrinks DEF SetStatus

\* A run that failed, first dispatch or rework.
LEMMA AgentFailedShrinks ==
    ASSUME row \in [Tasks -> Row], NEW t \in Tasks, NEW n \in Int, AgentFailed(t, n)
    PROVE  Shrinks
<1>0. row[t] \in Row
  OBVIOUS
<1>1. CASE IsRework(snap[t])
  BY <1>0, <1>1, SentBackType, UpdateShrinks DEF AgentFailed, ReworkFailed, Active
<1>2. CASE ~IsRework(snap[t])
  <2> DEFINE new == [row[t] EXCEPT !.status = "failed", !.attempt = n]
  <2>1. new \in Row /\ new.status \notin Active
    <3>1. row[t] \in Row
      BY <1>0
    <3>2. "failed" \in Status \ Active
      BY RestingStatuses
    <3>3. new \in Row /\ new.status = "failed"
      BY <3>1, <3>2 DEF Row
    <3> QED
      BY <3>2, <3>3
  <2> QED
    BY <1>2, <2>1, UpdateShrinks DEF AgentFailed
<1> QED
  BY <1>1, <1>2

-----------------------------------------------------------------------------
(* Phase 1: reconciling one row.                                           *)

\* Reconciling a row makes none active.
LEMMA ReconcileShrinks ==
    ASSUME TypeOK, NEW t \in Tasks, Reconcile(t) PROVE Shrinks
<1>a. row[t] \in Row /\ snap[t] \in Row /\ row \in [Tasks -> Row] /\ gh[t] \in PrLive
  BY DEF TypeOK
<1>b. \A p \in PrCached, b \in BOOLEAN :
        /\ [row[t] EXCEPT !.pr = p] \in Row
        /\ [row[t] EXCEPT !.pr = p].status = row[t].status
        /\ [row[t] EXCEPT !.nudged = b] \in Row
        /\ [row[t] EXCEPT !.nudged = b].status = row[t].status
        /\ [row[t] EXCEPT !.pr = p, !.tried = {}] \in Row
        /\ [row[t] EXCEPT !.pr = p, !.tried = {}].status = row[t].status
  BY <1>a DEF Row
<1>c. \A s \in Status :
        /\ [row[t] EXCEPT !.status = s] \in Row
        /\ [row[t] EXCEPT !.status = s].status = s
  BY <1>a DEF Row
<1>f. \A s \in Status, p \in PrCached :
        /\ [row[t] EXCEPT !.status = s, !.pr = p] \in Row
        /\ [row[t] EXCEPT !.status = s, !.pr = p].status = s
  BY <1>a DEF Row
<1>d. {"done", "closed"} \subseteq Status \ Active
  BY DEF Status, Active
<1>e. row[t].pr \in PrCached /\ {"merged", "unread"} \subseteq PrCached /\ PrLive \subseteq PrCached
  BY <1>a DEF Row, PrCached, PrLive
<1>1. CASE ReconcileMerged(t)
  <2> DEFINE new == [row[t] EXCEPT !.status = "done"]
  <2>1. new \in Row /\ new.status \notin Active
    BY <1>c, <1>d
  <2>2. Update(t, new)
    BY <1>1 DEF ReconcileMerged, Finish
  <2> QED
    BY <1>a, <2>1, <2>2, UpdateShrinks
<1>2. CASE ReconcileClosed(t)
  <2> DEFINE new == [row[t] EXCEPT !.status = "closed"]
  <2>1. new \in Row /\ new.status \notin Active
    BY <1>c, <1>d
  <2>2. Update(t, new)
    BY <1>2 DEF ReconcileClosed, Finish
  <2> QED
    BY <1>a, <2>1, <2>2, UpdateShrinks
<1>3. CASE ApplyPush(t)
  <2>1. PICK p \in PrCached : Update(t, [row[t] EXCEPT !.pr = p, !.tried = {}])
    BY <1>3, <1>a, <1>e DEF ApplyPush
  <2> QED
    BY <1>a, <1>b, <2>1, UpdateShrinks
<1>4. CASE PushFails(t)
  <2>1. Escalated(t) \/ UNCHANGED row
    BY <1>4 DEF PushFails
  <2>2. "needs_human" \in Status \ Active
    BY DEF Status, Review, Active
  <2> QED
    BY <1>a, <2>1, <2>2, SetStatusShrinks, SameShrinks DEF Escalated
<1>5. CASE BeginHandIn(t)
  BY <1>a, <1>5, SameShrinks DEF BeginHandIn
<1>6. CASE LeaveReview(t)
  <2>1. PICK answered \in BOOLEAN :
          LET pr == LiveOrCached(t, answered)
          IN  \/ Update(t, [row[t] EXCEPT !.status = "done", !.pr = pr])
              \/ Update(t, [row[t] EXCEPT !.pr = pr])
    BY <1>6 DEF LeaveReview, Finish
  <2>2. LiveOrCached(t, answered) \in PrCached
    BY <1>a, <1>e DEF LiveOrCached
  <2> DEFINE pr == LiveOrCached(t, answered)
             done == [row[t] EXCEPT !.status = "done", !.pr = pr]
             kept == [row[t] EXCEPT !.pr = pr]
  <2>3. done \in Row /\ done.status \notin Active
    BY <1>f, <1>d, <2>2
  <2>4. kept \in Row /\ kept.status = row[t].status
    BY <1>b, <2>2
  <2>5. Update(t, done) \/ Update(t, kept)
    BY <2>1
  <2> HIDE DEF pr, done, kept
  <2> QED
    BY <1>a, <2>3, <2>4, <2>5, UpdateShrinks
<1>7. CASE LeaveWork(t)
  <2> DEFINE new == [row[t] EXCEPT !.status = "done", !.pr = "merged"]
  <2>1. new \in Row /\ new.status \notin Active
    BY <1>f, <1>d, <1>e
  <2>2. Update(t, new)
    BY <1>7 DEF LeaveWork, Finish
  <2> QED
    BY <1>a, <2>1, <2>2, UpdateShrinks
<1>8. CASE WindowGone(t)
  <2>1. snap[t].attempt \in Int /\ snap[t].attempt - 1 \in Int
    BY <1>a DEF Row
  <2> QED
    BY <1>a, <1>8, <2>1, AgentFailedShrinks DEF WindowGone
<1>9. CASE WatchdogNudge(t)
  BY <1>a, <1>b, <1>e, <1>9, UpdateShrinks DEF WatchdogNudge
<1>10. CASE WatchdogFail(t)
  <2>1. row[t].attempt \in Int
    BY <1>a DEF Row
  <2> QED
    BY <1>a, <1>10, <2>1, AgentFailedShrinks DEF WatchdogFail
<1>11. CASE LeaveAlone(t)
  BY <1>a, <1>11, SameShrinks DEF LeaveAlone
<1> QED
  BY <1>1, <1>2, <1>3, <1>4, <1>5, <1>6, <1>7, <1>8, <1>9, <1>10, <1>11 DEF Reconcile

\* Reconciling a row keeps every variable in its type, and the tick outside dispatch.
LEMMA ReconcileType ==
    ASSUME TypeOK, CurOK, NEW t \in Tasks, Reconcile(t)
    PROVE  TypeOK' /\ CurOK' /\ pc' \in {"rows", "handin"}
<1>1. row' \in [Tasks -> Row]
  BY ReconcileShrinks DEF Shrinks
<1>2. /\ pc = "rows" /\ snap' \in [Tasks -> Row] /\ todo' \subseteq Tasks
      /\ tracker' \subseteq Tasks /\ active' \in Nat /\ listed' \subseteq Tasks
      /\ gone' \subseteq Tasks /\ ops' \in 0..MaxOps
  BY NoRowType DEF Reconcile, ReconcileMerged, ReconcileClosed, ApplyPush, PushFails, BeginHandIn,
     LeaveReview, LeaveWork, WindowGone, WatchdogNudge, WatchdogFail, LeaveAlone,
     VisitRow, Visit, TypeOK
<1>3. gh' \in [Tasks -> PrLive]
  BY DEF Reconcile, ReconcileMerged, ReconcileClosed, ApplyPush, PushFails, BeginHandIn,
     LeaveReview, LeaveWork, WindowGone, WatchdogNudge, WatchdogFail, LeaveAlone, PrLive, TypeOK
<1>4. window' \in [Tasks -> Windows] /\ fin' \in [Tasks -> Markers]
  BY DEF Reconcile, ReconcileMerged, ReconcileClosed, ApplyPush, PushFails, BeginHandIn, Finish,
     LeaveReview, LeaveWork, WindowGone, WatchdogNudge, WatchdogFail, LeaveAlone,
     Windows, Markers, TypeOK
<1>5. push' \in [Tasks -> 0..PushAttempts]
  <2>1. {0, 1} \subseteq 0..PushAttempts
    BY BudgetAssumption
  <2>2. CASE PushFails(t)
    <3>1. push[t] \in 0..PushAttempts
      BY DEF TypeOK
    <3>2. push[t] < PushAttempts => push[t] + 1 \in 0..PushAttempts
      BY <3>1, BudgetAssumption
    <3>3. PICK n \in 0..PushAttempts : push' = [push EXCEPT ![t] = n]
      BY <2>1, <2>2, <3>1, <3>2, BudgetAssumption DEF PushFails
    <3> QED
      BY <3>3 DEF TypeOK
  <2>3. CASE ~PushFails(t)
    <3>1. UNCHANGED push \/ push' = [push EXCEPT ![t] = 0]
      BY <2>3 DEF Reconcile, ReconcileMerged, ReconcileClosed, ApplyPush, BeginHandIn, Finish,
         LeaveReview, LeaveWork, WindowGone, WatchdogNudge, WatchdogFail, LeaveAlone
    <3> QED
      BY <2>1, <3>1 DEF TypeOK
  <2> QED
    BY <2>2, <2>3
<1>6. \/ pc' = "rows" /\ cur' = cur
      \/ pc' = "handin" /\ cur' = t
  <2>1. CASE BeginHandIn(t)
    <3>1. \/ pc' = "handin" /\ cur' = t
          \/ pc' = pc /\ cur' = cur
      BY <2>1 DEF BeginHandIn
    <3> QED
      BY <1>2, <3>1
  <2>2. CASE ~BeginHandIn(t)
    <3>1. pc' = pc /\ cur' = cur
      BY <2>2 DEF Reconcile, ReconcileMerged, ReconcileClosed, ApplyPush, PushFails,
         LeaveReview, LeaveWork, WindowGone, WatchdogNudge, WatchdogFail, LeaveAlone
    <3> QED
      BY <1>2, <3>1
  <2> QED
    BY <2>1, <2>2
<1>7. CurOK' /\ cur' \in Tasks \cup {NoTask}
  BY <1>6 DEF CurOK, Holding, TypeOK
<1> QED
  BY <1>1, <1>2, <1>3, <1>4, <1>5, <1>6, <1>7 DEF TypeOK

-----------------------------------------------------------------------------
(* The rest of phase 1: the handed-in row, the reaper, the review loop and *)
(* the caps.                                                               *)

\* Handing in, refreshing and reaping make no row active.
LEMMA RowsShrink ==
    ASSUME TypeOK, CurOK, StartTick \/ CompleteHandIn \/ EndRows \/ Reap PROVE Shrinks
<1>a. row \in [Tasks -> Row] /\ gh \in [Tasks -> PrLive] /\ PrLive \subseteq PrCached
  BY DEF TypeOK, PrLive, PrCached
<1>1. CASE StartTick
  <2>1. PICK readable \in SUBSET Tasks :
          row' = [t \in Tasks |-> IF t \in readable THEN [row[t] EXCEPT !.pr = gh[t]] ELSE row[t]]
    BY <1>1 DEF StartTick
  <2>2. \A t \in Tasks : /\ [row[t] EXCEPT !.pr = gh[t]] \in Row
                         /\ [row[t] EXCEPT !.pr = gh[t]].status = row[t].status
    BY <1>a DEF Row
  <2>3. row' \in [Tasks -> Row] /\ \A t \in Tasks : row'[t].status = row[t].status
    BY <1>a, <2>1, <2>2
  <2> QED
    BY <2>3 DEF Shrinks, ActiveRuns, WithStatus
<1>2. CASE CompleteHandIn
  <2>1. cur \in Tasks
    BY <1>2 DEF CompleteHandIn, CurOK, Holding
  <2>2. PICK p \in PrCached :
          Update(cur, [row[cur] EXCEPT !.status = "awaiting_review", !.pr = p])
    <3>1. row[cur].pr \in PrCached
      BY <1>a, <2>1 DEF Row
    <3>2. \A answered \in BOOLEAN : LiveOrCached(cur, answered) \in PrCached
      BY <1>a, <2>1, <3>1 DEF LiveOrCached
    <3> QED
      BY <1>2, <3>2 DEF CompleteHandIn
  <2> DEFINE new == [row[cur] EXCEPT !.status = "awaiting_review", !.pr = p]
  <2>3. new \in Row /\ new.status \notin Active
    <3>1. row[cur] \in Row
      BY <1>a, <2>1
    <3>2. "awaiting_review" \in Status \ Active
      BY RestingStatuses
    <3>3. new \in Row /\ new.status = "awaiting_review"
      BY <3>1, <3>2, <2>1 DEF Row
    <3> QED
      BY <3>2, <3>3
  <2> QED
    BY <1>a, <2>1, <2>2, <2>3, UpdateShrinks
<1>3. CASE EndRows \/ Reap
  BY <1>a, <1>3, SameShrinks DEF EndRows, Reap
<1> QED
  BY <1>1, <1>2, <1>3

\* They keep every variable in its type, and the tick outside dispatch.
LEMMA RowsType ==
    ASSUME TypeOK, CurOK, StartTick \/ CompleteHandIn \/ EndRows \/ Reap
    PROVE  TypeOK' /\ CurOK' /\ pc' \in {"rows", "reap", "review"}
<1>1. row' \in [Tasks -> Row]
  BY RowsShrink DEF Shrinks
<1>2. CASE StartTick
  <2>1. snap' \in [Tasks -> Row]
    BY <1>1, <1>2 DEF StartTick
  <2>2. listed' \subseteq Tasks /\ gone' \subseteq Tasks /\ todo' \subseteq Tasks /\ pc' = "rows"
    BY <1>2 DEF StartTick, TypeOK
  <2> QED
    BY <1>1, <1>2, <2>1, <2>2 DEF StartTick, world, TypeOK, CurOK, Holding
<1>3. CASE CompleteHandIn
  BY <1>1, <1>3 DEF CompleteHandIn, TypeOK, CurOK, Holding, Windows, Markers
<1>4. CASE EndRows
  BY <1>1, <1>4 DEF EndRows, world, TypeOK, CurOK, Holding
<1>5. CASE Reap
  <2>1. window' \in [Tasks -> Windows]
    BY <1>5 DEF Reap, TypeOK, Windows
  <2>2. snap' \in [Tasks -> Row] /\ todo' \subseteq Tasks /\ pc' = "review"
    BY <1>5 DEF Reap, TypeOK
  <2> QED
    BY <1>1, <1>5, <2>1, <2>2 DEF Reap, TypeOK, CurOK, Holding
<1> QED
  BY <1>2, <1>3, <1>4, <1>5

\* Charging a red or a conflict to a run, and sending it back, makes none active.
LEMMA ReviewShrinks ==
    ASSUME TypeOK, CurOK,
           \/ \E t \in Tasks : CheckReview(t)
           \/ SendBack \/ SendRefused \/ EndReview
    PROVE  Shrinks
<1>a. row \in [Tasks -> Row]
  BY DEF TypeOK
<1>1. ASSUME NEW t \in Tasks, RedCI(t) PROVE Shrinks
  <2> DEFINE new == [row[t] EXCEPT !.tried = @ \cup {"ci"}, !.infra = Bump(@)]
  <2>1. Bump(row[t].infra) \in Nat
    BY <1>a, BumpType DEF Row
  <2>2. new \in Row /\ new.status = row[t].status
    <3>1. row[t] \in Row
      BY <1>a
    <3> QED
      BY <3>1, <2>1 DEF Row
  <2> QED
    BY <1>a, <1>1, <2>2, UpdateShrinks DEF RedCI
<1>2. ASSUME NEW t \in Tasks, BaseConflict(t) PROVE Shrinks
  <2> DEFINE n == IF row[t].conflicts < FreeConflicts THEN row[t].conflicts + 1 ELSE row[t].conflicts
             new == [row[t] EXCEPT !.tried = @ \cup {"conflict"}, !.conflicts = n]
  <2>1. n \in Nat
    BY <1>a, BudgetAssumption DEF Row
  <2> HIDE DEF n
  <2>2. new \in Row /\ new.status = row[t].status
    <3>1. row[t] \in Row
      BY <1>a
    <3> QED
      BY <3>1, <2>1 DEF Row
  <2>3. Update(t, new)
    BY <1>2 DEF BaseConflict, n
  <2> QED
    BY <1>a, <2>2, <2>3, UpdateShrinks
<1>3. ASSUME NEW t \in Tasks, EscalateReview(t) PROVE Shrinks
  <2>1. "needs_human" \in Status \ Active
    BY DEF Status, Review, Active
  <2> QED
    BY <1>a, <1>3, <2>1, SetStatusShrinks DEF EscalateReview, Escalated
<1>4. ASSUME NEW t \in Tasks, ReviewQuiet(t) PROVE Shrinks
  BY <1>a, <1>4, SameShrinks DEF ReviewQuiet
<1>5. CASE SendBack
  <2>1. cur \in Tasks /\ SendCause \in Causes
    BY <1>5 DEF SendBack, Sending, SendCause, Causes, CurOK, Holding
  <2> DEFINE new == [row[cur] EXCEPT !.status = "changes_requested", !.cause = SendCause]
  <2>2. new \in Row /\ new.status \notin Active
    <3>1. row[cur] \in Row
      BY <1>a, <2>1
    <3>2. "changes_requested" \in Status \ Active
      BY RestingStatuses
    <3>3. new \in Row /\ new.status = "changes_requested"
      BY <3>1, <3>2, <2>1 DEF Row
    <3> QED
      BY <3>2, <3>3
  <2> QED
    BY <1>a, <1>5, <2>1, <2>2, UpdateShrinks DEF SendBack, RequestChanges
<1>6. CASE SendRefused
  <2>1. cur \in Tasks
    BY <1>6 DEF SendRefused, Sending, CurOK, Holding
  <2>2. PICK i \in Nat, c \in Nat, tried \in SUBSET {"ci", "conflict"} :
          \/ Update(cur, [row[cur] EXCEPT !.infra = i])
          \/ Update(cur, [row[cur] EXCEPT !.conflicts = c, !.tried = tried])
          \/ Update(cur, [row[cur] EXCEPT !.tried = tried])
    <3>1. /\ row[cur].infra \in Nat /\ row[cur].conflicts \in Nat
          /\ row[cur].tried \in SUBSET {"ci", "conflict"}
      BY <1>a, <2>1 DEF Row
    <3> DEFINE i == IF row[cur].infra > 0 THEN row[cur].infra - 1 ELSE row[cur].infra
               c == IF row[cur].conflicts > 0 THEN row[cur].conflicts - 1 ELSE row[cur].conflicts
               tried == row[cur].tried \ {"conflict"}
    <3>2. i \in Nat /\ c \in Nat /\ tried \in SUBSET {"ci", "conflict"}
      BY <3>1
    <3>3. \/ Update(cur, [row[cur] EXCEPT !.infra = i])
          \/ Update(cur, [row[cur] EXCEPT !.conflicts = c, !.tried = tried])
          \/ Update(cur, [row[cur] EXCEPT !.tried = tried])
      BY <1>6 DEF SendRefused, Sending
    <3> HIDE DEF i, c, tried
    <3> QED
      BY <3>2, <3>3
  <2>3. /\ [row[cur] EXCEPT !.infra = i] \in Row
        /\ [row[cur] EXCEPT !.infra = i].status = row[cur].status
        /\ [row[cur] EXCEPT !.conflicts = c, !.tried = tried] \in Row
        /\ [row[cur] EXCEPT !.conflicts = c, !.tried = tried].status = row[cur].status
        /\ [row[cur] EXCEPT !.tried = tried] \in Row
        /\ [row[cur] EXCEPT !.tried = tried].status = row[cur].status
    BY <1>a, <2>1 DEF Row
  <2> QED
    BY <1>a, <2>1, <2>2, <2>3, UpdateShrinks
<1>7. CASE EndReview
  BY <1>a, <1>7, SameShrinks DEF EndReview
<1>8. ASSUME NEW t \in Tasks, RedAtSetup(t) PROVE Shrinks
  <2> DEFINE new == [row[t] EXCEPT !.tried = @ \cup {"ci"}]
  <2>1. new \in Row /\ new.status = row[t].status
    <3>1. row[t] \in Row
      BY <1>a
    <3> QED
      BY <3>1 DEF Row
  <2> QED
    BY <1>a, <1>8, <2>1, UpdateShrinks DEF RedAtSetup
<1>9. ASSUME NEW t \in Tasks, BaseMerged(t) PROVE Shrinks
  <2>1. PICK burnt \in {{}, row[t].tried \cup {"conflict"}} :
          Update(t, [row[t] EXCEPT !.tried = burnt])
    BY <1>9 DEF BaseMerged
  <2>2. burnt \in SUBSET {"ci", "conflict"}
    BY <1>a, <2>1 DEF Row
  <2>3. /\ [row[t] EXCEPT !.tried = burnt] \in Row
        /\ [row[t] EXCEPT !.tried = burnt].status = row[t].status
    BY <1>a, <2>2 DEF Row
  <2> QED
    BY <1>a, <2>1, <2>3, UpdateShrinks
<1>10. ASSUME NEW t \in Tasks, BaseInfra(t) PROVE Shrinks
  <2> DEFINE new == [row[t] EXCEPT !.tried = @ \cup {"conflict"}, !.infra = Bump(@)]
  <2>1. Bump(row[t].infra) \in Nat
    BY <1>a, BumpType DEF Row
  <2>2. new \in Row /\ new.status = row[t].status
    <3>1. row[t] \in Row
      BY <1>a
    <3> QED
      BY <3>1, <2>1 DEF Row
  <2> QED
    BY <1>a, <1>10, <2>2, UpdateShrinks DEF BaseInfra
<1> QED
  BY <1>1, <1>2, <1>3, <1>4, <1>5, <1>6, <1>7, <1>8, <1>9, <1>10 DEF CheckReview

\* It keeps every variable in its type, and the tick outside dispatch.
LEMMA ReviewType ==
    ASSUME TypeOK, CurOK,
           \/ \E t \in Tasks : CheckReview(t)
           \/ SendBack \/ SendRefused \/ EndReview
    PROVE  TypeOK' /\ CurOK' /\ pc' \in {"review", "sendInfra", "sendConflict", "sendReview", "caps"}
<1>1. row' \in [Tasks -> Row]
  BY ReviewShrinks DEF Shrinks
<1>2. ASSUME NEW t \in Tasks, CheckReview(t) PROVE snap' \in [Tasks -> Row] /\ todo' \subseteq Tasks
  BY <1>2, NoRowType DEF CheckReview, RedCI, RedAtSetup, BaseConflict, BaseMerged, BaseInfra,
     EscalateReview, ReviewQuiet, VisitReview, Visit, TypeOK, local
<1>3. ASSUME NEW t \in Tasks, CheckReview(t)
      PROVE  /\ pc' \in {"review", "sendInfra", "sendConflict", "sendReview"}
             /\ cur' = t \/ (pc' = "review" /\ cur' = cur)
             /\ UNCHANGED <<world, active, listed, gone, ops>>
  <2>1. CASE RedAtSetup(t) \/ BaseInfra(t)
    <3>1. pc = "review" /\ UNCHANGED <<world, local, ops>>
      BY <2>1 DEF RedAtSetup, BaseInfra, Conflicting
    <3> QED
      BY <3>1 DEF local
  <2>2. CASE RedCI(t) \/ BaseConflict(t) \/ BaseMerged(t) \/ EscalateReview(t) \/ ReviewQuiet(t)
    <3>1. VisitReview(t)
      BY <2>2 DEF RedCI, BaseConflict, BaseMerged, EscalateReview, ReviewQuiet
    <3> QED
      BY <2>2, <3>1 DEF RedCI, BaseConflict, BaseMerged, EscalateReview, ReviewQuiet, VisitReview
  <2> QED
    BY <1>3, <2>1, <2>2 DEF CheckReview
<1>4. ASSUME NEW t \in Tasks, CheckReview(t) PROVE TypeOK' /\ CurOK'
  BY <1>1, <1>2, <1>3, <1>4 DEF TypeOK, CurOK, Holding, world
<1>5. CASE SendBack \/ SendRefused
  BY <1>1, <1>5 DEF SendBack, SendRefused, EndSend, TypeOK, CurOK, Holding, world
<1>6. CASE EndReview
  <2>1. snap' \in [Tasks -> Row] /\ todo' \subseteq Tasks /\ pc' = "caps"
    BY <1>6 DEF EndReview, TypeOK, WithStatus
  <2> QED
    BY <1>1, <1>6, <2>1 DEF EndReview, TypeOK, CurOK, Holding, world
<1>7. pc' \in {"review", "sendInfra", "sendConflict", "sendReview", "caps"}
  BY <1>3 DEF SendBack, SendRefused, EndSend, EndReview
<1> QED
  BY <1>4, <1>5, <1>6, <1>7

\* Escalating, closing and marking the runs that are out of rounds makes none active.
LEMMA CapsShrink ==
    ASSUME TypeOK, CurOK, (\E t \in Tasks : CheckCaps(t)) \/ CapMark \/ EndCaps PROVE Shrinks
<1>a. row \in [Tasks -> Row]
  BY DEF TypeOK
<1>1. ASSUME NEW t \in Tasks, CapEscalate(t) PROVE Shrinks
  <2>1. "needs_human" \in Status \ Active
    BY DEF Status, Review, Active
  <2> QED
    BY <1>a, <1>1, <2>1, SetStatusShrinks DEF CapEscalate, Escalated
<1>2. ASSUME NEW t \in Tasks, CapRequeue(t) PROVE Shrinks
  <2> DEFINE new == [row[t] EXCEPT !.status = "closed", !.requeue = TRUE]
  <2>1. new \in Row /\ new.status \notin Active
    <3>1. row[t] \in Row
      BY <1>a
    <3>2. "closed" \in Status \ Active
      BY RestingStatuses
    <3>3. new \in Row /\ new.status = "closed"
      BY <3>1, <3>2 DEF Row
    <3> QED
      BY <3>2, <3>3
  <2>2. Update(t, new) \/ UNCHANGED row
    BY <1>2 DEF CapRequeue, CloseRow
  <2> QED
    BY <1>a, <2>1, <2>2, UpdateShrinks, SameShrinks
<1>3. CASE CapMark
  <2> DEFINE new == [row[cur] EXCEPT !.capReq = TRUE]
  <2>1. cur \in Tasks
    BY <1>3 DEF CapMark, CurOK, Holding
  <2>2. new \in Row /\ new.status = row[cur].status
    <3>1. row[cur] \in Row
      BY <1>a, <2>1
    <3> QED
      BY <3>1 DEF Row
  <2> QED
    BY <1>a, <1>3, <2>1, <2>2, UpdateShrinks DEF CapMark
<1>4. ASSUME UNCHANGED row PROVE Shrinks
  BY <1>a, <1>4, SameShrinks
<1> QED
  BY <1>1, <1>2, <1>3, <1>4 DEF CheckCaps, HasBudget, EndCaps

\* It keeps every variable in its type, and the tick outside dispatch.
LEMMA CapsType ==
    ASSUME TypeOK, CurOK, (\E t \in Tasks : CheckCaps(t)) \/ CapMark \/ EndCaps
    PROVE  TypeOK' /\ CurOK' /\ pc' \in {"caps", "capMark", "count"}
<1>1. row' \in [Tasks -> Row]
  BY CapsShrink DEF Shrinks
<1>2. ASSUME NEW t \in Tasks, CheckCaps(t) PROVE TypeOK' /\ CurOK' /\ pc' \in {"caps", "capMark"}
  <2>1. snap' \in [Tasks -> Row] /\ todo' \subseteq Tasks /\ UNCHANGED <<tracker, push, fin, active, listed, gone, ops>>
    BY <1>2, NoRowType DEF CheckCaps, CapEscalate, CapRequeue, HasBudget, VisitCaps, Visit, world, TypeOK
  <2>2. gh' \in [Tasks -> PrLive] /\ window' \in [Tasks -> Windows]
    BY <1>2 DEF CheckCaps, CapEscalate, CapRequeue, HasBudget, ClosePr, KillWindow, world,
       PrLive, Windows, TypeOK
  <2>3. \/ pc' = "caps" /\ cur' = cur
        \/ pc' = "capMark" /\ cur' = t
    BY <1>2 DEF CheckCaps, CapEscalate, CapRequeue, HasBudget, VisitCaps
  <2> QED
    BY <1>1, <2>1, <2>2, <2>3 DEF TypeOK, CurOK, Holding
<1>3. CASE CapMark
  BY <1>1, <1>3 DEF CapMark, world, TypeOK, CurOK, Holding
<1>4. CASE EndCaps
  BY <1>1, <1>4 DEF EndCaps, world, TypeOK, CurOK, Holding
<1> QED
  BY <1>2, <1>3, <1>4 DEF CapMark, EndCaps

-----------------------------------------------------------------------------
(* Everybody else.                                                         *)

\* No agent, operator, reviewer or outage makes a row active.
LEMMA OutsideShrinks ==
    ASSUME TypeOK,
           TmuxRestarts \/ (\E t \in Tasks : Agent(t) \/ Elsewhere(t) \/ Operator(t))
    PROVE  Shrinks
<1>a. row \in [Tasks -> Row]
  BY DEF TypeOK
<1>b. ASSUME UNCHANGED row PROVE Shrinks
  BY <1>a, <1>b, SameShrinks
<1>1. ASSUME NEW t \in Tasks, DisputeRework(t) PROVE Shrinks
  <2> DEFINE new == [row[t] EXCEPT !.status = "awaiting_review", !.tried = {}]
  <2>1. new \in Row /\ new.status \notin Active
    <3>1. row[t] \in Row
      BY <1>a
    <3>2. "awaiting_review" \in Status \ Active
      BY RestingStatuses
    <3>3. new \in Row /\ new.status = "awaiting_review"
      BY <3>1, <3>2 DEF Row
    <3> QED
      BY <3>2, <3>3
  <2>2. "needs_human" \in Status \ Active
    BY DEF Status, Review, Active
  <2>3. SetStatus(t, "needs_human") \/ Update(t, new)
    BY <1>1 DEF DisputeRework
  <2> QED
    BY <1>a, <2>1, <2>2, <2>3, UpdateShrinks, SetStatusShrinks
<1>2. ASSUME NEW t \in Tasks, Block(t) PROVE Shrinks
  <2> DEFINE new == [row[t] EXCEPT !.status = "changes_requested", !.cause = "review"]
  <2>1. new \in Row /\ new.status \notin Active
    <3>1. row[t] \in Row
      BY <1>a
    <3>2. "changes_requested" \in Status \ Active
      BY RestingStatuses
    <3>3. new \in Row /\ new.status = "changes_requested"
      BY <3>1, <3>2 DEF Row, Causes
    <3> QED
      BY <3>2, <3>3
  <2> QED
    BY <1>a, <1>2, <2>1, UpdateShrinks DEF Block, RequestChanges
<1>3. ASSUME NEW t \in Tasks, NEW force \in BOOLEAN, NEW requeue \in BOOLEAN,
             CloseRun(t, force, requeue)
      PROVE  Shrinks
  <2> DEFINE new == [row[t] EXCEPT !.status = "closed", !.requeue = requeue]
  <2>1. new \in Row /\ new.status \notin Active
    <3>1. row[t] \in Row
      BY <1>a
    <3>2. "closed" \in Status \ Active
      BY RestingStatuses
    <3>3. new \in Row /\ new.status = "closed"
      BY <3>1, <3>2 DEF Row
    <3> QED
      BY <3>2, <3>3
  <2> QED
    BY <1>a, <1>3, <2>1, UpdateShrinks DEF CloseRun, CloseRow
<1>4. ASSUME NEW t \in Tasks, Reopen(t) PROVE Shrinks
  <2>1. PICK burnt \in {{}, row[t].tried} :
          Update(t, [row[t] EXCEPT !.status = "awaiting_review", !.tried = burnt])
    BY <1>4 DEF Reopen
  <2> DEFINE new == [row[t] EXCEPT !.status = "awaiting_review", !.tried = burnt]
  <2>2. burnt \in SUBSET {"ci", "conflict"}
    BY <1>a DEF Row
  <2>3. new \in Row /\ new.status \notin Active
    <3>1. row[t] \in Row
      BY <1>a, <2>2
    <3>2. "awaiting_review" \in Status \ Active
      BY RestingStatuses
    <3>3. new \in Row /\ new.status = "awaiting_review"
      BY <3>1, <3>2, <2>2 DEF Row
    <3> QED
      BY <3>2, <3>3
  <2> QED
    BY <1>a, <2>1, <2>3, UpdateShrinks
<1>5. ASSUME NEW t \in Tasks, Retry(t) PROVE Shrinks
  <2> DEFINE c == IF row[t].cause = "conflict" THEN "review" ELSE row[t].cause
             n == row[t].retries + 1
             new == [row[t] EXCEPT !.status = "changes_requested", !.retries = n, !.cause = c]
  <2>1. c \in Causes /\ n \in Nat
    BY <1>a DEF Row, Causes
  <2>2. Update(t, new)
    BY <1>5 DEF Retry
  <2> HIDE DEF c, n
  <2>3. new \in Row /\ new.status \notin Active
    <3>1. row[t] \in Row
      BY <1>a, <2>1
    <3>2. "changes_requested" \in Status \ Active
      BY RestingStatuses
    <3>3. new \in Row /\ new.status = "changes_requested"
      BY <3>1, <3>2, <2>1 DEF Row, Causes
    <3> QED
      BY <3>2, <3>3
  <2> QED
    BY <1>a, <2>2, <2>3, UpdateShrinks
<1>6. ASSUME NEW t \in Tasks, DeleteRun(t) PROVE Shrinks
  <2>1. NoRow \in Row /\ NoRow.status \notin Active
    BY NoRowType DEF NoRow, Active
  <2> QED
    BY <1>a, <1>6, <2>1, UpdateShrinks DEF DeleteRun
<1> QED
  BY <1>b, <1>1, <1>2, <1>3, <1>4, <1>5, <1>6
     DEF TmuxRestarts, Agent, Elsewhere, Operator, RequestPush, RequestTaskFinished, AgentIdles,
         WindowDies, SettlePr, LeaveTracker

\* They keep every variable in its type, and leave the tick where it is.
LEMMA OutsideType ==
    ASSUME TypeOK, CurOK,
           TmuxRestarts \/ (\E t \in Tasks : Agent(t) \/ Elsewhere(t) \/ Operator(t))
    PROVE  TypeOK' /\ CurOK' /\ UNCHANGED local
<1>1. row' \in [Tasks -> Row]
  BY OutsideShrinks DEF Shrinks
<1>2. UNCHANGED local /\ ops' \in 0..MaxOps
  <2>1. Outside
    BY DEF TmuxRestarts, Agent, Elsewhere, Operator, RequestPush, RequestTaskFinished, AgentIdles,
           WindowDies, SettlePr, LeaveTracker, DisputeRework, Block, CloseRun, Reopen, Retry,
           DeleteRun
  <2> QED
    BY <2>1, BudgetAssumption DEF Outside, TypeOK
<1>3. gh' \in [Tasks -> PrLive] /\ tracker' \subseteq Tasks
  BY DEF TmuxRestarts, Agent, Elsewhere, Operator, RequestPush, RequestTaskFinished, AgentIdles,
         WindowDies, SettlePr, LeaveTracker, DisputeRework, Block, CloseRun, Reopen, Retry,
         DeleteRun, ClosePr, world, PrLive, TypeOK
<1>4. window' \in [Tasks -> Windows] /\ fin' \in [Tasks -> Markers]
  <2>1. UNCHANGED fin \/ \E t \in Tasks, m \in Markers : fin' = [fin EXCEPT ![t] = m]
    BY DEF TmuxRestarts, Agent, Elsewhere, Operator, RequestPush, RequestTaskFinished, AgentIdles,
           WindowDies, SettlePr, LeaveTracker, DisputeRework, Block, CloseRun, Reopen, Retry,
           DeleteRun, world, Markers
  <2>2. \/ UNCHANGED window
        \/ \E t \in Tasks : KillWindow(t)
        \/ \E t \in Tasks, v \in Windows : window' = [window EXCEPT ![t] = v]
        \/ TmuxRestarts
    <3>1. ASSUME NEW t \in Tasks, Agent(t)
          PROVE  UNCHANGED window \/ \E v \in Windows : window' = [window EXCEPT ![t] = v]
      BY <3>1 DEF Agent, RequestPush, RequestTaskFinished, DisputeRework, AgentIdles, WindowDies,
                  Windows
    <3>2. ASSUME NEW t \in Tasks, Elsewhere(t) PROVE UNCHANGED window
      BY <3>2 DEF Elsewhere, SettlePr, LeaveTracker, Block, world
    <3>3. ASSUME NEW t \in Tasks, Operator(t) PROVE UNCHANGED window \/ KillWindow(t)
      BY <3>3 DEF Operator, CloseRun, Reopen, Retry, DeleteRun, world
    <3> QED
      BY <3>1, <3>2, <3>3
  <2>3. fin' \in [Tasks -> Markers]
    BY <2>1 DEF TypeOK
  <2>4. CASE TmuxRestarts
    BY <2>3, <2>4 DEF TmuxRestarts, Windows, TypeOK
  <2> QED
    BY <2>2, <2>3, <2>4 DEF KillWindow, Windows, TypeOK
<1>5. push' \in [Tasks -> 0..PushAttempts]
  <2>1. {0, 1} \subseteq 0..PushAttempts
    BY BudgetAssumption
  <2> QED
    BY <2>1
       DEF TmuxRestarts, Agent, Elsewhere, Operator, RequestPush, RequestTaskFinished, AgentIdles,
           WindowDies, SettlePr, LeaveTracker, DisputeRework, Block, CloseRun, Reopen, Retry,
           DeleteRun, world, TypeOK
<1> QED
  BY <1>1, <1>2, <1>3, <1>4, <1>5 DEF TypeOK, CurOK, local

-----------------------------------------------------------------------------
(* Dispatch: the steps that launch.                                        *)

Dispatching == {"judge", "rework", "claim", "worktree",
                "launchRework", "launchClaim", "seedRework", "seedClaim"}

\* A write touches one run, and frees its slot unless it makes it active.
LEMMA OneWrite ==
    ASSUME row \in [Tasks -> Row], NEW t \in Tasks, NEW new \in Row,
           Update(t, new) \/ Upsert(t, new)
    PROVE  /\ row' \in [Tasks -> Row]
           /\ ActiveRuns' \ {t} \subseteq ActiveRuns \ {t}
           /\ new.status \notin Active => ActiveRuns' \subseteq ActiveRuns \ {t}
<1>1. row' \in [Tasks -> Row]
  BY DEF Update, Upsert
<1>2. \A u \in Tasks \ {t} : row'[u] = row[u]
  BY DEF Update, Upsert
<1>3. ASSUME new.status \notin Active PROVE row'[t].status \notin Active
  BY <1>3 DEF Update, Upsert, Exists, Active
<1> QED
  BY <1>1, <1>2, <1>3 DEF ActiveRuns, WithStatus

\* A claim's row, cleared if it was requeued.
LEMMA UpsertedType ==
    ASSUME TypeOK, cur \in Tasks, NEW s \in Status
    PROVE  Upserted(row[cur], s) \in Row /\ Upserted(row[cur], s).status = s
<1>a. row[cur] \in Row /\ snap[cur] \in Row
  BY DEF TypeOK
<1>1. NextAttempt \in Int
  BY <1>a DEF NextAttempt, Row
<1> DEFINE new == [row[cur] EXCEPT !.status = s, !.attempt = NextAttempt]
<1>2. new \in Row /\ new.status = s
  BY <1>a, <1>1 DEF Row
<1> HIDE DEF new
<1>3. new.status \in Status /\ new.attempt \in Int /\ new.capReq \in BOOLEAN
  BY <1>2 DEF Row
<1>4. \A a \in Int, b \in BOOLEAN :
        /\ [NoRow EXCEPT !.status = s, !.attempt = a, !.capReq = b] \in Row
        /\ [NoRow EXCEPT !.status = s, !.attempt = a, !.capReq = b].status = s
  BY NoRowType DEF Row
<1>5. Cleared(new) \in Row /\ Cleared(new).status = s
  BY <1>2, <1>3, <1>4 DEF Cleared
<1>6. Upserted(row[cur], s) \in {new, Cleared(new)}
  BY DEF Upserted, new
<1> QED
  BY <1>2, <1>5, <1>6

\* The row a claim writes.
LEMMA ClaimedType ==
    ASSUME TypeOK, cur \in Tasks
    PROVE  [Upserted(row[cur], "claimed") EXCEPT !.wid = FALSE, !.nudged = FALSE] \in Row
<1>1. Upserted(row[cur], "claimed") \in Row
  BY UpsertedType DEF Status, Active
<1>2. \A r \in Row : [r EXCEPT !.wid = FALSE, !.nudged = FALSE] \in Row
  BY DEF Row
<1> QED
  BY <1>1, <1>2

\* The row a respawn writes.
LEMMA RespawnedType ==
    ASSUME TypeOK, NEW t \in Tasks, Respawn(t)
    PROVE  \E new \in Row : Update(t, new)
<1>a. row[t] \in Row /\ snap[t] \in Row
  BY DEF TypeOK
<1> DEFINE n == IF snap[t].cause = "infra" THEN snap[t].review ELSE Bump(snap[t].review)
           new == [row[t] EXCEPT !.status = "running", !.rework = TRUE, !.wid = FALSE,
                                 !.nudged = FALSE, !.review = n]
<1>1. n \in Nat
  BY <1>a, BumpType DEF Row
<1>2. Update(t, new)
  BY DEF Respawn
<1> HIDE DEF n
<1>3. new \in Row
  BY <1>a, <1>1 DEF Row, Status, Active
<1> QED
  BY <1>2, <1>3

\* What a dispatch step writes: at most one row.
LEMMA DispatchWrites ==
    ASSUME TypeOK, CurOK
    PROVE  /\ \A t \in Tasks : Respawn(t) => \E new \in Row : Update(t, new)
           /\ \A t \in Tasks : RespawnEscalates(t) \/ RespawnAborts(t) => Shrinks
           /\ Claim => \E new \in Row : Upsert(cur, new)
           /\ OpenWindow => Shrinks /\ ActiveRuns' \ {cur} \subseteq ActiveRuns \ {cur}
           /\ Seed => row' \in [Tasks -> Row] /\ ActiveRuns' \ {cur} \subseteq ActiveRuns \ {cur}
           /\ LaunchFails => row' \in [Tasks -> Row] /\ ActiveRuns' \subseteq ActiveRuns \ {cur}
           /\ ClaimFails => Shrinks
<1>a. row \in [Tasks -> Row]
  BY DEF TypeOK
<1>b. pc \in {"worktree", "launchRework", "launchClaim", "seedRework", "seedClaim"} => cur \in Tasks
  BY DEF CurOK, Holding
<1>1. ASSUME NEW t \in Tasks, RespawnEscalates(t) PROVE Shrinks
  <2>1. "needs_human" \in Status \ Active
    BY DEF Status, Review, Active
  <2> QED
    BY <1>a, <1>1, <2>1, SetStatusShrinks DEF RespawnEscalates, Escalated
<1>2. ASSUME NEW t \in Tasks, RespawnAborts(t) PROVE Shrinks
  <2>1. SentBack(row[t]) \in Row /\ SentBack(row[t]).status \notin Active
    BY <1>a, SentBackType DEF Active
  <2> QED
    BY <1>a, <1>2, <2>1, UpdateShrinks DEF RespawnAborts, ReworkFailed
<1>3. ASSUME Claim PROVE \E new \in Row : Upsert(cur, new)
  BY <1>3, <1>b, ClaimedType DEF Claim
<1>4. ASSUME OpenWindow PROVE Shrinks /\ ActiveRuns' \ {cur} \subseteq ActiveRuns \ {cur}
  <2> DEFINE new == [row[cur] EXCEPT !.wid = TRUE]
  <2>1. cur \in Tasks /\ Update(cur, new)
    BY <1>4, <1>b DEF OpenWindow, Launching
  <2>2. new \in Row /\ new.status = row[cur].status
    <3>1. row[cur] \in Row
      BY <1>a, <2>1
    <3> QED
      BY <3>1 DEF Row
  <2> QED
    BY <1>a, <2>1, <2>2, UpdateShrinks, OneWrite
<1>5. ASSUME Seed PROVE row' \in [Tasks -> Row] /\ ActiveRuns' \ {cur} \subseteq ActiveRuns \ {cur}
  <2> DEFINE new == [row[cur] EXCEPT !.status = "running"]
  <2>1. cur \in Tasks /\ (UNCHANGED row \/ Update(cur, new))
    BY <1>5, <1>b DEF Seed, Seeding, SetStatus
  <2>2. new \in Row
    BY <1>a, <2>1 DEF Row, Status, Active
  <2>3. CASE Update(cur, new)
    BY <1>a, <2>1, <2>2, <2>3, OneWrite
  <2>4. CASE UNCHANGED row
    BY <1>a, <2>4, SameShrinks DEF Shrinks
  <2> QED
    BY <2>1, <2>3, <2>4
<1>6. ASSUME LaunchFails PROVE row' \in [Tasks -> Row] /\ ActiveRuns' \subseteq ActiveRuns \ {cur}
  <2>1. cur \in Tasks
    BY <1>6, <1>b DEF LaunchFails, Launching, Seeding
  <2>2. SentBack(row[cur]) \in Row /\ SentBack(row[cur]).status \notin Active
    BY <1>a, <2>1, SentBackType DEF Active
  <2>3. /\ Upserted(row[cur], "failed") \in Row
        /\ Upserted(row[cur], "failed").status \notin Active
    BY <2>1, UpsertedType DEF Status, Active
  <2>4. \/ Update(cur, SentBack(row[cur]))
        \/ Upsert(cur, Upserted(row[cur], "failed"))
    BY <1>6 DEF LaunchFails, ReworkFailed
  <2> QED
    BY <1>a, <2>1, <2>2, <2>3, <2>4, OneWrite
<1>7. ASSUME ClaimFails PROVE Shrinks
  <2>1. cur \in Tasks
    BY <1>7, <1>b DEF ClaimFails
  <2>2. PICK s \in {"failed", "needs_human"} : Upsert(cur, Upserted(row[cur], s))
    BY <1>7 DEF ClaimFails
  <2>3. s \in Status /\ s \notin Active
    BY DEF Status, Review, Active
  <2>4. Upserted(row[cur], s) \in Row /\ Upserted(row[cur], s).status \notin Active
    BY <2>1, <2>3, UpsertedType
  <2> QED
    BY <1>a, <2>1, <2>2, <2>4, OneWrite DEF Shrinks
<1> QED
  BY <1>1, <1>2, <1>3, <1>4, <1>5, <1>6, <1>7, RespawnedType

\* The steps from the count to the end of the tick, and a tick cut short.
Dispatch ==
    \/ Held \/ CountSlots \/ SelectReworks
    \/ \E t \in Tasks : StartRework(t)
    \/ EndReworks
    \/ \E t \in Tasks : StartClaim(t)
    \/ Launch \/ EndClaims \/ Crash

\* Dispatch keeps the table, and the tick's own variables, in their types.
LEMMA DispatchType ==
    ASSUME TypeOK, CurOK, Dispatch PROVE TypeOK' /\ CurOK'
<1>a. row \in [Tasks -> Row] /\ active \in Nat /\ BudgetAssumption /\ IsFiniteSet(Tasks)
  BY BudgetAssumption, TasksAssumption DEF TypeOK
<1>1. ASSUME EndTick, UNCHANGED <<row, world>>, ops' \in 0..MaxOps PROVE TypeOK' /\ CurOK'
  BY <1>1, NoRowType DEF EndTick, world, TypeOK, CurOK, Holding
<1>2. CASE Held \/ EndClaims
  BY <1>1, <1>2 DEF Held, EndClaims, TypeOK
<1>3. CASE Crash
  <2>1. ops' \in 0..MaxOps
    BY <1>3, BudgetAssumption DEF Crash, TypeOK
  <2> QED
    BY <1>1, <1>3, <2>1 DEF Crash
<1>4. CASE CountSlots
  <2>1. Cardinality(ActiveRuns) \in Nat
    BY <1>a, FS_Subset, FS_CardinalityType DEF ActiveRuns, WithStatus
  <2> QED
    BY <1>4, <2>1 DEF CountSlots, world, TypeOK, CurOK, Holding
<1>5. CASE SelectReworks \/ EndReworks
  BY <1>5, NoRowType DEF SelectReworks, EndReworks, WithStatus, world, TypeOK, CurOK, Holding
<1>6. ASSUME NEW t \in Tasks, StartRework(t) PROVE TypeOK' /\ CurOK'
  <2>1. row' \in [Tasks -> Row]
    BY <1>a, <1>6, DispatchWrites, OneWrite DEF StartRework, Shrinks
  <2>2. snap' \in [Tasks -> Row] /\ todo' \subseteq Tasks /\ pc = "rework"
    BY <1>6, NoRowType DEF StartRework, Respawn, RespawnEscalates, RespawnAborts, VisitRework, TypeOK
  <2>3. \/ pc' = pc /\ cur' = cur
        \/ pc' = "launchRework" /\ cur' = t
    BY <1>6 DEF StartRework, Respawn, RespawnEscalates, RespawnAborts
  <2>4. UNCHANGED <<world, active, listed, gone, ops>>
    BY <1>6 DEF StartRework, Respawn, RespawnEscalates, RespawnAborts, VisitRework
  <2> QED
    BY <2>1, <2>2, <2>3, <2>4 DEF world, TypeOK, CurOK, Holding
<1>7. ASSUME NEW t \in Tasks, StartClaim(t) PROVE TypeOK' /\ CurOK'
  <2>1. snap' \in [Tasks -> Row]
    BY <1>7 DEF StartClaim, NotForClaim, ReadForClaim, TypeOK
  <2>2. \/ pc' = pc /\ cur' = cur
        \/ pc' = "worktree" /\ cur' = t
    BY <1>7 DEF StartClaim, NotForClaim, ReadForClaim
  <2>3. todo' \subseteq Tasks /\ UNCHANGED <<row, world, active, listed, gone, ops>>
    BY <1>7 DEF StartClaim, NotForClaim, ReadForClaim, VisitClaim, TypeOK
  <2> QED
    BY <2>1, <2>2, <2>3 DEF world, TypeOK, CurOK, Holding
<1>8. ASSUME Launch PROVE row' \in [Tasks -> Row] /\ cur \in Tasks
  <2>1. cur \in Tasks
    BY <1>8 DEF Launch, Claim, ClaimFails, OpenWindow, Seed, LaunchFails, Launching, Seeding, CurOK, Holding
  <2> QED
    BY <1>a, <1>8, <2>1, DispatchWrites, OneWrite DEF Launch, Shrinks
<1>9. ASSUME NewBranch
      PROVE  /\ gh' \in [Tasks -> PrLive] /\ window' \in [Tasks -> Windows]
             /\ push' \in [Tasks -> 0..PushAttempts] /\ fin' \in [Tasks -> Markers]
  BY <1>9, BudgetAssumption DEF NewBranch, TypeOK, PrLive, Windows, Markers
<1>10. ASSUME EndLaunch
       PROVE  /\ pc' \in {"rework", "claim"} /\ cur' = NoTask /\ snap' \in [Tasks -> Row]
              /\ UNCHANGED <<tracker, todo, listed, gone, ops>>
  BY <1>10, NoRowType DEF EndLaunch, TypeOK
<1>11. CASE Claim
  BY <1>8, <1>9, <1>11 DEF Launch, Claim, TypeOK, CurOK, Holding
<1>12. CASE ClaimFails
  BY <1>8, <1>9, <1>10, <1>12 DEF Launch, ClaimFails, TypeOK, CurOK, Holding
<1>13. CASE OpenWindow
  <2>1. window' \in [Tasks -> Windows] /\ fin' \in [Tasks -> Markers]
    BY <1>13 DEF OpenWindow, TypeOK, Windows, Markers
  <2> QED
    BY <1>8, <1>13, <2>1 DEF Launch, OpenWindow, TypeOK, CurOK, Holding
<1>14. CASE Seed
  <2>1. window' = [window EXCEPT ![cur] = "busy"] /\ active' = active + 1
    BY <1>14 DEF Seed
  <2>4. window' \in [Tasks -> Windows]
    BY <2>1 DEF TypeOK, Windows
  <2>5. active' \in Nat
    BY <1>a, <2>1
  <2>2. row' \in [Tasks -> Row]
    BY <1>8, <1>14 DEF Launch
  <2>3. UNCHANGED <<gh, push, fin>> /\ EndLaunch
    BY <1>14 DEF Seed
  <2> QED
    BY <1>10, <2>2, <2>3, <2>4, <2>5 DEF TypeOK, CurOK, Holding
<1>15. CASE LaunchFails
  <2>1. row' \in [Tasks -> Row]
    BY <1>8, <1>15 DEF Launch
  <2>2. EndLaunch /\ UNCHANGED <<gh, window, push, fin, active>>
    BY <1>15 DEF LaunchFails
  <2> QED
    BY <1>10, <2>1, <2>2 DEF TypeOK, CurOK, Holding
<1> QED
  BY <1>2, <1>3, <1>4, <1>5, <1>6, <1>7, <1>11, <1>12, <1>13, <1>14, <1>15 DEF Dispatch, Launch

\* Fewer runs take no more slots, and all but one at most one less.
LEMMA Slots ==
    ASSUME NEW S \in SUBSET Tasks, NEW T \in SUBSET Tasks
    PROVE  /\ Cardinality(S) \in Nat /\ Cardinality(T) \in Nat
           /\ S \subseteq T => Cardinality(S) <= Cardinality(T)
           /\ \A t \in Tasks : Cardinality(S) <= Cardinality(S \ {t}) + 1
<1>1. IsFiniteSet(S) /\ IsFiniteSet(T)
  BY TasksAssumption, FS_Subset
<1>2. Cardinality(S) \in Nat /\ Cardinality(T) \in Nat
  BY <1>1, FS_CardinalityType
<1>3. S \subseteq T => Cardinality(S) <= Cardinality(T)
  BY <1>1, FS_Subset
<1>4. \A t : Cardinality(S \ {t}) = IF t \in S THEN Cardinality(S) - 1 ELSE Cardinality(S)
  BY <1>1, FS_RemoveElement
<1> QED
  BY <1>2, <1>3, <1>4

\* A step that makes no row active and leaves dispatch, or stays where it is in it,
\* keeps the reservation.
LEMMA QuietSlots ==
    ASSUME TypeOK, CurOK, SlotBound, SlotsReserved, Shrinks,
           pc' \notin Dispatching \/ UNCHANGED <<pc, cur, active>>
    PROVE  SlotBound' /\ SlotsReserved'
<1>a. /\ ActiveRuns \in SUBSET Tasks /\ ActiveRuns' \in SUBSET Tasks
      /\ active \in Nat /\ MaxConcurrent \in Nat
  BY BudgetAssumption DEF ActiveRuns, WithStatus, TypeOK
<1>b. ActiveRuns' \subseteq ActiveRuns
  BY DEF Shrinks
<1>c. /\ Cardinality(ActiveRuns') \in Nat /\ Cardinality(ActiveRuns) \in Nat
      /\ Cardinality(ActiveRuns') <= Cardinality(ActiveRuns)
  BY <1>a, <1>b, Slots
<1>1. SlotBound'
  BY <1>a, <1>c DEF SlotBound
<1>2. CASE pc' \notin Dispatching
  BY <1>1, <1>2 DEF SlotsReserved, Dispatching, Counting, Launching, Seeding
<1>3. CASE UNCHANGED <<pc, cur, active>>
  <2>1. Counting' => Cardinality(ActiveRuns') <= active'
    BY <1>a, <1>c, <1>3 DEF SlotsReserved, Counting
  <2>2. ASSUME (Launching \/ Seeding)' PROVE Cardinality(ActiveRuns' \ {cur'}) <= active'
    <3>1. cur \in Tasks
      BY <1>3, <2>2 DEF Launching, Seeding, CurOK, Holding
    <3>2. /\ Cardinality(ActiveRuns' \ {cur}) \in Nat /\ Cardinality(ActiveRuns \ {cur}) \in Nat
          /\ Cardinality(ActiveRuns' \ {cur}) <= Cardinality(ActiveRuns \ {cur})
      BY <1>a, <1>b, <3>1, Slots
    <3>3. Cardinality(ActiveRuns \ {cur}) <= active
      BY <1>3, <2>2 DEF SlotsReserved, Launching, Seeding
    <3> QED
      BY <1>a, <1>3, <3>2, <3>3
  <2>3. (pc = "worktree" \/ Launching \/ Seeding)' => active' < MaxConcurrent
    BY <1>3 DEF SlotsReserved, Launching, Seeding
  <2> QED
    BY <1>1, <2>1, <2>2, <2>3 DEF SlotsReserved
<1> QED
  BY <1>2, <1>3

\* A step of dispatch keeps the reservation: the count is taken from the table, a
\* launch is started only under the limit, and a launched run is counted.
LEMMA DispatchSlots ==
    ASSUME TypeOK, CurOK, SlotBound, SlotsReserved, Dispatch
    PROVE  SlotBound' /\ SlotsReserved'
<1>a. /\ row \in [Tasks -> Row] /\ active \in Nat /\ MaxConcurrent \in Nat
      /\ ActiveRuns \in SUBSET Tasks /\ ActiveRuns' \in SUBSET Tasks
  BY BudgetAssumption DEF ActiveRuns, WithStatus, TypeOK
<1>b. ASSUME UNCHANGED row, pc' \notin Dispatching \/ UNCHANGED <<pc, cur, active>>
      PROVE  SlotBound' /\ SlotsReserved'
  BY <1>a, <1>b, SameShrinks, QuietSlots
<1>c. ASSUME UNCHANGED row PROVE ActiveRuns' = ActiveRuns
  BY <1>c DEF ActiveRuns, WithStatus
<1>1. CASE Held \/ EndClaims \/ Crash
  BY <1>b, <1>1 DEF Held, EndClaims, Crash, EndTick, Dispatching
<1>2. CASE CountSlots
  <2>1. /\ ActiveRuns' = ActiveRuns /\ active' = Cardinality(ActiveRuns)
        /\ pc' = "judge" /\ Cardinality(ActiveRuns) \in Nat
    BY <1>a, <1>c, <1>2, Slots DEF CountSlots
  <2>2. Cardinality(ActiveRuns') <= active' /\ Cardinality(ActiveRuns') <= MaxConcurrent
    BY <2>1 DEF SlotBound
  <2> QED
    BY <2>1, <2>2 DEF SlotBound, SlotsReserved, Counting, Launching, Seeding
<1>3. CASE SelectReworks \/ EndReworks
  <2>1. /\ ActiveRuns' = ActiveRuns /\ active' = active
        /\ pc \in {"judge", "rework"} /\ pc' \in {"rework", "claim"}
    BY <1>c, <1>3 DEF SelectReworks, EndReworks
  <2> QED
    BY <2>1 DEF SlotBound, SlotsReserved, Counting, Launching, Seeding
<1>4. ASSUME NEW t \in Tasks, Respawn(t) PROVE SlotBound' /\ SlotsReserved'
  <2>1. /\ pc = "rework" /\ active < MaxConcurrent /\ active' = active
        /\ pc' = "launchRework" /\ cur' = t
    BY <1>4 DEF Respawn, VisitRework
  <2>2. ActiveRuns' \ {t} \subseteq ActiveRuns \ {t}
    BY <1>a, <1>4, DispatchWrites, OneWrite
  <2>3. /\ Cardinality(ActiveRuns' \ {t}) \in Nat /\ Cardinality(ActiveRuns) \in Nat
        /\ Cardinality(ActiveRuns' \ {t}) <= Cardinality(ActiveRuns)
        /\ Cardinality(ActiveRuns') \in Nat
        /\ Cardinality(ActiveRuns') <= Cardinality(ActiveRuns' \ {t}) + 1
    BY <1>a, <2>2, Slots
  <2>4. Cardinality(ActiveRuns) <= active
    BY <2>1 DEF SlotsReserved, Counting
  <2>5. SlotBound'
    BY <1>a, <2>1, <2>3, <2>4 DEF SlotBound
  <2>6. Cardinality(ActiveRuns' \ {cur'}) <= active'
    BY <1>a, <2>1, <2>3, <2>4
  <2> QED
    BY <2>1, <2>5, <2>6 DEF SlotsReserved, Counting, Launching, Seeding
<1>5. ASSUME NEW t \in Tasks, RespawnEscalates(t) \/ RespawnAborts(t)
      PROVE  SlotBound' /\ SlotsReserved'
  <2>1. UNCHANGED <<pc, cur, active>>
    BY <1>5 DEF RespawnEscalates, RespawnAborts, VisitRework
  <2> QED
    BY <1>5, <2>1, DispatchWrites, QuietSlots
<1>6. ASSUME NEW t \in Tasks, NotForClaim(t) PROVE SlotBound' /\ SlotsReserved'
  BY <1>b, <1>6 DEF NotForClaim, VisitClaim
<1>7. ASSUME NEW t \in Tasks, ReadForClaim(t) PROVE SlotBound' /\ SlotsReserved'
  <2>1. /\ pc = "claim" /\ active < MaxConcurrent /\ active' = active
        /\ pc' = "worktree" /\ ActiveRuns' = ActiveRuns
    BY <1>c, <1>7 DEF ReadForClaim, VisitClaim
  <2> QED
    BY <2>1 DEF SlotBound, SlotsReserved, Counting, Launching, Seeding
<1>8. CASE Claim
  <2>1. /\ pc = "worktree" /\ active' = active /\ pc' = "launchClaim" /\ cur' = cur /\ cur \in Tasks
    BY <1>8 DEF Claim, CurOK, Holding
  <2>2. ActiveRuns' \ {cur} \subseteq ActiveRuns \ {cur}
    BY <1>a, <1>8, <2>1, DispatchWrites, OneWrite
  <2>3. /\ Cardinality(ActiveRuns' \ {cur}) \in Nat /\ Cardinality(ActiveRuns) \in Nat
        /\ Cardinality(ActiveRuns' \ {cur}) <= Cardinality(ActiveRuns)
        /\ Cardinality(ActiveRuns') \in Nat
        /\ Cardinality(ActiveRuns') <= Cardinality(ActiveRuns' \ {cur}) + 1
    BY <1>a, <2>1, <2>2, Slots
  <2>4. Cardinality(ActiveRuns) <= active /\ active < MaxConcurrent
    BY <2>1 DEF SlotsReserved, Counting
  <2>5. SlotBound'
    BY <1>a, <2>3, <2>4 DEF SlotBound
  <2>6. Cardinality(ActiveRuns' \ {cur'}) <= active'
    BY <1>a, <2>1, <2>3, <2>4
  <2> QED
    BY <2>1, <2>4, <2>5, <2>6 DEF SlotsReserved, Counting, Launching, Seeding
<1>9. CASE ClaimFails
  <2>1. pc = "worktree" /\ pc' \in {"rework", "claim"} /\ active' = active
    BY <1>9 DEF ClaimFails, EndLaunch
  <2>2. /\ Cardinality(ActiveRuns) \in Nat /\ Cardinality(ActiveRuns') \in Nat
        /\ Cardinality(ActiveRuns') <= Cardinality(ActiveRuns)
    BY <1>a, <1>9, DispatchWrites, Slots DEF Shrinks
  <2>3. Cardinality(ActiveRuns) <= active /\ Cardinality(ActiveRuns) <= MaxConcurrent
    BY <2>1 DEF SlotBound, SlotsReserved, Counting
  <2>4. Cardinality(ActiveRuns') <= active' /\ SlotBound'
    BY <1>a, <2>1, <2>2, <2>3 DEF SlotBound
  <2> QED
    BY <2>1, <2>4 DEF SlotsReserved, Counting, Launching, Seeding
<1>10. ASSUME OpenWindow \/ Seed \/ LaunchFails
       PROVE  /\ Launching \/ Seeding
              /\ cur \in Tasks /\ active < MaxConcurrent
              /\ Cardinality(ActiveRuns \ {cur}) <= active
              /\ Cardinality(ActiveRuns \ {cur}) \in Nat
  <2>1. Launching \/ Seeding
    BY <1>10 DEF OpenWindow, Seed, LaunchFails
  <2>2. cur \in Tasks
    BY <2>1 DEF Launching, Seeding, CurOK, Holding
  <2> QED
    BY <1>a, <2>1, <2>2, Slots DEF SlotsReserved
<1>11. CASE OpenWindow
  <2>1. cur' = cur /\ active' = active /\ pc' \in {"seedRework", "seedClaim"}
    BY <1>11 DEF OpenWindow
  <2>2. /\ Cardinality(ActiveRuns' \ {cur}) \in Nat
        /\ Cardinality(ActiveRuns' \ {cur}) <= Cardinality(ActiveRuns \ {cur})
        /\ Cardinality(ActiveRuns) \in Nat /\ Cardinality(ActiveRuns') \in Nat
        /\ Cardinality(ActiveRuns') <= Cardinality(ActiveRuns)
    BY <1>a, <1>11, DispatchWrites, Slots DEF Shrinks
  <2>3. SlotBound'
    BY <1>a, <2>2 DEF SlotBound
  <2>4. Cardinality(ActiveRuns' \ {cur'}) <= active' /\ active' < MaxConcurrent
    BY <1>a, <1>10, <1>11, <2>1, <2>2
  <2> QED
    BY <2>1, <2>3, <2>4 DEF SlotsReserved, Counting
<1>12. CASE Seed
  <2>1. pc' \in {"rework", "claim"} /\ active' = active + 1
    BY <1>12 DEF Seed, EndLaunch
  <2>2. /\ Cardinality(ActiveRuns' \ {cur}) \in Nat /\ Cardinality(ActiveRuns') \in Nat
        /\ Cardinality(ActiveRuns' \ {cur}) <= Cardinality(ActiveRuns \ {cur})
        /\ Cardinality(ActiveRuns') <= Cardinality(ActiveRuns' \ {cur}) + 1
    BY <1>a, <1>10, <1>12, DispatchWrites, Slots
  <2>3. Cardinality(ActiveRuns') <= active' /\ Cardinality(ActiveRuns') <= MaxConcurrent
    BY <1>a, <1>10, <1>12, <2>1, <2>2
  <2> QED
    BY <2>1, <2>3 DEF SlotBound, SlotsReserved, Counting, Launching, Seeding
<1>13. CASE LaunchFails
  <2>1. pc' \in {"rework", "claim"} /\ active' = active
    BY <1>13 DEF LaunchFails, EndLaunch
  <2>2. /\ Cardinality(ActiveRuns') \in Nat
        /\ Cardinality(ActiveRuns') <= Cardinality(ActiveRuns \ {cur})
    BY <1>a, <1>10, <1>13, DispatchWrites, Slots
  <2>3. Cardinality(ActiveRuns') <= active' /\ Cardinality(ActiveRuns') <= MaxConcurrent
    BY <1>a, <1>10, <1>13, <2>1, <2>2
  <2> QED
    BY <2>1, <2>3 DEF SlotBound, SlotsReserved, Counting, Launching, Seeding
<1> QED
  BY <1>1, <1>2, <1>3, <1>4, <1>5, <1>6, <1>7, <1>8, <1>9, <1>11, <1>12, <1>13
     DEF Dispatch, StartRework, StartClaim, Launch

-----------------------------------------------------------------------------
(* The invariant.                                                          *)

IInv == TypeOK /\ CurOK /\ SlotBound /\ SlotsReserved

\* A fresh database satisfies the invariant.
LEMMA InitInv == ASSUME Init PROVE IInv
<1>1. TypeOK /\ CurOK
  BY NoRowType, BudgetAssumption
     DEF Init, TypeOK, CurOK, Holding, PrLive, Windows, Markers
<1>2. ActiveRuns = {}
  BY DEF Init, ActiveRuns, WithStatus, NoRow, Active
<1>3. SlotBound /\ SlotsReserved
  BY <1>2, FS_EmptySet, BudgetAssumption
     DEF Init, SlotBound, SlotsReserved, Counting, Launching, Seeding
<1> QED
  BY <1>1, <1>3 DEF IInv

\* Every step of the daemon, and of everybody else, preserves it.
LEMMA NextInv == ASSUME IInv, [Next]_vars PROVE IInv'
<1> USE DEF IInv
<1>1. ASSUME Shrinks, TypeOK', CurOK', pc' \notin Dispatching \/ UNCHANGED <<pc, cur, active>>
      PROVE  IInv'
  BY <1>1, QuietSlots
<1>2. ASSUME NEW t \in Tasks, Reconcile(t) PROVE IInv'
  BY <1>1, <1>2, ReconcileShrinks, ReconcileType DEF Dispatching
<1>3. CASE StartTick \/ CompleteHandIn \/ EndRows \/ Reap
  BY <1>1, <1>3, RowsShrink, RowsType DEF Dispatching
<1>4. CASE (\E t \in Tasks : CheckReview(t)) \/ SendBack \/ SendRefused \/ EndReview
  BY <1>1, <1>4, ReviewShrinks, ReviewType DEF Dispatching
<1>5. CASE (\E t \in Tasks : CheckCaps(t)) \/ CapMark \/ EndCaps
  BY <1>1, <1>5, CapsShrink, CapsType DEF Dispatching
<1>6. CASE Dispatch
  BY <1>6, DispatchType, DispatchSlots
<1>7. CASE TmuxRestarts \/ (\E t \in Tasks : Agent(t) \/ Elsewhere(t) \/ Operator(t))
  BY <1>1, <1>7, OutsideShrinks, OutsideType DEF local
<1>8. CASE UNCHANGED vars
  <2>1. TypeOK' /\ CurOK' /\ UNCHANGED row
    BY <1>8 DEF vars, world, local, TypeOK, CurOK
  <2>2. Shrinks
    BY <2>1, SameShrinks DEF TypeOK
  <2> QED
    BY <1>1, <1>8, <2>1, <2>2 DEF vars, local
<1> QED
  BY <1>2, <1>3, <1>4, <1>5, <1>6, <1>7, <1>8 DEF Next, Tick, Dispatch

\* Every state of every behaviour is well typed: no interleaving of commands,
\* crashes and stale writes makes a counter negative, a push request outlive its
\* attempts, or leaves the tick writing to a row it does not hold.
THEOREM TypeCorrect == Spec => []TypeOK
<1>1. Init => IInv
  BY InitInv
<1>2. IInv /\ [Next]_vars => IInv'
  BY NextInv
<1>3. IInv => TypeOK
  BY DEF IInv
<1> QED
  BY <1>1, <1>2, <1>3, PTL DEF Spec

\* For any number of tasks and of slots, the runs that are claimed or running
\* never outnumber the slots (tick, step 4).
THEOREM SlotsNeverExceeded == Spec => []SlotBound
<1>1. Init => IInv
  BY InitInv
<1>2. IInv /\ [Next]_vars => IInv'
  BY NextInv
<1>3. IInv => SlotBound
  BY DEF IInv
<1> QED
  BY <1>1, <1>2, <1>3, PTL DEF Spec

\* And the tick's own count, taken once, stays an upper bound while it launches.
THEOREM CountNeverBehind == Spec => []SlotsReserved
<1>1. Init => IInv
  BY InitInv
<1>2. IInv /\ [Next]_vars => IInv'
  BY NextInv
<1>3. IInv => SlotsReserved
  BY DEF IInv
<1> QED
  BY <1>1, <1>2, <1>3, PTL DEF Spec
=============================================================================
