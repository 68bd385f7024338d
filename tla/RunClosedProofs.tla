--------------------------- MODULE RunClosedProofs ---------------------------
(***************************************************************************)
(* A closed run stays closed, for any tasks and any budgets: the tick may  *)
(* revive only a run it had read as something else before it was closed.   *)
(*                                                                         *)
(* The invariant is that whatever the tick has still to visit or holds was *)
(* not over when it was read (ReadOK); the argument, that a tick's step    *)
(* changes the status of no other row (OwnWrites).                         *)
(***************************************************************************)
EXTENDS RunLifecycleProofs

ReadOK ==
    /\ \A t \in todo : ~Over(snap[t])
    /\ pc \in Holding => ~Over(snap[cur])
    /\ pc = "idle" => todo = {}

Typed == TypeOK /\ CurOK

\* A row the tick is about to write.
Mine(t) == t \in todo \/ (pc \in Holding /\ t = cur)

\* A tick's step changes the status of no row but those.
LEMMA OwnWrites ==
    ASSUME Typed, Tick, NEW u \in Tasks, ~Mine(u)
    PROVE  row'[u].status = row[u].status
<1>t. row \in [Tasks -> Row] /\ (pc \in Holding => cur \in Tasks)
  BY DEF Typed, TypeOK, CurOK
<1>w. ASSUME NEW t \in Tasks, NEW new, Update(t, new) \/ Upsert(t, new), Mine(t)
      PROVE  row'[u].status = row[u].status
  BY <1>w, <1>t DEF Update, Upsert
<1>1. CASE StartTick
  <2>1. PICK readable \in SUBSET {t \in Tasks : row[t].pr \in {"unread", "open"}} :
          row' = [t \in Tasks |-> IF t \in readable THEN [row[t] EXCEPT !.pr = gh[t]] ELSE row[t]]
    BY <1>1 DEF StartTick
  <2> QED
    BY <2>1, <1>t DEF Row
<1>2. ASSUME NEW t \in Tasks, Reconcile(t) PROVE row'[u].status = row[u].status
  <2>1. UNCHANGED row \/ \E new : Update(t, new)
    BY <1>2 DEF Reconcile, ReconcileMerged, ReconcileClosed, ApplyPush, PushFails, BeginHandIn,
           LeaveReview, LeaveWork, WindowGone, WatchdogNudge, WatchdogFail, LeaveAlone,
           Finish, Escalated, SetStatus, AgentFailed, ReworkFailed
  <2>2. t \in todo
    BY <1>2 DEF Reconcile, ReconcileMerged, ReconcileClosed, ApplyPush, PushFails, BeginHandIn,
           LeaveReview, LeaveWork, WindowGone, WatchdogNudge, WatchdogFail, LeaveAlone, VisitRow, Visit
  <2> QED
    BY <2>1, <2>2, <1>w DEF Mine
<1>3. ASSUME NEW t \in Tasks, CheckReview(t) \/ CheckCaps(t) \/ StartRework(t) \/ StartClaim(t)
      PROVE  row'[u].status = row[u].status
  <2>1. UNCHANGED row \/ \E new : Update(t, new)
    BY <1>3 DEF CheckReview, CheckCaps, StartRework, StartClaim, RedCI, RedAtSetup, BaseConflict,
           BaseMerged, BaseInfra, EscalateReview, ReviewQuiet, CapEscalate, CapRequeue, HasBudget,
           Respawn, RespawnEscalates, RespawnAborts, NotForClaim, ReadForClaim, VisitClaim,
           CloseRow, Escalated, SetStatus, ReworkFailed
  <2>2. t \in todo
    BY <1>3 DEF CheckReview, CheckCaps, StartRework, StartClaim, RedCI, RedAtSetup, Conflicting,
           BaseConflict, BaseMerged, BaseInfra, EscalateReview, ReviewQuiet, CapEscalate, CapRequeue,
           HasBudget, Respawn, RespawnEscalates, RespawnAborts, NotForClaim, ReadForClaim,
           VisitReview, VisitCaps, VisitRework, VisitClaim, Visit
  <2> QED
    BY <2>1, <2>2, <1>w DEF Mine
<1>4. CASE CompleteHandIn \/ SendBack \/ SendRefused \/ CapMark \/ Launch
  <2>1. pc \in Holding
    BY <1>4 DEF CompleteHandIn, SendBack, SendRefused, Sending, CapMark, Launch, Claim, ClaimFails,
           OpenWindow, Seed, LaunchFails, Launching, Seeding, Holding
  <2>2. UNCHANGED row \/ \E new : Update(cur, new) \/ Upsert(cur, new)
    BY <1>4 DEF CompleteHandIn, SendBack, RequestChanges, SendRefused, Sending, CapMark, Launch,
           Claim, ClaimFails, OpenWindow, Seed, LaunchFails, ReworkFailed, SetStatus
  <2> QED
    BY <2>1, <2>2, <1>w, <1>t DEF Mine
<1>5. CASE EndRows \/ Reap \/ EndReview \/ EndCaps \/ Held \/ CountSlots \/ SelectReworks
             \/ EndReworks \/ EndClaims
  BY <1>5 DEF EndRows, Reap, EndReview, EndCaps, Held, CountSlots, SelectReworks, EndReworks,
     EndClaims
<1> QED
  BY <1>1, <1>2, <1>3, <1>4, <1>5 DEF Tick

\* Nobody else brings a closed run back to life, either.
LEMMA OutsideCloses ==
    ASSUME Typed, NEW t \in Tasks, Agent(t) \/ Elsewhere(t) \/ Operator(t) \/ TmuxRestarts,
           NEW u \in Tasks, row[u].status = "closed"
    PROVE  row'[u].status \in {"closed", "none"}
<1>t. row \in [Tasks -> Row]
  BY DEF Typed, TypeOK
<1>1. CASE UNCHANGED row
  BY <1>1
<1>2. CASE DeleteRun(t)
  BY <1>2, <1>t DEF DeleteRun, Update, NoRow
<1>3. ASSUME NEW force \in BOOLEAN, NEW requeue \in BOOLEAN, CloseRun(t, force, requeue)
      PROVE  row'[u].status = "closed"
  BY <1>3, <1>t DEF CloseRun, CloseRow, Update, Row
<1>4. CASE DisputeRework(t) \/ Block(t) \/ Reopen(t) \/ Retry(t)
  <2>1. row[t].status # "closed" /\ \E new : Update(t, new)
    BY <1>4 DEF DisputeRework, Block, RequestChanges, Reopen, Retry, SetStatus
  <2> QED
    BY <2>1, <1>t DEF Update
<1> QED
  BY <1>1, <1>2, <1>3, <1>4
     DEF Agent, Elsewhere, Operator, TmuxRestarts, RequestPush, RequestTaskFinished, AgentIdles,
         WindowDies, SettlePr, LeaveTracker, world

\* A tick never has a run before it that was over when it read it.
LEMMA ReadKept == ASSUME Typed, ReadOK, [Next]_vars PROVE ReadOK'
<1>t. row \in [Tasks -> Row] /\ snap \in [Tasks -> Row] /\ (pc \in Holding => cur \in Tasks)
      /\ todo \subseteq Tasks
  BY DEF Typed, TypeOK, CurOK
<1>n. ~Over(NoRow)
  BY DEF Over, NoRow
\* A visit takes one row out of the loop.
<1>v. ASSUME NEW t \in Tasks, Visit(t), UNCHANGED cur \/ cur' = t,
             pc' # "idle", pc' \in Holding => cur' = t
      PROVE  ReadOK'
  <2>1. /\ todo' = todo \ {t} /\ snap' = [snap EXCEPT ![t] = NoRow]
    BY <1>v DEF Visit
  <2>2. \A u \in todo' : ~Over(snap'[u])
    BY <2>1, <1>t DEF ReadOK
  <2>3. ~Over(snap'[t])
    BY <2>1, <1>t, <1>n
  <2> QED
    BY <1>v, <2>2, <2>3 DEF ReadOK
\* The tick's own data stay.
<1>s. ASSUME UNCHANGED <<pc, todo, snap, cur>> PROVE ReadOK'
  BY <1>s DEF ReadOK, Over
\* The row it held is done with, or a loop is over.
<1>e. ASSUME todo' \subseteq todo, pc' \notin Holding, pc' = "idle" => todo' = {},
             \A u \in todo' : snap'[u] \in {snap[u], NoRow}
      PROVE  ReadOK'
  BY <1>e, <1>n DEF ReadOK
<1>1. ASSUME NEW t \in Tasks, Reconcile(t) PROVE ReadOK'
  <2>1. Visit(t) /\ ((pc' = "rows" /\ UNCHANGED cur) \/ (pc' = "handin" /\ cur' = t))
    BY <1>1 DEF Reconcile, ReconcileMerged, ReconcileClosed, ApplyPush, PushFails, BeginHandIn,
           LeaveReview, LeaveWork, WindowGone, WatchdogNudge, WatchdogFail, LeaveAlone, VisitRow
  <2> QED
    BY <2>1, <1>v DEF Holding
<1>2. ASSUME NEW t \in Tasks, CheckReview(t) PROVE ReadOK'
  <2>1. CASE RedAtSetup(t) \/ BaseInfra(t)
    BY <2>1, <1>s DEF RedAtSetup, BaseInfra, local
  <2>2. CASE ~(RedAtSetup(t) \/ BaseInfra(t))
    <3>1. Visit(t) /\ ((pc' = "review" /\ UNCHANGED cur)
                         \/ (pc' \in {"sendInfra", "sendConflict", "sendReview"} /\ cur' = t))
      BY <1>2, <2>2 DEF CheckReview, RedCI, BaseConflict, BaseMerged, EscalateReview, ReviewQuiet,
             VisitReview
    <3> QED
      BY <3>1, <1>v DEF Holding
  <2> QED
    BY <2>1, <2>2
<1>3. ASSUME NEW t \in Tasks, CheckCaps(t) PROVE ReadOK'
  <2>1. Visit(t) /\ ((pc' = "caps" /\ UNCHANGED cur) \/ (pc' = "capMark" /\ cur' = t))
    BY <1>3 DEF CheckCaps, CapEscalate, CapRequeue, HasBudget, VisitCaps
  <2> QED
    BY <2>1, <1>v DEF Holding
<1>4. ASSUME NEW t \in Tasks, StartRework(t) PROVE ReadOK'
  <2>1. t \in todo /\ todo' = todo \ {t} /\ ~Over(snap[t])
    BY <1>4 DEF StartRework, Respawn, RespawnEscalates, RespawnAborts, VisitRework, ReadOK
  <2>2. CASE Respawn(t)
    BY <2>1, <2>2 DEF Respawn, ReadOK
  <2>3. CASE RespawnEscalates(t) \/ RespawnAborts(t)
    <3>1. /\ snap' = [snap EXCEPT ![t] = NoRow] /\ pc' = "rework"
      BY <2>3 DEF RespawnEscalates, RespawnAborts, VisitRework
    <3> QED
      BY <3>1, <2>1, <1>t, <1>e DEF Holding
  <2> QED
    BY <1>4, <2>2, <2>3 DEF StartRework
<1>5. ASSUME NEW t \in Tasks, StartClaim(t) PROVE ReadOK'
  <2>1. todo' = todo \ {t}
    BY <1>5 DEF StartClaim, NotForClaim, ReadForClaim, VisitClaim
  <2>2. CASE NotForClaim(t)
    BY <2>1, <2>2, <1>e DEF NotForClaim, VisitClaim, Holding
  <2>3. CASE ReadForClaim(t)
    <3>1. ~Over(row[t]) /\ snap' = [snap EXCEPT ![t] = row[t]] /\ pc' = "worktree" /\ cur' = t
      BY <2>3 DEF ReadForClaim, RunWillRelaunch, NotClaimable, Over
    <3> QED
      BY <3>1, <2>1, <1>t DEF ReadOK
  <2> QED
    BY <1>5, <2>2, <2>3 DEF StartClaim
<1>6. ASSUME Claim \/ OpenWindow PROVE ReadOK'
  BY <1>6 DEF Claim, OpenWindow, Launching, Holding, ReadOK, Over
<1>7. ASSUME ClaimFails \/ Seed \/ LaunchFails PROVE ReadOK'
  <2>1. EndLaunch /\ pc' \in {"rework", "claim"}
    BY <1>7 DEF ClaimFails, Seed, LaunchFails, EndLaunch
  <2> QED
    BY <2>1, <1>t, <1>e DEF EndLaunch, Holding
<1>8. ASSUME CompleteHandIn \/ SendBack \/ SendRefused \/ CapMark \/ EndRows \/ EndCaps
               \/ CountSlots \/ EndClaims \/ Held \/ Crash
      PROVE  ReadOK'
  <2>1. CASE EndClaims \/ Held \/ Crash
    BY <2>1, <1>e DEF EndClaims, Held, Crash, EndTick, Holding
  <2>2. CASE CompleteHandIn \/ SendBack \/ SendRefused \/ CapMark \/ EndRows \/ EndCaps \/ CountSlots
    <3>1. UNCHANGED <<todo, snap>> /\ pc' \in {"rows", "review", "caps", "reap", "count", "judge"}
      BY <2>2 DEF CompleteHandIn, SendBack, SendRefused, EndSend, CapMark, EndRows, EndCaps, CountSlots
    <3> QED
      BY <3>1, <1>e DEF Holding
  <2> QED
    BY <1>8, <2>1, <2>2
\* A loop begins: it is about rows that are not over, or about none it has read.
<1>9. ASSUME StartTick \/ Reap \/ EndReview \/ SelectReworks \/ EndReworks PROVE ReadOK'
  <2>1. CASE StartTick
    BY <2>1, <1>t DEF StartTick, Active, MergeWatched, Review, Over, Holding, ReadOK
  <2>2. CASE Reap \/ EndReview \/ SelectReworks
    BY <2>2, <1>t DEF Reap, EndReview, SelectReworks, WithStatus, Over, Holding, ReadOK
  <2>3. CASE EndReworks
    <3>1. /\ \/ todo' = listed
             \/ todo' = {} /\ pc' = "claim"
          /\ snap' = [t \in Tasks |-> NoRow] /\ listed \subseteq Tasks
      BY <2>3 DEF EndReworks, Typed, TypeOK
    <3>2. todo' \subseteq Tasks
      BY <2>3, <3>1 DEF EndReworks
    <3> QED
      BY <3>1, <3>2, <2>3, <1>n DEF Holding, ReadOK, EndReworks
  <2> QED
    BY <1>9, <2>1, <2>2, <2>3
<1>10. ASSUME NEW t \in Tasks, Agent(t) \/ Elsewhere(t) \/ Operator(t) \/ TmuxRestarts PROVE ReadOK'
  <2>1. UNCHANGED local
    BY <1>10 DEF Agent, Elsewhere, Operator, TmuxRestarts, Outside, RequestPush,
           RequestTaskFinished, DisputeRework, AgentIdles, WindowDies, SettlePr, LeaveTracker, Block,
           CloseRun, Reopen, Retry, DeleteRun
  <2> QED
    BY <2>1, <1>s DEF local
<1>11. ASSUME TmuxRestarts PROVE ReadOK'
  BY <1>10, <1>11 DEF TmuxRestarts
<1>12. ASSUME UNCHANGED vars PROVE ReadOK'
  BY <1>12, <1>s DEF vars, local
<1> QED
  BY <1>1, <1>2, <1>3, <1>4, <1>5, <1>6, <1>7, <1>8, <1>9, <1>10, <1>11, <1>12
     DEF Next, Tick, Launch

\* One step of the property.
LEMMA StaysClosed ==
    ASSUME Typed, ReadOK, [Next]_vars, NEW t \in Tasks, Over(row[t])
    PROVE  \/ row'[t].status \in {"closed", "done", "none"}
           \/ pc # "idle" /\ ~Over(snap[t])
<1>1. CASE Tick
  <2>1. CASE Mine(t)
    BY <2>1 DEF Mine, ReadOK, Holding
  <2>2. CASE ~Mine(t)
    BY <1>1, <2>2, OwnWrites DEF Over
  <2> QED
    BY <2>1, <2>2
<1>2. CASE Crash \/ UNCHANGED vars
  BY <1>2 DEF Crash, vars, Over
<1>3. ASSUME NEW u \in Tasks, Agent(u) \/ Elsewhere(u) \/ Operator(u) \/ TmuxRestarts
      PROVE  row'[t].status \in {"closed", "none"}
  BY <1>3, OutsideCloses DEF Over
<1>4. CASE TmuxRestarts
  BY <1>3, <1>4
<1> QED
  BY <1>1, <1>2, <1>3, <1>4 DEF Next

\* For any tasks and budgets, no later tick, command or verdict revives a run that
\* was closed for good (close_run): only the tick that was at work on it can.
THEOREM ClosedRunsStay == Spec => ClosedStays
<1> DEFINE Inv == IInv /\ ReadOK
           Stay == \A t \in Tasks :
                      Over(row[t]) => \/ row'[t].status \in {"closed", "done", "none"}
                                      \/ pc # "idle" /\ ~Over(snap[t])
<1>1. Init => Inv
  BY InitInv DEF Init, ReadOK, Holding
<1>2. Inv /\ [Next]_vars => Inv'
  BY NextInv, ReadKept DEF IInv, Typed
<1>3. Inv /\ [Next]_vars => [Stay]_vars
  BY StaysClosed DEF IInv, Typed
<1>4. Spec => [][Stay]_vars
  BY <1>1, <1>2, <1>3, PTL DEF Spec
<1> QED
  BY <1>4 DEF ClosedStays

=============================================================================
