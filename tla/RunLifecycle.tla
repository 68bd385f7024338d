---------------------------- MODULE RunLifecycle ----------------------------
(***************************************************************************)
(* The life of a run: the row that src/chela/dispatcher.py keeps for every *)
(* task, the daemon's `tick` that moves it, and everything that moves it   *)
(* while a tick is under way: the agent in its tmux window, the operator's *)
(* commands, the judge's verdict, GitHub and the tracker.                  *)
(*                                                                         *)
(* One tick is one daemon process, but it is not atomic: it commits after  *)
(* every row it writes and spends minutes in git, gh and tmux in between.  *)
(* The commands run in other processes against the same SQLite file. Each  *)
(* action here is one commit (or one read that a later commit relies on),  *)
(* so a row may change between the SELECT that put it in a tick's snapshot *)
(* and the write made on the strength of that snapshot.                    *)
(***************************************************************************)
EXTENDS Integers, FiniteSets

CONSTANTS
    Tasks,          \* the open tasks of one tracker, which are also the run ids
    NoTask,         \* what `cur` holds when no row is being launched or handed in
    MaxAttempts,    \* MAX_ATTEMPTS: fresh dispatches of one task
    MaxConcurrent,  \* concurrency.agents_at_once
    ReworkCap,      \* the risk level's budget of review rounds
    InfraCap,       \* max_infra_restarts
    FreeConflicts,  \* MAX_FREE_CONFLICT_REWORKS
    PushAttempts,   \* PUSH_REQUEST_MAX_ATTEMPTS
    CounterTop,     \* bound: a counter above this is not told apart from it
    MaxOps          \* bound: steps not taken by the tick in one behaviour

ASSUME TasksAssumption == IsFiniteSet(Tasks) /\ NoTask \notin Tasks
ASSUME BudgetAssumption ==
    /\ MaxAttempts \in Nat \ {0}
    /\ MaxConcurrent \in Nat
    /\ ReworkCap \in Nat /\ InfraCap \in Nat /\ FreeConflicts \in Nat
    /\ PushAttempts \in Nat \ {0}
    /\ CounterTop \in Nat /\ MaxOps \in Nat

VARIABLES
    row,      \* the runs table
    gh,       \* the pull request of the attempt's branch, as GitHub has it
    window,   \* the tmux window of the attempt
    tracker,  \* the tasks the tracker lists as open
    push,     \* the push-request marker: 0 absent, else 1 + failed applications
    fin,      \* the task-finished marker: absent, the agent's own, or an earlier one's
    pc,       \* where the tick is
    todo,     \* the rows the current loop has still to visit
    snap,     \* the rows as the current loop's SELECT returned them
    cur,      \* the row being handed in, charged or launched
    active,   \* the tick's own count of slots in use
    listed,   \* the open tasks this tick read from the tracker
    gone,     \* the tasks this tick knows to have left the tracker
    ops       \* steps not taken by the tick so far

world == <<gh, window, tracker, push, fin>>
local == <<pc, todo, snap, cur, active, listed, gone>>
vars  == <<row, world, local, ops>>

-----------------------------------------------------------------------------
Active  == {"claimed", "running"}
Review  == {"awaiting_review", "changes_requested", "needs_human"}
Status  == Active \cup Review \cup {"none", "done", "closed", "failed"}

NotClaimable      == Active \cup Review \cup {"done", "closed"}
\* Mutant: escalated runs are not watched for a merge.
WatchedButEscalated == {"awaiting_review", "changes_requested", "failed"}

MergeWatched      == Review \cup {"failed"}
Closable          == Active \cup Review \cup {"failed"}

\* pr_url and pr_state together: "none" is no url, "unread" a url whose state
\* no refresh has read yet.
PrCached == {"none", "unread", "open", "merged", "closed"}
PrLive   == {"none", "open", "merged", "closed"}

\* "lost": the window died with its tmux server, so the epoch recorded on the
\* row dangles. An "idle" agent sits at an empty prompt.
Windows == {"none", "lost", "idle", "busy"}

Markers == {"none", "own", "stale"}

Causes == {"review", "infra", "conflict"}

Row == [status    : Status,
        attempt   : Int,
        pr        : PrCached,
        rework    : BOOLEAN,                      \* rework_count > 0
        review    : Nat,                          \* review_reworks
        infra     : Nat,                          \* infra_restarts
        conflicts : Nat,                          \* conflict_reworks
        cause     : Causes,                       \* rework_cause
        retries   : Nat,                          \* retry_count
        capReq    : BOOLEAN,                      \* cap_requeues > 0
        requeue   : BOOLEAN,                      \* requeue_pending
        wid       : BOOLEAN,                      \* window_id recorded
        nudged    : BOOLEAN,                      \* idle_nudged_at set
        tried     : SUBSET {"ci", "conflict"}]    \* ci_failed_sha, conflict_sha
                                                  \* name the current head

NoRow == [status |-> "none", attempt |-> 0, pr |-> "none", rework |-> FALSE,
          review |-> 0, infra |-> 0, conflicts |-> 0, cause |-> "review",
          retries |-> 0, capReq |-> FALSE, requeue |-> FALSE, wid |-> FALSE,
          nudged |-> FALSE, tried |-> {}]

Bump(n) == IF n < CounterTop THEN n + 1 ELSE n

Exists(t)  == row[t].status # "none"
Live(t)    == window[t] \in {"idle", "busy"}
WithStatus(S) == {t \in Tasks : row[t].status \in S}
ActiveRuns == WithStatus(Active)

\* An UPDATE ... WHERE task_id=?: it writes nothing when the row was deleted.
Update(t, new) == row' = [row EXCEPT ![t] = IF Exists(t) THEN new ELSE @]
Upsert(t, new) == row' = [row EXCEPT ![t] = new]
SetStatus(t, s) == Update(t, [row[t] EXCEPT !.status = s])

Escalated(t) == SetStatus(t, "needs_human")

IsRework(r) == r.rework

EffectiveReworkCap(r) == ReworkCap + r.retries + r.conflicts
InfraCapReached(r) == r.cause = "infra" /\ r.infra >= InfraCap + r.retries
ReviewCapReached(r) == r.cause # "infra" /\ r.review >= EffectiveReworkCap(r)

\* Mutants: a closed run is taken, requeued or not; one dispatch too many.
RelaunchesClosed(r) ==
    /\ r.pr # "merged"
    /\ r.status \in NotClaimable => r.status = "closed"
    /\ r.status = "failed" => r.attempt < MaxAttempts

RelaunchesOnceMore(r) ==
    /\ r.pr # "merged"
    /\ r.status \in NotClaimable => r.status = "closed" /\ r.requeue
    /\ r.status = "failed" => r.attempt <= MaxAttempts

\* What the claim loop takes: a new task, a requeued one, a failed one with
\* attempts left.
RunWillRelaunch(r) ==
    /\ r.pr # "merged"
    /\ r.status \in NotClaimable => r.status = "closed" /\ r.requeue
    /\ r.status = "failed" => r.attempt < MaxAttempts

\* A rework that died goes back to the loop it was in. It is charged to
\* infrastructure; the cause turns infra only if the round had been spawned.
SentBack(r) ==
    [r EXCEPT !.status = "changes_requested", !.rework = TRUE, !.wid = FALSE,
              !.infra = Bump(@),
              !.cause = IF r.status = "running" THEN "infra" ELSE @]

\* Mutant: the death of a rework refunds its round.
ReworkRefunded(t) ==
    Update(t, [SentBack(row[t]) EXCEPT !.infra = row[t].infra,
                                       !.review = IF @ > 0 THEN @ - 1 ELSE @])

ReworkFailed(t) == Update(t, SentBack(row[t]))

\* Mutant: the new attempt inherits the PR it replaces.
ClearedButPr(r) == [NoRow EXCEPT !.status = r.status, !.attempt = r.attempt,
                                 !.capReq = r.capReq, !.pr = r.pr]

\* A requeued attempt starts on a row cleared of everything but its budgetless
\* history (_REQUEUE_KEEP).
Cleared(r) == [NoRow EXCEPT !.status = r.status, !.attempt = r.attempt,
                            !.capReq = r.capReq]

Init ==
    /\ row = [t \in Tasks |-> NoRow]
    /\ gh = [t \in Tasks |-> "none"]
    /\ window = [t \in Tasks |-> "none"]
    /\ tracker = Tasks
    /\ push = [t \in Tasks |-> 0]
    /\ fin = [t \in Tasks |-> "none"]
    /\ pc = "idle" /\ todo = {} /\ snap = [t \in Tasks |-> NoRow]
    /\ cur = NoTask /\ active = 0 /\ listed = {} /\ gone = {}
    /\ ops = 0

-----------------------------------------------------------------------------
(* Phase 0 and the row loop of phase 1.                                    *)

\* Read the tracker, refresh every unsettled PR state GitHub answers for, and
\* take the snapshot the row loop decides on.
StartTick ==
    /\ pc = "idle"
    /\ \E readable \in SUBSET {t \in Tasks : row[t].pr \in {"unread", "open"}} :
         row' = [t \in Tasks |-> IF t \in readable
                                   THEN [row[t] EXCEPT !.pr = gh[t]] ELSE row[t]]
    /\ snap' = row'
    /\ todo' = {t \in Tasks : row'[t].status \in Active \cup MergeWatched}
    /\ \/ listed' = tracker /\ gone' = Tasks \ tracker
       \/ listed' = {} /\ gone' = {}
    /\ pc' = "rows"
    /\ UNCHANGED <<world, cur, active, ops>>

Visit(t) ==
    /\ t \in todo
    /\ todo' = todo \ {t}
    /\ snap' = [snap EXCEPT ![t] = NoRow]

VisitRow(t) == pc = "rows" /\ Visit(t) /\ UNCHANGED <<tracker, active, listed, gone, ops>>

Shipped(t) == snap[t].status \in MergeWatched \cup {"running"} /\ snap[t].pr = "merged"
Dropped(t) == snap[t].status \in MergeWatched /\ snap[t].pr = "closed"
Settled(t) == Shipped(t) \/ Dropped(t)
Asked(t)   == snap[t].status \in Active /\ (push[t] > 0 \/ fin[t] # "none")

\* Ending a run kills its window and removes its worktree, markers included.
Finish(t, new) ==
    /\ Update(t, new)
    /\ window' = [window EXCEPT ![t] = "none"]
    /\ push' = [push EXCEPT ![t] = 0]
    /\ fin' = [fin EXCEPT ![t] = "none"]

ReconcileMerged(t) ==
    /\ VisitRow(t) /\ Shipped(t)
    /\ Finish(t, [row[t] EXCEPT !.status = "done"])
    /\ UNCHANGED <<gh, pc, cur>>

ReconcileClosed(t) ==
    /\ VisitRow(t) /\ Dropped(t)
    /\ Finish(t, [row[t] EXCEPT !.status = "closed"])
    /\ UNCHANGED <<gh, pc, cur>>

\* The daemon pushes the agent's branch and, on a first dispatch, opens the PR.
ApplyPush(t) ==
    /\ VisitRow(t) /\ ~Settled(t) /\ Asked(t) /\ push[t] > 0
    /\ push' = [push EXCEPT ![t] = 0]
    /\ \E titled \in BOOLEAN :
         LET opens == titled /\ snap[t].pr = "none"
         IN  /\ gh' = [gh EXCEPT ![t] = IF opens /\ @ = "none" THEN "open" ELSE @]
             /\ Update(t, [row[t] EXCEPT
                             !.pr = IF opens /\ @ = "none" THEN "unread" ELSE @,
                             !.tried = {}])
    /\ UNCHANGED <<window, fin, pc, cur>>

\* Mutants: the request outlives its last attempt; it is retried for ever.
PushFailsLate(t) ==
    /\ VisitRow(t) /\ ~Settled(t) /\ Asked(t) /\ push[t] > 0
    /\ UNCHANGED gh
    /\ IF push[t] > PushAttempts
         THEN push' = [push EXCEPT ![t] = 1] /\ Escalated(t)
         ELSE push' = [push EXCEPT ![t] = @ + 1] /\ UNCHANGED row
    /\ UNCHANGED <<window, fin, pc, cur>>

PushFailsForEver(t) ==
    /\ VisitRow(t) /\ ~Settled(t) /\ Asked(t) /\ push[t] > 0
    /\ UNCHANGED <<row, gh, window, push, fin, pc, cur>>

\* `gh pr create` may have opened the PR even when the application failed.
PushFails(t) ==
    /\ VisitRow(t) /\ ~Settled(t) /\ Asked(t) /\ push[t] > 0
    /\ \/ UNCHANGED gh
       \/ snap[t].pr = "none" /\ gh[t] = "none" /\ gh' = [gh EXCEPT ![t] = "open"]
    /\ IF push[t] >= PushAttempts
         THEN push' = [push EXCEPT ![t] = 1] /\ Escalated(t)
         ELSE push' = [push EXCEPT ![t] = @ + 1] /\ UNCHANGED row
    /\ UNCHANGED <<window, fin, pc, cur>>

\* mark_awaiting_review reads the row afresh, then spends its time on GitHub.
BeginHandIn(t) ==
    /\ VisitRow(t) /\ ~Settled(t) /\ Asked(t) /\ push[t] = 0
    /\ IF row[t].status \in Active
         THEN pc' = "handin" /\ cur' = t /\ UNCHANGED fin
         ELSE /\ fin' = [fin EXCEPT ![t] = IF Exists(t) THEN "none" ELSE @]
              /\ UNCHANGED <<pc, cur>>
    /\ UNCHANGED <<row, gh, window, push>>

\* A live PR state when GitHub answers; the cached one when it does not.
LiveOrCached(t, answered) == IF answered /\ gh[t] # "none" THEN gh[t] ELSE row[t].pr

CompleteHandIn ==
    /\ pc = "handin"
    /\ \E answered \in BOOLEAN :
         Update(cur, [row[cur] EXCEPT !.status = "awaiting_review",
                                      !.pr = LiveOrCached(cur, answered)])
    /\ window' = [window EXCEPT ![cur] = "none"]
    /\ fin' = [fin EXCEPT ![cur] = "none"]
    /\ pc' = "rows" /\ cur' = NoTask
    /\ UNCHANGED <<gh, tracker, push, todo, snap, active, listed, gone, ops>>

\* Mutant: an answer that does not come counts as no PR.
MayLeaveUnread(t, answered) == ~answered \/ gh[t] \in {"none", "merged"}

\* A reviewed run whose task left the tracker is done when its PR merged, or
\* when no PR of it can be found; an unmerged PR only earns it a note.
MayLeave(t, answered) ==
    \/ snap[t].pr = "none" /\ ~(answered /\ gh[t] # "none")
    \/ answered /\ gh[t] = "merged"

LeaveReview(t) ==
    /\ VisitRow(t) /\ ~Settled(t) /\ t \in gone /\ snap[t].status \in Review
    /\ \E answered \in BOOLEAN :
         LET pr == LiveOrCached(t, answered)
         IN  IF MayLeave(t, answered)
               THEN Finish(t, [row[t] EXCEPT !.status = "done", !.pr = pr])
               ELSE /\ Update(t, [row[t] EXCEPT !.pr = pr])
                    /\ UNCHANGED <<window, push, fin>>
    /\ UNCHANGED <<gh, pc, cur>>

InWork(t) == ~Settled(t) /\ ~Asked(t) /\ ~(t \in gone /\ snap[t].status \in Review)

\* An unreviewed run whose task left the tracker is done only if its PR merged.
LeaveWork(t) ==
    /\ VisitRow(t) /\ InWork(t) /\ t \in gone /\ snap[t].status \in Active \cup {"failed"}
    /\ gh[t] = "merged" \/ snap[t].pr = "merged"
    /\ Finish(t, [row[t] EXCEPT !.status = "done", !.pr = "merged"])
    /\ UNCHANGED <<gh, pc, cur>>

\* A first dispatch fails; a rework goes back to be re-spawned.
AgentFailed(t, attempt) ==
    IF IsRework(snap[t])
      THEN ReworkFailed(t)
      ELSE Update(t, [row[t] EXCEPT !.status = "failed", !.attempt = attempt])

\* Without a window to die in, the attempt is over; one lost to a tmux restart
\* is not counted.
WindowGone(t) ==
    /\ VisitRow(t) /\ InWork(t)
    /\ snap[t].status = "running" /\ ~Live(t)
    /\ AgentFailed(t, IF window[t] = "lost" THEN snap[t].attempt - 1 ELSE snap[t].attempt)
    /\ UNCHANGED <<gh, window, push, fin, pc, cur>>

\* The watchdog nudges an agent idle at its prompt, and gives up on the run
\* when the nudge changed nothing.
WatchdogNudge(t) ==
    /\ VisitRow(t) /\ InWork(t)
    /\ snap[t].status = "running" /\ window[t] = "idle" /\ ~snap[t].nudged
    /\ Update(t, [row[t] EXCEPT !.nudged = TRUE])
    /\ \E stirred \in {"idle", "busy"} : window' = [window EXCEPT ![t] = stirred]
    /\ UNCHANGED <<gh, push, fin, pc, cur>>

WatchdogFail(t) ==
    /\ VisitRow(t) /\ InWork(t)
    /\ snap[t].status = "running" /\ window[t] = "idle" /\ snap[t].nudged
    /\ AgentFailed(t, row[t].attempt)
    /\ UNCHANGED <<gh, window, push, fin, pc, cur>>

\* Nothing to reconcile, or not yet: the agent is at work, parked, or its idle
\* clock has not run out.
LeaveAlone(t) ==
    /\ VisitRow(t) /\ InWork(t)
    /\ snap[t].status # "running" \/ Live(t)
    /\ UNCHANGED <<row, gh, window, push, fin, pc, cur>>

EndRows ==
    /\ pc = "rows" /\ todo = {}
    /\ pc' = "reap"
    /\ UNCHANGED <<row, world, todo, snap, cur, active, listed, gone, ops>>

\* Mutant: closed runs are not reaped.
ReapableDone(t) == row[t].status = "done" /\ row[t].wid /\ Live(t)

\* Kill the windows of runs that are over. It goes by the recorded window id.
Reapable(t) == row[t].status \in {"done", "closed"} /\ row[t].wid /\ Live(t)

Reap ==
    /\ pc = "reap"
    /\ window' = [t \in Tasks |->
                    IF Reapable(t) THEN "none" ELSE window[t]]
    /\ snap' = row
    /\ todo' = {t \in Tasks : row[t].status = "awaiting_review" /\ row[t].pr = "open"}
    /\ pc' = "review"
    /\ UNCHANGED <<row, gh, tracker, push, fin, cur, active, listed, gone, ops>>

-----------------------------------------------------------------------------
(* Red checks and base conflicts on the runs under review. Each is charged *)
(* on the row first, then sent back with request_changes, which refuses a  *)
(* run that is no longer under review; a refused charge is undone.         *)

VisitReview(t) == pc = "review" /\ Visit(t) /\ UNCHANGED <<world, active, listed, gone, ops>>

RedCI(t) ==
    /\ VisitReview(t) /\ "ci" \notin snap[t].tried
    /\ Update(t, [row[t] EXCEPT !.tried = @ \cup {"ci"}, !.infra = Bump(@)])
    /\ pc' = "sendInfra" /\ cur' = t

\* A red whose jobs never ran burns the head and charges nothing. A streak of them
\* is escalated: the row is not done with.
RedAtSetup(t) ==
    /\ pc = "review" /\ t \in todo
    /\ "ci" \notin snap[t].tried \cup row[t].tried
    /\ Update(t, [row[t] EXCEPT !.tried = @ \cup {"ci"}])
    /\ UNCHANGED <<world, local, ops>>

\* A PR that conflicts with its base: the daemon tries the merge itself, which
\* outlives its read of the row, and sends the run back only if that fails.
Conflicting(t) == pc = "review" /\ t \in todo /\ "conflict" \notin snap[t].tried

BaseConflict(t) ==
    /\ Conflicting(t) /\ VisitReview(t)
    /\ Update(t, [row[t] EXCEPT !.tried = @ \cup {"conflict"},
                                !.conflicts = IF @ < FreeConflicts THEN @ + 1 ELSE @])
    /\ pc' = IF snap[t].conflicts < FreeConflicts THEN "sendConflict" ELSE "sendReview"
    /\ cur' = t

\* It merged, which moves the head, or there was nothing to merge.
BaseMerged(t) ==
    /\ Conflicting(t) /\ VisitReview(t)
    /\ \E burnt \in {{}, row[t].tried \cup {"conflict"}} :
         Update(t, [row[t] EXCEPT !.tried = burnt])
    /\ UNCHANGED <<pc, cur>>

\* It merged but its tests could not start. The row is not done with: out of its
\* infrastructure budget, EscalateReview follows.
BaseInfra(t) ==
    /\ Conflicting(t)
    /\ row[t].status = "awaiting_review" /\ "conflict" \notin row[t].tried
    /\ Update(t, [row[t] EXCEPT !.tried = @ \cup {"conflict"}, !.infra = Bump(@)])
    /\ UNCHANGED <<world, local, ops>>

\* request_changes: only a run under review can fail it.
RequestChanges(t, cause) ==
    /\ row[t].status = "awaiting_review"
    /\ Update(t, [row[t] EXCEPT !.status = "changes_requested", !.cause = cause])

SendCause == CASE pc = "sendInfra" -> "infra"
               [] pc = "sendConflict" -> "conflict"
               [] OTHER -> "review"

Sending == pc \in {"sendInfra", "sendConflict", "sendReview"}

EndSend ==
    /\ pc' = "review" /\ cur' = NoTask
    /\ UNCHANGED <<world, todo, snap, active, listed, gone, ops>>

SendBack ==
    /\ Sending
    /\ RequestChanges(cur, SendCause)
    /\ EndSend

\* The charge is taken back; nobody else has moved these counters meanwhile. A
\* burnt head stays burnt for a red, not for a conflict.
SendRefused ==
    /\ Sending
    /\ row[cur].status # "awaiting_review"
    /\ CASE pc = "sendInfra" ->
              Update(cur, [row[cur] EXCEPT !.infra = IF @ > 0 THEN @ - 1 ELSE @])
         [] pc = "sendConflict" ->
              Update(cur, [row[cur] EXCEPT !.conflicts = IF @ > 0 THEN @ - 1 ELSE @,
                                           !.tried = @ \ {"conflict"}])
         [] OTHER -> Update(cur, [row[cur] EXCEPT !.tried = @ \ {"conflict"}])
    /\ EndSend

\* An infrastructure streak, checks that never settle, or a base merge whose
\* tests cannot start: the run is handed to a human, on the snapshot's word.
EscalateReview(t) ==
    /\ VisitReview(t)
    /\ Escalated(t)
    /\ UNCHANGED <<pc, cur>>

ReviewQuiet(t) == VisitReview(t) /\ UNCHANGED <<row, pc, cur>>

EndReview ==
    /\ pc = "review" /\ todo = {}
    /\ snap' = row /\ todo' = WithStatus({"changes_requested"})
    /\ pc' = "caps"
    /\ UNCHANGED <<row, world, cur, active, listed, gone, ops>>

-----------------------------------------------------------------------------
(* Step 1d: the runs that are out of rounds.                               *)

VisitCaps(t) == pc = "caps" /\ Visit(t) /\ UNCHANGED <<active, listed, gone, ops>>

CapEscalate(t) ==
    /\ VisitCaps(t)
    /\ InfraCapReached(snap[t]) \/ (ReviewCapReached(snap[t]) /\ snap[t].capReq)
    /\ Escalated(t)
    /\ UNCHANGED <<world, pc, cur>>

\* What close_run accepts: a status that closes, or a closed run to requeue.
CloseAllowed(r, requeue) ==
    /\ r.status \in Closable \/ (requeue /\ r.status = "closed" /\ ~r.requeue)
    /\ r.pr # "merged"

\* close_run's writes: the row, the window, and the PR if it is asked to and can.
CloseRow(t, requeue) ==
    Update(t, [row[t] EXCEPT !.status = "closed", !.requeue = requeue])

ClosePr(t, asked) ==
    \/ UNCHANGED gh
    \/ asked /\ row[t].pr \in {"unread", "open"} /\ gh[t] = "open"
         /\ gh' = [gh EXCEPT ![t] = "closed"]

KillWindow(t) == window' = [window EXCEPT ![t] = IF Live(t) THEN "none" ELSE @]

\* The first exhaustion of the review budget closes the PR and re-queues the
\* task; the row is marked for it only once close_run is through with GitHub.
CapRequeue(t) ==
    /\ VisitCaps(t)
    /\ ~InfraCapReached(snap[t]) /\ ReviewCapReached(snap[t]) /\ ~snap[t].capReq
    /\ IF CloseAllowed(row[t], TRUE)
         THEN /\ CloseRow(t, TRUE) /\ KillWindow(t) /\ ClosePr(t, TRUE)
              /\ pc' = "capMark" /\ cur' = t
         ELSE UNCHANGED <<row, window, gh, pc, cur>>
    /\ UNCHANGED <<tracker, push, fin>>

CapMark ==
    /\ pc = "capMark"
    /\ Update(cur, [row[cur] EXCEPT !.capReq = TRUE])
    /\ pc' = "caps" /\ cur' = NoTask
    /\ UNCHANGED <<world, todo, snap, active, listed, gone, ops>>

HasBudget(t) ==
    /\ VisitCaps(t)
    /\ ~InfraCapReached(snap[t]) /\ ~ReviewCapReached(snap[t])
    /\ UNCHANGED <<row, world, pc, cur>>

EndCaps ==
    /\ pc = "caps" /\ todo = {}
    /\ pc' = "count"
    /\ UNCHANGED <<row, world, todo, snap, cur, active, listed, gone, ops>>

-----------------------------------------------------------------------------
(* Dispatch: the slots are counted once, then reworks and fresh claims are *)
(* launched against that count.                                            *)

EndTick ==
    /\ pc' = "idle" /\ todo' = {} /\ snap' = [t \in Tasks |-> NoRow]
    /\ cur' = NoTask /\ active' = 0 /\ listed' = {} /\ gone' = {}

\* Mutant: the hold stops the tick before its caps are applied.
HeldEarly ==
    /\ pc = "caps"
    /\ EndTick
    /\ UNCHANGED <<row, world, ops>>

\* A broken WORKFLOW.md or a hold stops the tick here.
Held ==
    /\ pc = "count"
    /\ EndTick
    /\ UNCHANGED <<row, world, ops>>

\* Mutant: a claimed row takes no slot.
CountRunning ==
    /\ pc = "count"
    /\ active' = Cardinality(WithStatus({"running"}))
    /\ pc' = "judge"
    /\ UNCHANGED <<row, world, todo, snap, cur, listed, gone, ops>>

CountSlots ==
    /\ pc = "count"
    /\ active' = Cardinality(ActiveRuns)
    /\ pc' = "judge"
    /\ UNCHANGED <<row, world, todo, snap, cur, listed, gone, ops>>

\* The judge phase runs between the count and this SELECT.
SelectReworks ==
    /\ pc = "judge"
    /\ snap' = row /\ todo' = WithStatus({"changes_requested"})
    /\ pc' = "rework"
    /\ UNCHANGED <<row, world, cur, active, listed, gone, ops>>

VisitRework(t) ==
    /\ pc = "rework" /\ active < MaxConcurrent
    /\ t \in todo /\ todo' = todo \ {t}
    /\ UNCHANGED <<world, active, listed, gone, ops>>

\* The respawn's one write, on the word of the snapshot.
Respawn(t) ==
    /\ VisitRework(t)
    /\ Update(t, [row[t] EXCEPT
                    !.status = "running", !.rework = TRUE, !.wid = FALSE, !.nudged = FALSE,
                    !.review = IF snap[t].cause = "infra" THEN snap[t].review
                                                          ELSE Bump(snap[t].review)])
    /\ pc' = "launchRework" /\ cur' = t
    /\ UNCHANGED snap

\* The branch is gone, or git cannot attach a worktree for it.
RespawnEscalates(t) ==
    /\ VisitRework(t)
    /\ Escalated(t)
    /\ snap' = [snap EXCEPT ![t] = NoRow]
    /\ UNCHANGED <<pc, cur>>

\* The respawn raises before its write: a prompt that does not render, a git
\* call that times out.
RespawnAborts(t) ==
    /\ VisitRework(t)
    /\ ReworkFailed(t)
    /\ snap' = [snap EXCEPT ![t] = NoRow]
    /\ UNCHANGED <<pc, cur>>

EndReworks ==
    /\ pc = "rework" /\ (todo = {} \/ active >= MaxConcurrent)
    /\ pc' = "claim"
    /\ \/ active < MaxConcurrent /\ todo' = listed
       \/ todo' = {}                          \* no slot, or over the disk budget
    /\ snap' = [t \in Tasks |-> NoRow]
    /\ UNCHANGED <<row, world, cur, active, listed, gone, ops>>

VisitClaim(t) ==
    /\ pc = "claim" /\ active < MaxConcurrent
    /\ t \in todo /\ todo' = todo \ {t}
    /\ UNCHANGED <<row, world, active, listed, gone, ops>>

NotForClaim(t) ==
    /\ VisitClaim(t) /\ ~RunWillRelaunch(row[t])
    /\ UNCHANGED <<pc, snap, cur>>

\* The row is read once; the worktree is made before it is written.
ReadForClaim(t) ==
    /\ VisitClaim(t) /\ RunWillRelaunch(row[t])
    /\ snap' = [snap EXCEPT ![t] = row[t]]
    /\ pc' = "worktree" /\ cur' = t

EndClaims ==
    /\ pc = "claim" /\ (todo = {} \/ active >= MaxConcurrent)
    /\ EndTick
    /\ UNCHANGED <<row, world, ops>>

Requeued == snap[cur].status = "closed"
NextAttempt == IF snap[cur].status = "none" \/ Requeued THEN 1 ELSE snap[cur].attempt + 1

\* Mutant: a requeue is not cleared.
UpsertedAsIs(r, s) == [r EXCEPT !.status = s, !.attempt = NextAttempt]

\* The upsert writes a row whether or not one is there; a requeue's clears it,
\* and its branch, worktree and PR are new ones.
Upserted(r, s) ==
    LET new == [r EXCEPT !.status = s, !.attempt = NextAttempt]
    IN  IF Requeued THEN Cleared(new) ELSE new

NewBranch ==
    IF Requeued
      THEN /\ gh' = [gh EXCEPT ![cur] = "none"]
           /\ window' = [window EXCEPT ![cur] = "none"]
           /\ push' = [push EXCEPT ![cur] = 0]
           /\ fin' = [fin EXCEPT ![cur] = "none"]
      ELSE UNCHANGED <<gh, window, push, fin>>

Claim ==
    /\ pc = "worktree"
    /\ Upsert(cur, [Upserted(row[cur], "claimed") EXCEPT !.wid = FALSE, !.nudged = FALSE])
    /\ NewBranch
    /\ pc' = "launchClaim"
    /\ UNCHANGED <<tracker, todo, snap, cur, active, listed, gone, ops>>

Launching == pc \in {"launchRework", "launchClaim"}
Seeding   == pc \in {"seedRework", "seedClaim"}
ForRework == pc \in {"launchRework", "seedRework"}

\* Same-named windows are killed, a new one is opened and its id recorded. The
\* agent sits at its prompt until it is seeded.
OpenWindow ==
    /\ Launching
    /\ window' = [window EXCEPT ![cur] = "idle"]
    /\ fin' = [fin EXCEPT ![cur] = IF @ = "own" THEN "stale" ELSE @]
    /\ Update(cur, [row[cur] EXCEPT !.wid = TRUE])
    /\ pc' = IF ForRework THEN "seedRework" ELSE "seedClaim"
    /\ UNCHANGED <<gh, tracker, push, todo, snap, cur, active, listed, gone, ops>>

EndLaunch ==
    /\ pc' = IF ForRework THEN "rework" ELSE "claim"
    /\ snap' = [snap EXCEPT ![cur] = NoRow]
    /\ cur' = NoTask
    /\ UNCHANGED <<tracker, todo, listed, gone, ops>>

\* Mutant: the launched agent is not counted.
SeedUncounted ==
    /\ Seeding /\ Live(cur)
    /\ window' = [window EXCEPT ![cur] = "busy"]
    /\ IF ForRework THEN UNCHANGED row ELSE SetStatus(cur, "running")
    /\ EndLaunch
    /\ UNCHANGED <<gh, push, fin, active>>

\* The seeded agent is at work. A claim's row is marked running only now.
Seed ==
    /\ Seeding /\ Live(cur)
    /\ window' = [window EXCEPT ![cur] = "busy"]
    /\ IF ForRework THEN UNCHANGED row ELSE SetStatus(cur, "running")
    /\ active' = active + 1
    /\ EndLaunch
    /\ UNCHANGED <<gh, push, fin>>

\* A hook, tmux or the seed failed.
LaunchFails ==
    /\ Launching \/ Seeding
    /\ IF ForRework THEN ReworkFailed(cur)
                    ELSE Upsert(cur, Upserted(row[cur], "failed"))
    /\ EndLaunch
    /\ UNCHANGED <<gh, window, push, fin, active>>

\* The worktree could not be made, or no branch name is left to take.
ClaimFails ==
    /\ pc = "worktree"
    /\ \E s \in {"failed", "needs_human"} : Upsert(cur, Upserted(row[cur], s))
    /\ NewBranch
    /\ EndLaunch
    /\ UNCHANGED active

\* The daemon dies, or is told to shut down: whatever it committed stays.
Crash ==
    /\ pc # "idle" /\ ops < MaxOps /\ ops' = ops + 1
    /\ EndTick
    /\ UNCHANGED <<row, world>>

-----------------------------------------------------------------------------
(* Everybody else. Each of these may fall between any two steps of a tick. *)
(* An agent acts only while it is at work, that is in a busy window.       *)

Outside == ops < MaxOps /\ ops' = ops + 1 /\ UNCHANGED local

\* The agent asks for its branch to be pushed; the request is a marker file.
RequestPush(t) ==
    /\ Outside
    /\ window[t] = "busy" /\ row[t].status \in Active
    /\ push' = [push EXCEPT ![t] = 1]
    /\ UNCHANGED <<row, gh, window, tracker, fin>>

RequestTaskFinished(t) ==
    /\ Outside
    /\ window[t] = "busy" /\ row[t].status \in Active
    /\ fin' = [fin EXCEPT ![t] = "own"]
    /\ UNCHANGED <<row, gh, window, tracker, push>>

\* An agent with nothing to push disputes the rework; if the head had moved it
\* goes back to review.
DisputeRework(t) ==
    /\ Outside
    /\ window[t] = "busy" /\ row[t].status = "running" /\ IsRework(row[t])
    /\ \/ SetStatus(t, "needs_human")
       \/ Update(t, [row[t] EXCEPT !.status = "awaiting_review", !.tried = {}])
    /\ window' = [window EXCEPT ![t] = "none"]
    /\ UNCHANGED <<gh, tracker, push, fin>>

AgentIdles(t) ==
    /\ Outside
    /\ window[t] = "busy"
    /\ window' = [window EXCEPT ![t] = "idle"]
    /\ UNCHANGED <<row, gh, tracker, push, fin>>

WindowDies(t) ==
    /\ Outside
    /\ Live(t)
    /\ window' = [window EXCEPT ![t] = "none"]
    /\ UNCHANGED <<row, gh, tracker, push, fin>>

TmuxRestarts ==
    /\ Outside
    /\ \E t \in Tasks : Live(t)
    /\ window' = [t \in Tasks |-> IF Live(t) THEN "lost" ELSE window[t]]
    /\ UNCHANGED <<row, gh, tracker, push, fin>>

\* Out of band: somebody merges or closes the PR, or finishes the task.
SettlePr(t) ==
    /\ Outside
    /\ gh[t] = "open"
    /\ \E s \in {"merged", "closed"} : gh' = [gh EXCEPT ![t] = s]
    /\ UNCHANGED <<row, window, tracker, push, fin>>

LeaveTracker(t) ==
    /\ Outside
    /\ t \in tracker
    /\ tracker' = tracker \ {t}
    /\ UNCHANGED <<row, gh, window, push, fin>>

\* A judge's or a reviewer's verdict.
Block(t) ==
    /\ Outside
    /\ RequestChanges(t, "review")
    /\ UNCHANGED world

\* chela close [--force] [--requeue]. Unforced it refuses a window whose agent
\* is not idle. A requeue closes the PR and needs no window gone.
CloseRun(t, force, requeue) ==
    /\ Outside
    /\ CloseAllowed(row[t], requeue)
    /\ force \/ window[t] # "busy"
    /\ CloseRow(t, requeue) /\ KillWindow(t) /\ ClosePr(t, requeue)
    /\ UNCHANGED <<tracker, push, fin>>

\* chela reopen: the PR's live head must be readable and not the one the judge
\* ruled on; a done run's PR must be open as well, and its task not struck.
Reopen(t) ==
    /\ Outside
    /\ row[t].status \in {"needs_human", "done"} /\ row[t].pr # "none"
    /\ row[t].status = "done" => gh[t] = "open" /\ t \in tracker
    /\ \E burnt \in {{}, row[t].tried} :
         Update(t, [row[t] EXCEPT !.status = "awaiting_review", !.tried = burnt])
    /\ UNCHANGED world

\* chela retry: one more round on the same head.
Retry(t) ==
    /\ Outside
    /\ row[t].status = "needs_human"
    /\ Update(t, [row[t] EXCEPT !.status = "changes_requested", !.retries = @ + 1,
                                !.cause = IF @ = "conflict" THEN "review" ELSE @])
    /\ UNCHANGED world

\* Dropping the row of a run in flight kills its agent and removes its worktree.
DeleteRun(t) ==
    /\ Outside
    /\ Exists(t)
    /\ Update(t, NoRow)
    /\ IF row[t].status \in Active
         THEN /\ KillWindow(t)
              /\ push' = [push EXCEPT ![t] = 0]
              /\ fin' = [fin EXCEPT ![t] = "none"]
         ELSE UNCHANGED <<window, push, fin>>
    /\ UNCHANGED <<gh, tracker>>

-----------------------------------------------------------------------------
Reconcile(t) ==
    \/ ReconcileMerged(t) \/ ReconcileClosed(t)
    \/ ApplyPush(t) \/ PushFails(t) \/ BeginHandIn(t)
    \/ LeaveReview(t) \/ LeaveWork(t)
    \/ WindowGone(t) \/ WatchdogNudge(t) \/ WatchdogFail(t) \/ LeaveAlone(t)

CheckReview(t) ==
    \/ RedCI(t) \/ RedAtSetup(t)
    \/ BaseConflict(t) \/ BaseMerged(t) \/ BaseInfra(t)
    \/ EscalateReview(t) \/ ReviewQuiet(t)

CheckCaps(t) == CapEscalate(t) \/ CapRequeue(t) \/ HasBudget(t)

StartRework(t) == Respawn(t) \/ RespawnEscalates(t) \/ RespawnAborts(t)

StartClaim(t) == NotForClaim(t) \/ ReadForClaim(t)

Launch == Claim \/ ClaimFails \/ OpenWindow \/ Seed \/ LaunchFails

Tick ==
    \/ StartTick
    \/ \E t \in Tasks : Reconcile(t)
    \/ CompleteHandIn \/ EndRows \/ Reap
    \/ \E t \in Tasks : CheckReview(t)
    \/ SendBack \/ SendRefused \/ EndReview
    \/ \E t \in Tasks : CheckCaps(t)
    \/ CapMark \/ EndCaps
    \/ Held \/ CountSlots \/ SelectReworks
    \/ \E t \in Tasks : StartRework(t)
    \/ EndReworks
    \/ \E t \in Tasks : StartClaim(t)
    \/ Launch \/ EndClaims

Agent(t)    == RequestPush(t) \/ RequestTaskFinished(t) \/ DisputeRework(t)
                 \/ AgentIdles(t) \/ WindowDies(t)
Elsewhere(t) == SettlePr(t) \/ LeaveTracker(t) \/ Block(t)
Operator(t) == \/ \E force, requeue \in BOOLEAN : CloseRun(t, force, requeue)
               \/ Reopen(t) \/ Retry(t) \/ DeleteRun(t)

Next ==
    \/ Tick
    \/ Crash \/ TmuxRestarts
    \/ \E t \in Tasks : Agent(t) \/ Elsewhere(t) \/ Operator(t)

Spec == Init /\ [][Next]_vars

-----------------------------------------------------------------------------
\* Every variable holds a value of its kind; a push request in particular never
\* records more failures than the daemon allows it (_bump_push_attempts).
TypeOK ==
    /\ row \in [Tasks -> Row]
    /\ gh \in [Tasks -> PrLive]
    /\ window \in [Tasks -> Windows]
    /\ tracker \subseteq Tasks
    /\ push \in [Tasks -> 0..PushAttempts]
    /\ fin \in [Tasks -> Markers]
    /\ pc \in {"idle", "rows", "handin", "reap", "review", "sendInfra", "sendConflict",
               "sendReview", "caps", "capMark", "count", "judge", "rework", "claim",
               "worktree", "launchRework", "launchClaim", "seedRework", "seedClaim"}
    /\ todo \subseteq Tasks
    /\ snap \in [Tasks -> Row]
    /\ cur \in Tasks \cup {NoTask}
    /\ active \in Nat
    /\ listed \subseteq Tasks /\ gone \subseteq Tasks
    /\ ops \in 0..MaxOps

-----------------------------------------------------------------------------
(* Safety.                                                                 *)

\* Claimed and running rows never outnumber the slots, whatever commands, crashes
\* and failed launches fall between the tick's one count and its last launch
\* (dispatcher.py, "it NEVER exceeds concurrency.max").
SlotBound == Cardinality(ActiveRuns) <= MaxConcurrent

\* Why: from the count to the end of the tick the tick's own number never falls
\* behind the rows that hold a slot, and a launch holds one in reserve for the
\* row it is writing. Nobody else can make a row active.
Counting == pc \in {"judge", "rework", "claim", "worktree"}

SlotsReserved ==
    /\ Counting => Cardinality(ActiveRuns) <= active
    /\ pc = "worktree" \/ Launching \/ Seeding => active < MaxConcurrent
    /\ Launching \/ Seeding => Cardinality(ActiveRuns \ {cur}) <= active

\* A rework never lands in `failed`, the state the claim loop re-dispatches from:
\* its verdict and its budgets would be lost (_rework_failed), even when a stale
\* snapshot, a requeue or a failed claim wrote the row last.
ReworkNeverFails == \A t \in Tasks : row[t].rework => row[t].status # "failed"

\* A task is never dispatched afresh more than MAX_ATTEMPTS times in a row, tmux
\* restarts being refunded and requeues starting over (run_will_relaunch).
AttemptBound == \A t \in Tasks : row[t].attempt <= MaxAttempts

\* The merged or closed state a row carries is the state of this attempt's own
\* PR on GitHub: a fresh attempt never inherits the PR of the one it replaces
\* (_clear_closed_attempt), and no stale write puts one back.
CachedPrIsTrue ==
    \A t \in Tasks : row[t].pr \in {"merged", "closed"} => gh[t] = row[t].pr

\* `done` is only written for work that shipped: the PR merged, or the task left
\* the tracker and no PR of it was ever recorded (tick, steps 1a, 1e and 1f).
DoneMeansShipped ==
    \A t \in Tasks : row[t].status = "done" =>
        gh[t] = "merged" \/ (row[t].pr = "none" /\ t \notin tracker)

-----------------------------------------------------------------------------
(* What a step may never do.                                                *)

\* A closed run is over unless it was requeued (close_run), except for the tick
\* that was working on it when it was closed: no later tick revives it.
Over(r) == r.status = "closed" /\ ~r.requeue

ClosedStays ==
    [][\A t \in Tasks :
          Over(row[t]) => \/ row'[t].status \in {"closed", "done", "none"}
                          \/ pc # "idle" /\ ~Over(snap[t])]_vars

-----------------------------------------------------------------------------
(* Liveness. The daemon ticks for ever, and GitHub answers again and again *)
(* for every PR; nothing is assumed of agents, operators or launches.      *)

RefreshAll ==
    /\ StartTick
    /\ \A t \in Tasks : row[t].pr \in {"unread", "open"} => row'[t].pr = gh[t]

Fairness == WF_vars(Tick) /\ SF_vars(RefreshAll)

FairSpec == Spec /\ Fairness

\* A run whose agent is gone gives its slot back, whatever markers it left.
DeadAgentSettles ==
    \A t \in Tasks : row[t].status = "running" /\ ~Live(t)
                       ~> row[t].status # "running" \/ Live(t)

\* A recorded PR that merged settles its run out of review.
MergedRunSettles ==
    \A t \in Tasks : row[t].status \in Review /\ row[t].pr # "none" /\ gh[t] = "merged"
                       ~> row[t].status \notin Review

\* A run out of rounds leaves the rework loop, even while dispatch is held.
SpentRunLeaves ==
    \A t \in Tasks :
        row[t].status = "changes_requested" /\ (InfraCapReached(row[t]) \/ ReviewCapReached(row[t]))
          ~> ~(row[t].status = "changes_requested"
                 /\ (InfraCapReached(row[t]) \/ ReviewCapReached(row[t])))

\* The window of a run that is over does not linger, though the run was closed
\* while its agent was being launched.
TerminalWindowReaped ==
    \A t \in Tasks : row[t].status \in {"done", "closed"} /\ Live(t)
                       ~> row[t].status \notin {"done", "closed"} \/ ~Live(t)

\* A launch that fails every time is tried only so often: the rounds run out.
LaunchFailuresEnd == <>[][~(LaunchFails /\ ForRework)]_vars
=============================================================================
