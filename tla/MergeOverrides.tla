-------------------------- MODULE MergeOverrides ---------------------------
(* Merging one pull request past the judge: the request an operator is      *)
(* asked to approve (contract.request_override), its life in overrides.py,  *)
(* the process that completes it (contract.complete_override) and the sweep *)
(* that expires it, while the head moves, the deadline passes and somebody  *)
(* else may merge. A request is a small file under a lock that is not held  *)
(* while the merge runs; the row's cached head is what the last tick wrote. *)
EXTENDS Integers, FiniteSets

CONSTANTS
    Requests,   \* identities of override requests
    Workers,    \* processes that may be completing an approved request
    MaxHead     \* how many heads the pull request goes through

ASSUME HeadAssumption == MaxHead \in Nat \ {0}
ASSUME AuthorityAssumption ==
    /\ Requests \cap {"nobody", "other"} = {}
    /\ Workers # {}

Heads == 1..MaxHead
NoHead == 0                     \* a NULL column

CI_POLL_STATUSES == {"awaiting_review", "changes_requested"}
OVERRIDE_STATUSES == CI_POLL_STATUSES \cup {"needs_human"}

FINAL_STATES == {"merged", "denied", "expired", "failed"}
Undecided == {"pending", "approved"}
Expirable == {"pending", "merging", "approved"}
States == {"unasked"} \cup Expirable \cup FINAL_STATES

VARIABLES
    head,       \* the pull request's head, on GitHub
    merged,     \* the head GitHub merged, and for whom
    row,        \* the run: status and cached head (pr_head_sha)
    polled,     \* the head a tick has read and not yet written, or NoHead
    req,        \* the request files: state, head, whether decided_by is set
    late,       \* the requests whose deadline has passed
    log,        \* requests with a merge_override event in the event log
    worker,     \* the completing processes: where each is, for which request
    sweeper     \* a sweep: the requests it still has to look at, those too late

vars == <<head, merged, row, polled, req, late, log, worker, sweeper>>

NotMerged == [head |-> NoHead, by |-> "nobody"]
IdleWorker == [pc |-> "idle", req |-> "nobody", out |-> "none"]
IdleSweeper == [todo |-> {}, late |-> {}]

Init ==
    /\ head = 1
    /\ merged = NotMerged
    /\ row = [status |-> "running", head |-> NoHead]
    /\ polled = NoHead
    /\ req = [r \in Requests |-> [state |-> "unasked", head |-> NoHead, decided |-> FALSE]]
    /\ late = {}
    /\ log = {}
    /\ worker = [w \in Workers |-> IdleWorker]
    /\ sweeper = IdleSweeper

-----------------------------------------------------------------------------
(* The run, as far as an override depends on it.                            *)

runVars == <<row, polled>>
overrideVars == <<req, late, log, worker>>

(* Somebody pushes: the agent, a human, a base merge.                       *)
Push ==
    /\ merged = NotMerged /\ head < MaxHead
    /\ head' = head + 1
    /\ UNCHANGED <<merged, runVars, overrideVars, sweeper>>

(* Phase 0 of a tick reads the heads of the open PRs under review from      *)
(* GitHub and only then starts to write. needs_human is not polled.         *)
PollHead ==
    /\ merged = NotMerged /\ polled = NoHead /\ row.status \in CI_POLL_STATUSES
    /\ polled' = head
    /\ UNCHANGED <<head, merged, row, overrideVars, sweeper>>

RefreshHead ==
    /\ polled # NoHead
    /\ row' = [row EXCEPT !.head = polled]
    /\ polled' = NoHead
    /\ UNCHANGED <<head, merged, overrideVars, sweeper>>

(* mark_awaiting_review forgets the cached head: it is the old round's. It  *)
(* and the respawn come after phase 0 in the same tick.                     *)
HandIn ==
    /\ row.status = "running" /\ polled = NoHead
    /\ row' = [row EXCEPT !.status = "awaiting_review", !.head = NoHead]
    /\ UNCHANGED <<head, merged, polled, overrideVars, sweeper>>

(* A reviewer's request_changes, and an operator's retry.                   *)
SendBack ==
    /\ row.status \in {"awaiting_review", "needs_human"}
    /\ row' = [row EXCEPT !.status = "changes_requested"]
    /\ UNCHANGED <<head, merged, polled, overrideVars, sweeper>>

Rework ==
    /\ row.status = "changes_requested" /\ polled = NoHead /\ merged = NotMerged
    /\ row' = [row EXCEPT !.status = "running"]
    /\ UNCHANGED <<head, merged, polled, overrideVars, sweeper>>

(* The loop gives up, the judge's last try fails, or the agent disputes.    *)
Escalate ==
    /\ row.status # "needs_human"
    /\ row' = [row EXCEPT !.status = "needs_human"]
    /\ UNCHANGED <<head, merged, polled, overrideVars, sweeper>>

(* reopen reads the live head. A dispute of a rework that was pushed is an  *)
(* escalation reopened at once.                                             *)
Reopen ==
    /\ row.status = "needs_human"
    /\ row' = [status |-> "awaiting_review", head |-> head]
    /\ UNCHANGED <<head, merged, polled, overrideVars, sweeper>>

(* An ordinary gated merge, or the button on GitHub.                        *)
OtherMerges ==
    /\ merged = NotMerged
    /\ merged' = [head |-> head, by |-> "other"]
    /\ UNCHANGED <<head, runVars, overrideVars, sweeper>>

-----------------------------------------------------------------------------
(* Override requests                                                        *)

SetState(r, s) == req' = [req EXCEPT ![r].state = s]

(* _finish: out of one of the states given, or not at all.                  *)
Finish(r, s, from) ==
    IF req[r].state \in from THEN SetState(r, s) ELSE UNCHANGED req

Expire(r) == Finish(r, "expired", Expirable)

(* request_override: the request is bound to the live head. An existing one *)
(* for this head is answered instead of a second one.                       *)
RequestOverride(r) ==
    /\ req[r].state = "unasked" /\ merged = NotMerged
    /\ row.status \in OVERRIDE_STATUSES
    /\ \A q \in Requests :
          ~(req[q].state = "pending" /\ q \notin late /\ req[q].head = head)
    /\ req' = [req EXCEPT ![r] = [state |-> "pending", head |-> head, decided |-> FALSE]]
    /\ UNCHANGED <<head, merged, runVars, late, log, worker, sweeper>>

DeadlinePasses(r) ==
    /\ req[r].state # "unasked" /\ r \notin late
    /\ late' = late \cup {r}
    /\ UNCHANGED <<head, merged, runVars, req, log, worker, sweeper>>

StartCompletion(w, r) ==
    /\ worker[w] = IdleWorker
    /\ worker' = [worker EXCEPT ![w] = [pc |-> "check", req |-> r, out |-> "none"]]

(* Mutant: a second press finds the request merging and approves it again.  *)
ApproveAgain(w, r) ==
    /\ req[r].state \in Expirable /\ r \notin late
    /\ req' = [req EXCEPT ![r].state = "merging", ![r].decided = TRUE]
    /\ StartCompletion(w, r)
    /\ UNCHANGED <<head, merged, runVars, late, log, sweeper>>

(* decide(approve): under the lock, only while undecided and in time.       *)
Approve(w, r) ==
    /\ req[r].state \in Undecided /\ r \notin late
    /\ req' = [req EXCEPT ![r].state = "merging", ![r].decided = TRUE]
    /\ StartCompletion(w, r)
    /\ UNCHANGED <<head, merged, runVars, late, log, sweeper>>

Deny(r) ==
    /\ req[r].state \in Undecided /\ r \notin late
    /\ req' = [req EXCEPT ![r].state = "denied", ![r].decided = TRUE]
    /\ UNCHANGED <<head, merged, runVars, late, log, worker, sweeper>>

(* A decision that comes too late expires the request.                      *)
DecideTooLate(r) ==
    /\ req[r].state \in Undecided /\ r \in late
    /\ Expire(r)
    /\ UNCHANGED <<head, merged, runVars, late, log, worker, sweeper>>

(* resume: the daemon retries a deferred approval under the same approval.  *)
Resume(w, r) ==
    /\ req[r].state = "approved" /\ r \notin late
    /\ SetState(r, "merging")
    /\ StartCompletion(w, r)
    /\ UNCHANGED <<head, merged, runVars, late, log, sweeper>>

-----------------------------------------------------------------------------
(* complete_override, in the process that approved or retried               *)

WorkerMoves(w, pc) == worker' = [worker EXCEPT ![w].pc = pc]
Concludes(w, out) == worker' = [worker EXCEPT ![w].pc = "finish", ![w].out = out]
completion == <<head, runVars, req, late, sweeper>>

AlreadyMerged(w) ==
    /\ worker[w].pc = "check" /\ merged # NotMerged
    /\ Concludes(w, "merged")
    /\ UNCHANGED <<completion, merged, log>>

(* The row is read before anything else: its status must still allow it.    *)
NotYetMerged(w) ==
    /\ worker[w].pc = "check" /\ merged = NotMerged
    /\ row.status \in OVERRIDE_STATUSES
    /\ WorkerMoves(w, "gate")
    /\ UNCHANGED <<completion, merged, log>>

(* Mutant: the audit is left for after the merge.                           *)
OverrideHoldsUnrecorded(w) ==
    /\ worker[w].pc = "gate" /\ head = req[worker[w].req].head /\ merged = NotMerged
    /\ WorkerMoves(w, "merge")
    /\ UNCHANGED <<completion, merged, log>>

(* The gate without its judge clause, against the live head.                *)
HeadMoved(w) ==
    /\ worker[w].pc = "gate" /\ head # req[worker[w].req].head
    /\ Concludes(w, "expired")
    /\ UNCHANGED <<completion, merged, log>>

MergeableUnknown(w) ==
    /\ worker[w].pc = "gate" /\ head = req[worker[w].req].head /\ merged = NotMerged
    /\ Concludes(w, "approved")
    /\ UNCHANGED <<completion, merged, log>>

OverrideHolds(w) ==
    /\ worker[w].pc = "gate" /\ head = req[worker[w].req].head /\ merged = NotMerged
    /\ WorkerMoves(w, "record")
    /\ UNCHANGED <<completion, merged, log>>

(* The audit is written before the merge.                                   *)
RecordOverride(w) ==
    /\ worker[w].pc = "record"
    /\ log' = log \cup {worker[w].req}
    /\ WorkerMoves(w, "merge")
    /\ UNCHANGED <<completion, merged>>

(* Mutant: gh pr merge without --match-head-commit.                         *)
OverrideMergesAnyHead(w) ==
    /\ worker[w].pc = "merge" /\ merged = NotMerged
    /\ merged' = [head |-> head, by |-> worker[w].req]
    /\ \E out \in {"merged", "failed"} : Concludes(w, out)
    /\ UNCHANGED <<completion, log>>

(* gh pr merge --match-head-commit: GitHub merges that head or refuses. It  *)
(* may have merged although gh was killed by its timeout.                   *)
OverrideMerges(w) ==
    /\ worker[w].pc = "merge" /\ merged = NotMerged
    /\ head = req[worker[w].req].head
    /\ merged' = [head |-> head, by |-> worker[w].req]
    /\ \E out \in {"merged", "failed"} : Concludes(w, out)
    /\ UNCHANGED <<completion, log>>

(* gh pr merge of a PR somebody else has just merged succeeds.              *)
MergedMeanwhile(w) ==
    /\ worker[w].pc = "merge" /\ merged # NotMerged
    /\ Concludes(w, "merged")
    /\ UNCHANGED <<completion, merged, log>>

(* Mutant: a failure is reported under a name that is no request state.     *)
OverrideErrs(w) ==
    /\ worker[w].pc \in {"check", "gate", "record", "merge"}
    /\ Concludes(w, "error")
    /\ UNCHANGED <<completion, merged, log>>

(* Any clause of the gate, the base, gh, or an exception.                   *)
OverrideFails(w) ==
    /\ worker[w].pc \in {"check", "gate", "record", "merge"}
    /\ Concludes(w, "failed")
    /\ UNCHANGED <<completion, merged, log>>

(* The end of _complete: an expiry may come out of several states, anything *)
(* else only out of merging.                                                *)
FinishCompletion(w) ==
    /\ worker[w].pc = "finish"
    /\ LET r == worker[w].req IN
       IF worker[w].out = "expired" THEN Expire(r)
                                    ELSE Finish(r, worker[w].out, {"merging"})
    /\ worker' = [worker EXCEPT ![w] = IdleWorker]
    /\ UNCHANGED <<head, merged, runVars, late, log, sweeper>>

(* The process dies and leaves its request merging.                         *)
WorkerDies(w) ==
    /\ worker[w] # IdleWorker
    /\ worker' = [worker EXCEPT ![w] = IdleWorker]
    /\ UNCHANGED <<completion, merged, log>>

-----------------------------------------------------------------------------
(* sweep: the request files and the clock are read once, each is acted on   *)
(* later. It runs in the daemon, the dashboard, the bridge and the CLI.     *)

(* Mutant: deferred approvals are left to resume, which refuses late ones.  *)
StartSweepPending ==
    /\ sweeper = IdleSweeper
    /\ \E r \in Requests : req[r].state = "pending"
    /\ sweeper' = [todo |-> {r \in Requests : req[r].state = "pending"}, late |-> late]
    /\ UNCHANGED <<head, merged, runVars, overrideVars>>

StartSweep ==
    /\ sweeper = IdleSweeper
    /\ \E r \in Requests : req[r].state \in Undecided
    /\ sweeper' = [todo |-> {r \in Requests : req[r].state \in Undecided}, late |-> {r \in late : req[r].state \in Undecided}]
    /\ UNCHANGED <<head, merged, runVars, overrideVars>>

Outdated(r) ==
    \/ r \in sweeper.late
    \/ row.head # NoHead /\ row.head # req[r].head

SweepOne(r) ==
    /\ r \in sweeper.todo
    /\ IF Outdated(r) THEN Expire(r) ELSE UNCHANGED req
    /\ sweeper' = IF sweeper.todo = {r} THEN IdleSweeper
                  ELSE [sweeper EXCEPT !.todo = @ \ {r}]
    /\ UNCHANGED <<head, merged, runVars, late, log, worker>>

-----------------------------------------------------------------------------
Run ==
    \/ Push \/ PollHead \/ RefreshHead \/ HandIn \/ SendBack \/ Rework
    \/ Escalate \/ Reopen \/ OtherMerges

Operator(r) ==
    \/ RequestOverride(r) \/ DeadlinePasses(r) \/ Deny(r) \/ DecideTooLate(r)
    \/ \E w \in Workers : Approve(w, r) \/ Resume(w, r)

Complete(w) ==
    \/ AlreadyMerged(w) \/ NotYetMerged(w) \/ HeadMoved(w) \/ MergeableUnknown(w)
    \/ OverrideHolds(w) \/ RecordOverride(w) \/ OverrideMerges(w)
    \/ MergedMeanwhile(w) \/ OverrideFails(w) \/ FinishCompletion(w)

Sweep == StartSweep \/ \E r \in Requests : SweepOne(r)

Next ==
    \/ Run \/ Sweep
    \/ \E r \in Requests : Operator(r)
    \/ \E w \in Workers : Complete(w) \/ WorkerDies(w)

Spec == Init /\ [][Next]_vars

(* Time passes, the daemon sweeps after every tick, and a process that has  *)
(* not died goes on. Nobody is obliged to push, ask, decide or merge.       *)
Fairness ==
    /\ WF_vars(StartSweep)
    /\ \A r \in Requests : WF_vars(DeadlinePasses(r)) /\ WF_vars(SweepOne(r))
    /\ \A w \in Workers : WF_vars(Complete(w))

FairSpec == Spec /\ Fairness

-----------------------------------------------------------------------------
(* Properties                                                               *)

RequestFile == [state : States, head : Heads \cup {NoHead}, decided : BOOLEAN]
Process == [pc : {"idle", "check", "gate", "record", "merge", "finish"},
            req : Requests \cup {"nobody"},
            out : {"none", "merged", "failed", "expired", "approved"}]

(* The variables stay within their ranges; a completing process in          *)
(* particular never ends with an outcome that is not a request state.       *)
TypeOK ==
    /\ head \in Heads
    /\ merged \in [head : Heads \cup {NoHead}, by : Requests \cup {"nobody", "other"}]
    /\ row \in [status : OVERRIDE_STATUSES \cup {"running"}, head : Heads \cup {NoHead}]
    /\ polled \in Heads \cup {NoHead}
    /\ req \in [Requests -> RequestFile]
    /\ late \subseteq Requests
    /\ log \subseteq Requests
    /\ worker \in [Workers -> Process]
    /\ sweeper \in [todo : SUBSET Requests, late : SUBSET Requests]

Active(w) == worker[w].pc # "idle"

(* One approval, one merge attempt at a time: a request being completed is  *)
(* merging, or was expired under the merge, and no second process completes *)
(* it. Approvals from two buttons, the daemon's retry, a deadline and a     *)
(* sweep may all meet (overrides.decide, resume and _finish).               *)
OneCompletion ==
    \A w \in Workers : Active(w) =>
        /\ req[worker[w].req].state \in {"merging", "expired"}
        /\ req[worker[w].req].decided
        /\ \A v \in Workers \ {w} : worker[v].req # worker[w].req

(* A merge past the judge is on record by the time GitHub shows it merged,  *)
(* wherever the merging process dies (contract.complete_override).          *)
OverrideOnRecord == merged.by \in Requests => merged.by \in log

(* Overrides keep the promise of MergeLedger: one grant and one    *)
(* ending per request, endings are final, and a merge made for a request is *)
(* of its head and under a grant that was not taken back.                   *)
Ledger == INSTANCE MergeLedger WITH
    Others <- {"other"},
    asked <- [r \in Requests |-> req[r].head],
    granted <- {r \in Requests : req[r].decided /\ req[r].state # "denied"},
    outcome <- [r \in Requests |-> IF req[r].state \in FINAL_STATES
                                   THEN req[r].state ELSE "open"]

LedgerKept == Ledger!Spec

(* Every request ends, unless the process completing it died: a deferred    *)
(* approval is not retried for ever, a forgotten request expires            *)
(* (overrides.sweep, retry_approved).                                       *)
RequestSettles ==
    \A r \in Requests :
        req[r].state # "unasked" ~>
            \/ req[r].state \in FINAL_STATES
            \/ req[r].state = "merging" /\ \A w \in Workers : worker[w].req # r
=============================================================================
