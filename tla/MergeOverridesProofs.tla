------------------------ MODULE MergeOverridesProofs ------------------------
(* That completions never meet, that overrides are on record, and that      *)
(* MergeOverrides implements MergeLedger, for any requests, processes and   *)
(* number of heads.                                                         *)
EXTENDS MergeOverrides, TLAPS

Idle(w) == worker[w] = IdleWorker

\* A process is idle, or completes some request.
WorkersOK == \A w \in Workers : Idle(w) \/ (Active(w) /\ worker[w].req \in Requests)

\* A request that was never asked names no head and carries no decision; one
\* that is merging or deferred carries one.
AskedOK ==
    \A r \in Requests :
        /\ (req[r].state = "unasked") <=> (req[r].head = NoHead)
        /\ req[r].state = "unasked" => ~req[r].decided
        /\ req[r].state \in {"merging", "approved"} => req[r].decided

\* Whoever merged has gone past every state from which a request can still be
\* decided, and did so with the audit written.
MergerOK ==
    \A r \in Requests : merged.by = r =>
        r \in log /\ req[r].state \in {"merging", "expired", "merged", "failed"}

\* What a completing process still owes.
CompletionOK ==
    \A w \in Workers : Active(w) =>
        /\ worker[w].pc \in {"check", "gate", "record", "merge"} => merged.by # worker[w].req
        /\ worker[w].pc = "merge" => worker[w].req \in log
        /\ worker[w].pc = "finish" =>
             /\ worker[w].out # "none"
             /\ worker[w].out = "merged" => merged # NotMerged
             /\ worker[w].out \in {"approved", "expired"} => merged.by # worker[w].req

IInv == TypeOK /\ WorkersOK /\ AskedOK /\ MergerOK /\ CompletionOK /\ OneCompletion

\* What the step lemmas keep besides the types.
Rest == WorkersOK /\ AskedOK /\ MergerOK /\ CompletionOK /\ OneCompletion

-----------------------------------------------------------------------------
LEMMA InitInv == ASSUME Init PROVE IInv
<1>1. TypeOK
  BY HeadAssumption
     DEF Init, TypeOK, RequestFile, Process, Heads, NoHead, NotMerged, IdleWorker, IdleSweeper, OVERRIDE_STATUSES, CI_POLL_STATUSES, States
<1>2. WorkersOK /\ AskedOK
  BY DEF Init, WorkersOK, AskedOK, Idle
<1>3. MergerOK
  BY AuthorityAssumption DEF Init, MergerOK, NotMerged
<1>4. CompletionOK /\ OneCompletion
  BY DEF Init, CompletionOK, OneCompletion, Active, IdleWorker
<1> QED
  BY <1>1, <1>2, <1>3, <1>4 DEF IInv

-----------------------------------------------------------------------------
(* Types                                                                    *)

\* A request file that changes its state stays well-typed.
LEMMA FinishType ==
    ASSUME TypeOK, NEW r \in Requests, NEW s \in States, NEW from, Finish(r, s, from)
    PROVE  req' \in [Requests -> RequestFile]
<1>1. req[r] \in RequestFile
  BY DEF TypeOK
<1>2. [req[r] EXCEPT !.state = s] \in RequestFile
  BY <1>1 DEF RequestFile
<1> QED
  BY <1>2 DEF Finish, SetState, TypeOK

\* The run's steps keep the types.
LEMMA RunType == ASSUME TypeOK, Run PROVE TypeOK'
<1>1. head' \in Heads /\ polled' \in Heads \cup {NoHead}
  BY HeadAssumption
     DEF TypeOK, Run, Push, PollHead, RefreshHead, HandIn, SendBack, Rework, Escalate, Reopen, OtherMerges, runVars,
         Heads, NoHead
<1>2. row' \in [status : OVERRIDE_STATUSES \cup {"running"}, head : Heads \cup {NoHead}]
  <2> DEFINE S == OVERRIDE_STATUSES \cup {"running"}
             H == Heads \cup {NoHead}
             R == [status : S, head : H]
  <2>1. {"running", "awaiting_review", "changes_requested", "needs_human"} \subseteq S
    BY DEF OVERRIDE_STATUSES, CI_POLL_STATUSES
  <2>2. row \in R /\ head \in H /\ polled \in H /\ NoHead \in H
    BY DEF TypeOK
  <2> HIDE DEF S, H
  <2>3. \A s \in {"changes_requested", "running", "needs_human"} : [row EXCEPT !.status = s] \in R
    BY <2>1, <2>2
  <2>4. /\ [row EXCEPT !.head = polled] \in R
        /\ [row EXCEPT !.status = "awaiting_review", !.head = NoHead] \in R
        /\ [status |-> "awaiting_review", head |-> head] \in R
    BY <2>1, <2>2
  <2> HIDE DEF R
  <2> SUFFICES row' \in R
    BY DEF R, S, H
  <2>5. CASE Push \/ PollHead \/ OtherMerges
    BY <2>2, <2>5 DEF Push, PollHead, OtherMerges, runVars
  <2>6. CASE RefreshHead \/ HandIn \/ Reopen
    BY <2>4, <2>6 DEF RefreshHead, HandIn, Reopen
  <2>7. CASE SendBack \/ Rework \/ Escalate
    BY <2>3, <2>7 DEF SendBack, Rework, Escalate
  <2> QED
    BY <2>5, <2>6, <2>7 DEF Run
<1>3. merged' \in [head : Heads \cup {NoHead}, by : Requests \cup {"nobody", "other"}]
  BY DEF TypeOK, Run, Push, PollHead, RefreshHead, HandIn, SendBack, Rework, Escalate, Reopen, OtherMerges
<1>4. UNCHANGED <<req, late, log, worker, sweeper>>
  BY DEF Run, Push, PollHead, RefreshHead, HandIn, SendBack, Rework, Escalate, Reopen, OtherMerges, overrideVars
<1> QED
  BY <1>1, <1>2, <1>3, <1>4 DEF TypeOK

\* So do the operator's.
LEMMA OperatorType == ASSUME TypeOK, NEW r \in Requests, Operator(r) PROVE TypeOK'
<1>1. UNCHANGED <<head, merged, row, polled, log, sweeper>> /\ late' \in SUBSET Requests
  BY DEF TypeOK, Operator, RequestOverride, DeadlinePasses, Deny, DecideTooLate, Approve, Resume,
         runVars
<1>2. req' \in [Requests -> RequestFile]
  <2>1. {"pending", "merging", "denied", "expired"} \subseteq States
    BY DEF States, Expirable, FINAL_STATES
  <2>2. \A s \in {"merging", "denied"} :
          /\ [req[r] EXCEPT !.state = s] \in RequestFile
          /\ [req[r] EXCEPT !.state = s, !.decided = TRUE] \in RequestFile
    <3>1. req[r] \in RequestFile
      BY DEF TypeOK
    <3> QED
      BY <2>1, <3>1 DEF RequestFile
  <2>3. CASE DecideTooLate(r)
    BY <2>1, <2>3, FinishType DEF DecideTooLate, Expire
  <2>4. CASE RequestOverride(r)
    <3>1. [state |-> "pending", head |-> head, decided |-> FALSE] \in RequestFile
      BY <2>1 DEF TypeOK, RequestFile
    <3> QED
      BY <2>4, <3>1 DEF RequestOverride, TypeOK
  <2>5. CASE DeadlinePasses(r)
    BY <2>5 DEF DeadlinePasses, TypeOK
  <2>6. CASE Deny(r)
    BY <2>6, <2>2 DEF Deny, TypeOK
  <2>7. ASSUME NEW w \in Workers, Approve(w, r) \/ Resume(w, r)
        PROVE  req' \in [Requests -> RequestFile]
    <3>1. CASE Approve(w, r)
      BY <2>2, <3>1 DEF Approve, TypeOK
    <3>2. CASE Resume(w, r)
      BY <2>2, <3>2 DEF Resume, SetState, TypeOK
    <3> QED
      BY <2>7, <3>1, <3>2
  <2> QED
    BY <2>3, <2>4, <2>5, <2>6, <2>7 DEF Operator
<1>3. worker' \in [Workers -> Process]
  <2>1. [pc |-> "check", req |-> r, out |-> "none"] \in Process
    BY DEF Process
  <2> QED
    BY <2>1 DEF TypeOK, Operator, RequestOverride, DeadlinePasses, Deny, DecideTooLate, Approve, Resume,
           StartCompletion
<1> QED
  BY <1>1, <1>2, <1>3 DEF TypeOK

\* And the completing processes'.
LEMMA CompleteType ==
    ASSUME TypeOK, WorkersOK, CompletionOK, NEW w \in Workers, Complete(w) \/ WorkerDies(w) PROVE TypeOK'
<1>1. UNCHANGED <<head, row, polled, late, sweeper>>
  BY DEF Complete, AlreadyMerged, NotYetMerged, HeadMoved, MergeableUnknown, OverrideHolds,
         RecordOverride, OverrideMerges, MergedMeanwhile, OverrideFails, FinishCompletion,
         WorkerDies, completion, runVars
<1>2. worker[w].pc # "idle" => worker[w].req \in Requests
  BY DEF WorkersOK, Idle, IdleWorker
<1>3. log' \subseteq Requests
  BY <1>2
     DEF Complete, AlreadyMerged, NotYetMerged, HeadMoved, MergeableUnknown, OverrideHolds,
         RecordOverride, OverrideMerges, MergedMeanwhile, OverrideFails, FinishCompletion,
         WorkerDies, TypeOK
<1>4. merged' \in [head : Heads \cup {NoHead}, by : Requests \cup {"nobody", "other"}]
  BY <1>2
     DEF Complete, AlreadyMerged, NotYetMerged, HeadMoved, MergeableUnknown, OverrideHolds,
         RecordOverride, OverrideMerges, MergedMeanwhile, OverrideFails, FinishCompletion,
         WorkerDies, TypeOK
<1>5. worker' \in [Workers -> Process]
  <2>1. worker[w] \in Process /\ IdleWorker \in Process
    BY DEF TypeOK, Process, IdleWorker
  <2>2. \A p \in {"gate", "record", "merge"} : [worker[w] EXCEPT !.pc = p] \in Process
    BY <2>1 DEF Process
  <2>3. ASSUME NEW o \in {"merged", "failed", "expired", "approved"}
        PROVE  [worker[w] EXCEPT !.pc = "finish", !.out = o] \in Process
    BY <2>1 DEF Process
  <2>7. worker \in [Workers -> Process]
    BY DEF TypeOK
  <2>4. ASSUME NEW p \in {"gate", "record", "merge"}, WorkerMoves(w, p)
        PROVE  worker' \in [Workers -> Process]
    BY <2>2, <2>4, <2>7 DEF WorkerMoves
  <2>5. ASSUME NEW o \in {"merged", "failed", "expired", "approved"}, Concludes(w, o)
        PROVE  worker' \in [Workers -> Process]
    BY <2>3, <2>5, <2>7 DEF Concludes
  <2>6. ASSUME worker' = [worker EXCEPT ![w] = IdleWorker]
        PROVE  worker' \in [Workers -> Process]
    BY <2>1, <2>6, <2>7
  <2> QED
    BY <2>4, <2>5, <2>6
       DEF Complete, AlreadyMerged, NotYetMerged, HeadMoved, MergeableUnknown, OverrideHolds,
           RecordOverride, OverrideMerges, MergedMeanwhile, OverrideFails, FinishCompletion,
           WorkerDies
<1>6. req' \in [Requests -> RequestFile]
  <2>1. CASE FinishCompletion(w)
    <3>1. worker[w].req \in Requests
      BY <1>2, <2>1 DEF FinishCompletion
    <3>2. worker[w].out \in States
      BY <2>1 DEF FinishCompletion, CompletionOK, Active, TypeOK, Process, States, Expirable,
                  FINAL_STATES
    <3>3. "expired" \in States
      BY DEF States, FINAL_STATES
    <3> QED
      BY <2>1, <3>1, <3>2, <3>3, FinishType DEF FinishCompletion, Expire
  <2>2. CASE ~FinishCompletion(w)
    BY <2>2
       DEF Complete, AlreadyMerged, NotYetMerged, HeadMoved, MergeableUnknown, OverrideHolds,
           RecordOverride, OverrideMerges, MergedMeanwhile, OverrideFails, WorkerDies, completion,
           TypeOK
  <2> QED
    BY <2>1, <2>2
<1> QED
  BY <1>1, <1>3, <1>4, <1>5, <1>6 DEF TypeOK

\* And the sweep's.
LEMMA SweepType == ASSUME TypeOK, Sweep PROVE TypeOK'
<1>1. UNCHANGED <<head, merged, row, polled, late, log, worker>>
  BY DEF Sweep, StartSweep, SweepOne, runVars, overrideVars
<1>2. sweeper' \in [todo : SUBSET Requests, late : SUBSET Requests]
  BY DEF Sweep, StartSweep, SweepOne, IdleSweeper, TypeOK
<1>3. req' \in [Requests -> RequestFile]
  <2>1. "expired" \in States
    BY DEF States, FINAL_STATES
  <2>2. CASE StartSweep
    BY <2>2 DEF StartSweep, overrideVars, TypeOK
  <2>3. ASSUME NEW r \in Requests, SweepOne(r)
        PROVE  req' \in [Requests -> RequestFile]
    BY <2>1, <2>3, FinishType DEF SweepOne, Expire, TypeOK
  <2> QED
    BY <2>2, <2>3 DEF Sweep
<1> QED
  BY <1>1, <1>2, <1>3 DEF TypeOK

-----------------------------------------------------------------------------
(* Completions                                                              *)

\* Steps of the run, clocks and scans leave requests and completions alone;
\* at most somebody else has merged.
LEMMA SameRequests ==
    ASSUME TypeOK, Rest, UNCHANGED <<req, log, worker>>,
           UNCHANGED merged \/ (merged'.by = "other" /\ merged' # NotMerged)
    PROVE  Rest'
<1>1. WorkersOK' /\ AskedOK' /\ OneCompletion'
  BY DEF Rest, WorkersOK, AskedOK, OneCompletion, Idle, Active
<1>2. MergerOK' /\ CompletionOK'
  BY AuthorityAssumption DEF Rest, WorkersOK, MergerOK, CompletionOK, Idle, Active, IdleWorker
<1> QED
  BY <1>1, <1>2 DEF Rest

\* An expiry disturbs no completion, and no merge that has happened.
LEMMA ExpireRest ==
    ASSUME TypeOK, Rest, NEW r \in Requests, Expire(r), UNCHANGED <<merged, log, worker>>
    PROVE  Rest'
<1>1. CASE UNCHANGED req
  BY <1>1, SameRequests
<1>2. CASE req[r].state \in Expirable /\ req' = [req EXCEPT ![r].state = "expired"]
  <2>1. \A q \in Requests :
          /\ req'[q].head = req[q].head /\ req'[q].decided = req[q].decided
          /\ req'[q].state = IF q = r THEN "expired" ELSE req[q].state
    BY <1>2 DEF TypeOK, RequestFile
  <2>2. AskedOK'
    BY <1>2, <2>1 DEF Rest, AskedOK, Expirable
  <2>3. MergerOK'
    BY <2>1 DEF Rest, MergerOK
  <2>4. WorkersOK' /\ CompletionOK'
    BY DEF Rest, WorkersOK, CompletionOK, Idle, Active
  <2>5. OneCompletion'
    BY <2>1 DEF Rest, WorkersOK, OneCompletion, Idle, Active, IdleWorker
  <2> QED
    BY <2>2, <2>3, <2>4, <2>5 DEF Rest
<1> QED
  BY <1>1, <1>2 DEF Expire, Finish, SetState

\* An approval, or its retry: the request was undecided or deferred, so nobody
\* is completing it, and nothing has been merged for it.
LEMMA StartRest ==
    ASSUME TypeOK, Rest, NEW r \in Requests, NEW w \in Workers, Approve(w, r) \/ Resume(w, r)
    PROVE  Rest'
<1>1. req[r].state \in Undecided /\ UNCHANGED <<merged, log>> /\ worker[w] = IdleWorker
  BY DEF Approve, Resume, Undecided, StartCompletion
<1>2. \A q \in Requests :
        /\ req'[q].head = req[q].head
        /\ req'[q].state = IF q = r THEN "merging" ELSE req[q].state
        /\ q # r => req'[q].decided = req[q].decided
        /\ req'[r].decided
  <2>1. req \in [Requests -> RequestFile] /\ (req[r].state = "approved" => req[r].decided)
    BY DEF TypeOK, Rest, AskedOK
  <2>2. CASE Approve(w, r)
    BY <2>1, <2>2 DEF Approve, RequestFile
  <2>3. CASE Resume(w, r)
    BY <2>1, <2>3 DEF Resume, SetState, RequestFile
  <2> QED
    BY <2>2, <2>3
<1>3. \A v \in Workers :
        worker'[v] = IF v = w THEN [pc |-> "check", req |-> r, out |-> "none"] ELSE worker[v]
  BY DEF Approve, Resume, StartCompletion, TypeOK
<1>4. \A v \in Workers : worker[v].req # r
  BY <1>1, AuthorityAssumption
     DEF Rest, WorkersOK, OneCompletion, Idle, Active, IdleWorker, Undecided
<1>5. merged.by # r
  BY <1>1 DEF Rest, MergerOK, Undecided
<1>6. WorkersOK'
  BY <1>3 DEF Rest, WorkersOK, Idle, Active
<1>7. AskedOK'
  BY <1>1, <1>2 DEF Rest, AskedOK, Undecided
<1>8. MergerOK'
  BY <1>1, <1>2, <1>5 DEF Rest, MergerOK
<1>9. CompletionOK'
  BY <1>1, <1>3, <1>5 DEF Rest, CompletionOK, Active
<1>10. OneCompletion'
  <2>1. \A v \in Workers \ {w} : worker[v].pc # "idle" =>
          /\ worker[v].req \in Requests /\ req[worker[v].req].decided
          /\ req[worker[v].req].state \in {"merging", "expired"}
          /\ \A u \in Workers \ {v} : worker[u].req # worker[v].req
    BY DEF Rest, WorkersOK, OneCompletion, Idle, Active, IdleWorker
  <2>2. \A v \in Workers \ {w} : worker[v].pc # "idle" =>
          /\ req'[worker[v].req].decided = req[worker[v].req].decided
          /\ req'[worker[v].req].state = req[worker[v].req].state
    BY <1>2, <1>4, <2>1
  <2>3. worker'[w].req = r /\ req'[r].state = "merging" /\ req'[r].decided
    BY <1>2, <1>3
  <2>4. \A v \in Workers \ {w} : worker'[v] = worker[v]
    BY <1>3
  <2> QED
    BY <1>4, <2>1, <2>2, <2>3, <2>4 DEF OneCompletion, Active
<1> QED
  BY <1>6, <1>7, <1>8, <1>9, <1>10 DEF Rest

\* The operator's other steps: nobody is completing the request they touch.
LEMMA OperatorRest == ASSUME TypeOK, Rest, NEW r \in Requests, Operator(r) PROVE Rest'
<1>1. CASE \E w \in Workers : Approve(w, r) \/ Resume(w, r)
  BY <1>1, StartRest
<1>2. CASE DecideTooLate(r)
  BY <1>2, ExpireRest DEF DecideTooLate
<1>3. CASE DeadlinePasses(r)
  BY <1>3, SameRequests DEF DeadlinePasses
<1>4. CASE RequestOverride(r) \/ Deny(r)
  <2>1. req[r].state \in {"unasked", "pending", "approved"} /\ UNCHANGED <<merged, log, worker>>
    BY <1>4 DEF RequestOverride, Deny, Undecided
  <2>2. \A q \in Requests : q # r => req'[q] = req[q]
    BY <1>4 DEF RequestOverride, Deny, TypeOK
  <2>3. \/ req'[r] = [state |-> "pending", head |-> head, decided |-> FALSE]
        \/ req'[r].state = "denied" /\ req'[r].head = req[r].head /\ req[r].state # "unasked"
    <3>1. req \in [Requests -> RequestFile]
      BY DEF TypeOK
    <3>2. CASE RequestOverride(r)
      BY <3>1, <3>2 DEF RequestOverride
    <3>3. CASE Deny(r)
      BY <3>1, <3>3 DEF Deny, Undecided, RequestFile
    <3> QED
      BY <1>4, <3>2, <3>3
  <2>4. \A w \in Workers : worker[w].req # r
    BY <2>1, AuthorityAssumption DEF Rest, WorkersOK, OneCompletion, Idle, Active, IdleWorker
  <2>5. head # NoHead
    BY DEF TypeOK, Heads, NoHead
  <2>6. AskedOK'
    BY <2>2, <2>3, <2>5 DEF Rest, AskedOK
  <2>7. MergerOK'
    BY <2>1, <2>2 DEF Rest, MergerOK
  <2>8. WorkersOK' /\ CompletionOK'
    BY <2>1 DEF Rest, WorkersOK, CompletionOK, Idle, Active
  <2>9. OneCompletion'
    <3>1. \A w \in Workers : worker[w].pc # "idle" => worker[w].req \in Requests
      BY DEF Rest, WorkersOK, Idle, IdleWorker
    <3>2. \A w \in Workers : worker[w].pc # "idle" => req'[worker[w].req] = req[worker[w].req]
      BY <2>2, <2>4, <3>1
    <3> QED
      BY <2>1, <3>2 DEF Rest, OneCompletion, Active
  <2> QED
    BY <2>6, <2>7, <2>8, <2>9 DEF Rest
<1> QED
  BY <1>1, <1>2, <1>3, <1>4 DEF Operator

\* A completing process that goes on keeps its request to itself.
LEMMA CompleteRest ==
    ASSUME TypeOK, Rest, NEW w \in Workers, Complete(w) \/ WorkerDies(w)
    PROVE  Rest'
<1>1. CASE FinishCompletion(w)
  <2> DEFINE r == worker[w].req
  <2>1. r \in Requests /\ req[r].state \in {"merging", "expired"} /\ worker[w].out # "none"
    BY <1>1 DEF FinishCompletion, Rest, WorkersOK, CompletionOK, OneCompletion, Idle, Active,
                IdleWorker
  <2>2. \A v \in Workers : worker'[v] = IF v = w THEN IdleWorker ELSE worker[v]
    BY <1>1 DEF FinishCompletion, TypeOK
  <2>3. UNCHANGED <<merged, log>>
    BY <1>1 DEF FinishCompletion
  <2>4. \A q \in Requests :
          /\ req'[q].head = req[q].head /\ req'[q].decided = req[q].decided
          /\ q # r => req'[q].state = req[q].state
          /\ req'[r].state \in {req[r].state, worker[w].out}
    BY <1>1, <2>1 DEF FinishCompletion, Expire, Finish, SetState, TypeOK, RequestFile
  <2>5. \A v \in Workers \ {w} : worker[v].req # r
    BY <1>1 DEF FinishCompletion, Rest, OneCompletion, Active
  <2>6. worker[w].out \in {"merged", "failed", "expired", "approved"}
    BY <2>1 DEF TypeOK, Process
  <2>7. worker[w].out = "approved" => merged.by # r
    BY <1>1 DEF FinishCompletion, Rest, CompletionOK, Active
  <2>8. req[r].decided
    BY <1>1 DEF FinishCompletion, Rest, OneCompletion, Active
  <2> HIDE DEF r
  <2>9. WorkersOK'
    BY <2>2 DEF Rest, WorkersOK, Idle, Active
  <2>10. AskedOK'
    BY <2>1, <2>4, <2>6, <2>8 DEF Rest, AskedOK
  <2>11. MergerOK'
    BY <2>3, <2>4, <2>6, <2>7 DEF Rest, MergerOK
  <2>12. CompletionOK'
    BY <2>2, <2>3 DEF Rest, CompletionOK, Active, IdleWorker
  <2>13. OneCompletion'
    BY <2>2, <2>4, <2>5, AuthorityAssumption
       DEF Rest, WorkersOK, OneCompletion, Idle, Active, IdleWorker
  <2> QED
    BY <2>9, <2>10, <2>11, <2>12, <2>13 DEF Rest
<1>2. CASE WorkerDies(w)
  <2>1. \A v \in Workers : worker'[v] = IF v = w THEN IdleWorker ELSE worker[v]
    BY <1>2 DEF WorkerDies, TypeOK
  <2>2. UNCHANGED <<req, merged, log>>
    BY <1>2 DEF WorkerDies, completion
  <2>3. WorkersOK' /\ AskedOK' /\ MergerOK'
    BY <2>1, <2>2 DEF Rest, WorkersOK, AskedOK, MergerOK, Idle, Active
  <2>4. CompletionOK'
    BY <2>1, <2>2 DEF Rest, CompletionOK, Active, IdleWorker
  <2>5. OneCompletion'
    BY <2>1, <2>2, AuthorityAssumption DEF Rest, WorkersOK, OneCompletion, Idle, Active, IdleWorker
  <2> QED
    BY <2>3, <2>4, <2>5 DEF Rest
<1>3. CASE OverrideMerges(w)
  <2> DEFINE r == worker[w].req
  <2>1. /\ worker[w].pc = "merge" /\ r \in Requests /\ r \in log
        /\ req[r].state \in {"merging", "expired"}
    BY <1>3 DEF OverrideMerges, Rest, WorkersOK, CompletionOK, OneCompletion, Idle, Active, IdleWorker
  <2>2. PICK o \in {"merged", "failed"} : Concludes(w, o)
    BY <1>3 DEF OverrideMerges
  <2>3. \A v \in Workers :
          /\ worker'[v].req = worker[v].req
          /\ v # w => worker'[v] = worker[v]
          /\ worker'[w].pc = "finish" /\ worker'[w].out = o
    BY <2>2 DEF Concludes, TypeOK, Process
  <2>4. UNCHANGED <<req, log>> /\ merged'.by = r /\ merged' # NotMerged
    BY <1>3, <2>1, AuthorityAssumption DEF OverrideMerges, completion, NotMerged
  <2>5. \A v \in Workers \ {w} : worker[v].req # r
    BY <2>1 DEF Rest, OneCompletion, Active
  <2> HIDE DEF r
  <2>6. WorkersOK' /\ AskedOK'
    BY <2>1, <2>3, <2>4 DEF Rest, WorkersOK, AskedOK, Idle, Active, r
  <2>7. MergerOK'
    BY <2>1, <2>4 DEF Rest, MergerOK
  <2>8. CompletionOK'
    BY <2>3, <2>4, <2>5 DEF Rest, CompletionOK, Active
  <2>9. OneCompletion'
    BY <2>1, <2>3, <2>4 DEF Rest, OneCompletion, Active
  <2> QED
    BY <2>6, <2>7, <2>8, <2>9 DEF Rest
<1>4. ASSUME Complete(w), ~FinishCompletion(w), ~OverrideMerges(w) PROVE Rest'
  <2>1. /\ worker[w].pc \in {"check", "gate", "record", "merge"} /\ worker[w].req \in Requests
        /\ UNCHANGED <<req, merged>> /\ log \subseteq log'
    BY <1>4
       DEF Complete, AlreadyMerged, NotYetMerged, HeadMoved, MergeableUnknown, OverrideHolds,
           RecordOverride, MergedMeanwhile, OverrideFails, completion, Rest, WorkersOK, Idle,
           IdleWorker
  <2>2. PICK p \in {"gate", "record", "merge", "finish"},
             o \in {"none", "merged", "failed", "expired", "approved"} :
          /\ worker' = [worker EXCEPT ![w].pc = p, ![w].out = o]
          /\ p = "finish" => o # "none"
          /\ p = "finish" /\ o = "merged" => merged # NotMerged
          /\ p = "merge" => log' = log \cup {worker[w].req}
    <3>1. \A o \in {"merged", "failed", "expired", "approved"} :
            Concludes(w, o) => worker' = [worker EXCEPT ![w].pc = "finish", ![w].out = o]
      BY DEF Concludes
    <3>2. \A q \in {"gate", "record", "merge"} :
            WorkerMoves(w, q) => worker' = [worker EXCEPT ![w].pc = q, ![w].out = worker[w].out]
      BY DEF WorkerMoves, TypeOK, Process
    <3>3. worker[w].out \in {"none", "merged", "failed", "expired", "approved"}
      BY DEF TypeOK, Process
    <3> QED
      BY <1>4, <3>1, <3>2, <3>3
         DEF Complete, AlreadyMerged, NotYetMerged, HeadMoved, MergeableUnknown, OverrideHolds,
             RecordOverride, MergedMeanwhile, OverrideFails
  <2>3. \A v \in Workers :
          /\ worker'[v].req = worker[v].req
          /\ v # w => worker'[v] = worker[v]
          /\ worker'[w].pc = p /\ worker'[w].out = o
    BY <2>2 DEF TypeOK, Process
  <2>4. merged.by # worker[w].req
    BY <2>1 DEF Rest, CompletionOK, Active
  <2>5. WorkersOK'
    BY <2>1, <2>3 DEF Rest, WorkersOK, Idle, Active
  <2>8. AskedOK' /\ MergerOK'
    BY <2>1 DEF Rest, AskedOK, MergerOK
  <2>6. CompletionOK'
    <3>1. /\ p \in {"gate", "record", "merge"} => merged'.by # worker'[w].req
          /\ p = "merge" => worker'[w].req \in log'
          /\ p = "finish" =>
               /\ o # "none"
               /\ o = "merged" => merged' # NotMerged
               /\ o \in {"approved", "expired"} => merged'.by # worker'[w].req
      BY <2>1, <2>2, <2>3, <2>4
    <3>2. \A v \in Workers \ {w} : worker'[v] = worker[v]
      BY <2>3
    <3>3. worker'[w].pc = p /\ worker'[w].out = o
      BY <2>3
    <3> QED
      BY <2>1, <3>1, <3>2, <3>3 DEF Rest, CompletionOK, Active
  <2>7. OneCompletion'
    BY <2>1, <2>3 DEF Rest, OneCompletion, Active
  <2> QED
    BY <2>5, <2>6, <2>7, <2>8 DEF Rest
<1> QED
  BY <1>1, <1>2, <1>3, <1>4

\* The sweep expires, or reads.
LEMMA SweepRest == ASSUME TypeOK, Rest, Sweep PROVE Rest'
<1>1. CASE StartSweep
  BY <1>1, SameRequests DEF StartSweep, overrideVars
<1>2. ASSUME NEW r \in Requests, SweepOne(r) PROVE Rest'
  BY <1>2, ExpireRest, SameRequests DEF SweepOne
<1> QED
  BY <1>1, <1>2 DEF Sweep

\* The run changes nothing of the requests; somebody else may merge.
LEMMA RunRest == ASSUME TypeOK, Rest, Run PROVE Rest'
<1>1. UNCHANGED <<req, log, worker>>
  BY DEF Run, Push, PollHead, RefreshHead, HandIn, SendBack, Rework, Escalate, Reopen, OtherMerges, overrideVars
<1>2. UNCHANGED merged \/ (merged'.by = "other" /\ merged' # NotMerged)
  BY DEF Run, Push, PollHead, RefreshHead, HandIn, SendBack, Rework, Escalate, Reopen, OtherMerges, NotMerged
<1> QED
  BY <1>1, <1>2, SameRequests

LEMMA NextInv == ASSUME IInv, [Next]_vars PROVE IInv'
<1>1. TypeOK /\ Rest
  BY DEF IInv, Rest
<1>2. CASE Run
  BY <1>1, <1>2, RunType, RunRest DEF IInv, Rest
<1>3. CASE Sweep
  BY <1>1, <1>3, SweepType, SweepRest DEF IInv, Rest
<1>4. ASSUME NEW r \in Requests, Operator(r) PROVE IInv'
  BY <1>1, <1>4, OperatorType, OperatorRest DEF IInv, Rest
<1>5. ASSUME NEW w \in Workers, Complete(w) \/ WorkerDies(w) PROVE IInv'
  BY <1>1, <1>5, CompleteType, CompleteRest DEF IInv, Rest
<1>6. CASE UNCHANGED vars
  <2>1. TypeOK'
    BY <1>1, <1>6 DEF TypeOK, vars
  <2>2. Rest'
    BY <1>1, <1>6, SameRequests DEF vars
  <2> QED
    BY <2>1, <2>2 DEF IInv, Rest
<1> QED
  BY <1>2, <1>3, <1>4, <1>5, <1>6 DEF Next

LEMMA Invariance == Spec => []IInv
  BY InitInv, NextInv, PTL DEF Spec

\* Every variable stays within its type, and a completion ends in a state a
\* request can be in (overrides._complete).
THEOREM TypeCorrect == Spec => []TypeOK
<1>1. IInv => TypeOK
  BY DEF IInv
<1> QED
  BY <1>1, Invariance, PTL

\* However many buttons are pressed and retries run, no two processes ever
\* complete the same request, and only decided ones are completed
\* (overrides.decide, resume, _finish).
THEOREM CompletionsNeverMeet == Spec => []OneCompletion
<1>1. IInv => OneCompletion
  BY DEF IInv
<1> QED
  BY <1>1, Invariance, PTL

\* A merge past the judge is always on record (contract.complete_override).
THEOREM OverridesOnRecord == Spec => []OverrideOnRecord
<1>1. IInv => OverrideOnRecord
  BY DEF IInv, MergerOK, OverrideOnRecord
<1> QED
  BY <1>1, Invariance, PTL

-----------------------------------------------------------------------------
(* MergeOverrides implements MergeLedger. The three mapped variables, named. *)

Asked == [r \in Requests |-> req[r].head]
Granted == {r \in Requests : req[r].decided /\ req[r].state # "denied"}
Outcome == [r \in Requests |-> IF req[r].state \in FINAL_STATES THEN req[r].state ELSE "open"]

\* A step that leaves the requests and the merge alone is none of the ledger's.
LEMMA LedgerStutters == ASSUME UNCHANGED <<req, merged>> PROVE UNCHANGED Ledger!vars
  BY DEF Ledger!vars

\* A request's file moves on without its ledger entry being touched.
LEMMA LedgerUntouched ==
    ASSUME TypeOK, NEW r \in Requests, UNCHANGED merged,
           NEW s \in Expirable, req' = [req EXCEPT ![r].state = s],
           req[r].state \in Expirable
    PROVE  UNCHANGED Ledger!vars
<1>1. \A q \in Requests :
        /\ req'[q].head = req[q].head /\ req'[q].decided = req[q].decided
        /\ q # r => req'[q].state = req[q].state
        /\ req'[r].state = s
  BY DEF TypeOK, RequestFile
<1>2. s \notin FINAL_STATES /\ req[r].state \notin FINAL_STATES /\ s # "denied" /\ req[r].state # "denied"
  BY DEF Expirable, FINAL_STATES
<1>3. Asked' = Asked
  BY <1>1 DEF Asked
<1>4. Granted' = Granted
  BY <1>1, <1>2 DEF Granted
<1>5. Outcome' = Outcome
  BY <1>1, <1>2 DEF Outcome
<1> QED
  BY <1>3, <1>4, <1>5 DEF Ledger!vars, Asked, Granted, Outcome

\* A request that ends otherwise than by a denial ends in the ledger.
LEMMA LedgerEnds ==
    ASSUME TypeOK, AskedOK, NEW r \in Requests, UNCHANGED merged,
           NEW s \in {"merged", "expired", "failed"}, s = "merged" => merged # NotMerged,
           req[r].state \in Expirable, req' = [req EXCEPT ![r].state = s]
    PROVE  Ledger!End(r)
<1>1. \A q \in Requests :
        /\ req'[q].head = req[q].head /\ req'[q].decided = req[q].decided
        /\ q # r => req'[q].state = req[q].state
        /\ req'[r].state = s
  BY DEF TypeOK, RequestFile
<1>2. s \in FINAL_STATES /\ req[r].state \notin FINAL_STATES /\ s # "denied" /\ req[r].state # "denied"
  BY DEF Expirable, FINAL_STATES
<1>3. Asked' = Asked /\ Asked[r] # 0
  BY <1>1 DEF Asked, AskedOK, Expirable, NoHead
<1>4. Granted' = Granted
  BY <1>1, <1>2 DEF Granted
<1>5. Outcome[r] = "open" /\ Outcome' = [Outcome EXCEPT ![r] = s]
  <2>1. Outcome[r] = "open"
    BY <1>2 DEF Outcome
  <2>2. \A q \in Requests : Outcome'[q] = IF q = r THEN s ELSE Outcome[q]
    BY <1>1, <1>2 DEF Outcome
  <2>3. Outcome' = [q \in Requests |-> Outcome'[q]] /\ Outcome = [q \in Requests |-> Outcome[q]]
    BY DEF Outcome
  <2> QED
    BY <2>1, <2>2, <2>3
<1>6. s \in Ledger!Endings \ {"denied"}
  BY DEF Ledger!Endings
<1>7. \E e \in Ledger!Endings \ {"denied"} :
        /\ (e = "merged") => merged # Ledger!NotMerged
        /\ Outcome' = [Outcome EXCEPT ![r] = e]
  BY <1>5, <1>6 DEF Ledger!NotMerged, NotMerged, NoHead
<1> QED
  BY <1>3, <1>4, <1>5, <1>7 DEF Ledger!End, Asked, Granted, Outcome

\* An expiry is an ending, or nothing.
LEMMA LedgerExpires ==
    ASSUME TypeOK, AskedOK, NEW r \in Requests, Expire(r), UNCHANGED merged
    PROVE  Ledger!End(r) \/ UNCHANGED Ledger!vars
<1>1. CASE req[r].state \in Expirable
  BY <1>1, LedgerEnds DEF Expire, Finish, SetState
<1>2. CASE req[r].state \notin Expirable
  BY <1>2, LedgerStutters DEF Expire, Finish
<1> QED
  BY <1>1, <1>2

\* What the operator does is asking, granting, denying, or an expiry.
LEMMA LedgerOperator ==
    ASSUME IInv, NEW r \in Requests, Operator(r)
    PROVE  Ledger!Ask(r) \/ Ledger!Grant(r) \/ Ledger!Deny(r) \/ Ledger!End(r) \/ UNCHANGED Ledger!vars
<1>0. TypeOK /\ AskedOK /\ req \in [Requests -> RequestFile] /\ req[r] \in RequestFile
  BY DEF IInv, TypeOK
<1>1. CASE RequestOverride(r)
  <2>1. /\ req[r].state = "unasked" /\ req[r].head = NoHead /\ ~req[r].decided
        /\ UNCHANGED merged /\ head \in Heads
    BY <1>1 DEF RequestOverride, IInv, AskedOK, TypeOK
  <2>2. \A q \in Requests :
          /\ q # r => req'[q] = req[q]
          /\ req'[r].state = "pending" /\ req'[r].head = head /\ ~req'[r].decided
    BY <1>0, <1>1 DEF RequestOverride
  <2>3. Asked[r] = 0 /\ Asked' = [Asked EXCEPT ![r] = head]
    BY <2>1, <2>2 DEF Asked, NoHead
  <2>4. Granted' = Granted
    BY <2>1, <2>2 DEF Granted
  <2>5. Outcome' = Outcome
    BY <2>1, <2>2 DEF Outcome, FINAL_STATES
  <2> QED
    BY <2>1, <2>3, <2>4, <2>5 DEF Ledger!Ask, Ledger!Heads, Heads, Asked, Granted, Outcome
<1>2. CASE DeadlinePasses(r)
  BY <1>2, LedgerStutters DEF DeadlinePasses
<1>3. CASE DecideTooLate(r)
  BY <1>0, <1>3, LedgerExpires DEF DecideTooLate
<1>4. CASE Deny(r)
  <2>1. /\ req[r].state \in Undecided /\ UNCHANGED merged /\ req[r].head # NoHead /\ merged.by # r
    BY <1>4 DEF Deny, IInv, AskedOK, MergerOK, Undecided
  <2>2. \A q \in Requests :
          /\ q # r => req'[q] = req[q]
          /\ req'[r].state = "denied" /\ req'[r].head = req[r].head
    BY <1>0, <1>4 DEF Deny, RequestFile
  <2>3. Asked' = Asked /\ Asked[r] # 0
    BY <2>1, <2>2 DEF Asked, NoHead
  <2>4. Granted' = Granted \ {r}
    BY <2>2 DEF Granted
  <2>5. Outcome[r] = "open" /\ Outcome' = [Outcome EXCEPT ![r] = "denied"]
    BY <2>1, <2>2 DEF Outcome, FINAL_STATES, Undecided
  <2> QED
    BY <2>1, <2>3, <2>4, <2>5 DEF Ledger!Deny, Asked, Granted, Outcome
<1>5. ASSUME NEW w \in Workers, Approve(w, r)
      PROVE  Ledger!Grant(r) \/ UNCHANGED Ledger!vars
  <2>1. req[r].state \in Undecided /\ UNCHANGED merged /\ req[r].head # NoHead
    BY <1>5 DEF Approve, IInv, AskedOK, Undecided
  <2>2. \A q \in Requests :
          /\ q # r => req'[q] = req[q]
          /\ req'[r].state = "merging" /\ req'[r].head = req[r].head /\ req'[r].decided
    BY <1>0, <1>5 DEF Approve, RequestFile
  <2>3. Asked' = Asked /\ Asked[r] # 0
    BY <2>1, <2>2 DEF Asked, NoHead
  <2>4. Granted' = Granted \cup {r}
    BY <2>1, <2>2 DEF Granted
  <2>5. Outcome[r] = "open" /\ Outcome' = Outcome
    BY <2>1, <2>2 DEF Outcome, FINAL_STATES, Undecided
  <2>6. CASE r \in Granted
    <3>1. Granted' = Granted
      BY <2>4, <2>6
    <3> QED
      BY <2>1, <2>3, <3>1, <2>5 DEF Ledger!vars, Asked, Granted, Outcome
  <2>7. CASE r \notin Granted
    BY <2>1, <2>3, <2>4, <2>5, <2>7 DEF Ledger!Grant, Asked, Granted, Outcome
  <2> QED
    BY <2>6, <2>7
<1>6. ASSUME NEW w \in Workers, Resume(w, r) PROVE UNCHANGED Ledger!vars
  <2>1. {"merging", "approved"} \subseteq Expirable
    BY DEF Expirable
  <2> QED
    BY <1>0, <1>6, <2>1, LedgerUntouched DEF Resume, SetState
<1> QED
  BY <1>1, <1>2, <1>3, <1>4, <1>5, <1>6 DEF Operator

\* A completing process merges under a grant, ends its request, or does
\* nothing the ledger knows of.
LEMMA LedgerComplete ==
    ASSUME IInv, NEW w \in Workers, Complete(w) \/ WorkerDies(w)
    PROVE  \/ \E r \in Requests : Ledger!MergeFor(r) \/ Ledger!End(r)
           \/ UNCHANGED Ledger!vars
<1> DEFINE r == worker[w].req
<1>0. TypeOK /\ AskedOK
  BY DEF IInv
<1>1. CASE OverrideMerges(w)
  <2>1. /\ r \in Requests /\ req[r].decided /\ req[r].state \in {"merging", "expired"}
        /\ merged = NotMerged /\ merged' = [head |-> req[r].head, by |-> r] /\ UNCHANGED req
    BY <1>1 DEF OverrideMerges, completion, IInv, WorkersOK, OneCompletion, Idle, Active, IdleWorker
  <2> HIDE DEF r
  <2>2. r \in Granted /\ Asked[r] = req[r].head /\ UNCHANGED <<Asked, Granted, Outcome>>
    BY <2>1 DEF Granted, Asked, Outcome
  <2> QED
    BY <2>1, <2>2 DEF Ledger!MergeFor, Ledger!NotMerged, NotMerged, NoHead, Asked, Granted, Outcome
<1>2. CASE FinishCompletion(w)
  <2>1. /\ r \in Requests /\ UNCHANGED merged
        /\ worker[w].out \in {"merged", "failed", "expired", "approved"}
        /\ worker[w].out = "merged" => merged # NotMerged
    BY <1>2 DEF FinishCompletion, IInv, TypeOK, Process, WorkersOK, CompletionOK, Idle, Active,
                IdleWorker
  <2>2. CASE worker[w].out = "expired"
    BY <1>0, <1>2, <2>1, <2>2, LedgerExpires DEF FinishCompletion
  <2>3. CASE worker[w].out # "expired" /\ req[r].state # "merging"
    BY <1>2, <2>1, <2>3, LedgerStutters DEF FinishCompletion, Finish
  <2>4. CASE worker[w].out # "expired" /\ req[r].state = "merging"
    <3>1. req' = [req EXCEPT ![r].state = worker[w].out]
      BY <1>2, <2>4 DEF FinishCompletion, Finish, SetState
    <3>2. {"merging", "approved"} \subseteq Expirable
      BY DEF Expirable
    <3>3. CASE worker[w].out = "approved"
      BY <1>0, <2>1, <2>4, <3>1, <3>2, <3>3, LedgerUntouched
    <3>4. CASE worker[w].out \in {"merged", "failed"}
      BY <1>0, <2>1, <2>4, <3>1, <3>2, <3>4, LedgerEnds
    <3> QED
      BY <2>1, <2>4, <3>3, <3>4
  <2> QED
    BY <2>2, <2>3, <2>4
<1>3. CASE ~OverrideMerges(w) /\ ~FinishCompletion(w)
  BY <1>3, LedgerStutters
     DEF Complete, AlreadyMerged, NotYetMerged, HeadMoved, MergeableUnknown, OverrideHolds,
         RecordOverride, MergedMeanwhile, OverrideFails, WorkerDies, completion
<1> QED
  BY <1>1, <1>2, <1>3

LEMMA LedgerNext == ASSUME IInv, [Next]_vars PROVE [Ledger!Next]_(Ledger!vars)
<1>0. TypeOK /\ AskedOK
  BY DEF IInv
<1>1. CASE OtherMerges
  <2>1. head \in Ledger!Heads
    BY DEF IInv, TypeOK, Heads, Ledger!Heads
  <2>2. Ledger!MergeOtherwise
    BY <1>1, <2>1
       DEF OtherMerges, overrideVars, Ledger!MergeOtherwise, Ledger!NotMerged, NotMerged, NoHead
  <2> QED
    BY <2>2 DEF Ledger!Next
<1>2. CASE Run /\ ~OtherMerges
  BY <1>2, LedgerStutters
     DEF Run, Push, PollHead, RefreshHead, HandIn, SendBack, Rework, Escalate, Reopen, overrideVars
<1>3. CASE StartSweep
  BY <1>3, LedgerStutters DEF StartSweep, overrideVars
<1>4. ASSUME NEW r \in Requests, SweepOne(r) PROVE Ledger!End(r) \/ UNCHANGED Ledger!vars
  BY <1>0, <1>4, LedgerExpires, LedgerStutters DEF SweepOne
<1>5. CASE UNCHANGED vars
  BY <1>5, LedgerStutters DEF vars
<1> QED
  BY <1>1, <1>2, <1>3, <1>4, <1>5, LedgerOperator, LedgerComplete DEF Next, Sweep, Ledger!Next

\* Whatever heads, buttons, deadlines, sweeps and crashes do, a request is
\* granted and ended at most once, and a merge past the judge is of the commit
\* that was asked, under a grant that was not taken back.
THEOREM LedgerImplemented == Spec => LedgerKept
<1>1. Init => Ledger!Init
  BY DEF Init, Ledger!Init, Ledger!NotMerged, NotMerged, NoHead, FINAL_STATES
<1>2. IInv /\ [Next]_vars => [Ledger!Next]_(Ledger!vars)
  BY LedgerNext
<1> QED
  BY <1>1, <1>2, Invariance, PTL DEF Spec, LedgerKept, Ledger!Spec
=============================================================================
