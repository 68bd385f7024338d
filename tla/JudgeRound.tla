----------------------------- MODULE JudgeRound -----------------------------
(* The judge of one pull request: the daemon's tick that launches a judge    *)
(* for every head, cancels it, gives it up or escalates it (dispatcher.py);  *)
(* and the process the judge ends in, `chela judge run` (judge.py), which    *)
(* runs mutation experiments in a worktree for minutes and then writes its   *)
(* verdict to the run's row. The row, the worktree, the window and the lock  *)
(* file are shared, and nobody holds them while he works.                    *)
EXTENDS Integers, FiniteSets

CONSTANTS
    Procs,        \* processes that may execute `chela judge run`
    Starters,     \* who starts one: "agent" (detached), "manual" (in a terminal)
    MaxHead,      \* how many heads the pull request goes through
    Exempt,       \* heads whose own files put them in a tier that is not judged
    MaxUnknown,   \* judge_max_unknown_retries
    Faults,       \* what may go wrong, of FaultKinds
    MaxFaults     \* bound: how many

ASSUME HeadAssumption == MaxHead \in Nat \ {0}
ASSUME ProcsAssumption ==
    /\ Procs # {} /\ Procs \cap {"none", "dead"} = {}
    /\ Starters \subseteq {"agent", "manual"}

\* Deaths: of the daemon, a launch, a checkout, a run, a window. And GitHub does
\* not answer; a run starts or claims its slot in the midst of another's launch.
FaultKinds == {"crash", "launch", "checkout", "death", "window", "unread", "slow"}

ASSUME FaultAssumption == Faults \subseteq FaultKinds
ASSUME BoundAssumption == MaxUnknown \in Nat /\ MaxFaults \in Nat

Heads == 1..MaxHead
NoHead == 0                     \* a NULL sha, a missing directory
HeadOrNone == Heads \cup {NoHead}

SENT_BACK_STATUSES == {"changes_requested", "running"}
CI_POLL_STATUSES == {"awaiting_review", "changes_requested"}
Statuses == {"running", "awaiting_review", "changes_requested", "needs_human", "done"}

\* "exempt" stands for prose_only and standard_no_judge.
MERGE_READY == {"clean", "exempt"}
VERDICTS == {"clean", "blocked"}
JudgeStates == MERGE_READY \cup {"none", "running", "blocked", "blocked_race", "cannot_verify", "cancelled"}

VARIABLES
    head,      \* the pull request's head, on GitHub
    patch,     \* for every head, the first head with the same files of the PR's own
    merged,    \* GitHub has merged it
    row,       \* the run's status, cached head and judge columns
    tick,      \* the daemon: where its tick is, and what it has read
    wt,        \* the head checked out in the judge's worktree, NoHead without one
    win,       \* the judge agent's window is alive
    lock,      \* the lock file of the judge slot: who wrote it
    proc,      \* the `chela judge run` processes
    faults         \* how many faults there were

vars == <<head, patch, merged, row, tick, wt, win, lock, proc, faults>>

github == <<head, patch, merged>>
judge  == <<wt, win, lock, proc>>

Idle == [pc |-> "idle", by |-> "agent", sha |-> NoHead, head |-> NoHead, tree |-> NoHead,
         result |-> "none"]

NoSnap == [sha |-> NoHead, state |-> "none", head |-> NoHead, again |-> FALSE]
IdleTick == [pc |-> "idle", polled |-> NoHead, snap |-> NoSnap, late |-> FALSE]

Init ==
    /\ head = 1 /\ patch = [h \in Heads |-> h] /\ merged = FALSE
    /\ row = [status |-> "running", head |-> NoHead, sha |-> NoHead, state |-> "none", tree |-> NoHead,
              tries |-> 0, free |-> FALSE, final |-> FALSE, launching |-> FALSE, late |-> FALSE]
    /\ tick = IdleTick
    /\ wt = NoHead /\ win = FALSE /\ lock = "none"
    /\ proc = [p \in Procs |-> Idle]
    /\ faults = 0

Fault(kind) == kind \in Faults /\ faults < MaxFaults /\ faults' = faults + 1

-----------------------------------------------------------------------------
(* The judge's slot and its processes                                       *)

\* A process that holds the slot, or believes it does, until it releases it.
InRun(p) == proc[p].pc \in {"battery", "read", "publish"}

LiveRun == \E p \in Procs : InRun(p)

\* set_judge_state: unguarded; the sha only when one is given.
Judged(r, s, sha) ==
    [r EXCEPT !.state = s, !.sha = IF sha = NoHead THEN @ ELSE sha, !.tree = NoHead,
              !.free = FALSE, !.final = FALSE, !.launching = FALSE, !.late = FALSE]

\* park_final_unknown
Parked(r, sha) ==
    [r EXCEPT !.state = "cannot_verify", !.sha = IF sha = NoHead THEN @ ELSE sha,
              !.free = FALSE, !.final = TRUE, !.late = FALSE, !.tree = NoHead,
              !.status = IF @ = "awaiting_review" THEN "needs_human" ELSE @]

\* A process that dies leaves its lock file behind, in a dead process's name.
Dies(p) ==
    /\ proc' = [proc EXCEPT ![p] = Idle]
    /\ lock' = IF lock = p THEN "dead" ELSE lock

\* The round's reaper stops a detached run, if it sees one.
StopRun ==
    LET seen == {p \in Procs : InRun(p) /\ proc[p].by = "agent"}
    IN  IF seen = {} THEN UNCHANGED <<proc, lock>> ELSE \E p \in seen : Dies(p)

\* Killing the window and removing the worktree end a round.
ReapRound == win' = FALSE /\ wt' = NoHead /\ StopRun

-----------------------------------------------------------------------------
(* The tick                                                                 *)

At(pc) == tick.pc = pc
GoTo(pc) == tick' = [tick EXCEPT !.pc = pc]
EndTick == tick' = IdleTick

\* Phase 0 reads the head from GitHub, when it can be read.
PollSees(seen) ==
    /\ At("idle")
    /\ tick' = [tick EXCEPT !.pc = "settle",
                 !.polled = IF row.status \in CI_POLL_STATUSES THEN seen ELSE NoHead]
    /\ UNCHANGED <<github, row, judge, faults>>

Poll == PollSees(head) \/ PollSees(NoHead)

\* The head is written to the row. The row loop: a merged run is done; a rework
\* that has finished hands in, and its cached head is forgotten; or neither.
Refreshed ==
    [row EXCEPT !.head = IF tick.polled = NoHead THEN @ ELSE tick.polled]

Settle(r) ==
    /\ At("settle")
    /\ row' = r
    /\ tick' = [tick EXCEPT !.pc = "sweep", !.polled = NoHead]
    /\ UNCHANGED <<github, judge, faults>>

SettleMerged == merged /\ Settle([Refreshed EXCEPT !.status = "done"])

HandIn ==
    /\ ~merged /\ row.status = "running"
    /\ Settle([row EXCEPT !.status = "awaiting_review", !.head = NoHead])

RowsQuiet == ~merged /\ Settle(Refreshed)

Moot ==
    /\ row.state = "running"
    /\ \/ row.status \in SENT_BACK_STATUSES \cup {"done"}
       \/ row.status = "awaiting_review" /\ NoHead \notin {row.sha, row.head} /\ row.sha # row.head

\* A round whose verdict cannot be used is cancelled first, then stopped.
CancelMoot ==
    /\ At("sweep") /\ Moot
    /\ row' = [row EXCEPT !.state = "cancelled", !.launching = FALSE, !.late = FALSE]
    /\ GoTo("cancelReap")
    /\ UNCHANGED <<github, judge, faults>>

CancelReap ==
    /\ At("cancelReap")
    /\ ReapRound
    /\ GoTo("judge")
    /\ UNCHANGED <<github, row, faults>>

\* Mutant: a live window is a judge at work, however long.
SilentWindow ==
    /\ row.state = "running"
    /\ ~row.launching /\ ~LiveRun /\ ~win

\* A launch before its wall, a live run and a live window are signs of life;
\* past the wall nothing is.
Silent ==
    /\ row.state = "running"
    /\ \/ row.late
       \/ ~row.launching /\ ~LiveRun /\ ~win

WatchdogGivesUp ==
    /\ At("sweep") /\ ~Moot /\ Silent
    /\ tick' = [tick EXCEPT !.pc = "watchWrite", !.late = row.late]
    /\ UNCHANGED <<github, row, judge, faults>>

\* Written on the strength of what was seen, whatever the row holds by now. A
\* round that ended without having been late costs no try.
WatchdogWrites ==
    /\ At("watchWrite")
    /\ row' = [row EXCEPT !.state = "cannot_verify", !.tree = NoHead, !.free = ~tick.late,
                 !.launching = FALSE, !.late = FALSE]
    /\ tick' = [tick EXCEPT !.pc = "watchReap", !.late = FALSE]
    /\ UNCHANGED <<github, judge, faults>>

WatchdogReaps ==
    /\ At("watchReap")
    /\ ReapRound
    /\ GoTo("judge")
    /\ UNCHANGED <<github, row, faults>>

\* Mutant: a last try that ended without a verdict is left waiting.
StrandedWithVerdict ==
    /\ row.status = "awaiting_review" /\ row.state = "cannot_verify" /\ ~row.free
    /\ row.sha # NoHead /\ row.sha = row.head /\ row.tries >= MaxUnknown

Stranded ==
    /\ row.status = "awaiting_review" /\ row.state = "cannot_verify"
    /\ row.sha # NoHead /\ row.sha = row.head /\ row.tries >= MaxUnknown

EscalateStranded ==
    /\ At("sweep") /\ Stranded
    /\ row' = [row EXCEPT !.status = "needs_human"]
    /\ GoTo("judge")
    /\ UNCHANGED <<github, judge, faults>>

SweepQuiet ==
    /\ At("sweep") /\ ~Moot /\ ~Silent /\ ~Stranded
    /\ GoTo("judge")
    /\ UNCHANGED <<github, row, judge, faults>>

\* _judge_candidates
\* Mutant: one try more.
CandidateOnceMore ==
    /\ row.status = "awaiting_review" /\ row.head # NoHead
    /\ \/ row.sha # row.head
       \/ row.state = "cannot_verify" /\ row.tries <= MaxUnknown /\ ~row.final
       \/ row.state = "running" /\ row.launching
       \/ row.state = "cancelled"

Candidate ==
    /\ row.status = "awaiting_review" /\ row.head # NoHead
    /\ \/ row.sha # row.head
       \/ row.state = "cannot_verify" /\ row.tries < MaxUnknown /\ ~row.final
       \/ row.state = "running" /\ row.launching
       \/ row.state = "cancelled"

\* A hold, red checks, no judge slot, a backoff: nothing is launched.
Held ==
    /\ At("judge")
    /\ EndTick
    /\ UNCHANGED <<github, row, judge, faults>>

Select ==
    /\ At("judge") /\ Candidate
    /\ tick' = [tick EXCEPT !.pc = "spawn",
                  !.snap = [sha |-> row.sha, state |-> row.state, head |-> row.head,
                            again |-> row.state = "cannot_verify" /\ ~row.free]]
    /\ UNCHANGED <<github, row, judge, faults>>

snap == tick.snap

SameFiles(a, b) == patch[a] = patch[b]

\* Mutant: any head move carries the verdict.
CarryAnyVerdict ==
    /\ At("spawn")
    /\ snap.state = "clean" /\ snap.sha # NoHead /\ snap.sha # snap.head
    /\ row.state = "clean" /\ row.sha = snap.sha /\ row.head = snap.head
    /\ row' = [row EXCEPT !.sha = snap.head]
    /\ EndTick
    /\ UNCHANGED <<github, judge, faults>>

\* A clean verdict outlives a head move that touches none of the PR's files.
CarryVerdict ==
    /\ At("spawn")
    /\ snap.state = "clean" /\ snap.sha # NoHead /\ snap.sha # snap.head
    /\ SameFiles(snap.sha, snap.head)
    /\ row.state = "clean" /\ row.sha = snap.sha /\ row.head = snap.head
    /\ row' = [row EXCEPT !.sha = snap.head]
    /\ EndTick
    /\ UNCHANGED <<github, judge, faults>>

StampExempt ==
    /\ At("spawn") /\ patch[snap.head] \in Exempt
    /\ snap.state # "running" /\ ~LiveRun
    /\ row' = Judged(row, "exempt", snap.head)
    /\ EndTick
    /\ UNCHANGED <<github, judge, faults>>

SpawnRefused ==
    /\ At("spawn") /\ LiveRun
    /\ EndTick
    /\ UNCHANGED <<github, row, judge, faults>>

\* The head is burned first. A retry of the same head after a verdict that said
\* nothing is counted; another head starts over.
SpawnStamps ==
    /\ At("spawn") /\ ~LiveRun
    /\ "slow" \in Faults \/ \A p \in Procs : proc[p].pc \notin {"claim", "takeover"}
    /\ row' = [row EXCEPT !.sha = snap.head, !.state = "running", !.tree = NoHead,
                 !.tries = IF snap.sha # snap.head THEN 0 ELSE IF snap.again THEN @ + 1 ELSE @,
                 !.free = FALSE, !.final = FALSE, !.late = FALSE]
    /\ tick' = [tick EXCEPT !.pc = "checkout", !.snap = [NoSnap EXCEPT !.head = snap.head]]
    /\ UNCHANGED <<github, judge, faults>>

\* The head is not there to check out, or its base does not merge into it. In
\* the first case an older worktree stays as it is.
CheckoutFails ==
    /\ At("checkout") /\ Fault("checkout")
    /\ wt' \in {wt, snap.head}
    /\ row' = Judged(row, "cannot_verify", NoHead)
    /\ EndTick
    /\ UNCHANGED <<github, win, lock, proc>>

\* Checked out, the head is seen to be in a tier that needs no judge, or to
\* change documents only; the worktree goes again.
CheckoutSkips ==
    /\ At("checkout")
    /\ \/ patch[snap.head] \in Exempt /\ row' = Judged(row, "exempt", snap.head)
       \/ patch[snap.head] \notin Exempt /\ row' = Parked(row, NoHead)
    /\ wt' = NoHead
    /\ EndTick
    /\ UNCHANGED <<github, win, lock, proc, faults>>

Checkout ==
    /\ At("checkout") /\ patch[snap.head] \notin Exempt
    /\ wt' = snap.head
    /\ row' = [row EXCEPT !.launching = TRUE]
    /\ GoTo("launch")
    /\ UNCHANGED <<github, win, lock, proc, faults>>

Launch ==
    /\ At("launch")
    /\ win' = TRUE
    /\ GoTo("launched")
    /\ UNCHANGED <<github, row, wt, lock, proc, faults>>

LaunchFails ==
    /\ tick.pc \in {"launch", "launched"} /\ Fault("launch")
    /\ row' = Judged(row, "cannot_verify", NoHead)
    /\ EndTick
    /\ UNCHANGED <<github, judge>>

Launched ==
    /\ At("launched")
    /\ row' = [row EXCEPT !.launching = FALSE]
    /\ EndTick
    /\ UNCHANGED <<github, judge, faults>>

\* The daemon dies or is restarted; what it wrote stays.
Crash ==
    /\ ~At("idle") /\ Fault("crash")
    /\ EndTick
    /\ UNCHANGED <<github, row, judge>>

-----------------------------------------------------------------------------
(* chela judge run                                                          *)

Ends(p) == proc' = [proc EXCEPT ![p] = [Idle EXCEPT !.pc = "release", !.by = proc[p].by]]
Step(p, pc) == proc' = [proc EXCEPT ![p].pc = pc]
daemon == <<github, tick, faults>>

\* The agent, in its window, detaches a child unless a run is live; anybody may
\* start one in a terminal. The row is read once.
Start(p) ==
    /\ proc[p].pc = "idle"
    /\ \E by \in Starters :
          /\ by = "agent" => win /\ ~LiveRun /\ ("slow" \in Faults \/ ~At("checkout"))
          /\ proc' = [proc EXCEPT ![p] = [Idle EXCEPT !.pc = "claim", !.by = by,
                                         !.sha = row.sha, !.head = row.head]]
    /\ UNCHANGED <<daemon, row, wt, win, lock>>

\* The lock is created exclusively; with it the run's own clock starts. A
\* worktree that was reaped is rebuilt at the head the row had.
ClaimSlot(p) ==
    /\ proc[p].pc = "claim" /\ lock = "none"
    /\ lock' = p
    /\ row' = [row EXCEPT !.late = FALSE]
    /\ LET rebuilt == wt = NoHead /\ proc[p].head # NoHead
       IN  /\ wt' = IF rebuilt THEN proc[p].head ELSE wt
           /\ proc' = [proc EXCEPT ![p].pc = "battery", ![p].tree = wt',
                         ![p].sha = IF rebuilt \/ @ = NoHead THEN proc[p].head ELSE @,
                         ![p].head = IF rebuilt THEN @ ELSE NoHead]
    /\ UNCHANGED <<daemon, win>>

\* A live owner's lock refuses. A dead one's is read, then unlinked, whoever's
\* it is by then.
SlotTaken(p) ==
    /\ proc[p].pc = "claim" /\ lock # "none"
    /\ IF lock = "dead" THEN Step(p, "takeover") ELSE proc' = [proc EXCEPT ![p] = Idle]
    /\ UNCHANGED <<daemon, row, wt, win, lock>>

Unlink(p) ==
    /\ proc[p].pc = "takeover"
    /\ lock' = "none"
    /\ Step(p, "claim")
    /\ UNCHANGED <<daemon, row, wt, win>>

\* The experiments: minutes, of which a checkout takes seconds. Whether guards
\* hold is the tree's business; if the tree changed underneath, anything may
\* come out, if it went away nothing can.
Results(p) ==
    IF proc[p].tree = NoHead \/ wt = NoHead THEN {"cannot_verify"}
    ELSE {"clean", "blocked", "cannot_verify", "final"}

Battery(p) ==
    /\ proc[p].pc = "battery" /\ ~At("checkout")
    /\ \E result \in Results(p) :
          proc' = [proc EXCEPT ![p].pc = "read", ![p].result = result,
                               ![p].tree = IF result \in VERDICTS /\ wt = @ THEN @ ELSE NoHead]
    /\ UNCHANGED <<daemon, row, wt, win, lock>>

\* A cancelled round publishes nothing. Nor does one that is stale.
Useless(p, live) ==
    \/ row.state = "cancelled"
    \/ NoHead \notin {proc[p].sha, live} /\ proc[p].sha # live

\* The head is GitHub's, or the row's if GitHub does not answer.
ReadHead(p) ==
    /\ proc[p].pc = "read"
    /\ \E live \in {head} \cup IF "unread" \in Faults THEN {row.head} ELSE {} :
          IF Useless(p, live)
            THEN Ends(p)
            ELSE proc' = [proc EXCEPT ![p].pc = "publish", ![p].sha = NoHead]
    /\ UNCHANGED <<daemon, row, wt, win, lock>>

\* request_changes is guarded by the status; every other write is not. The sha
\* is only written for a worktree the run has rebuilt.
Verdict(p) ==
    LET result == proc[p].result
        sent == row.status = "awaiting_review"
        state == IF result = "blocked" /\ ~sent THEN "blocked_race" ELSE result
    IN  IF result = "final" THEN Parked(row, proc[p].head)
        ELSE [Judged(row, state, proc[p].head) EXCEPT
                !.tree = proc[p].tree,
                !.status = IF state = "blocked" THEN "changes_requested" ELSE @]

\* A verdict that says nothing of a run that has ended is dropped.
Publish(p) ==
    /\ proc[p].pc = "publish"
    /\ row' = IF row.status = "done" /\ proc[p].result \notin VERDICTS THEN row ELSE Verdict(p)
    /\ Ends(p)
    /\ UNCHANGED <<daemon, wt, win, lock>>

Release(p) ==
    /\ proc[p].pc = "release"
    /\ lock' = IF lock = p THEN "none" ELSE lock
    /\ Step(p, "cleanup")
    /\ UNCHANGED <<daemon, row, wt, win>>

\* The worktree and the window of the same name go. The guard against a newer
\* judge compares the epoch of the tmux server, which both share.
Cleanup(p) ==
    /\ proc[p].pc = "cleanup"
    /\ wt' = NoHead /\ win' = FALSE
    /\ proc' = [proc EXCEPT ![p] = Idle]
    /\ UNCHANGED <<daemon, row, lock>>

ProcDies(p) ==
    /\ proc[p] # Idle /\ Fault("death")
    /\ Dies(p)
    /\ UNCHANGED <<github, tick, row, wt, win>>

-----------------------------------------------------------------------------
(* Everybody else                                                           *)

rest == <<tick, judge, faults>>

\* A push either touches the PR's own files or only merges the base.
Push ==
    /\ ~merged /\ head < MaxHead
    /\ head' = head + 1
    /\ UNCHANGED <<patch, merged, row, rest>>

PushBase ==
    /\ ~merged /\ head < MaxHead
    /\ head' = head + 1
    /\ patch' = [patch EXCEPT ![head + 1] = patch[head]]
    /\ UNCHANGED <<merged, row, rest>>

\* Merged past this gate: an override, or the button on GitHub.
OtherMerges ==
    /\ ~merged
    /\ merged' = TRUE
    /\ UNCHANGED <<head, patch, row, rest>>

SendBack ==
    /\ row.status = "awaiting_review"
    /\ row' = [row EXCEPT !.status = "changes_requested"]
    /\ UNCHANGED <<github, rest>>

\* The tick re-spawns the rework at its end, or finds it out of rounds; an agent
\* with nothing to push disputes.
Rework ==
    /\ At("idle") /\ row.status = "changes_requested" /\ ~merged
    /\ row' = [row EXCEPT !.status = "running"]
    /\ UNCHANGED <<github, rest>>

Escalate ==
    /\ row.status \in {"changes_requested", "running"}
    /\ row' = [row EXCEPT !.status = "needs_human"]
    /\ UNCHANGED <<github, rest>>

\* reopen refuses the head that was judged; retry is for the same head.
Reopen ==
    /\ row.status = "needs_human"
    /\ row.sha # NoHead => row.sha # head
    /\ row' = [row EXCEPT !.status = "awaiting_review", !.head = head]
    /\ UNCHANGED <<github, rest>>

Retry ==
    /\ row.status = "needs_human"
    /\ row' = [row EXCEPT !.status = "changes_requested"]
    /\ UNCHANGED <<github, rest>>

WindowVanishes ==
    /\ win /\ Fault("window")
    /\ win' = FALSE
    /\ UNCHANGED <<github, row, tick, wt, lock, proc>>

RunsLate ==
    /\ row.state = "running" /\ ~row.late
    /\ row' = [row EXCEPT !.late = TRUE]
    /\ UNCHANGED <<github, rest>>

-----------------------------------------------------------------------------
Spawn ==
    \/ CarryVerdict \/ StampExempt \/ SpawnRefused \/ SpawnStamps
    \/ CheckoutFails \/ CheckoutSkips \/ Checkout
    \/ Launch \/ LaunchFails \/ Launched

Tick ==
    \/ Poll \/ SettleMerged \/ HandIn \/ RowsQuiet
    \/ CancelMoot \/ CancelReap \/ WatchdogGivesUp \/ WatchdogWrites \/ WatchdogReaps
    \/ EscalateStranded \/ SweepQuiet \/ Held \/ Select \/ Spawn

JudgeRun(p) ==
    \/ ClaimSlot(p) \/ SlotTaken(p) \/ Unlink(p)
    \/ Battery(p) \/ ReadHead(p) \/ Publish(p) \/ Release(p) \/ Cleanup(p)

Elsewhere ==
    \/ Push \/ PushBase \/ OtherMerges \/ SendBack \/ Rework \/ Escalate
    \/ Reopen \/ Retry \/ WindowVanishes \/ RunsLate

Next ==
    \/ Tick \/ Crash \/ Elsewhere
    \/ \E p \in Procs : Start(p) \/ JudgeRun(p) \/ ProcDies(p)

Spec == Init /\ [][Next]_vars

\* The daemon ticks; GitHub answers and nothing holds the judge for ever; a
\* process goes on; time passes. That an agent starts its run is not assumed.
Fairness ==
    /\ WF_vars(Tick) /\ WF_vars(RunsLate)
    /\ SF_vars(PollSees(head)) /\ SF_vars(Select)
    /\ \A p \in Procs : WF_vars(JudgeRun(p))

FairSpec == Spec /\ Fairness

-----------------------------------------------------------------------------
(* Properties                                                               *)

\* The columns hold what the code means by them; above all, a head is never
\* tried again more often than judge_max_unknown_retries, whoever ended the
\* tries: a launch that failed, the watchdog, or a run that could not say.
TypeOK ==
    /\ head \in Heads /\ patch \in [Heads -> Heads] /\ merged \in BOOLEAN
    /\ row \in [status : Statuses, head : HeadOrNone, sha : HeadOrNone, state : JudgeStates,
                tree : HeadOrNone, tries : 0..MaxUnknown, free : BOOLEAN, final : BOOLEAN,
                launching : BOOLEAN, late : BOOLEAN]
    /\ wt \in HeadOrNone /\ win \in BOOLEAN /\ lock \in Procs \cup {"none", "dead"}
    /\ faults \in 0..MaxFaults

\* A verdict in the row, for or against, is one a whole battery reached on the
\* files of the very head the row says was judged. Neither the tree nor the sha
\* travels with the result: _spawn_judge stamps the sha, checks the tree out,
\* launches the agent; the run reads the sha, finds a tree, and set_judge_state
\* writes the outcome under the sha that is there by then; a base-only push
\* carries it over. (A head of an exempt tier is merged without a verdict.)
VerdictIsVerified ==
    row.state \in VERDICTS \cup {"blocked_race"} /\ patch[row.sha] \notin Exempt =>
        row.tree # NoHead /\ SameFiles(row.tree, row.sha)

\* Nothing stays "running" for ever: not a launch whose daemon died, an agent
\* that never started its run, a run that died or was cancelled, or a window
\* that went away.
JudgingEnds == (row.state = "running") ~> (row.state # "running")

\* A run that waits for review on its judge gets an answer or a human: whatever
\* faults end its rounds, its retries run out. (A head whose verdict was final
\* or blocking and that is handed in again unchanged is left as it is.)
HeadIsDecided ==
    (row.status = "awaiting_review") ~>
        \/ row.status # "awaiting_review"
        \/ row.state \in MERGE_READY \cup {"blocked", "blocked_race"}
        \/ row.final

=============================================================================
