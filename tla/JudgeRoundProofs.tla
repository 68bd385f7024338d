--------------------------- MODULE JudgeRoundProofs ---------------------------
(***************************************************************************)
(* Theorems about JudgeRound, for any processes, heads and retries: the    *)
(* columns are well typed and a head is never tried again more often than  *)
(* judge_max_unknown_retries; and a verdict is of the files of the head it *)
(* names, while runs do not overlap.                                       *)
(*                                                                         *)
(* The retry is counted from the tick's snapshot, not from the row: Inv    *)
(* says what the snapshot knows when it is used (MayRetry). A verdict      *)
(* joins a tree and a sha that were read at different times: VInv says     *)
(* when the one may be taken for the other.                                *)
(***************************************************************************)
EXTENDS JudgeRound, TLAPS

Row == [status : Statuses, head : HeadOrNone, sha : HeadOrNone, state : JudgeStates,
        tree : HeadOrNone, tries : 0..MaxUnknown, free : BOOLEAN, final : BOOLEAN,
        launching : BOOLEAN, late : BOOLEAN]

Snap == [sha : HeadOrNone, state : JudgeStates, head : HeadOrNone, again : BOOLEAN]

TickPcs == {"idle", "settle", "sweep", "cancelReap", "watchWrite", "watchReap", "judge", "spawn",
            "checkout", "launch", "launched"}

ProcPcs == {"idle", "claim", "takeover", "battery", "read", "publish", "release", "cleanup"}

OutcomeKinds == {"none", "clean", "blocked", "cannot_verify", "final"}

ProcState == [pc : ProcPcs, by : {"agent", "manual"}, sha : HeadOrNone, head : HeadOrNone,
              tree : HeadOrNone, result : OutcomeKinds]

Local ==
    /\ tick \in [pc : TickPcs, polled : HeadOrNone, snap : Snap, late : BOOLEAN]
    /\ proc \in [Procs -> ProcState]

\* A snapshot of a head that said nothing was taken with a try left, and only the
\* tick counts tries.
MayRetry ==
    At("spawn") /\ snap.sha = snap.head /\ snap.again => row.tries < MaxUnknown

Inv == TypeOK /\ Local /\ MayRetry

-----------------------------------------------------------------------------
\* The values that stand for nothing are of their types.
LEMMA IdleTypes ==
    /\ NoHead \in HeadOrNone /\ NoSnap \in Snap /\ Idle \in ProcState
    /\ IdleTick \in [pc : TickPcs, polled : HeadOrNone, snap : Snap, late : BOOLEAN]
<1>1. NoHead \in HeadOrNone /\ "none" \in JudgeStates
  BY DEF HeadOrNone, NoHead, JudgeStates
<1>2. NoSnap \in Snap
  BY <1>1 DEF NoSnap, Snap
<1>3. Idle \in ProcState
  BY <1>1 DEF Idle, ProcState, ProcPcs, OutcomeKinds
<1> QED
  BY <1>1, <1>2, <1>3 DEF IdleTick, TickPcs

\* set_judge_state writes a row, and no try.
LEMMA JudgedType ==
    ASSUME NEW r \in Row, NEW s \in JudgeStates, NEW h \in HeadOrNone
    PROVE  Judged(r, s, h) \in Row /\ Judged(r, s, h).tries = r.tries
<1> DEFINE sha == IF h = NoHead THEN r.sha ELSE h
<1>1. sha \in HeadOrNone /\ NoHead \in HeadOrNone
  BY IdleTypes DEF Row
<1>2. Judged(r, s, h) = [r EXCEPT !.state = s, !.sha = sha, !.tree = NoHead, !.free = FALSE,
                                  !.final = FALSE, !.launching = FALSE, !.late = FALSE]
  BY DEF Judged, Row
<1> HIDE DEF sha
<1> QED
  BY <1>1, <1>2 DEF Row

\* Nor does park_final_unknown.
LEMMA ParkedType ==
    ASSUME NEW r \in Row, NEW h \in HeadOrNone
    PROVE  Parked(r, h) \in Row /\ Parked(r, h).tries = r.tries
<1> DEFINE sha == IF h = NoHead THEN r.sha ELSE h
           status == IF r.status = "awaiting_review" THEN "needs_human" ELSE r.status
<1>1. /\ sha \in HeadOrNone /\ NoHead \in HeadOrNone /\ status \in Statuses
      /\ "cannot_verify" \in JudgeStates
  BY IdleTypes DEF Row, Statuses, JudgeStates
<1>2. Parked(r, h) = [r EXCEPT !.state = "cannot_verify", !.sha = sha, !.free = FALSE,
                        !.final = TRUE, !.late = FALSE, !.tree = NoHead, !.status = status]
  BY DEF Parked, Row
<1> HIDE DEF sha, status
<1> QED
  BY <1>1, <1>2 DEF Row

\* A verdict is a row, and no try.
LEMMA VerdictType ==
    ASSUME row \in Row, proc \in [Procs -> ProcState], NEW p \in Procs
    PROVE  Verdict(p) \in Row /\ Verdict(p).tries = row.tries
<1>p. /\ proc[p].result \in OutcomeKinds /\ proc[p].head \in HeadOrNone
      /\ proc[p].tree \in HeadOrNone
  BY DEF ProcState
<1> DEFINE sent == row.status = "awaiting_review"
           state == IF proc[p].result = "blocked" /\ ~sent THEN "blocked_race" ELSE proc[p].result
<1>1. CASE proc[p].result = "final"
  BY <1>1, <1>p, ParkedType DEF Verdict
<1>2. CASE proc[p].result # "final"
  <2>1. state \in JudgeStates
    BY <1>2, <1>p DEF OutcomeKinds, JudgeStates, MERGE_READY
  <2> DEFINE r == Judged(row, state, proc[p].head)
             status == IF state = "blocked" THEN "changes_requested" ELSE r.status
  <2>2. r \in Row /\ r.tries = row.tries
    BY <2>1, <1>p, JudgedType
  <2>3. Verdict(p) = [r EXCEPT !.tree = proc[p].tree, !.status = status]
    BY <1>2, <2>2 DEF Verdict, Row
  <2>4. status \in Statuses
    BY <2>2 DEF Row, Statuses
  <2> HIDE DEF r, status
  <2> QED
    BY <2>2, <2>3, <2>4, <1>p DEF Row
<1> QED
  BY <1>1, <1>2

-----------------------------------------------------------------------------
(* The daemon's tick.                                                      *)

\* Only Select looks for a retry.
LEMMA NoRetry ==
    ASSUME tick'.pc # "spawn" PROVE MayRetry'
  BY DEF MayRetry, At

\* Reading, settling and the sweeps.
LEMMA SweepType ==
    ASSUME Inv,
           Poll \/ SettleMerged \/ HandIn \/ RowsQuiet \/ CancelMoot \/ CancelReap
             \/ WatchdogGivesUp \/ WatchdogWrites \/ WatchdogReaps \/ EscalateStranded \/ SweepQuiet
    PROVE  Inv'
<1>t. /\ row \in Row /\ head \in HeadOrNone /\ NoHead \in HeadOrNone /\ Idle \in ProcState
      /\ tick \in [pc : TickPcs, polled : HeadOrNone, snap : Snap, late : BOOLEAN]
      /\ proc \in [Procs -> ProcState] /\ lock \in Procs \cup {"none", "dead"}
  BY IdleTypes DEF Inv, TypeOK, Local, Row, HeadOrNone
\* A step that writes the row and moves on.
<1>w. ASSUME row' \in Row, \E pc \in TickPcs \ {"spawn"} : GoTo(pc), UNCHANGED <<github, judge, faults>>
      PROVE  Inv'
  <2>1. /\ tick' \in [pc : TickPcs, polled : HeadOrNone, snap : Snap, late : BOOLEAN]
        /\ tick'.pc # "spawn"
    BY <1>w, <1>t DEF GoTo
  <2> QED
    BY <1>w, <2>1, NoRetry DEF Inv, TypeOK, Local, Row, github, judge
<1>1. CASE Poll
  <2>1. \E p \in HeadOrNone : tick' = [tick EXCEPT !.pc = "settle", !.polled = p]
    BY <1>1, <1>t DEF Poll, PollSees
  <2>2. /\ tick' \in [pc : TickPcs, polled : HeadOrNone, snap : Snap, late : BOOLEAN]
        /\ tick'.pc # "spawn"
    BY <2>1, <1>t DEF TickPcs
  <2> QED
    BY <1>1, <2>2, NoRetry DEF Poll, PollSees, Inv, TypeOK, Local, github, judge
<1>2. CASE SettleMerged \/ HandIn \/ RowsQuiet
  <2> DEFINE h == IF tick.polled = NoHead THEN row.head ELSE tick.polled
  <2>1. h \in HeadOrNone /\ "done" \in Statuses /\ "awaiting_review" \in Statuses
    BY <1>t DEF Row, Statuses
  <2>2. row' \in {[row EXCEPT !.head = h, !.status = "done"], [row EXCEPT !.head = h],
                  [row EXCEPT !.status = "awaiting_review", !.head = NoHead]}
    BY <1>2, <1>t DEF SettleMerged, HandIn, RowsQuiet, Settle, Refreshed, Row
  <2> HIDE DEF h
  <2>3. row' \in Row
    BY <2>1, <2>2, <1>t DEF Row
  <2>4. /\ tick' \in [pc : TickPcs, polled : HeadOrNone, snap : Snap, late : BOOLEAN]
        /\ tick'.pc # "spawn"
    BY <1>2, <1>t DEF SettleMerged, HandIn, RowsQuiet, Settle, TickPcs
  <2> QED
    BY <1>2, <2>3, <2>4, NoRetry
       DEF SettleMerged, HandIn, RowsQuiet, Settle, Inv, TypeOK, Local, Row, github, judge
<1>3. CASE CancelMoot \/ EscalateStranded \/ SweepQuiet
  <2>1. "cancelled" \in JudgeStates /\ "needs_human" \in Statuses
    BY DEF JudgeStates, Statuses
  <2>2. row' \in {row, [row EXCEPT !.state = "cancelled", !.launching = FALSE, !.late = FALSE],
                  [row EXCEPT !.status = "needs_human"]}
    BY <1>3 DEF CancelMoot, EscalateStranded, SweepQuiet
  <2>3. row' \in Row
    BY <2>1, <2>2, <1>t DEF Row
  <2> QED
    BY <1>3, <2>3, <1>w DEF CancelMoot, EscalateStranded, SweepQuiet, TickPcs
<1>4. CASE WatchdogGivesUp \/ WatchdogWrites
  <2>1. tick.late \in BOOLEAN /\ row.late \in BOOLEAN /\ "cannot_verify" \in JudgeStates
    BY <1>t DEF Row, JudgeStates
  <2>2. row' = row \/ row' = [row EXCEPT !.state = "cannot_verify", !.tree = NoHead,
                                !.free = ~tick.late, !.launching = FALSE, !.late = FALSE]
    BY <1>4 DEF WatchdogGivesUp, WatchdogWrites
  <2>3. row' \in Row
    BY <2>1, <2>2, <1>t DEF Row
  <2>4. /\ tick' \in [pc : TickPcs, polled : HeadOrNone, snap : Snap, late : BOOLEAN]
        /\ tick'.pc # "spawn"
    BY <1>4, <2>1, <1>t DEF WatchdogGivesUp, WatchdogWrites, TickPcs
  <2> QED
    BY <1>4, <2>3, <2>4, NoRetry
       DEF WatchdogGivesUp, WatchdogWrites, Inv, TypeOK, Local, Row, github, judge
<1>5. CASE CancelReap \/ WatchdogReaps
  <2>1. /\ proc' \in [Procs -> ProcState] /\ lock' \in Procs \cup {"none", "dead"}
        /\ win' \in BOOLEAN /\ wt' \in HeadOrNone
    BY <1>5, <1>t DEF CancelReap, WatchdogReaps, ReapRound, StopRun, Dies
  <2>2. /\ tick' \in [pc : TickPcs, polled : HeadOrNone, snap : Snap, late : BOOLEAN]
        /\ tick'.pc # "spawn"
    BY <1>5, <1>t DEF CancelReap, WatchdogReaps, GoTo, TickPcs
  <2> QED
    BY <1>5, <2>1, <2>2, NoRetry DEF CancelReap, WatchdogReaps, Inv, TypeOK, Local, github
<1> QED
  BY <1>1, <1>2, <1>3, <1>4, <1>5

\* Selecting and launching: where a try is counted.
LEMMA SpawnType ==
    ASSUME Inv, Held \/ Select \/ Spawn \/ Crash PROVE Inv'
<1>t. /\ row \in Row /\ NoHead \in HeadOrNone /\ Idle \in ProcState /\ NoSnap \in Snap
      /\ tick \in [pc : TickPcs, polled : HeadOrNone, snap : Snap, late : BOOLEAN]
      /\ IdleTick \in [pc : TickPcs, polled : HeadOrNone, snap : Snap, late : BOOLEAN]
      /\ snap \in Snap /\ snap.head \in HeadOrNone /\ wt \in HeadOrNone /\ win \in BOOLEAN
  BY IdleTypes DEF Inv, TypeOK, Local, Row, snap, Snap
<1>s. /\ \A s \in JudgeStates, h \in HeadOrNone : Judged(row, s, h) \in Row
      /\ Parked(row, NoHead) \in Row
      /\ {"exempt", "cannot_verify", "running"} \subseteq JudgeStates
  BY <1>t, JudgedType, ParkedType DEF JudgeStates, MERGE_READY
\* A step that ends at any stage but the one before the launch.
<1>w. ASSUME row' \in Row, wt' \in HeadOrNone, win' \in BOOLEAN, UNCHANGED <<github, lock, proc>>,
             faults' \in 0..MaxFaults,
             tick' = IdleTick \/ \E pc \in TickPcs \ {"spawn"} : GoTo(pc)
      PROVE  Inv'
  <2>1. /\ tick' \in [pc : TickPcs, polled : HeadOrNone, snap : Snap, late : BOOLEAN]
        /\ tick'.pc # "spawn"
    <3>1. CASE tick' = IdleTick
      BY <3>1, <1>t DEF IdleTick
    <3>2. CASE \E pc \in TickPcs \ {"spawn"} : GoTo(pc)
      BY <3>2, <1>t DEF GoTo
    <3> QED
      BY <3>1, <3>2, <1>w
  <2> QED
    BY <1>w, <2>1, NoRetry DEF Inv, TypeOK, Local, Row, github
<1>f. /\ faults \in 0..MaxFaults
      /\ \A kind : Fault(kind) => faults' \in 0..MaxFaults
  BY BoundAssumption DEF Inv, TypeOK, Fault
<1>1. CASE Held \/ SpawnRefused \/ Crash
  BY <1>1, <1>t, <1>f, <1>w DEF Held, SpawnRefused, Crash, EndTick, github, judge
<1>2. CASE Select
  <2> DEFINE new == [sha |-> row.sha, state |-> row.state, head |-> row.head,
                     again |-> row.state = "cannot_verify" /\ ~row.free]
  <2>1. tick' = [tick EXCEPT !.pc = "spawn", !.snap = new] /\ new \in Snap
    BY <1>2, <1>t DEF Select, Snap, Row
  <2>2. tick' \in [pc : TickPcs, polled : HeadOrNone, snap : Snap, late : BOOLEAN]
    BY <2>1, <1>t DEF TickPcs
  <2>3. tick'.snap = new /\ row' = row
    BY <2>1, <1>2, <1>t DEF Select
  <2>4. new.sha = new.head /\ new.again => row.tries < MaxUnknown
    BY <1>2 DEF Select, Candidate
  <2>5. MayRetry'
    BY <2>3, <2>4 DEF MayRetry, snap
  <2> QED
    BY <1>2, <2>2, <2>5 DEF Select, Inv, TypeOK, Local, Row, github, judge
<1>3. CASE CarryVerdict
  <2>1. row' = [row EXCEPT !.sha = snap.head]
    BY <1>3 DEF CarryVerdict
  <2>2. row' \in Row
    BY <2>1, <1>t DEF Row
  <2> QED
    BY <1>3, <2>2, <1>t, <1>f, <1>w DEF CarryVerdict, EndTick, github, judge
<1>4. CASE StampExempt
  BY <1>4, <1>t, <1>s, <1>f, <1>w DEF StampExempt, EndTick, github, judge
<1>5. CASE SpawnStamps
  <2> DEFINE n == IF snap.sha # snap.head THEN 0 ELSE IF snap.again THEN row.tries + 1 ELSE row.tries
  <2>1. n \in 0..MaxUnknown
    BY <1>5, <1>t, BoundAssumption DEF SpawnStamps, Inv, MayRetry, Row
  <2>2. row' = [row EXCEPT !.sha = snap.head, !.state = "running", !.tree = NoHead, !.tries = n,
                           !.free = FALSE, !.final = FALSE, !.late = FALSE]
    BY <1>5, <1>t DEF SpawnStamps, Row
  <2> HIDE DEF n
  <2>3. row' \in Row
    BY <2>1, <2>2, <1>t, <1>s DEF Row
  <2> DEFINE new == [NoSnap EXCEPT !.head = snap.head]
  <2>4. new \in Snap /\ tick' = [tick EXCEPT !.pc = "checkout", !.snap = new]
    BY <1>5, <1>t DEF SpawnStamps, Snap
  <2> HIDE DEF new
  <2>5. /\ tick' \in [pc : TickPcs, polled : HeadOrNone, snap : Snap, late : BOOLEAN]
        /\ tick'.pc # "spawn"
    BY <2>4, <1>t DEF TickPcs
  <2> QED
    BY <1>5, <2>3, <2>5, NoRetry DEF SpawnStamps, Inv, TypeOK, Local, Row, github, judge
<1>6. CASE CheckoutFails \/ LaunchFails
  BY <1>6, <1>t, <1>s, <1>f, <1>w DEF CheckoutFails, LaunchFails, EndTick, github, judge
<1>7. CASE CheckoutSkips
  BY <1>7, <1>t, <1>s, <1>f, <1>w DEF CheckoutSkips, EndTick, github
<1>8. CASE Checkout \/ Launch \/ Launched
  <2>1. row' \in {row, [row EXCEPT !.launching = TRUE], [row EXCEPT !.launching = FALSE]}
    BY <1>8 DEF Checkout, Launch, Launched
  <2>2. row' \in Row
    BY <2>1, <1>t DEF Row
  <2> QED
    BY <1>8, <2>2, <1>t, <1>f, <1>w DEF Checkout, Launch, Launched, EndTick, github, judge, TickPcs
<1> QED
  BY <1>1, <1>2, <1>3, <1>4, <1>5, <1>6, <1>7, <1>8 DEF Spawn

-----------------------------------------------------------------------------
(* Everybody else.                                                         *)

\* Nobody but the tick counts tries.
LEMMA RetryKept ==
    ASSUME MayRetry, UNCHANGED tick, row'.tries = row.tries PROVE MayRetry'
  BY DEF MayRetry, At, snap

\* The processes that run a judge.
LEMMA ProcType ==
    ASSUME Inv, NEW p \in Procs, Start(p) \/ JudgeRun(p) \/ ProcDies(p) PROVE Inv'
<1>t. /\ row \in Row /\ NoHead \in HeadOrNone /\ Idle \in ProcState /\ proc \in [Procs -> ProcState]
      /\ proc[p] \in ProcState /\ wt \in HeadOrNone /\ lock \in Procs \cup {"none", "dead"}
      /\ win \in BOOLEAN /\ faults \in 0..MaxFaults /\ MayRetry
  BY IdleTypes DEF Inv, TypeOK, Local, Row
<1>w. ASSUME row' \in Row, row'.tries = row.tries, \E s \in ProcState : proc' = [proc EXCEPT ![p] = s],
             wt' \in HeadOrNone, win' \in BOOLEAN, lock' \in Procs \cup {"none", "dead"},
             UNCHANGED <<github, tick>>, faults' \in 0..MaxFaults
      PROVE  Inv'
  <2>1. proc' \in [Procs -> ProcState] /\ MayRetry'
    BY <1>w, <1>t, RetryKept
  <2> QED
    BY <1>w, <2>1 DEF Inv, TypeOK, Local, Row, github
\* A process that only moves on.
<1>p. ASSUME NEW s \in ProcPcs, Step(p, s) PROVE \E n \in ProcState : proc' = [proc EXCEPT ![p] = n]
  <2>1. [proc[p] EXCEPT !.pc = s] \in ProcState
    BY <1>p, <1>t DEF ProcState
  <2>2. proc' = [proc EXCEPT ![p] = [proc[p] EXCEPT !.pc = s]]
    BY <1>p, <1>t DEF Step
  <2> QED
    BY <2>1, <2>2
<1>e. ASSUME Ends(p) PROVE \E n \in ProcState : proc' = [proc EXCEPT ![p] = n]
  <2>1. [Idle EXCEPT !.pc = "release", !.by = proc[p].by] \in ProcState
    BY <1>t DEF ProcState, ProcPcs
  <2> QED
    BY <1>e, <2>1 DEF Ends
<1>1. CASE Start(p)
  <2>1. PICK by \in Starters :
          proc' = [proc EXCEPT ![p] = [Idle EXCEPT !.pc = "claim", !.by = by,
                                                   !.sha = row.sha, !.head = row.head]]
    BY <1>1 DEF Start
  <2>2. [Idle EXCEPT !.pc = "claim", !.by = by, !.sha = row.sha, !.head = row.head] \in ProcState
    BY <1>t, ProcsAssumption DEF ProcState, ProcPcs, Row
  <2> QED
    BY <1>1, <2>1, <2>2, <1>t, <1>w DEF Start, daemon
<1>2. CASE ClaimSlot(p)
  <2> DEFINE rebuilt == wt = NoHead /\ proc[p].head # NoHead
             tree == IF rebuilt THEN proc[p].head ELSE wt
             sha == IF rebuilt \/ proc[p].sha = NoHead THEN proc[p].head ELSE proc[p].sha
             h == IF rebuilt THEN proc[p].head ELSE NoHead
  <2>1. tree \in HeadOrNone /\ sha \in HeadOrNone /\ h \in HeadOrNone
    BY <1>t DEF ProcState
  <2>2. /\ wt' = tree
        /\ proc' = [proc EXCEPT ![p] = [proc[p] EXCEPT !.pc = "battery", !.tree = tree,
                                                       !.sha = sha, !.head = h]]
    BY <1>2, <1>t DEF ClaimSlot, ProcState
  <2>3. row' = [row EXCEPT !.late = FALSE]
    BY <1>2 DEF ClaimSlot
  <2>4. row' \in Row /\ row'.tries = row.tries
    BY <2>3, <1>t DEF Row
  <2> HIDE DEF tree, sha, h
  <2>5. [proc[p] EXCEPT !.pc = "battery", !.tree = tree, !.sha = sha, !.head = h] \in ProcState
    BY <2>1, <1>t DEF ProcState, ProcPcs
  <2> QED
    BY <1>2, <2>1, <2>2, <2>4, <2>5, <1>t, <1>w DEF ClaimSlot, daemon
<1>3. CASE SlotTaken(p)
  <2>1. Step(p, "takeover") \/ proc' = [proc EXCEPT ![p] = Idle]
    BY <1>3 DEF SlotTaken
  <2> QED
    BY <1>3, <2>1, <1>t, <1>p, <1>w DEF SlotTaken, daemon, ProcPcs
<1>4. CASE Unlink(p) \/ Release(p)
  BY <1>4, <1>t, <1>p, <1>w DEF Unlink, Release, daemon, ProcPcs
<1>5. CASE Battery(p)
  <2>1. PICK result \in Results(p) :
          proc' = [proc EXCEPT ![p].pc = "read", ![p].result = result,
                     ![p].tree = IF result \in VERDICTS /\ wt = @ THEN @ ELSE NoHead]
    BY <1>5 DEF Battery
  <2> DEFINE tree == IF result \in VERDICTS /\ wt = proc[p].tree THEN proc[p].tree ELSE NoHead
  <2>2. tree \in HeadOrNone /\ result \in OutcomeKinds
    BY <1>t DEF ProcState, Results, OutcomeKinds
  <2>3. proc' = [proc EXCEPT ![p] = [proc[p] EXCEPT !.pc = "read", !.result = result, !.tree = tree]]
    BY <2>1, <1>t DEF ProcState
  <2> HIDE DEF tree
  <2>4. [proc[p] EXCEPT !.pc = "read", !.result = result, !.tree = tree] \in ProcState
    BY <2>2, <1>t DEF ProcState, ProcPcs
  <2> QED
    BY <1>5, <2>3, <2>4, <1>t, <1>w DEF Battery, daemon
<1>6. CASE ReadHead(p)
  <2>1. Ends(p) \/ proc' = [proc EXCEPT ![p] = [proc[p] EXCEPT !.pc = "publish", !.sha = NoHead]]
    BY <1>6, <1>t DEF ReadHead, ProcState
  <2>2. [proc[p] EXCEPT !.pc = "publish", !.sha = NoHead] \in ProcState
    BY <1>t DEF ProcState, ProcPcs
  <2> QED
    BY <1>6, <2>1, <2>2, <1>t, <1>e, <1>w DEF ReadHead, daemon
<1>7. CASE Publish(p)
  <2>1. row' \in {row, Verdict(p)}
    BY <1>7 DEF Publish
  <2>2. row' \in Row /\ row'.tries = row.tries
    BY <2>1, <1>t, VerdictType
  <2> QED
    BY <1>7, <2>2, <1>t, <1>e, <1>w DEF Publish, daemon
<1>8. CASE Cleanup(p)
  BY <1>8, <1>t, <1>w DEF Cleanup, daemon
<1>9. CASE ProcDies(p)
  <2>1. faults' \in 0..MaxFaults
    BY <1>9, <1>t, BoundAssumption DEF ProcDies, Fault
  <2> QED
    BY <1>9, <2>1, <1>t, <1>w DEF ProcDies, Dies, github
<1> QED
  BY <1>1, <1>2, <1>3, <1>4, <1>5, <1>6, <1>7, <1>8, <1>9 DEF JudgeRun

\* Pushes, merges, verdicts of others, operators and time.
LEMMA ElsewhereType == ASSUME Inv, Elsewhere PROVE Inv'
<1>t. /\ row \in Row /\ head \in Heads /\ MaxHead \in Nat /\ patch \in [Heads -> Heads] /\ MayRetry
      /\ faults \in 0..MaxFaults
  BY HeadAssumption DEF Inv, TypeOK, Row
<1>w. ASSUME row' \in Row, row'.tries = row.tries, UNCHANGED <<github, tick, wt, lock, proc>>,
             win' \in BOOLEAN, faults' \in 0..MaxFaults
      PROVE  Inv'
  BY <1>w, <1>t, RetryKept DEF Inv, TypeOK, Local, Row, github
<1>1. CASE Push \/ PushBase \/ OtherMerges
  <2>0. merged' \in BOOLEAN
    BY <1>1 DEF Push, PushBase, OtherMerges, Inv, TypeOK
  <2>1. head' \in Heads /\ patch' \in [Heads -> Heads]
    <3>1. CASE Push \/ PushBase
      <4>1. head + 1 \in Heads /\ patch[head] \in Heads
        BY <3>1, <1>t DEF Push, PushBase, Heads
      <4> QED
        BY <3>1, <4>1, <1>t DEF Push, PushBase
    <3>2. CASE OtherMerges
      BY <3>2, <1>t DEF OtherMerges
    <3> QED
      BY <1>1, <3>1, <3>2
  <2>2. UNCHANGED <<row, tick, judge, faults>>
    BY <1>1 DEF Push, PushBase, OtherMerges, rest
  <2> QED
    BY <2>0, <2>1, <2>2, <1>t, RetryKept DEF Inv, TypeOK, Local, judge
<1>2. CASE SendBack \/ Rework \/ Escalate \/ Retry \/ RunsLate
  <2>1. \/ \E s \in Statuses : row' = [row EXCEPT !.status = s]
        \/ row' = [row EXCEPT !.late = TRUE]
    BY <1>2 DEF SendBack, Rework, Escalate, Retry, RunsLate, Statuses
  <2>2. row' \in Row /\ row'.tries = row.tries
    BY <2>1, <1>t DEF Row
  <2>3. UNCHANGED <<github, tick, judge, faults>>
    BY <1>2 DEF SendBack, Rework, Escalate, Retry, RunsLate, rest
  <2> QED
    BY <2>2, <2>3, <1>t, <1>w DEF judge, Inv, TypeOK
<1>3. CASE Reopen
  <2>1. row' = [row EXCEPT !.status = "awaiting_review", !.head = head] /\ head \in HeadOrNone
    BY <1>3, <1>t DEF Reopen, HeadOrNone
  <2>2. row' \in Row /\ row'.tries = row.tries
    BY <2>1, <1>t DEF Row, Statuses
  <2> QED
    BY <1>3, <2>2, <1>t, <1>w DEF Reopen, rest, judge, Inv, TypeOK
<1>4. CASE WindowVanishes
  <2>1. faults' \in 0..MaxFaults
    BY <1>4, <1>t, BoundAssumption DEF WindowVanishes, Fault
  <2> QED
    BY <1>4, <2>1, <1>t, <1>w DEF WindowVanishes
<1> QED
  BY <1>1, <1>2, <1>3, <1>4 DEF Elsewhere

-----------------------------------------------------------------------------
(* The theorem.                                                            *)

\* Initially.
LEMMA InitInv == ASSUME Init PROVE Inv
<1>1. /\ 1 \in Heads /\ NoHead \in HeadOrNone /\ 0 \in 0..MaxUnknown /\ 0 \in 0..MaxFaults
      /\ "running" \in Statuses /\ "none" \in JudgeStates
  BY HeadAssumption, BoundAssumption DEF Heads, HeadOrNone, NoHead, Statuses, JudgeStates
<1>2. MayRetry
  BY DEF Init, MayRetry, At, IdleTick
<1> QED
  BY <1>1, <1>2, IdleTypes DEF Init, Inv, TypeOK, Local

\* Every step.
LEMMA NextInv == ASSUME Inv, [Next]_vars PROVE Inv'
<1>1. CASE UNCHANGED vars
  BY <1>1, RetryKept DEF vars, Inv, TypeOK, Local
<1> QED
  BY <1>1, SweepType, SpawnType, ProcType, ElsewhereType DEF Next, Tick

\* For any number of processes, heads and faults: the judge's columns hold what the
\* code means by them, and however the tries of a head ended and whatever came
\* between the snapshot and the stamp, it is tried at most
\* judge_max_unknown_retries times again (_spawn_judge).
THEOREM TypeCorrect == Spec => []TypeOK
<1>1. Init => Inv
  BY InitInv
<1>2. Inv /\ [Next]_vars => Inv'
  BY NextInv
<1>3. Inv => TypeOK
  BY DEF Inv
<1> QED
  BY <1>1, <1>2, <1>3, PTL DEF Spec

-----------------------------------------------------------------------------
(* A verdict is of the files it names. The assumptions: runs do not        *)
(* overlap (the slot's lock file is for that, but it can be taken over),   *)
(* none is started by hand, and neither the daemon nor a checkout nor      *)
(* GitHub fails: with a run by hand, or any of these faults, a verdict may *)
(* be of other files. Launches, windows and runs may die as they like.     *)

Alone == \A p, q \in Procs : proc[p].pc # "idle" /\ proc[q].pc # "idle" => p = q

Benign == Starters \subseteq {"agent"} /\ Faults \cap {"crash", "checkout", "slow", "unread"} = {}

(* A tree covers a head if it has its files, or the head's tier is not     *)
(* judged. Current: the files that are to be judged are still the pull     *)
(* request's. Right: a tree that covers the stamped head, if that matters. *)
Covers(t, h) == t # NoHead /\ (SameFiles(t, h) \/ patch[h] \in Exempt)
Current == SameFiles(row.sha, head)
Right(t) == t # NoHead /\ Current => Covers(t, row.sha)
Verdicts == VERDICTS \cup {"blocked_race"}

(* Heads of the same files follow each other. *)
PatchOK ==
    /\ \A h \in Heads : patch[h] <= h /\ (h > head => patch[h] = h)
    /\ \A g, h \in Heads : g <= h => patch[g] <= patch[h]

(* What the tick has in hand, and that a window is of a stamped head. *)
StageOK ==
    /\ \A h \in {row.head, row.sha, row.tree, tick.polled, snap.sha, snap.head, wt} : h <= head
    /\ row.sha = NoHead => ~win /\ row.state \notin Verdicts
    /\ At("spawn") \/ At("checkout") =>
         snap.head # NoHead /\ (row.head = NoHead \/ row.head >= snap.head)
    /\ At("checkout") => row.sha = snap.head
    /\ At("launch") => row.sha # NoHead /\ (wt = NoHead => ~win)

(* An agent's window has a tree for the stamped head; or none, and then the *)
(* row's head, at which its run would make one, will do.                    *)
WindowOK ==
    /\ (win \/ At("launch")) /\ ~At("checkout") => Right(wt)
    /\ (win /\ wt = NoHead /\ ~At("checkout")) \/ At("launch") => Right(row.head)
    /\ win /\ wt = NoHead /\ At("settle") => Right(tick.polled)

(* A run that has read the row and not yet the tree; and one that has both. *)
Claiming(p) == proc[p].pc \in {"claim", "takeover"}

ClaimOK(p) ==
    /\ row.sha # NoHead /\ ~At("checkout") /\ proc[p].sha # NoHead
    /\ wt # NoHead /\ proc[p].sha = head => Covers(wt, row.sha)
    /\ wt = NoHead /\ win => Right(proc[p].head)

RunOK(p) ==
    /\ row.sha # NoHead /\ ~At("checkout") /\ (proc[p].pc # "publish" => proc[p].sha # NoHead)
    /\ proc[p].tree # NoHead => wt \in {NoHead, proc[p].tree}
    /\ proc[p].head # NoHead => {proc[p].tree, wt} \subseteq {NoHead, proc[p].head} /\ ~At("launch")
    /\ win /\ wt = NoHead => proc[p].tree = NoHead /\ proc[p].head = NoHead
    /\ proc[p].pc # "battery" /\ proc[p].result \in VERDICTS => proc[p].tree # NoHead
    /\ proc[p].head = NoHead /\ proc[p].tree # NoHead /\ (proc[p].pc = "publish" \/ proc[p].sha = head) =>
         Covers(proc[p].tree, row.sha)

ProcOK(p) ==
    /\ proc[p].sha <= head /\ proc[p].head <= head /\ proc[p].tree <= head
    /\ At("launch") /\ wt = NoHead => proc[p].pc = "idle"
    /\ Claiming(p) => ClaimOK(p)
    /\ InRun(p) => RunOK(p)

VInv ==
    /\ Inv /\ PatchOK /\ StageOK /\ WindowOK /\ VerdictIsVerified
    /\ \A p \in Procs : ProcOK(p)

-----------------------------------------------------------------------------
(* Files.                                                                  *)

\* Numbers of heads.
LEMMA Numbers ==
    ASSUME VInv
    PROVE  /\ MaxHead \in Nat /\ head \in Heads /\ Heads \subseteq Nat \ {0} /\ NoHead = 0
           /\ HeadOrNone = Heads \cup {NoHead} /\ patch \in [Heads -> Heads]
           /\ {row.head, row.sha, row.tree, tick.polled, snap.sha, snap.head, wt} \subseteq HeadOrNone
           /\ {tick.polled, tick.snap.sha, tick.snap.head} \subseteq HeadOrNone
           /\ row \in Row /\ tick \in [pc : TickPcs, polled : HeadOrNone, snap : Snap, late : BOOLEAN]
           /\ win \in BOOLEAN /\ proc \in [Procs -> ProcState]
           /\ \A p \in Procs : {proc[p].sha, proc[p].head, proc[p].tree} \subseteq HeadOrNone
<1>1. /\ row \in Row /\ proc \in [Procs -> ProcState] /\ head \in Heads /\ patch \in [Heads -> Heads]
      /\ tick \in [pc : TickPcs, polled : HeadOrNone, snap : Snap, late : BOOLEAN] /\ wt \in HeadOrNone
      /\ win \in BOOLEAN
  BY DEF VInv, Inv, TypeOK, Local, Row
<1>2. MaxHead \in Nat /\ Heads \subseteq Nat \ {0} /\ NoHead = 0 /\ HeadOrNone = Heads \cup {NoHead}
  BY HeadAssumption DEF Heads, NoHead, HeadOrNone
<1>3. /\ {row.head, row.sha, row.tree} \subseteq HeadOrNone
      /\ tick.polled \in HeadOrNone /\ tick.snap \in Snap
  BY <1>1 DEF Row
<1>4. tick.snap.sha \in HeadOrNone /\ tick.snap.head \in HeadOrNone
  BY <1>3 DEF Snap
<1>5. ASSUME NEW p \in Procs PROVE {proc[p].sha, proc[p].head, proc[p].tree} \subseteq HeadOrNone
  BY <1>1 DEF ProcState
<1> QED
  BY <1>1, <1>2, <1>3, <1>4, <1>5 DEF snap

\* A head of the same files, or of a tier that is not judged, is covered by what
\* covered the one before.
LEMMA KinCovered ==
    ASSUME VInv, UNCHANGED <<head, patch>>,
           row'.sha = row.sha \/ SameFiles(row.sha, row'.sha) \/ patch[row'.sha] \in Exempt
    PROVE  /\ \A t : Covers(t, row.sha) => Covers(t, row.sha)'
           /\ \A t : Right(t) => Right(t)'
  BY DEF Covers, Right, Current, SameFiles

\* A head between the one that was judged and the last one has its files, if these are the same.
LEMMA LaterIsRight ==
    ASSUME VInv, NEW h \in HeadOrNone, h <= head, row.sha # NoHead, h = NoHead \/ h >= row.sha
    PROVE  Right(h)
<1> SUFFICES ASSUME h # NoHead, SameFiles(row.sha, head) PROVE SameFiles(h, row.sha)
  BY DEF Right, Current, Covers
<1>1. h \in Heads /\ row.sha \in Heads /\ head \in Heads /\ row.sha <= h /\ h <= head
  BY Numbers
<1>2. patch[row.sha] <= patch[h] /\ patch[h] <= patch[head] /\ patch[row.sha] = patch[head]
  BY <1>1 DEF VInv, PatchOK, SameFiles
<1>3. {patch[row.sha], patch[h], patch[head]} \subseteq Nat
  BY <1>1, Numbers
<1> QED
  BY <1>2, <1>3 DEF SameFiles

-----------------------------------------------------------------------------
(* The daemon.                                                             *)

\* A step that moves no tree and no process, and judges no other files.
LEMMA CalmStep ==
    ASSUME VInv, Inv', VerdictIsVerified', UNCHANGED <<head, patch, wt, proc>>, win' => win,
           row'.head = row.head, row'.sha <= head, row'.tree <= head,
           row'.state \in Verdicts => row'.sha # NoHead,
           \/ row'.sha = row.sha
           \/ row'.sha # NoHead /\ (SameFiles(row.sha, row'.sha) \/ patch[row'.sha] \in Exempt),
           \/ tick' = tick /\ row'.sha = row.sha
           \/ /\ tick.pc # "checkout" /\ tick'.pc \notin {"settle", "spawn", "checkout", "launch"}
              /\ tick'.polled <= head /\ tick'.snap.sha <= head /\ tick'.snap.head <= head
    PROVE  VInv'
<1>1. PatchOK'
  BY DEF VInv, PatchOK
<1>2. /\ At("checkout")' => At("checkout") /\ UNCHANGED <<tick, row.sha>>
      /\ At("checkout") => At("checkout")'
      /\ At("launch")' => At("launch")
      /\ At("settle")' => At("settle") /\ tick' = tick
      /\ At("spawn")' => tick' = tick
  BY DEF At
<1>3. StageOK'
  BY <1>2 DEF VInv, StageOK, At, snap
<1>4. \A t : (Covers(t, row.sha) => Covers(t, row.sha)') /\ (Right(t) => Right(t)')
  BY KinCovered
<1>5. WindowOK'
  <2>1. Right(wt) => Right(wt)'
    BY <1>4 DEF Right, Covers, Current, SameFiles
  <2>2. Right(row.head) => Right(row.head)'
    BY <1>4 DEF Right, Covers, Current, SameFiles
  <2>3. At("settle")' /\ Right(tick.polled) => Right(tick.polled)'
    BY <1>2, <1>4 DEF Right, Covers, Current, SameFiles
  <2> QED
    BY <1>2, <2>1, <2>2, <2>3 DEF VInv, WindowOK
<1>6. ASSUME NEW p \in Procs PROVE ProcOK(p)'
  <2>1. proc'[p] = proc[p] /\ head' = head /\ wt' = wt
    OBVIOUS
  <2>2. ProcOK(p)
    BY DEF VInv
  <2>3. row.sha # NoHead => row'.sha # NoHead
    OBVIOUS
  <2>4. ASSUME Claiming(p)' PROVE ClaimOK(p)'
    <3>1. ClaimOK(p)
      BY <2>2, <2>4 DEF ProcOK, Claiming
    <3>2. Covers(wt, row.sha) => Covers(wt, row.sha)'
      BY <1>4 DEF Covers, SameFiles
    <3>3. Right(proc[p].head) => Right(proc[p].head)'
      BY <1>4 DEF Right, Covers, Current, SameFiles
    <3> QED
      BY <1>2, <2>1, <2>3, <3>1, <3>2, <3>3 DEF ClaimOK
  <2>5. ASSUME InRun(p)' PROVE RunOK(p)'
    <3>1. RunOK(p)
      BY <2>2, <2>5 DEF ProcOK, InRun
    <3>2. Covers(proc[p].tree, row.sha) => Covers(proc[p].tree, row.sha)'
      BY <1>4 DEF Covers, SameFiles
    <3> QED
      BY <1>2, <2>1, <2>3, <3>1, <3>2 DEF RunOK
  <2> QED
    BY <1>2, <2>1, <2>2, <2>4, <2>5 DEF ProcOK
<1> QED
  BY <1>1, <1>3, <1>5, <1>6 DEF VInv

\* A verdict that stays, of a head that stays, or none.
LEMMA VerdictStays ==
    ASSUME VInv, UNCHANGED <<head, patch>>,
           \/ row'.state \notin Verdicts
           \/ row'.state = row.state /\ row'.sha = row.sha /\ row'.tree = row.tree
    PROVE  VerdictIsVerified' /\ (row'.state \in Verdicts => row'.sha # NoHead)
  BY DEF VInv, StageOK, VerdictIsVerified, Verdicts, SameFiles

\* Sweeps, refusals, failures, and what others do to the run.
LEMMA CalmSteps ==
    ASSUME VInv, Inv',
           \/ CancelMoot \/ WatchdogGivesUp \/ WatchdogWrites \/ EscalateStranded \/ SweepQuiet \/ Held
           \/ SpawnRefused \/ LaunchFails \/ Launched
           \/ SendBack \/ Rework \/ Escalate \/ Retry \/ RunsLate \/ WindowVanishes
    PROVE  VInv'
<1>h. /\ row.sha <= head /\ row.tree <= head /\ tick.polled <= head
      /\ tick.snap.sha <= head /\ tick.snap.head <= head /\ 0 <= head
  BY Numbers DEF VInv, StageOK, snap
<1>r. row \in Row /\ tick \in [pc : TickPcs, polled : HeadOrNone, snap : Snap, late : BOOLEAN]
  BY Numbers
\* The tick goes on, or the row is touched by others.
<1>g. ASSUME UNCHANGED <<head, patch, wt, proc>>, win' => win,
             row'.head = row.head /\ row'.sha = row.sha,
             \/ row'.state = row.state /\ row'.tree = row.tree
             \/ row'.state \notin Verdicts /\ row'.tree <= head,
             \/ tick' = tick
             \/ tick.pc # "checkout" /\ \E pc \in {"idle", "cancelReap", "watchWrite", "watchReap", "judge"},
                   late \in BOOLEAN : tick' = IdleTick \/ tick' = [tick EXCEPT !.pc = pc, !.late = late]
      PROVE  VInv'
  <2>1. \/ tick' = tick /\ row'.sha = row.sha
        \/ /\ tick.pc # "checkout" /\ tick'.pc \notin {"settle", "spawn", "checkout", "launch"}
           /\ tick'.polled <= head /\ tick'.snap.sha <= head /\ tick'.snap.head <= head
    <3>1. CASE tick' = IdleTick
      BY <3>1, <1>g, <1>h DEF IdleTick, NoSnap, NoHead
    <3>2. ASSUME NEW pc \in {"idle", "cancelReap", "watchWrite", "watchReap", "judge"}, NEW late \in BOOLEAN,
                 tick' = [tick EXCEPT !.pc = pc, !.late = late]
          PROVE  /\ tick'.pc \notin {"settle", "spawn", "checkout", "launch"}
                 /\ tick'.polled <= head /\ tick'.snap.sha <= head /\ tick'.snap.head <= head
      <4>1. tick'.pc = pc /\ tick'.polled = tick.polled /\ tick'.snap = tick.snap
        BY <3>2, <1>r
      <4> QED
        BY <4>1, <1>h
    <3> QED
      BY <3>1, <3>2, <1>g
  <2>2. VerdictIsVerified' /\ (row'.state \in Verdicts => row'.sha # NoHead)
    BY <1>g, VerdictStays
  <2> QED
    BY <1>g, <1>h, <2>1, <2>2, CalmStep
<1>n. {"cancelled", "cannot_verify"} \cap Verdicts = {} /\ NoHead = 0
  BY DEF Verdicts, VERDICTS, NoHead
<1>t. tick.late \in BOOLEAN /\ row.late \in BOOLEAN
  BY <1>r DEF Row
<1>e. \A pc \in TickPcs : [tick EXCEPT !.pc = pc] = [tick EXCEPT !.pc = pc, !.late = tick.late]
  BY <1>r
<1>1. CASE CancelMoot \/ EscalateStranded \/ SweepQuiet
  <2>1. /\ row'.head = row.head /\ row'.sha = row.sha /\ row'.tree = row.tree
        /\ row'.state = row.state \/ row'.state = "cancelled"
    BY <1>1, <1>r DEF CancelMoot, EscalateStranded, SweepQuiet, Row
  <2>2. tick.pc = "sweep" /\ \E pc \in {"cancelReap", "judge"} : tick' = [tick EXCEPT !.pc = pc]
    BY <1>1 DEF CancelMoot, EscalateStranded, SweepQuiet, At, GoTo
  <2>3. UNCHANGED <<head, patch, wt, proc, win>>
    BY <1>1 DEF CancelMoot, EscalateStranded, SweepQuiet, github, judge
  <2> QED
    BY <1>g, <1>h, <1>n, <1>t, <1>e, <2>1, <2>2, <2>3 DEF TickPcs
<1>2. CASE WatchdogGivesUp \/ WatchdogWrites
  <2>1. /\ row'.head = row.head /\ row'.sha = row.sha
        /\ \/ row'.tree = row.tree /\ row'.state = row.state
           \/ row'.state = "cannot_verify" /\ row'.tree = NoHead
    BY <1>2, <1>r DEF WatchdogGivesUp, WatchdogWrites, Row
  <2>2. /\ tick.pc # "checkout"
        /\ \E pc \in {"watchWrite", "watchReap"}, late \in BOOLEAN :
              tick' = [tick EXCEPT !.pc = pc, !.late = late]
    BY <1>2, <1>t DEF WatchdogGivesUp, WatchdogWrites, At
  <2>3. UNCHANGED <<head, patch, wt, proc, win>>
    BY <1>2 DEF WatchdogGivesUp, WatchdogWrites, github, judge
  <2> QED
    BY <1>g, <1>h, <1>n, <2>1, <2>2, <2>3
<1>3. CASE Held \/ SpawnRefused \/ LaunchFails \/ Launched
  <2>1. /\ row'.head = row.head /\ row'.sha = row.sha
        /\ \/ row'.tree = row.tree /\ row'.state = row.state
           \/ row'.state = "cannot_verify" /\ row'.tree = NoHead
    BY <1>3, <1>r DEF Held, SpawnRefused, LaunchFails, Launched, Judged, Row
  <2>2. tick.pc # "checkout" /\ tick' = IdleTick
    BY <1>3 DEF Held, SpawnRefused, LaunchFails, Launched, At, EndTick
  <2>3. UNCHANGED <<head, patch, wt, proc, win>>
    BY <1>3 DEF Held, SpawnRefused, LaunchFails, Launched, github, judge
  <2> QED
    BY <1>g, <1>h, <1>n, <2>1, <2>2, <2>3
<1>4. CASE SendBack \/ Rework \/ Escalate \/ Retry \/ RunsLate \/ WindowVanishes
  <2>1. /\ row'.head = row.head /\ row'.sha = row.sha
        /\ row'.tree = row.tree /\ row'.state = row.state
    BY <1>4, <1>r DEF SendBack, Rework, Escalate, Retry, RunsLate, WindowVanishes, Row
  <2>2. UNCHANGED <<head, patch, wt, proc, tick>> /\ (win' => win)
    BY <1>4 DEF SendBack, Rework, Escalate, Retry, RunsLate, WindowVanishes, github, rest, judge
  <2> QED
    BY <1>g, <2>1, <2>2
<1> QED
  BY <1>1, <1>2, <1>3, <1>4

\* A verdict that is carried to a head of the same files, or a head that is not judged.
LEMMA StampSteps ==
    ASSUME VInv, Inv', CarryVerdict \/ StampExempt PROVE VInv'
<1>n. /\ head \in Nat /\ NoHead = 0 /\ row \in Row
      /\ {row.sha, row.tree, snap.head, patch[snap.head]} \subseteq Nat /\ snap.head \in Heads
  <2>1. snap.head # NoHead
    BY DEF CarryVerdict, StampExempt, VInv, StageOK
  <2> QED
    BY <2>1, Numbers
<1>h. row.sha <= head /\ row.tree <= head /\ snap.head <= head /\ snap.head # NoHead
  BY <1>n, Numbers DEF VInv, StageOK, CarryVerdict, StampExempt
<1>1. /\ tick.pc = "spawn" /\ tick' = IdleTick
      /\ UNCHANGED <<head, patch, wt, proc, win>>
  BY DEF CarryVerdict, StampExempt, At, EndTick, github, judge
<1>2. /\ tick.pc # "checkout" /\ tick'.pc \notin {"settle", "spawn", "checkout", "launch"}
      /\ tick'.polled <= head /\ tick'.snap.sha <= head /\ tick'.snap.head <= head
  BY <1>1, <1>n DEF IdleTick, NoSnap
<1>3. CASE CarryVerdict
  <2>1. /\ row'.head = row.head /\ row'.sha = snap.head /\ row'.tree = row.tree /\ row'.state = row.state
        /\ SameFiles(row.sha, snap.head) /\ row.state = "clean"
    BY <1>3, <1>n DEF CarryVerdict, Row
  <2>2. VerdictIsVerified'
    BY <1>1, <2>1 DEF VInv, VerdictIsVerified, SameFiles, VERDICTS
  <2> QED
    BY <1>1, <1>2, <1>h, <2>1, <2>2, CalmStep
<1>4. CASE StampExempt
  <2>1. /\ row'.head = row.head /\ row'.sha = snap.head /\ row'.tree = NoHead /\ row'.state = "exempt"
        /\ patch[snap.head] \in Exempt
    BY <1>4, <1>n, <1>h DEF StampExempt, Judged, Row
  <2>2. VerdictIsVerified' /\ row'.tree <= head
    BY <1>n, <2>1 DEF VerdictIsVerified, VERDICTS
  <2> QED
    BY <1>1, <1>2, <1>h, <2>1, <2>2, CalmStep
<1> QED
  BY <1>3, <1>4

\* A process is left alone, and so is what it works on.
LEMMA ProcKept ==
    ASSUME VInv, NEW p \in Procs, UNCHANGED <<head, patch, wt, win, row.sha>>, proc'[p] = proc[p],
           At("checkout")' => At("checkout"), At("launch")' => At("launch")
    PROVE  ProcOK(p)'
<1>1. ProcOK(p) /\ row'.sha = row.sha /\ UNCHANGED <<head, patch, wt, win>>
  BY DEF VInv
<1>2. Claiming(p)' => ClaimOK(p)'
  BY <1>1 DEF ProcOK, Claiming, ClaimOK, Covers, SameFiles, Right, Current
<1>3. InRun(p)' => RunOK(p)'
  BY <1>1 DEF ProcOK, InRun, RunOK, Covers, SameFiles
<1> QED
  BY <1>1, <1>2, <1>3 DEF ProcOK

\* Reads of the head, on GitHub and in the row.
LEMMA ReadSteps ==
    ASSUME VInv, Inv', Poll \/ SettleMerged \/ HandIn \/ RowsQuiet \/ Select \/ Reopen
    PROVE  VInv'
<1>n. /\ {head, row.head, row.sha, row.tree, tick.polled, tick.snap.sha, tick.snap.head, wt} \subseteq Nat
      /\ NoHead = 0 /\ row \in Row /\ head \in Heads
      /\ tick \in [pc : TickPcs, polled : HeadOrNone, snap : Snap, late : BOOLEAN] /\ tick.snap \in Snap
  BY Numbers
<1>h. \A h \in {row.head, row.sha, row.tree, tick.polled, tick.snap.sha, tick.snap.head, wt} : h <= head
  BY DEF VInv, StageOK, snap
<1>u. UNCHANGED <<head, patch, wt, win, proc>>
  BY DEF Poll, PollSees, SettleMerged, HandIn, RowsQuiet, Settle, Select, Reopen, github, judge, rest
<1>s. row'.sha = row.sha /\ row'.state = row.state /\ row'.tree = row.tree
  BY <1>n DEF Poll, PollSees, SettleMerged, HandIn, RowsQuiet, Settle, Refreshed, Select, Reopen, Row
\* What each of them writes.
<1>w. \/ /\ tick.pc = "idle" /\ tick'.pc = "settle" /\ tick'.polled \in {head, NoHead}
         /\ tick'.snap = tick.snap /\ row'.head = row.head
      \/ /\ tick.pc = "settle" /\ tick'.pc = "sweep" /\ tick'.polled = NoHead
         /\ tick'.snap = tick.snap /\ row'.head \in {row.head, tick.polled, NoHead}
      \/ /\ tick.pc = "judge" /\ tick'.pc = "spawn" /\ tick'.polled = tick.polled
         /\ tick'.snap.sha = row.sha /\ tick'.snap.head = row.head /\ row.head # NoHead /\ row'.head = row.head
      \/ tick' = tick /\ row'.head = head
  <2>1. CASE Poll
    <3>1. PICK seen \in {head, NoHead} :
            /\ tick' = [tick EXCEPT !.pc = "settle",
                          !.polled = IF row.status \in CI_POLL_STATUSES THEN seen ELSE NoHead]
            /\ row' = row /\ tick.pc = "idle"
      BY <2>1 DEF Poll, PollSees, At
    <3> QED
      BY <3>1, <1>n
  <2>2. CASE SettleMerged \/ HandIn \/ RowsQuiet
    <3>1. tick.pc = "settle" /\ tick' = [tick EXCEPT !.pc = "sweep", !.polled = NoHead]
      BY <2>2 DEF SettleMerged, HandIn, RowsQuiet, Settle, At
    <3>2. row'.head \in {row.head, tick.polled, NoHead}
      BY <2>2, <1>n DEF SettleMerged, HandIn, RowsQuiet, Settle, Refreshed, Row
    <3> QED
      BY <3>1, <3>2, <1>n
  <2>3. CASE Select
    <3> DEFINE new == [sha |-> row.sha, state |-> row.state, head |-> row.head,
                       again |-> row.state = "cannot_verify" /\ ~row.free]
    <3>1. /\ tick.pc = "judge" /\ tick' = [tick EXCEPT !.pc = "spawn", !.snap = new]
          /\ row.head # NoHead /\ row' = row
      BY <2>3 DEF Select, Candidate, At
    <3>2. new.sha = row.sha /\ new.head = row.head
      OBVIOUS
    <3> HIDE DEF new
    <3> QED
      BY <3>1, <3>2, <1>n
  <2>4. CASE Reopen
    BY <2>4, <1>n DEF Reopen, rest, Row
  <2> QED
    BY <2>1, <2>2, <2>3, <2>4
<1>3. PatchOK'
  BY <1>u DEF VInv, PatchOK
<1>4. StageOK'
  <2>1. \A h \in {row'.head, row'.sha, row'.tree, tick'.polled, tick'.snap.sha, tick'.snap.head, wt'} : h <= head'
    BY <1>n, <1>h, <1>u, <1>s, <1>w
  <2> QED
    BY <2>1, <1>n, <1>h, <1>u, <1>s, <1>w DEF VInv, StageOK, At, snap
<1>5. WindowOK'
  <2>1. Right(wt) => Right(wt)'
    BY <1>u, <1>s DEF Right, Covers, Current, SameFiles
  <2>2. row'.head \in {row.head, NoHead, head} /\ Right(row.head) => Right(row.head)'
    BY <1>u, <1>s DEF Right, Covers, Current, SameFiles
  <2>3. row'.head = tick.polled /\ Right(tick.polled) => Right(row.head)'
    BY <1>u, <1>s DEF Right, Covers, Current, SameFiles
  <2>4. tick'.polled \in {NoHead, head} => Right(tick.polled)'
    BY <1>u, <1>s DEF Right, Covers, Current, SameFiles
  <2>5. tick' = tick /\ Right(tick.polled) => Right(tick.polled)'
    BY <1>u, <1>s DEF Right, Covers, Current, SameFiles
  <2> QED
    BY <2>1, <2>2, <2>3, <2>4, <2>5, <1>u, <1>w DEF VInv, WindowOK, At
<1>6. ASSUME NEW p \in Procs PROVE ProcOK(p)'
  <2>1. (At("checkout")' => At("checkout")) /\ (At("launch")' => At("launch"))
    BY <1>w DEF At
  <2> QED
    BY <2>1, <1>u, <1>s, ProcKept
<1>7. VerdictIsVerified'
  BY <1>u, <1>s, VerdictStays
<1> QED
  BY <1>3, <1>4, <1>5, <1>6, <1>7 DEF VInv

\* A round that ends leaves no tree and no window.
LEMMA ReapSteps ==
    ASSUME VInv, Inv', CancelReap \/ WatchdogReaps PROVE VInv'
<1>n. NoHead = 0 /\ head \in Nat /\ tick \in [pc : TickPcs, polled : HeadOrNone, snap : Snap, late : BOOLEAN]
      /\ proc \in [Procs -> ProcState]
  BY Numbers
<1>1. /\ UNCHANGED <<head, patch, row>> /\ win' = FALSE /\ wt' = NoHead
      /\ tick' = [tick EXCEPT !.pc = "judge"]
      /\ \A p \in Procs : proc'[p] \in {proc[p], Idle}
  BY <1>n DEF CancelReap, WatchdogReaps, ReapRound, StopRun, Dies, GoTo, github
<1>2. PatchOK' /\ VerdictIsVerified'
  BY <1>1, VerdictStays DEF VInv, PatchOK
<1>3. StageOK' /\ WindowOK'
  <2>1. tick'.pc = "judge" /\ tick'.polled = tick.polled /\ tick'.snap = tick.snap
    BY <1>1, <1>n
  <2> QED
    BY <2>1, <1>1, <1>n DEF VInv, StageOK, WindowOK, At, snap
<1>4. ASSUME NEW p \in Procs PROVE ProcOK(p)'
  <2>1. tick'.pc = "judge" /\ tick.pc # "checkout"
    BY <1>1, <1>n DEF CancelReap, WatchdogReaps, At
  <2>2. CASE proc'[p] = Idle
    BY <2>1, <2>2, <1>1, <1>n DEF ProcOK, Claiming, InRun, Idle, At
  <2>3. CASE proc'[p] = proc[p]
    <3>1. ProcOK(p)
      BY DEF VInv
    <3>2. Claiming(p)' => ClaimOK(p)'
      BY <3>1, <2>1, <2>3, <1>1, <1>n DEF ProcOK, Claiming, ClaimOK, At
    <3>3. InRun(p)' => RunOK(p)'
      BY <3>1, <2>1, <2>3, <1>1, <1>n DEF ProcOK, InRun, RunOK, At, Covers, SameFiles
    <3> QED
      BY <3>1, <3>2, <3>3, <2>1, <2>3, <1>1 DEF ProcOK, At
  <2> QED
    BY <2>2, <2>3, <1>1
<1> QED
  BY <1>2, <1>3, <1>4 DEF VInv

\* A launch, from the head that is burned to the window that is opened.
LEMMA LaunchSteps ==
    ASSUME VInv, Inv', Benign, SpawnStamps \/ CheckoutSkips \/ Checkout \/ Launch PROVE VInv'
<1>n. /\ {head, row.head, row.sha, row.tree, tick.polled, tick.snap.sha, tick.snap.head, wt} \subseteq Nat
      /\ NoHead = 0 /\ row \in Row /\ head \in Heads /\ row.head \in HeadOrNone /\ snap.head \in HeadOrNone
      /\ tick \in [pc : TickPcs, polled : HeadOrNone, snap : Snap, late : BOOLEAN] /\ tick.snap \in Snap
      /\ proc \in [Procs -> ProcState] /\ snap = tick.snap
  BY Numbers DEF snap
<1>h. \A h \in {row.head, row.sha, row.tree, tick.polled, tick.snap.sha, tick.snap.head, wt} : h <= head
  BY DEF VInv, StageOK, snap
<1>u. UNCHANGED <<head, patch, proc>>
  BY DEF SpawnStamps, CheckoutSkips, Checkout, Launch, github, judge
<1>p. PatchOK'
  BY <1>u DEF VInv, PatchOK
<1>1. CASE SpawnStamps
  <2>1. /\ row'.sha = snap.head /\ row'.state = "running" /\ row'.tree = NoHead /\ row'.head = row.head
        /\ UNCHANGED <<wt, win>> /\ At("spawn")
        /\ tick' = [tick EXCEPT !.pc = "checkout", !.snap = [NoSnap EXCEPT !.head = snap.head]]
    BY <1>1, <1>n DEF SpawnStamps, github, judge, Row
  <2>2. tick'.pc = "checkout" /\ tick'.snap.head = snap.head /\ tick'.snap.sha = NoHead /\ tick'.polled = tick.polled
    BY <2>1, <1>n DEF NoSnap
  <2>3. \A p \in Procs : ~InRun(p) /\ ~Claiming(p)
    BY <1>1 DEF SpawnStamps, Benign, LiveRun, Claiming
  <2>4. StageOK'
    BY <2>1, <2>2, <1>n, <1>h, <1>u DEF VInv, StageOK, At, snap
  <2>5. WindowOK'
    BY <2>2 DEF WindowOK, At
  <2>6. ASSUME NEW p \in Procs PROVE ProcOK(p)'
    BY <2>2, <2>3, <1>u DEF VInv, ProcOK, At, InRun, Claiming
  <2>7. VerdictIsVerified'
    BY <2>1 DEF VerdictIsVerified, VERDICTS
  <2> QED
    BY <1>p, <2>4, <2>5, <2>6, <2>7 DEF VInv
<1>b. At("checkout") => \A p \in Procs : ~InRun(p) /\ ~Claiming(p)
  BY DEF VInv, ProcOK, ClaimOK, RunOK
\* The head that is launched is the one that was burned.
<1>r. At("checkout") => /\ row.sha = snap.head /\ snap.head # NoHead
                        /\ row.head = NoHead \/ row.head >= snap.head
  BY DEF VInv, StageOK
<1>l. At("checkout") => Right(row.head) /\ Right(row.sha)
  BY <1>n, <1>h, <1>r, LaterIsRight
<1>2. CASE CheckoutSkips
  <2>1. /\ At("checkout") /\ tick' = IdleTick /\ wt' = NoHead /\ win' = win
        /\ row'.state \in {"exempt", "cannot_verify"} /\ row'.tree = NoHead /\ row'.head = row.head
        /\ row'.sha = row.sha
    BY <1>2, <1>n, <1>r DEF CheckoutSkips, EndTick, Judged, Parked, Row
  <2>2. StageOK'
    BY <2>1, <1>n, <1>h, <1>u, <1>r DEF VInv, StageOK, At, snap, IdleTick, NoSnap, Verdicts, VERDICTS
  <2>3. Right(wt)' /\ Right(row.head)'
    BY <2>1, <1>u, <1>l DEF Right, Covers, Current, SameFiles
  <2>4. WindowOK'
    BY <2>1, <2>3 DEF WindowOK, At, IdleTick
  <2>5. ASSUME NEW p \in Procs PROVE ProcOK(p)'
    BY <2>1, <1>b, <1>u DEF VInv, ProcOK, At, InRun, Claiming, IdleTick
  <2>6. VerdictIsVerified'
    BY <2>1 DEF VerdictIsVerified, VERDICTS
  <2> QED
    BY <1>p, <2>2, <2>4, <2>5, <2>6 DEF VInv
<1>3. CASE Checkout
  <2>1. /\ At("checkout") /\ wt' = snap.head /\ win' = win
        /\ tick'.pc = "launch" /\ tick'.polled = tick.polled /\ tick'.snap = tick.snap
        /\ row'.state = row.state /\ row'.tree = row.tree /\ row'.head = row.head /\ row'.sha = row.sha
    BY <1>3, <1>n DEF Checkout, GoTo, Row
  <2>2. StageOK'
    BY <2>1, <1>n, <1>h, <1>u, <1>r DEF VInv, StageOK, At, snap
  <2>3. Right(wt)' /\ Right(row.head)'
    BY <2>1, <1>r, <1>u, <1>l DEF Right, Covers, Current, SameFiles
  <2>4. WindowOK'
    BY <2>1, <2>3, <1>r DEF WindowOK, At
  <2>5. ASSUME NEW p \in Procs PROVE ProcOK(p)'
    BY <2>1, <1>b, <1>r, <1>u DEF VInv, ProcOK, At, InRun, Claiming
  <2>6. VerdictIsVerified'
    BY <2>1, <1>u, VerdictStays
  <2> QED
    BY <1>p, <2>2, <2>4, <2>5, <2>6 DEF VInv
<1>4. CASE Launch
  <2>1. /\ At("launch") /\ UNCHANGED <<wt, row>> /\ win' = TRUE
        /\ tick'.pc = "launched" /\ tick'.polled = tick.polled /\ tick'.snap = tick.snap
    BY <1>4, <1>n DEF Launch, GoTo
  <2>2. Right(wt) /\ Right(row.head) /\ row.sha # NoHead
    BY <2>1 DEF VInv, WindowOK, StageOK, At
  <2>3. StageOK'
    BY <2>1, <2>2, <1>n, <1>h, <1>u DEF VInv, StageOK, At, snap
  <2>4. Right(wt)' /\ Right(row.head)'
    BY <2>1, <2>2, <1>u DEF Right, Covers, Current, SameFiles
  <2>5. WindowOK'
    BY <2>1, <2>4 DEF WindowOK, At
  <2>6. ASSUME NEW p \in Procs PROVE ProcOK(p)'
    <3>1. ProcOK(p) /\ (wt = NoHead => proc[p].pc = "idle")
      BY <2>1 DEF VInv, ProcOK
    <3>2. Claiming(p)' => ClaimOK(p)'
      BY <3>1, <2>1, <2>2, <1>u DEF ProcOK, Claiming, ClaimOK, Covers, SameFiles, At
    <3>3. InRun(p)' => RunOK(p)'
      BY <3>1, <2>1, <2>2, <1>u DEF ProcOK, InRun, RunOK, Covers, SameFiles, At
    <3> QED
      BY <3>1, <3>2, <3>3, <2>1, <1>u DEF ProcOK, At
  <2>7. VerdictIsVerified'
    BY <2>1, <1>u, VerdictStays
  <2> QED
    BY <1>p, <2>3, <2>5, <2>6, <2>7 DEF VInv
<1> QED
  BY <1>1, <1>2, <1>3, <1>4

-----------------------------------------------------------------------------
(* The run of a judge.                                                     *)

\* A process moves on and touches nothing the others work on.
LEMMA MovesOn ==
    ASSUME VInv, Inv', NEW p \in Procs, UNCHANGED <<head, patch, wt, win, row, tick>>,
           \A q \in Procs \ {p} : proc'[q] = proc[q], ProcOK(p)'
    PROVE  VInv'
<1>1. PatchOK' /\ StageOK' /\ VerdictIsVerified'
  BY VerdictStays DEF VInv, PatchOK, StageOK, At, snap
<1>2. WindowOK'
  BY DEF VInv, WindowOK, Right, Covers, Current, SameFiles, At
<1>3. ASSUME NEW q \in Procs PROVE ProcOK(q)'
  BY ProcKept DEF At
<1> QED
  BY <1>1, <1>2, <1>3 DEF VInv

\* A process that has ended, or is at its end.
LEMMA EndedOK ==
    ASSUME VInv, NEW p \in Procs, head' = head,
           \/ proc'[p] = Idle
           \/ proc'[p] = proc[p] /\ proc[p].pc = "idle"
           \/ /\ proc'[p] \in {[proc[p] EXCEPT !.pc = "cleanup"], [Idle EXCEPT !.pc = "release", !.by = proc[p].by]}
              /\ proc[p].pc # "idle" /\ UNCHANGED <<wt, tick>>
    PROVE  ProcOK(p)'
<1>1. ProcOK(p) /\ proc[p] \in ProcState /\ head \in Nat /\ NoHead = 0
  BY Numbers DEF VInv
<1>2. CASE proc'[p] = Idle
  BY <1>1, <1>2 DEF ProcOK, Claiming, InRun, Idle
<1>3. CASE proc'[p] = proc[p] /\ proc[p].pc = "idle"
  BY <1>1, <1>3 DEF ProcOK, Claiming, InRun
<1>4. CASE /\ proc'[p] \in {[proc[p] EXCEPT !.pc = "cleanup"], [Idle EXCEPT !.pc = "release", !.by = proc[p].by]}
           /\ proc[p].pc # "idle" /\ UNCHANGED <<wt, tick>>
  <2>1. /\ proc'[p].pc \in {"cleanup", "release"} /\ proc'[p].sha \in {proc[p].sha, 0}
        /\ proc'[p].head \in {proc[p].head, 0} /\ proc'[p].tree \in {proc[p].tree, 0}
    BY <1>1, <1>4 DEF Idle, ProcState
  <2> QED
    BY <1>1, <1>4, <2>1 DEF ProcOK, Claiming, InRun, At
<1> QED
  BY <1>2, <1>3, <1>4

\* The agent in the window starts a run, of the head that is in the row.
LEMMA StartStep ==
    ASSUME VInv, Inv', Benign, NEW p \in Procs, Start(p) PROVE VInv'
<1>1. /\ win /\ ~At("checkout") /\ UNCHANGED <<head, patch, wt, win, row, tick>>
      /\ \E by \in Starters : proc' = [proc EXCEPT ![p] = [Idle EXCEPT !.pc = "claim", !.by = by,
                                                              !.sha = row.sha, !.head = row.head]]
  BY DEF Start, Benign, daemon, github
<1>2. /\ proc'[p].pc = "claim" /\ proc'[p].sha = row.sha /\ proc'[p].head = row.head /\ proc'[p].tree = NoHead
      /\ \A q \in Procs \ {p} : proc'[q] = proc[q]
  BY <1>1, Numbers DEF Idle
<1>3. /\ row.sha # NoHead /\ row.sha <= head /\ row.head <= head /\ NoHead <= head
      /\ Right(wt) /\ (At("launch") => wt # NoHead) /\ (wt = NoHead => Right(row.head))
  BY <1>1, Numbers DEF VInv, StageOK, WindowOK
<1>4. ClaimOK(p)'
  BY <1>1, <1>2, <1>3 DEF ClaimOK, Right, Covers, Current, SameFiles, At
<1>5. ProcOK(p)'
  BY <1>1, <1>2, <1>3, <1>4 DEF ProcOK, Claiming, InRun, At
<1> QED
  BY <1>1, <1>2, <1>5, MovesOn

\* Waiting for the slot, the experiments, and the look at the head.
LEMMA RunSteps ==
    ASSUME VInv, Inv', Benign, NEW p \in Procs,
           SlotTaken(p) \/ Unlink(p) \/ Battery(p) \/ ReadHead(p) \/ Release(p)
    PROVE  VInv'
<1>n. /\ head \in Nat /\ head # NoHead /\ NoHead = 0 /\ proc \in [Procs -> ProcState] /\ proc[p] \in ProcState
      /\ ProcOK(p)
  BY Numbers DEF VInv
<1>u. UNCHANGED <<head, patch, wt, win, row, tick>>
  BY DEF SlotTaken, Unlink, Battery, ReadHead, Release, daemon, github
<1>1. CASE SlotTaken(p) \/ Unlink(p)
  <2>1. /\ Claiming(p)
        /\ \/ proc' = [proc EXCEPT ![p] = Idle]
           \/ \E pc \in {"claim", "takeover"} : proc' = [proc EXCEPT ![p].pc = pc]
    BY <1>1 DEF SlotTaken, Unlink, Step, Claiming
  <2>2. CASE proc' = [proc EXCEPT ![p] = Idle]
    BY <2>2, <1>n, <1>u, EndedOK, MovesOn
  <2>3. CASE \E pc \in {"claim", "takeover"} : proc' = [proc EXCEPT ![p].pc = pc]
    <3>1. /\ proc'[p].pc \in {"claim", "takeover"} /\ proc'[p].sha = proc[p].sha
          /\ proc'[p].head = proc[p].head /\ proc'[p].tree = proc[p].tree
          /\ \A q \in Procs \ {p} : proc'[q] = proc[q]
      BY <2>3, <1>n
    <3>2. ClaimOK(p)'
      BY <2>1, <3>1, <1>n, <1>u DEF ProcOK, ClaimOK, Right, Covers, Current, SameFiles, At
    <3>3. ProcOK(p)'
      BY <2>1, <3>1, <3>2, <1>n, <1>u DEF ProcOK, Claiming, InRun, At
    <3> QED
      BY <3>1, <3>3, <1>u, MovesOn
  <2> QED
    BY <2>1, <2>2, <2>3
<1>2. CASE Battery(p)
  <2>1. PICK result \in Results(p) :
          proc' = [proc EXCEPT ![p].pc = "read", ![p].result = result,
                     ![p].tree = IF result \in VERDICTS /\ wt = @ THEN @ ELSE NoHead]
    BY <1>2 DEF Battery
  <2>2. /\ proc'[p].pc = "read" /\ proc'[p].result = result /\ proc'[p].sha = proc[p].sha
        /\ proc'[p].head = proc[p].head
        /\ proc'[p].tree = IF result \in VERDICTS /\ wt = proc[p].tree THEN proc[p].tree ELSE NoHead
        /\ \A q \in Procs \ {p} : proc'[q] = proc[q]
    BY <2>1, <1>n
  <2>3. proc[p].pc = "battery" /\ InRun(p) /\ RunOK(p)
    BY <1>2, <1>n DEF Battery, InRun, ProcOK
  <2>4. result \in VERDICTS => proc[p].tree # NoHead /\ wt # NoHead
    BY DEF Results, VERDICTS
  <2>5. RunOK(p)'
    BY <2>2, <2>3, <2>4, <1>n, <1>u DEF RunOK, Covers, SameFiles, At
  <2>6. ProcOK(p)'
    BY <2>2, <2>3, <2>5, <1>n, <1>u DEF ProcOK, Claiming, InRun, At
  <2> QED
    BY <2>2, <2>6, <1>u, MovesOn
<1>3. CASE ReadHead(p)
  <2>1. proc[p].pc = "read" /\ InRun(p) /\ RunOK(p)
    BY <1>3, <1>n DEF ReadHead, InRun, ProcOK
  <2>2. \/ Ends(p)
        \/ proc[p].sha = head /\ proc' = [proc EXCEPT ![p].pc = "publish", ![p].sha = NoHead]
    BY <1>3, <1>n, <2>1 DEF ReadHead, Useless, Benign, RunOK
  <2>3. CASE Ends(p)
    <3>1. /\ proc'[p] = [Idle EXCEPT !.pc = "release", !.by = proc[p].by]
          /\ \A q \in Procs \ {p} : proc'[q] = proc[q]
      BY <2>3, <1>n DEF Ends
    <3> QED
      BY <3>1, <2>1, <1>u, EndedOK, MovesOn
  <2>4. CASE proc[p].sha = head /\ proc' = [proc EXCEPT ![p].pc = "publish", ![p].sha = NoHead]
    <3>1. /\ proc'[p].pc = "publish" /\ proc'[p].sha = NoHead /\ proc'[p].result = proc[p].result
          /\ proc'[p].head = proc[p].head /\ proc'[p].tree = proc[p].tree
          /\ \A q \in Procs \ {p} : proc'[q] = proc[q]
      BY <2>4, <1>n
    <3>2. RunOK(p)'
      BY <3>1, <2>1, <2>4, <1>n, <1>u DEF RunOK, Covers, SameFiles, At
    <3>3. ProcOK(p)'
      BY <3>1, <3>2, <2>1, <1>n, <1>u DEF ProcOK, Claiming, InRun, At
    <3> QED
      BY <3>1, <3>3, <1>u, MovesOn
  <2> QED
    BY <2>2, <2>3, <2>4
<1>4. CASE Release(p)
  <2>1. /\ proc'[p] = [proc[p] EXCEPT !.pc = "cleanup"] /\ proc[p].pc = "release"
        /\ \A q \in Procs \ {p} : proc'[q] = proc[q]
    BY <1>4, <1>n DEF Release, Step
  <2> QED
    BY <2>1, <1>u, EndedOK, MovesOn
<1> QED
  BY <1>1, <1>2, <1>3, <1>4

\* The slot is claimed: the tree is the one that is there, or one is made for the run.
LEMMA ClaimStep ==
    ASSUME VInv, Inv', Alone, NEW p \in Procs, ClaimSlot(p) PROVE VInv'
<1>n. /\ head \in Nat /\ NoHead = 0 /\ proc \in [Procs -> ProcState] /\ proc[p] \in ProcState /\ row \in Row
      /\ {wt, proc[p].head, proc[p].sha} \subseteq Nat
      /\ ProcOK(p)
  BY Numbers DEF VInv
<1> DEFINE rebuilt == wt = NoHead /\ proc[p].head # NoHead
<1>1. /\ proc[p].pc = "claim" /\ ClaimOK(p) /\ proc[p].head <= head /\ proc[p].sha <= head
      /\ row.sha # NoHead /\ ~At("checkout") /\ proc[p].sha # NoHead
      /\ At("launch") => wt # NoHead
  BY <1>n DEF ClaimSlot, Claiming, ProcOK, ClaimOK
<1>2. /\ UNCHANGED <<head, patch, win, tick>>
      /\ row'.sha = row.sha /\ row'.head = row.head /\ row'.state = row.state /\ row'.tree = row.tree
      /\ wt' = IF rebuilt THEN proc[p].head ELSE wt
      /\ \A q \in Procs \ {p} : proc'[q] = proc[q]
  BY <1>n DEF ClaimSlot, daemon, github, Row
<1>3. /\ proc'[p].pc = "battery" /\ proc'[p].tree = wt'
      /\ proc'[p].sha = IF rebuilt \/ proc[p].sha = NoHead THEN proc[p].head ELSE proc[p].sha
      /\ proc'[p].head = IF rebuilt THEN proc[p].head ELSE NoHead
  BY <1>n DEF ClaimSlot
<1>4. PatchOK' /\ VerdictIsVerified'
  BY <1>2, VerdictStays DEF VInv, PatchOK
<1>5. StageOK'
  BY <1>1, <1>2 DEF VInv, StageOK, At, snap
<1>6. WindowOK'
  <2>1. Right(row.head) => Right(row.head)'
    BY <1>2 DEF Right, Covers, Current, SameFiles
  <2>2. At("settle")' /\ Right(tick.polled) => Right(tick.polled)'
    BY <1>2 DEF Right, Covers, Current, SameFiles
  <2>3. ~rebuilt /\ Right(wt) => Right(wt)'
    BY <1>2 DEF Right, Covers, Current, SameFiles
  <2>4. rebuilt /\ win => Right(wt)'
    BY <1>1, <1>2 DEF ClaimOK, Right, Covers, Current, SameFiles
  <2> QED
    BY <2>1, <2>2, <2>3, <2>4, <1>1, <1>2 DEF VInv, WindowOK, At
<1>7. RunOK(p)'
  <2>1. CASE rebuilt
    BY <2>1, <1>1, <1>2, <1>3, <1>n DEF RunOK, At, VERDICTS
  <2>2. CASE ~rebuilt
    BY <2>2, <1>1, <1>2, <1>3, <1>n DEF RunOK, ClaimOK, Covers, SameFiles, At, VERDICTS
  <2> QED
    BY <2>1, <2>2
<1>8. ProcOK(p)'
  <2>1. wt <= head
    BY DEF VInv, StageOK
  <2> QED
    BY <2>1, <1>1, <1>2, <1>3, <1>7, <1>n DEF ProcOK, Claiming, InRun, At
<1>9. ASSUME NEW q \in Procs \ {p} PROVE ProcOK(q)'
  <2>1. proc[q].pc = "idle"
    BY <1>1 DEF Alone
  <2> QED
    BY <2>1, <1>2, EndedOK
<1> QED
  BY <1>4, <1>5, <1>6, <1>8, <1>9 DEF VInv

\* What a verdict writes.
LEMMA VerdictWrites ==
    ASSUME VInv, NEW p \in Procs
    PROVE  /\ Verdict(p).head = row.head
           /\ Verdict(p).sha = IF proc[p].head = NoHead THEN row.sha ELSE proc[p].head
           /\ Verdict(p).tree \in {proc[p].tree, NoHead}
           /\ Verdict(p).state \in Verdicts =>
                Verdict(p).tree = proc[p].tree /\ proc[p].result \in VERDICTS
<1>n. row \in Row /\ proc[p] \in ProcState
  BY Numbers
<1> DEFINE sent == row.status = "awaiting_review"
           state == IF proc[p].result = "blocked" /\ ~sent THEN "blocked_race" ELSE proc[p].result
           r == Judged(row, state, proc[p].head)
<1>1. CASE proc[p].result = "final"
  BY <1>1, <1>n DEF Verdict, Parked, Row, Verdicts, VERDICTS
<1>2. CASE proc[p].result # "final"
  <2>1. /\ r.head = row.head /\ r.state = state
        /\ r.sha = IF proc[p].head = NoHead THEN row.sha ELSE proc[p].head
        /\ Verdict(p) = [r EXCEPT !.tree = proc[p].tree,
                           !.status = IF state = "blocked" THEN "changes_requested" ELSE @]
    BY <1>2, <1>n DEF Verdict, Judged, Row
  <2>2. /\ Verdict(p).head = r.head /\ Verdict(p).sha = r.sha /\ Verdict(p).state = r.state
        /\ Verdict(p).tree = proc[p].tree
    <3>1. DOMAIN r = DOMAIN row
      BY DEF Judged
    <3> HIDE DEF r
    <3> QED
      BY <2>1, <3>1, <1>n DEF Row
  <2>3. state \in Verdicts => proc[p].result \in VERDICTS
    BY <1>n DEF Verdicts, VERDICTS, ProcState, OutcomeKinds
  <2> QED
    BY <2>1, <2>2, <2>3
<1> QED
  BY <1>1, <1>2

\* The verdict is written, and with it the head of the tree if the run has made it.
LEMMA PublishStep ==
    ASSUME VInv, Inv', Alone, NEW p \in Procs, Publish(p) PROVE VInv'
<1>n. /\ head \in Nat /\ NoHead = 0 /\ proc \in [Procs -> ProcState] /\ proc[p] \in ProcState /\ row \in Row
      /\ {wt, proc[p].head, proc[p].tree, row.sha, row.tree} \subseteq Nat
      /\ ProcOK(p)
  BY Numbers DEF VInv
<1>1. /\ proc[p].pc = "publish" /\ RunOK(p) /\ proc[p].head <= head /\ proc[p].tree <= head
      /\ row.sha # NoHead /\ ~At("checkout") /\ row.sha <= head /\ row.tree <= head
  BY <1>n DEF Publish, InRun, ProcOK, RunOK, VInv, StageOK
<1>2. /\ UNCHANGED <<head, patch, win, tick, wt>>
      /\ row' \in {row, Verdict(p)}
      /\ proc'[p] = [Idle EXCEPT !.pc = "release", !.by = proc[p].by]
      /\ \A q \in Procs \ {p} : proc'[q] = proc[q]
  BY <1>n DEF Publish, Ends, daemon, github
<1>3. /\ row'.head = row.head
      /\ row'.sha \in {row.sha, IF proc[p].head = NoHead THEN row.sha ELSE proc[p].head}
      /\ row'.tree \in {row.tree, proc[p].tree, NoHead}
  BY <1>2, VerdictWrites
<1>4. VerdictIsVerified'
  <2>1. CASE row' = row
    BY <2>1, <1>2, VerdictStays
  <2>2. CASE row' = Verdict(p)
    <3> SUFFICES ASSUME row'.state \in Verdicts, patch[row'.sha] \notin Exempt
                 PROVE  row'.tree # NoHead /\ SameFiles(row'.tree, row'.sha)
      BY <1>2 DEF VerdictIsVerified, Verdicts, SameFiles
    <3>1. row'.tree = proc[p].tree /\ proc[p].tree # NoHead
      BY <2>2, <1>1, VerdictWrites DEF RunOK
    <3>2. CASE proc[p].head = NoHead
      <4>1. row'.sha = row.sha /\ Covers(proc[p].tree, row.sha)
        BY <3>1, <3>2, <1>1, <1>3 DEF RunOK
      <4> QED
        BY <3>1, <4>1 DEF Covers
    <3>3. CASE proc[p].head # NoHead
      <4>1. proc[p].tree = proc[p].head /\ row'.sha = proc[p].head
        BY <2>2, <3>1, <3>3, <1>1, VerdictWrites DEF RunOK
      <4> QED
        BY <3>1, <4>1 DEF SameFiles
    <3> QED
      BY <3>2, <3>3
  <2> QED
    BY <1>2, <2>1, <2>2
<1>5. PatchOK'
  BY <1>2 DEF VInv, PatchOK
<1>6. StageOK'
  <2>1. row'.sha <= head /\ row'.tree <= head /\ row'.sha # NoHead /\ 0 <= head
    BY <1>1, <1>3, <1>n
  <2> QED
    BY <2>1, <1>1, <1>2, <1>3 DEF VInv, StageOK, At, snap
<1>7. WindowOK'
  <2>1. CASE row'.sha = row.sha
    BY <2>1, <1>2, <1>3 DEF VInv, WindowOK, Right, Covers, Current, SameFiles, At
  <2>2. CASE row'.sha # row.sha
    <3>1. /\ row'.sha = proc[p].head /\ proc[p].head # NoHead /\ wt \in {NoHead, proc[p].head}
          /\ ~At("launch") /\ ~(win /\ wt = NoHead)
      BY <2>2, <1>1, <1>3 DEF RunOK
    <3>2. Right(wt)'
      BY <3>1, <1>2 DEF Right, Covers, SameFiles
    <3> QED
      BY <3>1, <3>2, <1>2 DEF WindowOK, At
  <2> QED
    BY <2>1, <2>2
<1>8. ASSUME NEW q \in Procs PROVE ProcOK(q)'
  <2>1. CASE q = p
    BY <2>1, <1>1, <1>2, EndedOK
  <2>2. CASE q # p
    <3>1. proc[q].pc = "idle"
      BY <2>2, <1>1 DEF Alone
    <3> QED
      BY <2>2, <3>1, <1>2, EndedOK
  <2> QED
    BY <2>1, <2>2
<1> QED
  BY <1>4, <1>5, <1>6, <1>7, <1>8 DEF VInv

\* The tree and the window go; or the process dies.
LEMMA EndSteps ==
    ASSUME VInv, Inv', Alone, NEW p \in Procs, Cleanup(p) \/ ProcDies(p) PROVE VInv'
<1>n. NoHead = 0 /\ head \in Nat /\ proc \in [Procs -> ProcState]
  BY Numbers
<1>1. CASE ProcDies(p)
  <2>1. /\ UNCHANGED <<head, patch, wt, win, row, tick>> /\ proc'[p] = Idle
        /\ \A q \in Procs \ {p} : proc'[q] = proc[q]
    BY <1>1, <1>n DEF ProcDies, Dies, github
  <2> QED
    BY <2>1, EndedOK, MovesOn
<1>2. CASE Cleanup(p)
  <2>1. /\ UNCHANGED <<head, patch, row, tick>> /\ wt' = NoHead /\ win' = FALSE /\ proc'[p] = Idle
        /\ proc[p].pc = "cleanup" /\ \A q \in Procs \ {p} : proc'[q] = proc[q]
    BY <1>2, <1>n DEF Cleanup, daemon, github
  <2>2. PatchOK' /\ VerdictIsVerified'
    BY <2>1, VerdictStays DEF VInv, PatchOK
  <2>3. StageOK'
    BY <2>1, <1>n DEF VInv, StageOK, At, snap
  <2>4. WindowOK'
    BY <2>1, <1>n DEF VInv, WindowOK, Right, Covers, Current, SameFiles, At
  <2>5. ASSUME NEW q \in Procs PROVE ProcOK(q)'
    <3>1. CASE q = p
      BY <3>1, <2>1, EndedOK
    <3>2. CASE q # p
      <4>1. proc[q].pc = "idle"
        BY <3>2, <2>1 DEF Alone
      <4> QED
        BY <3>2, <4>1, <2>1, EndedOK
    <3> QED
      BY <3>1, <3>2
  <2> QED
    BY <2>2, <2>3, <2>4, <2>5 DEF VInv
<1> QED
  BY <1>1, <1>2

-----------------------------------------------------------------------------
(* Pushes and merges.                                                      *)

\* A push of other files makes nothing that was judged current, and one that
\* merges the base leaves the files as they are.
LEMMA PushStep ==
    ASSUME VInv, Inv', Push \/ PushBase \/ OtherMerges PROVE VInv'
<1>n. /\ head \in Heads /\ Heads \subseteq Nat /\ NoHead = 0 /\ head \in Nat
      /\ HeadOrNone = Heads \cup {NoHead} /\ HeadOrNone \subseteq Nat /\ patch \in [Heads -> Heads]
      /\ {row.head, row.sha, row.tree, tick.polled, tick.snap.sha, tick.snap.head, wt} \subseteq HeadOrNone
      /\ \A p \in Procs : {proc[p].sha, proc[p].head, proc[p].tree} \subseteq HeadOrNone
  BY Numbers DEF snap
<1>k. PatchOK
  BY DEF VInv
<1>u. UNCHANGED <<row, tick, wt, win, proc>>
  BY DEF Push, PushBase, OtherMerges, rest, judge
<1>1. CASE OtherMerges
  <2>1. UNCHANGED <<head, patch>>
    BY <1>1 DEF OtherMerges
  <2> QED
    BY <2>1, <1>u, VerdictStays, CalmStep DEF VInv, StageOK, snap
<1>2. CASE Push \/ PushBase
  <2>1. /\ head + 1 \in Heads /\ head' = head + 1
        /\ patch' = patch \/ patch' = [patch EXCEPT ![head + 1] = patch[head]]
    BY <1>2, <1>n, HeadAssumption DEF Push, PushBase, Heads
  <2>0. ASSUME NEW h \in Heads PROVE h \in Nat /\ patch[h] \in Nat /\ (h # head + 1 => patch'[h] = patch[h])
    BY <2>1, <1>n
  <2>2. ASSUME NEW h \in Heads, h <= head PROVE patch'[h] = patch[h]
    <3>1. h # head + 1
      BY <2>0, <2>2, <1>n
    <3> QED
      BY <2>0, <3>1
  <2>3. patch'[head + 1] \in {head + 1, patch[head]}
    <3>1. patch[head + 1] = head + 1
      BY <2>1, <1>n, <1>k DEF PatchOK
    <3>2. CASE patch' = patch
      BY <3>1, <3>2
    <3>3. CASE patch' = [patch EXCEPT ![head + 1] = patch[head]]
      BY <3>3, <2>1, <1>n
    <3> QED
      BY <2>1, <3>2, <3>3
  <2>4. PatchOK'
    <3>1. ASSUME NEW h \in Heads PROVE patch'[h] <= h /\ (h > head' => patch'[h] = h)
      <4>1. patch[h] <= h /\ (h > head => patch[h] = h) /\ patch[head] <= head
        BY <1>n, <1>k DEF PatchOK
      <4>2. CASE h = head + 1
        <5>1. patch'[h] \in {h, patch[head]} /\ head \in Nat /\ patch[head] \in Nat /\ head' = h
          BY <4>2, <2>0, <2>1, <2>3, <1>n
        <5> QED
          BY <5>1, <4>1, <4>2
      <4>3. CASE h # head + 1
        <5>1. patch'[h] = patch[h] /\ head \in Nat /\ h \in Nat /\ head' = head + 1
          BY <4>3, <2>0, <2>1, <1>n
        <5> QED
          BY <5>1, <4>1, <4>3
      <4> QED
        BY <4>2, <4>3
    <3>2. ASSUME NEW g \in Heads, NEW h \in Heads, g <= h PROVE patch'[g] <= patch'[h]
      <4>1. patch[g] <= patch[h] /\ patch[g] <= g /\ patch[h] <= h /\ patch[head] <= head
        BY <3>2, <1>n, <1>k DEF PatchOK
      <4>2. h <= head => patch[h] <= patch[head]
        BY <1>n, <1>k DEF PatchOK
      <4>3. g <= head => patch[g] <= patch[head]
        BY <1>n, <1>k DEF PatchOK
      <4>4. h > head => patch[h] = h
        BY <1>n, <1>k DEF PatchOK
      <4>5. {patch[g], patch[h], patch[head]} \subseteq Nat
        BY <1>n
      <4>6. CASE patch' = patch
        BY <4>1, <4>6
      <4>7. CASE patch' = [patch EXCEPT ![head + 1] = patch[head]]
        <5>1. CASE g = head + 1 /\ h = head + 1
          BY <5>1, <4>5, <4>6, <4>7, <2>0, <1>n
        <5>2. CASE g = head + 1 /\ h # head + 1
          <6>1. patch'[g] = patch[head] /\ patch'[h] = h
            BY <5>2, <3>2, <4>4, <4>7, <1>n
          <6> QED
            BY <6>1, <5>2, <4>1, <4>5, <3>2, <1>n
        <5>3. CASE g # head + 1 /\ h = head + 1
          <6>1. patch'[g] = patch[g] /\ patch'[h] = patch[head] /\ g <= head
            BY <5>3, <3>2, <4>7, <1>n
          <6> QED
            BY <6>1, <4>3
        <5>4. CASE g # head + 1 /\ h # head + 1
          BY <5>4, <4>1, <4>7, <1>n
        <5> QED
          BY <5>1, <5>2, <5>3, <5>4
      <4> QED
        BY <2>1, <4>6, <4>7
    <3> QED
      BY <3>1, <3>2 DEF PatchOK
  <2>h. /\ \A h \in {row.head, row.sha, row.tree, tick.polled, tick.snap.sha, tick.snap.head, wt} : h <= head
        /\ \A p \in Procs : proc[p].sha <= head /\ proc[p].head <= head /\ proc[p].tree <= head
    BY DEF VInv, StageOK, ProcOK, snap
  \* What was covered is, and what is current was.
  <2>5. \A t \in HeadOrNone : t <= head /\ row.sha # NoHead /\ Covers(t, row.sha) => Covers(t, row.sha)'
    BY <2>2, <2>h, <1>n, <1>u DEF Covers, SameFiles
  <2>6. row.sha # NoHead /\ Current' => Current
    <3> SUFFICES ASSUME row.sha \in Heads, patch'[row.sha] = patch'[head + 1] PROVE patch[row.sha] = patch[head]
      BY <2>1, <1>n, <1>u DEF Current, SameFiles
    <3>1. patch'[row.sha] = patch[row.sha] /\ patch[row.sha] <= row.sha /\ row.sha <= head
      BY <2>2, <2>h, <1>k DEF PatchOK
    <3>2. patch[row.sha] \in Nat /\ row.sha \in Nat
      BY <2>0
    <3>3. patch[row.sha] # head + 1
      BY <3>1, <3>2, <1>n
    <3> QED
      BY <3>1, <3>3, <2>3
  <2>7. \A t \in HeadOrNone : t <= head /\ row.sha # NoHead /\ Right(t) => Right(t)'
    BY <2>5, <2>6 DEF Right
  <2>8. StageOK'
    <3>1. \A h \in {row.head, row.sha, row.tree, tick.polled, tick.snap.sha, tick.snap.head, wt} : h <= head + 1
      <4>1. {row.head, row.sha, row.tree, tick.polled, tick.snap.sha, tick.snap.head, wt, head} \subseteq Nat
        BY <1>n
      <4>2. \A h \in Nat : h <= head => h <= head + 1
        BY <1>n
      <4> QED
        BY <4>1, <4>2, <2>h
    <3>2. head' = head + 1 /\ UNCHANGED <<row, tick, wt, win>>
      BY <2>1, <1>u
    <3> QED
      BY <3>1, <3>2 DEF VInv, StageOK, At, snap
  <2>9. WindowOK'
    <3>1. row.sha # NoHead /\ Right(wt) => Right(wt)'
      BY <2>7, <2>h, <1>n, <1>u DEF Right, Covers, Current, SameFiles
    <3>2. row.sha # NoHead /\ Right(row.head) => Right(row.head)'
      BY <2>7, <2>h, <1>n, <1>u DEF Right, Covers, Current, SameFiles
    <3>3. row.sha # NoHead /\ Right(tick.polled) => Right(tick.polled)'
      BY <2>7, <2>h, <1>n, <1>u DEF Right, Covers, Current, SameFiles
    <3>4. win \/ At("launch") => row.sha # NoHead
      BY DEF VInv, StageOK
    <3> QED
      BY <3>1, <3>2, <3>3, <3>4, <1>u DEF VInv, WindowOK, At
  <2>10. ASSUME NEW p \in Procs PROVE ProcOK(p)'
    <3>1. ProcOK(p) /\ proc'[p] = proc[p]
      BY <1>u DEF VInv
    <3>2. {proc[p].sha, proc[p].head, proc[p].tree} \subseteq HeadOrNone
      BY <1>n
    <3>3. proc[p].sha # head' /\ proc[p].sha <= head' /\ proc[p].head <= head' /\ proc[p].tree <= head'
      <4>1. \A h \in Nat : h <= head => h <= head + 1 /\ h # head + 1
        BY <1>n
      <4>2. proc[p].sha \in Nat /\ proc[p].head \in Nat /\ proc[p].tree \in Nat
        BY <3>2, <1>n
      <4> QED
        BY <2>1, <2>h, <4>1, <4>2
    <3>4. Claiming(p)' => ClaimOK(p)'
      <4>1. Claiming(p)' => ClaimOK(p)
        BY <3>1 DEF ProcOK, Claiming
      <4>2. row.sha # NoHead /\ Right(proc[p].head) => Right(proc[p].head)'
        BY <2>7, <2>h, <3>1, <3>2, <1>u DEF Right, Covers, Current, SameFiles
      <4> QED
        BY <4>1, <4>2, <3>1, <3>3, <1>u DEF ClaimOK, At
    <3>5. InRun(p)' => RunOK(p)'
      <4>1. InRun(p)' => RunOK(p)
        BY <3>1 DEF ProcOK, InRun
      <4>2. row.sha # NoHead /\ Covers(proc[p].tree, row.sha) => Covers(proc[p].tree, row.sha)'
        BY <2>5, <2>h, <3>1, <3>2, <1>u DEF Covers, SameFiles
      <4> QED
        BY <4>1, <4>2, <3>1, <3>3, <1>u DEF RunOK, At
    <3> QED
      BY <3>1, <3>3, <3>4, <3>5, <1>u DEF ProcOK, At
  <2>11. VerdictIsVerified'
    <3> SUFFICES ASSUME row.state \in Verdicts, patch'[row.sha] \notin Exempt
                 PROVE  row.tree # NoHead /\ patch'[row.tree] = patch'[row.sha]
      BY <1>u DEF VerdictIsVerified, Verdicts, SameFiles
    <3>1. row.sha \in Heads /\ row.sha <= head /\ row.tree <= head
      BY <2>h, <1>n DEF VInv, StageOK
    <3>2. patch'[row.sha] = patch[row.sha]
      BY <3>1, <2>2
    <3>3. row.tree # NoHead /\ patch[row.tree] = patch[row.sha]
      BY <3>2 DEF VInv, VerdictIsVerified, Verdicts, SameFiles
    <3>4. row.tree \in Heads
      BY <3>3, <1>n
    <3> QED
      BY <3>1, <3>2, <3>3, <3>4, <2>2
  <2> QED
    BY <2>4, <2>8, <2>9, <2>10, <2>11 DEF VInv
<1> QED
  BY <1>1, <1>2

-----------------------------------------------------------------------------
\* Initially there is neither a head nor a tree.
LEMMA InitVInv == ASSUME Init PROVE VInv
<1>1. NoHead = 0 /\ Heads \subseteq Nat \ {0} /\ MaxHead \in Nat /\ Heads = 1..MaxHead
  BY HeadAssumption DEF NoHead, Heads
<1>2. Inv /\ head = 1 /\ patch = [h \in Heads |-> h] /\ win = FALSE /\ wt = NoHead
  BY InitInv DEF Init
<1>3. PatchOK
  BY <1>1, <1>2 DEF PatchOK
<1>4. /\ tick = IdleTick /\ tick.pc = "idle"
      /\ {row.head, row.sha, row.tree, tick.polled, tick.snap.sha, tick.snap.head} = {0}
      /\ row.state = "none"
  BY <1>1 DEF Init, IdleTick, NoSnap
<1>5. StageOK /\ WindowOK /\ VerdictIsVerified
  <2>1. StageOK
    <3>1. row.head = 0 /\ row.sha = 0 /\ row.tree = 0 /\ tick.polled = 0 /\ tick.snap.sha = 0 /\ tick.snap.head = 0
      BY <1>4
    <3>2. row.state \notin Verdicts
      BY <1>4 DEF Verdicts, VERDICTS
    <3> QED
      BY <3>1, <3>2, <1>1, <1>2, <1>4 DEF StageOK, At, snap
  <2>2. WindowOK
    BY <1>1, <1>2, <1>4 DEF WindowOK, At
  <2>3. VerdictIsVerified
    BY <1>4 DEF VerdictIsVerified, VERDICTS
  <2> QED
    BY <2>1, <2>2, <2>3
<1>6. ASSUME NEW p \in Procs PROVE ProcOK(p)
  BY <1>1, <1>2 DEF Init, Idle, ProcOK, Claiming, InRun
<1> QED
  BY <1>2, <1>3, <1>5, <1>6 DEF VInv

\* Every step.
LEMMA NextVInv == ASSUME VInv, Benign, Alone, [Next]_vars PROVE VInv'
<1>i. Inv'
  BY NextInv DEF VInv
<1>1. CASE UNCHANGED vars
  BY <1>1, <1>i, VerdictStays, CalmStep DEF vars, VInv, StageOK, snap
<1>2. ~CheckoutFails /\ ~Crash
  BY DEF CheckoutFails, Crash, Fault, Benign
<1>3. CASE Tick
  BY <1>2, <1>3, <1>i, CalmSteps, StampSteps, ReadSteps, ReapSteps, LaunchSteps DEF Tick, Spawn
<1>4. CASE Elsewhere
  BY <1>4, <1>i, CalmSteps, ReadSteps, PushStep DEF Elsewhere
<1>5. ASSUME NEW p \in Procs, Start(p) \/ JudgeRun(p) \/ ProcDies(p) PROVE VInv'
  BY <1>5, <1>i, StartStep, RunSteps, ClaimStep, PublishStep, EndSteps DEF JudgeRun
<1> QED
  BY <1>1, <1>2, <1>3, <1>4, <1>5 DEF Next

\* For any heads, tiers, retries, and launches, windows and runs that die: a verdict in
\* the row was reached by a whole battery on the files of the head the row says was
\* judged (judge_run, set_judge_state, _carry_base_only_verdict), as long as runs do
\* not overlap, none is started by hand, and daemon, checkout and GitHub do not fail.
THEOREM VerdictsAreVerified == ASSUME Benign PROVE Spec /\ []Alone => []VerdictIsVerified
<1>1. Init => VInv
  BY InitVInv
<1>2. VInv /\ Alone /\ [Next]_vars => VInv'
  BY NextVInv
<1>3. VInv => VerdictIsVerified
  BY DEF VInv
<1> QED
  BY <1>1, <1>2, <1>3, PTL DEF Spec

=============================================================================
