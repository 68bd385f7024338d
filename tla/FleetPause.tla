----------------------------- MODULE FleetPause -----------------------------
(***************************************************************************)
(* The queue hold and the fleet pause: chela/hold.py, chela/fleet.py, and  *)
(* the parts of the daemon's tick, of the judge's watchdog and of the      *)
(* judge's freeze ledger that they meet in.  Hands are the processes that  *)
(* pause and resume for an operator (a terminal, a dashboard request, the  *)
(* Telegram bot); they share nothing but four files:                       *)
(*   hold    dispatch-hold.json: claim nothing, until it is released or    *)
(*           its time has passed                                           *)
(*   file    fleet-pause.json: which agents were told to pause and which   *)
(*           judges were stopped                                           *)
(*   kept    fleet-pause.json.resuming: the same, claimed by a resume      *)
(*   ledger  <task>.freeze: the time a judge's round was frozen for        *)
(* A fifth, WORKFLOW.md, decides how far a tick gets.                      *)
(* A file is read or written in one step, and time is what it decides: a   *)
(* hold that is late, a round that has run past its wall.                  *)
(***************************************************************************)
EXTENDS Naturals, FiniteSets

CONSTANTS
    Tasks,        \* the tasks with a run
    Hands,        \* the operators' processes
    Pausers,      \* those of them that pause
    Daemon,       \* the process that ticks
    MaxHolds,     \* bound: how often a hand takes the hold
    MaxMoves,     \* bound: what agents, judges and reviewers do of their own accord, processes
                  \* of chela that die, and how often WORKFLOW.md is broken
    MaxLaunches   \* bound: agents launched for a task, and rounds of its judge

Procs == Hands \cup {Daemon}

ASSUME ProcAssumption == Daemon \notin Hands /\ Pausers \subseteq Hands
ASSUME BoundAssumption ==
    MaxHolds \in Nat /\ MaxMoves \in Nat /\ MaxLaunches \in Nat

VARIABLES hold, file, kept, ledger,  \* the files
          workflow,                  \* WORKFLOW.md as the daemon finds it
          run,                       \* the row of a task, its agent and its judge
          hand,                      \* what each process is doing
          unheard, orphans,          \* history: tasks whose "resume" was not delivered, and
                                     \* those whose record died with the process that held it
          holds, moves       \* how much of the bounds is spent

files == <<hold, file, kept, ledger, workflow>>
history == <<unheard, orphans, holds, moves>>
vars == <<files, run, hand, history>>

(***************************************************************************)
(* What the files and the rows hold                                        *)
(***************************************************************************)

Windows == 0..MaxLaunches               \* windows and rounds are numbered; 0 is none
Told == {"no", "told", "failed"}        \* "told" is interrupted or finishing
Pauses == [agents : [Tasks -> Told], judges : [Tasks -> Windows]]
Blank == [agents |-> [t \in Tasks |-> "no"], judges |-> [t \in Tasks |-> 0]]
NoFile == [agents |-> [t \in {} |-> "no"], judges |-> [t \in {} |-> 0]]

(* The intervals of a round: the last one, and whether an earlier one is open. *)
Ledgers == [round : Windows, last : {"none", "open", "closed"}, stale : BOOLEAN, retry : BOOLEAN]
NoLedger == [round |-> 0, last |-> "none", stale |-> FALSE, retry |-> FALSE]

(* It parses; it no longer does, and the last good one stays in force; or the tick does
   nothing: none ever parsed, its workspace is refused, or it says not to dispatch. *)
Workflows == {"ok", "broken", "off"}

Runs == [status : {"free", "active", "review", "over"},
         launches : Windows, window : Windows, paused : BOOLEAN,
         judging : BOOLEAN, round : Windows, judge : {"none", "runs", "stopped"}, late : BOOLEAN]

(* Between two things to do: a hand is idle, the daemon is at the top of its tick. *)
Idle(p) == [pc |-> IF p = Daemon THEN "watch" ELSE "idle", st |-> Blank, todo |-> {}, at |-> <<>>,
            rec |-> NoLedger]

Init ==
    /\ hold = "none" /\ file = NoFile /\ kept = NoFile
    /\ ledger = [t \in Tasks |-> NoLedger] /\ workflow \in Workflows
    /\ run \in [Tasks -> {[status |-> s, launches |-> 0, window |-> 0, paused |-> FALSE,
                           judging |-> FALSE, round |-> 0, judge |-> "none", late |-> FALSE] :
                          s \in {"free", "review"}}]
    /\ hand = [p \in Procs |-> Idle(p)]
    /\ unheard = {} /\ orphans = {} /\ holds = 0 /\ moves = 0

At(p, pc) == hand[p].pc = pc
Goes(p, pc) == hand' = [hand EXCEPT ![p].pc = pc]
Rests(p) == hand' = [hand EXCEPT ![p] = Idle(p)]

(* A freeze of the round the row is in, not over yet. *)
Frozen(t) == run[t].judging /\ ledger[t].round = run[t].round /\ ledger[t].last = "open"

(* Who has it on record that t was stopped: the file, and a process or its claim. *)
Records ==
    ({file} \cup {hand[p].st : p \in Procs}
            \cup {kept : p \in {q \in Procs : At(q, "claimed")}}) \ {NoFile}
JudgeOwed(t) ==
    (run[t].judge = "stopped" \/ Frozen(t)) =>
        \/ \E st \in Records : st.judges[t] = run[t].round
        \/ \E p \in Procs : At(p, "stop") /\ hand[p].at = <<t, run[t].round, run[t].round>>
AgentOwed(t) ==
    run[t].paused => \/ \E st \in Records : st.agents[t] # "no"
                     \/ \E p \in Procs : At(p, "say") /\ <<t, run[t].window>> \in hand[p].todo

(* What a process, and a claim somebody has yet to read, have on record. *)
Names(st) == {t \in DOMAIN st.agents : st.agents[t] # "no" \/ st.judges[t] # 0}
Holds(p) == Names(hand[p].st) \cup {t \in Tasks : hand[p].at # <<>> /\ hand[p].at[1] = t}
                              \cup {t \in Tasks : At(p, "say") /\ \E w \in Windows : <<t, w>> \in hand[p].todo}
                              \cup (IF At(p, "claimed") THEN Names(kept) ELSE {})
Unread(p) == IF \E q \in Procs \ {p} : At(q, "claimed") THEN Names(kept) ELSE {}

(***************************************************************************)
(* Pausing                                                                 *)
(***************************************************************************)

(* hold.take, alone or before pause_all. *)
Take(h) ==
    /\ h \in Pausers /\ At(h, "idle") /\ holds < MaxHolds
    /\ hold' = "held" /\ holds' = holds + 1
    /\ \/ UNCHANGED hand
       \/ Goes(h, "read")
    /\ UNCHANGED <<file, kept, ledger, workflow, run, unheard, orphans, moves>>

Active == {t \in Tasks : run[t].status = "active"}

(* pause_all: the pause on record, then the agents it has yet to tell. *)
ReadPause(h) ==
    /\ At(h, "read")
    /\ LET st == IF file = NoFile THEN Blank ELSE file
       IN  hand' = [hand EXCEPT ![h].pc = "tell", ![h].st = st,
               ![h].todo = {<<t, run[t].window>> : t \in {u \in Active :
                               st.agents[u] # "told" /\ run[u].window # 0}}]
    /\ UNCHANGED <<files, run, history>>

(* The window is still that agent's. *)
There(t, w) == w # 0 /\ run[t].window = w

(* Mutant: an agent that a message did not reach is not recorded. *)
FailedIsForgotten(h, t, w, word) ==
    hand' = [hand EXCEPT ![h].todo = @ \ {<<t, w>>},
                         ![h].st.agents[t] = IF word = "failed" THEN "no" ELSE word]

Tells(h, t, w, word) ==
    hand' = [hand EXCEPT ![h].todo = @ \ {<<t, w>>}, ![h].st.agents[t] = word]

(* _pause: Escape and the message, or the message alone. *)
TellPause(h, t, w) ==
    /\ At(h, "tell") /\ <<t, w>> \in hand[h].todo
    /\ There(t, w)
    /\ run' = [run EXCEPT ![t].paused = TRUE]
    /\ Tells(h, t, w, "told")
    /\ UNCHANGED <<files, history>>

(* run_wid: the window is of a tmux server that is gone, nothing to pause. *)
TellNobody(h, t, w) ==
    /\ At(h, "tell") /\ <<t, w>> \in hand[h].todo
    /\ ~There(t, w)
    /\ hand' = [hand EXCEPT ![h].todo = @ \ {<<t, w>>}]
    /\ UNCHANGED <<files, run, history>>

(* One of the two did not land: the agent may have stopped all the same. *)
TellFails(h, t, w) ==
    /\ At(h, "tell") /\ <<t, w>> \in hand[h].todo
    /\ \/ UNCHANGED run
       \/ There(t, w) /\ run' = [run EXCEPT ![t].paused = TRUE]
    /\ Tells(h, t, w, "failed")
    /\ UNCHANGED <<files, history>>

(* _freeze_judges: the rounds to stop, as the rows are now. *)
ReadJudges(h) ==
    /\ At(h, "tell") /\ hand[h].todo = {}
    /\ hand' = [hand EXCEPT ![h].pc = "freeze",
           ![h].todo = {<<t, run[t].round>> : t \in {u \in Tasks :
                           /\ run[u].judging /\ run[u].status # "over"
                           /\ hand[h].st.judges[u] = 0}}]
    /\ UNCHANGED <<files, run, history>>

(* No process of this judge: nothing to stop. *)
FreezeNothing(h, t, r) ==
    /\ At(h, "freeze") /\ <<t, r>> \in hand[h].todo
    /\ run[t].judge = "none"
    /\ hand' = [hand EXCEPT ![h].todo = @ \ {<<t, r>>}]
    /\ UNCHANGED <<files, run, history>>

(* Its tree, and what its ledger says so far. *)
FreezeLook(h, t, r) ==
    /\ At(h, "freeze") /\ <<t, r>> \in hand[h].todo
    /\ run[t].judge # "none"
    /\ hand' = [hand EXCEPT ![h].pc = "record", ![h].todo = @ \ {<<t, r>>},
           ![h].at = <<t, r, run[t].round>>, ![h].rec = ledger[t]]
    /\ UNCHANGED <<files, run, history>>

(* One more open interval in this round's ledger. *)
Opened(rec, r) ==
    IF rec.round = r
      THEN [round |-> r, last |-> "open", stale |-> rec.stale \/ rec.last = "open", retry |-> FALSE]
      ELSE [round |-> r, last |-> "open", stale |-> FALSE, retry |-> FALSE]

FreezeRecord(h) ==
    /\ At(h, "record")
    /\ LET t == hand[h].at[1]
           r == hand[h].at[2]
       IN  ledger' = [ledger EXCEPT ![t] = Opened(hand[h].rec, r)]
    /\ Goes(h, "stop")
    /\ UNCHANGED <<hold, file, kept, workflow, run, history>>

(* A signal reaches the processes it was meant for, or nothing. *)
Signalled(t, r, from, to) ==
    run' = IF run[t].round = r /\ run[t].judge = from
             THEN [run EXCEPT ![t].judge = to] ELSE run

(* Mutant: the trees that were stopped are not recorded. *)
StopUnrecorded(h) ==
    /\ At(h, "stop")
    /\ Signalled(hand[h].at[1], hand[h].at[3], "runs", "stopped")
    /\ hand' = [hand EXCEPT ![h].pc = "freeze", ![h].at = <<>>, ![h].rec = NoLedger]
    /\ UNCHANGED <<files, history>>

FreezeStop(h) ==
    /\ At(h, "stop")
    /\ LET t == hand[h].at[1]
           r == hand[h].at[3]
       IN  /\ Signalled(t, r, "runs", "stopped")
           /\ hand' = [hand EXCEPT ![h].pc = "freeze", ![h].at = <<>>, ![h].rec = NoLedger,
                                   ![h].st.judges[t] = r]
    /\ UNCHANGED <<files, history>>

WritePause(h) ==
    /\ At(h, "freeze") /\ hand[h].todo = {}
    /\ file' = hand[h].st
    /\ Rests(h)
    /\ UNCHANGED <<hold, kept, ledger, workflow, run, history>>

(***************************************************************************)
(* Resuming: resume_all, called by a hand or by the tick                   *)
(***************************************************************************)

(* What the caller does next: a hand releases the hold, the tick goes on. *)
Startable(t) ==
    run[t].status = "free" \/ (run[t].status = "review" /\ ~run[t].judging)
After(p) ==
    IF p = Daemon
      THEN [Idle(p) EXCEPT !.pc = "start", !.todo = {<<t, 0>> : t \in {u \in Tasks : Startable(u)}}]
      ELSE [Idle(p) EXCEPT !.pc = "release"]
GoesOn(p) == hand' = [hand EXCEPT ![p] = After(p)]

(* os.replace: one caller gets the file, whatever it puts its claim on top of. *)
Claim(p) ==
    /\ \/ /\ file = NoFile
          /\ GoesOn(p)
          /\ UNCHANGED <<files, run, orphans>>
       \/ /\ file # NoFile
          /\ kept' = file /\ file' = NoFile
          /\ Goes(p, "claimed")
          /\ orphans' = orphans \cup Unread(p)
          /\ UNCHANGED <<hold, ledger, workflow, run>>
    /\ UNCHANGED <<unheard, holds, moves>>

Resume(h) == At(h, "idle") /\ Claim(h)

ReadClaimed(p) ==
    /\ At(p, "claimed")
    /\ IF kept = NoFile
         THEN GoesOn(p)
         ELSE hand' = [hand EXCEPT ![p].pc = "thaw", ![p].st = kept,
                  ![p].todo = {<<t, kept.judges[t]>> : t \in {u \in Tasks : kept.judges[u] # 0}}]
    /\ UNCHANGED <<files, run, history>>

(* _thaw_judges: the last interval is closed, then the tree goes on. *)
ThawLook(p, t, r) ==
    /\ At(p, "thaw") /\ <<t, r>> \in hand[p].todo
    /\ hand' = [hand EXCEPT ![p].pc = "close", ![p].todo = @ \ {<<t, r>>},
           ![p].at = <<t, r>>, ![p].rec = ledger[t]]
    /\ UNCHANGED <<files, run, history>>

Closed(rec) == [rec EXCEPT !.last = "closed", !.retry = TRUE]

(* Mutant: the tree goes on and its freeze stays open. *)
FreezeStaysOpen(p) ==
    /\ At(p, "close")
    /\ Goes(p, "cont")
    /\ UNCHANGED <<files, run, history>>

ThawRecord(p) ==
    /\ At(p, "close")
    /\ ledger' = IF hand[p].rec.last = "open"
                   THEN [ledger EXCEPT ![hand[p].at[1]] = Closed(hand[p].rec)] ELSE ledger
    /\ Goes(p, "cont")
    /\ UNCHANGED <<hold, file, kept, workflow, run, history>>

ThawCont(p) ==
    /\ At(p, "cont")
    /\ Signalled(hand[p].at[1], hand[p].at[2], "stopped", "runs")
    /\ hand' = [hand EXCEPT ![p].pc = "thaw", ![p].at = <<>>, ![p].rec = NoLedger,
                            ![p].st.judges[hand[p].at[1]] = 0]
    /\ UNCHANGED <<files, history>>

(* Mutant: only the agents that were seen to stop are told to go on. *)
UnlinkForTold(p) ==
    /\ At(p, "thaw") /\ hand[p].todo = {}
    /\ kept' = NoFile
    /\ hand' = [hand EXCEPT ![p].pc = "say", ![p].st = Blank,
           ![p].todo = {<<t, run[t].window>> : t \in {u \in Active : hand[p].st.agents[u] = "told"}}]
    /\ orphans' = orphans \cup Unread(p)
    /\ UNCHANGED <<hold, file, ledger, workflow, run, unheard, holds, moves>>

(* The claimed file goes; the windows are read anew from the rows. *)
Unlink(p) ==
    /\ At(p, "thaw") /\ hand[p].todo = {}
    /\ kept' = NoFile
    /\ hand' = [hand EXCEPT ![p].pc = "say", ![p].st = Blank,
           ![p].todo = {<<t, run[t].window>> : t \in {u \in Active : hand[p].st.agents[u] # "no"}}]
    /\ orphans' = orphans \cup Unread(p)
    /\ UNCHANGED <<hold, file, ledger, workflow, run, unheard, holds, moves>>

SayResume(p, t, w) ==
    /\ At(p, "say") /\ <<t, w>> \in hand[p].todo
    /\ There(t, w)
    /\ run' = [run EXCEPT ![t].paused = FALSE]
    /\ hand' = [hand EXCEPT ![p].todo = @ \ {<<t, w>>}]
    /\ UNCHANGED <<files, history>>

SayFails(p, t, w) ==
    /\ At(p, "say") /\ <<t, w>> \in hand[p].todo
    /\ unheard' = unheard \cup (IF There(t, w) THEN {t} ELSE {})
    /\ hand' = [hand EXCEPT ![p].todo = @ \ {<<t, w>>}]
    /\ UNCHANGED <<files, run, orphans, holds, moves>>

Resumed(p) ==
    /\ At(p, "say") /\ hand[p].todo = {}
    /\ GoesOn(p)
    /\ UNCHANGED <<files, run, history>>

(* hold.release, whoever took it. *)
Release(h) ==
    /\ At(h, "release")
    /\ hold' = "none"
    /\ Rests(h)
    /\ UNCHANGED <<file, kept, ledger, workflow, run, history>>

(***************************************************************************)
(* The daemon's tick                                                       *)
(***************************************************************************)

(* A tick that begins with no workflow to go by ends there. *)
Begun == At(Daemon, "watch") /\ workflow # "off"

(* A round that is over in the row, its process and its freeze with it. *)
EndRound(t) == run' = [run EXCEPT ![t].judging = FALSE, ![t].judge = "none", ![t].late = FALSE]

(* _cancel_moot_judges and cancel_judge_run, which closes the freeze of a detached run. *)
Moot(t) == run[t].judging /\ run[t].status # "review"

CancelMoot(t) ==
    /\ Begun /\ Moot(t)
    /\ EndRound(t)
    /\ \/ UNCHANGED ledger
       \/ /\ run[t].judge # "none" /\ ledger[t].last = "open"
          /\ ledger' = [ledger EXCEPT ![t].last = "closed"]
    /\ UNCHANGED <<hold, file, kept, workflow, hand, history>>

(* A wall the ledger has put off, open freezes that nobody will close included. *)
Credited(t) == ledger[t].round = run[t].round /\ (ledger[t].last = "open" \/ ledger[t].stale)

(* _judge_watchdog: a round whose process is gone, or that is past its wall. *)
Watchdog(t) ==
    /\ Begun /\ run[t].judging /\ ~Frozen(t)
    /\ run[t].late \/ run[t].judge = "none"
    /\ EndRound(t)
    /\ UNCHANGED <<files, hand, history>>

(* One retry of a model call that a thaw found failed. *)
WatchdogRetries(t) ==
    /\ Begun /\ run[t].judging /\ ~Frozen(t)
    /\ ~run[t].late /\ run[t].judge # "none"
    /\ ledger[t].round = run[t].round /\ ledger[t].retry
    /\ ledger' = [ledger EXCEPT ![t].retry = FALSE]
    /\ UNCHANGED <<hold, file, kept, workflow, run, hand, history>>

Watching == \E t \in Tasks :
    Moot(t) \/ (run[t].judging /\ ~Frozen(t) /\ (run[t].late \/ run[t].judge = "none"))

(* The tick goes on, unless the workflow does not parse: then it ends here, short of the
   hold and of the fleet.  (It was read when the tick began.  Only this step asks what was
   read, so an edit made since counts for it.) *)
Watched ==
    /\ Begun /\ ~Watching /\ workflow = "ok"
    /\ Goes(Daemon, IF hold = "late" THEN "expire" ELSE "read")
    /\ UNCHANGED <<files, run, history>>

(* expire_if_stale: what is there now goes, whatever was read. *)
Expire ==
    /\ At(Daemon, "expire")
    /\ hold' = "none"
    /\ Goes(Daemon, "read")
    /\ UNCHANGED <<file, kept, ledger, workflow, run, history>>

(* hold.active: a tick that is held ends here. *)
ReadHold ==
    /\ At(Daemon, "read")
    /\ IF hold = "held" THEN Rests(Daemon) ELSE Goes(Daemon, "fleet")
    /\ UNCHANGED <<files, run, history>>

(* Mutant: a hold that is gone leaves the fleet as it is. *)
TickLeavesFleet == At(Daemon, "fleet") /\ GoesOn(Daemon) /\ UNCHANGED <<files, run, history>>

(* fleet.tick *)
FleetTick == At(Daemon, "fleet") /\ Claim(Daemon)

(* The rest of a tick: each task is launched, or judged, once. *)
Starts(t) == /\ At(Daemon, "start") /\ <<t, 0>> \in hand[Daemon].todo
             /\ hand' = [hand EXCEPT ![Daemon].todo = @ \ {<<t, 0>>}]

Launch(t) ==
    /\ Starts(t)
    /\ run[t].status = "free" /\ run[t].launches < MaxLaunches
    /\ run' = [run EXCEPT ![t].status = "active", ![t].launches = @ + 1,
                          ![t].window = run[t].launches + 1, ![t].paused = FALSE]
    /\ unheard' = unheard \ {t}
    /\ UNCHANGED <<files, orphans, holds, moves>>

SpawnJudge(t) ==
    /\ Starts(t)
    /\ run[t].status = "review" /\ ~run[t].judging /\ run[t].round < MaxLaunches
    /\ run' = [run EXCEPT ![t].judging = TRUE, ![t].round = @ + 1, ![t].judge = "runs", ![t].late = FALSE]
    /\ UNCHANGED <<files, history>>

EndTick ==
    /\ At(Daemon, "start")
    /\ Rests(Daemon)
    /\ UNCHANGED <<files, run, history>>

(***************************************************************************)
(* Time, agents, judges, reviewers, and processes that die                 *)
(***************************************************************************)

HoldLapses ==
    /\ hold = "held" /\ hold' = "late"
    /\ UNCHANGED <<file, kept, ledger, workflow, run, hand, history>>

(* The wall of a round, less the time its ledger says it was frozen. *)
RoundLate(t) ==
    /\ run[t].judging /\ run[t].judge # "none" /\ ~run[t].late /\ ~Credited(t)
    /\ run' = [run EXCEPT ![t].late = TRUE]
    /\ UNCHANGED <<files, hand, history>>

Moves(t, to) ==
    /\ moves < MaxMoves /\ moves' = moves + 1
    /\ run' = [run EXCEPT ![t] = to]
    /\ UNCHANGED <<files, hand, unheard, orphans, holds>>

(* task-finished: the agent closes its own window, paused or finishing a command. *)
HandsIn(t) == run[t].status = "active" /\ run[t].window # 0
              /\ Moves(t, [run[t] EXCEPT !.status = "review", !.window = 0, !.paused = FALSE])

(* Mutant: the column takes the word of a tmux state. *)
DiesAsGone(t) == run[t].status = "active" /\ run[t].window # 0
                 /\ Moves(t, [run[t] EXCEPT !.status = "gone", !.window = 0, !.paused = FALSE])

AgentDies(t) == run[t].status = "active" /\ run[t].window # 0
                /\ Moves(t, [run[t] EXCEPT !.status = "free", !.window = 0, !.paused = FALSE])
Verdict(t) == run[t].judge = "runs" /\ run[t].judging
              /\ \E to \in {"review", "free"} :
                    Moves(t, [run[t] EXCEPT !.status = IF @ = "review" THEN to ELSE @,
                                            !.judging = FALSE, !.judge = "none", !.late = FALSE])
JudgeDies(t) == run[t].judge # "none" /\ Moves(t, [run[t] EXCEPT !.judge = "none"])
SentBack(t) == run[t].status = "review" /\ Moves(t, [run[t] EXCEPT !.status = "free"])
Merges(t) == run[t].status = "review" /\ Moves(t, [run[t] EXCEPT !.status = "over"])

(* Somebody edits WORKFLOW.md, and breaks it or mends it. *)
Breaks ==
    /\ moves < MaxMoves /\ moves' = moves + 1
    /\ workflow = "ok" /\ workflow' \in Workflows \ {"ok"}
    /\ UNCHANGED <<hold, file, kept, ledger, run, hand, unheard, orphans, holds>>

Mends ==
    /\ workflow # "ok" /\ workflow' = "ok"
    /\ UNCHANGED <<hold, file, kept, ledger, run, hand, history>>

Dies(p) ==
    /\ hand[p] # Idle(p) /\ moves < MaxMoves /\ moves' = moves + 1
    /\ Rests(p)
    /\ orphans' = orphans \cup Holds(p)
    /\ UNCHANGED <<files, run, unheard, holds>>

(***************************************************************************)
(* The specification                                                       *)
(***************************************************************************)

ResumeStep(p) ==
    \/ ReadClaimed(p) \/ ThawRecord(p) \/ ThawCont(p) \/ Unlink(p) \/ Resumed(p)
    \/ \E t \in Tasks, n \in Windows :
          /\ <<t, n>> \in hand[p].todo
          /\ ThawLook(p, t, n) \/ SayResume(p, t, n) \/ SayFails(p, t, n)

PauseStep(h) ==
    \/ ReadPause(h) \/ ReadJudges(h) \/ FreezeRecord(h) \/ FreezeStop(h) \/ WritePause(h)
    \/ \E t \in Tasks, n \in Windows :
          /\ <<t, n>> \in hand[h].todo
          /\ \/ TellPause(h, t, n) \/ TellNobody(h, t, n) \/ TellFails(h, t, n)
             \/ FreezeNothing(h, t, n) \/ FreezeLook(h, t, n)

HandStep(h) == PauseStep(h) \/ ResumeStep(h) \/ Release(h)

TickStep ==
    \/ Watched \/ Expire \/ ReadHold \/ FleetTick \/ EndTick \/ ResumeStep(Daemon)
    \/ \E t \in Tasks : CancelMoot(t) \/ Watchdog(t) \/ WatchdogRetries(t) \/ Launch(t) \/ SpawnJudge(t)

World ==
    \/ HoldLapses \/ Breaks \/ Mends
    \/ \E t \in Tasks : \/ RoundLate(t) \/ HandsIn(t) \/ AgentDies(t) \/ Verdict(t)
                        \/ JudgeDies(t) \/ SentBack(t) \/ Merges(t)

Next ==
    \/ \E h \in Hands : Take(h) \/ Resume(h) \/ HandStep(h)
    \/ TickStep
    \/ World
    \/ \E p \in Procs : Dies(p)

Spec == Init /\ [][Next]_vars
Fairness == /\ WF_vars(TickStep) /\ WF_vars(HoldLapses)
            /\ \A h \in Hands : WF_vars(HandStep(h))
            /\ \A t \in Tasks : WF_vars(RoundLate(t))
FairSpec == Spec /\ Fairness

(***************************************************************************)
(* Properties                                                              *)
(***************************************************************************)

(* Every file, row and process holds what the code can write there. *)
Hand == [pc : {"idle", "read", "tell", "freeze", "record", "stop", "release", "claimed", "thaw",
               "close", "cont", "say", "watch", "expire", "fleet", "start"},
         st : Pauses, todo : SUBSET (Tasks \X Windows),
         at : {<<>>} \cup (Tasks \X Windows) \cup (Tasks \X Windows \X Windows), rec : Ledgers]
TypeOK ==
    /\ hold \in {"none", "held", "late"}
    /\ file \in Pauses \cup {NoFile} /\ kept \in Pauses \cup {NoFile} /\ workflow \in Workflows
    /\ ledger \in [Tasks -> Ledgers] /\ run \in [Tasks -> Runs] /\ hand \in [Procs -> Hand]
    /\ unheard \subseteq Tasks /\ orphans \subseteq Tasks
    /\ holds \in 0..MaxHolds /\ moves \in 0..MaxMoves

(* A judge that is stopped, or whose ledger is open, is on somebody's record: the
   file, or a process that will thaw it or write it down.  Only the death of that
   process, or two resumes claiming one file name, loses it (fleet.py:102, 173:
   "every tree it stopped is on record", "a tree left in T leaks"). *)
StopIsOwed == \A t \in Tasks : t \in orphans \/ JudgeOwed(t)

(* An agent that may have stopped on the operator's word is on record for a "resume",
   whether or not the word was seen to land (fleet.py:36: "each is owed a 'resume'"). *)
PauseIsOwed == \A t \in Tasks : t \in orphans \/ t \in unheard \/ AgentOwed(t)

(* What follows is promised only where WORKFLOW.md is mended for good: until then no tick
   gets as far as the hold and the fleet, and a stopped judge stays stopped. *)
Mended == <>[](workflow = "ok")

(* However the operator leaves it, the hold lapses and a later tick thaws every judge. *)
StoppedGoesOn ==
    Mended => \A t \in Tasks : []<>(run[t].judge # "stopped" \/ t \in orphans)

(* And tells every agent to go on, unless the message did not get through. *)
PausedGoesOn ==
    Mended => \A t \in Tasks : []<>(~run[t].paused \/ t \in unheard \/ t \in orphans)

(* A pause does not outlive itself in the watchdog: the time a round was frozen for is
   credited, and then its wall still passes and the round is reaped.  Excepted is a
   round whose ledger holds two open freezes, of which a thaw closes the last only. *)
RoundEnds ==
    Mended => \A t \in Tasks : []<>(~run[t].judging \/ t \in orphans \/ ledger[t].stale)
=============================================================================
