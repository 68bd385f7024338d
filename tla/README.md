# chelamux, in TLA+

chelamux runs coding agents in tmux windows. A daemon (`chela run`) claims tasks from a
tracker, gives each one a git worktree and an agent, pushes the agent's branch, opens its
pull request, has it judged, sends it back when it fails, and settles the run when the PR
merges. This directory models that, and checks and proves what must hold of it.

    cd tla
    tlc -workers 2 -config slots.cfg MCRunLifecycle     # one run
    tlc -workers 2 -config fleet.cfg MCFleetPause
    tlapm RunLifecycleProofs.tla                        # the proofs of one module
    tlapm JudgeRoundProofs.tla

## 1. The system

| part | state it keeps | operations | who calls it |
|---|---|---|---|
| dispatcher (`dispatcher.py`) | the `runs` table (SQLite, one row per task), marker files in each worktree | `tick`; `close`, `reopen`, `retry`, `review`, `task-finished`, `request-push`, `dispute`, `delete` | the daemon's loop; the CLI, the dashboard and Telegram from other processes; agents from their windows |
| merge gate (`contract.py`), overrides (`overrides.py`), automerge | a JSON file of override requests under a lock; the run's judge columns | `merge`, `request_override`, `decide`, `sweep`, `complete_override` | CLI, dashboard, Telegram, the daemon |
| judge (`judge.py`, `verdictcarry.py`) | judge columns of the row, a slot file per run, a window of its own | launch, verify, publish, cancel, watchdog, carry over | the tick; its own process |
| hold, fleet, tick lock, parks (`hold.py`, `fleet.py`) | small JSON files, the judges' freeze ledgers; `parked_*` columns | hold, resume, pause, park | CLI, dashboard, Telegram, the tick, the usage-limit watcher |
| personas (`personas/`) | the lease, the stamp of the last launch | attend, launch, tear down | orchestrator sessions, the tick |
| inbox, event log, digest, notify (`inbox.py`) | one JSON store under a lock, marks per run | notice, deliver, register, hand over | the tick, orchestrator sessions, `chela watch` |
| questions and the phone (`gateanswer.py`, `telegram/`) | a gate file and an answer file per question, the bot's own messages | hold a question, relay it, answer it, take it down | hooks in the dashboard's process, the bot's polls and threads |
| restore, epoch, keeper | roster files, tmux epochs | offer and resume sessions after a reboot | daemon, dashboard |
| trackers (`sources/`) | a Linear, markdown or GitHub backlog | list, re-read by id, strike, transition | the tick |
| worktrees, garbage collection, process guard | git worktrees | attach, remove, reap strays | launch and settlement |
| share proxy, messenger, rooms, Telegram, dashboard, update | their own files and sockets | see PROJECT.json | people |

They meet in the run's row. The daemon is one process and a tick is one function of 1470
lines, but it is not atomic: it commits after every row it writes, because other processes
open their own connections (the comment at `dispatcher.py:6123`), and between two commits it
runs git, gh and tmux for seconds or minutes. What it writes after such a pause it writes
on the strength of a snapshot, and most of those writes are keyed by the task id alone. The
commands, by contrast, compare-and-swap on the status they read.

What is hard about it, and what each part must guarantee:

* dispatcher: slots are never over-committed; a rework never loses its verdict by falling
  into the fresh-retry state; attempts and rounds are bounded; a cached PR state is this
  attempt's own; `done` means shipped; a closed run stays closed; a merged PR is never
  worked on; whatever dies gives its slot back; a spent run reaches a human.
* merge gate and overrides: what is merged is the commit that was judged, or the one an
  operator was shown; an approval merges at most once; a request that was denied or has
  expired merges nothing; an override is on record.
* judge: a verdict is about the head it names; at most one judge per run; a silent judge
  reaches a human.
* hold and fleet: who was stopped is told to go on, whoever lets the hold go and whatever
  died in between; a pause is no time on a judge's clock, and leaves no clock stopped.
* inbox and personas: news is not lost and reaches nobody it is not for; with nobody there, a
  persona is launched for it, and goes when it has done, never at work.
* questions: an answer reaches the question it was given to; a question is on the phone while
  it is open and its buttons are not there after.

The hazards of each, at their lines, are in `PROJECT.json` under `hazards`, with the
properties that cover them or the reason why none does.

## 2. Plan

The order in which the parts were taken, by how much goes wrong if they do; all but the last
item are done.

| part | modules | abstract specification | proofs |
|---|---|---|---|
| the row and the tick | `RunLifecycle` | | `RunLifecycleProofs`, `RunHistoryProofs`, `RunClosedProofs` |
| override requests and merging | `MergeOverrides` | `MergeLedger`, by refinement | `MergeOverridesProofs` |
| the judge: launch, run, verdict, watchdog | `JudgeRound` | | `JudgeRoundProofs` |
| the inbox and its persona | `Inbox` | | `InboxProofs` |
| a question on the phone | `GateRelay` | | `GateRelayProofs` |
| hold and fleet pause | `FleetPause` | | `FleetPauseProofs` |
| left: release requests beside override requests; parks and usage limits; suite slots | | | |

Each module has an `MC` module with the symmetry or nothing, and one or more configurations.
The modules share the run's row; they are not composed into one, since what one reads of
another is a column that the other may change at any time, and each has that change as an
action of its own: `Block` in `RunLifecycle` is a judge's verdict, `Rework` in `JudgeRound` is the
rework loop, `Verdict` in `FleetPause` the end of a judge's run.

## 3. `RunLifecycle`: what is modelled

| variable | code |
|---|---|
| `row` | the `runs` row of each task: status, attempt, PR, the four budgets, requeue and window columns. `NoRow` is no row; an `UPDATE` of it writes nothing, an upsert does |
| `gh` | the PR of the attempt's branch, as GitHub has it; `row.pr` is what the row says of it |
| `window` | the attempt's tmux window: none, lost with its server, idle at a prompt, busy |
| `tracker` | the tasks the tracker still lists |
| `push`, `fin` | the marker files in the worktree. `push` also counts failed applications; `fin` remembers whether the agent now in the window left it |
| `pc`, `todo`, `snap`, `cur`, `active`, `listed`, `gone` | the tick's own position, the rest of the loop it is in, the rows as that loop's SELECT returned them, its slot count and its tracker read: local variables, lost in a crash |
| `ops` | a counter of the steps not taken by the tick, bounded by `MaxOps` |

One action is one commit, or one read that a later commit relies on. The phases of a tick
and their actions:

| phase (`pc`) | code of `tick` | actions |
|---|---|---|
| idle | 5845-6122, refresh of PR states, snapshot | `StartTick` |
| rows, handin | 6127-6640, one row at a time | `ReconcileMerged`, `ReconcileClosed`, `ApplyPush`, `PushFails`, `BeginHandIn`, `CompleteHandIn`, `LeaveReview`, `LeaveWork`, `WindowGone`, `WatchdogNudge`, `WatchdogFail`, `LeaveAlone` |
| reap | 6651 | `Reap` |
| review, send* | 6711-6959, red checks, conflicts, stale checks | `RedCI`, `RedAtSetup`, `BaseConflict`, `BaseMerged`, `BaseInfra`, `EscalateReview`, `ReviewQuiet`, `SendBack`, `SendRefused` |
| caps, capMark | 6970-7022 | `CapEscalate`, `CapRequeue`, `CapMark`, `HasBudget` |
| count | 7081-7135 | `Held`, `CountSlots` |
| judge, rework | 7158-7222 | `SelectReworks`, `Respawn`, `RespawnEscalates`, `RespawnAborts` |
| claim, worktree | 7224-7307 | `NotForClaim`, `ReadForClaim`, `Claim`, `ClaimFails` |
| launch*, seed* | `_launch_agent` | `OpenWindow`, `Seed`, `LaunchFails` |

`Crash` ends a tick anywhere. The other processes are `CloseRun`, `Reopen`, `Retry`,
`DeleteRun` (operators), `Block` (a judge's or a reviewer's verdict), `RequestPush`,
`RequestTaskFinished`, `DisputeRework`, `AgentIdles`, `WindowDies` (agents), `TmuxRestarts`,
`SettlePr` (GitHub) and `LeaveTracker`. Each may fall between any two steps of a tick.

What is abstracted, and how:

* One workflow. The slot count is over all workflows, the limit is per workflow; the other
  workflows' rows are not there.
* Phase 0's reads and its write are one step. A state it read a moment too early is
  refreshed in the next tick, as in the code.
* A head commit is not named. That a check or a conflict has been acted on for the current
  head (`ci_failed_sha`, `conflict_sha`) is the set `tried`, emptied when the head moves.
* Clocks (CI ages, idle clocks, parked runs) are choices: `LeaveAlone`, `ReviewQuiet`.
  Whatever the clock says, both outcomes are explored.
* The red-check, conflict and stale-check loops are one phase that visits its rows in any
  order.
* `close_run`'s liveness read, guarded update and window kill are one step.
* A requeued attempt has a new branch, worktree and PR. The old branch's PR and its window,
  if the close could not end them, leave the model with the attempt.
* A base merge, a CI re-run, a known flake: only what they write to the modelled columns.
* Not there: adopted PRs, the pruning of done rows, PRs reopened on GitHub, tracker
  write-back, `tracker_note`, the contents of `review_history`, notifications.

## 4. `MergeOverrides` and `MergeLedger`

A run that the judge did not clear may be merged past it. `contract.request_override` opens
a request bound to the live head; an operator decides it from the dashboard, Telegram or a
terminal; the process that took the approval merges there and then
(`overrides._complete`, `contract.complete_override`); a sweep expires what nobody decided.

| variable | code |
|---|---|
| `head`, `merged` | GitHub: the pull request's head, numbered as it moves, and which head was merged for whom (a request, or `other`) |
| `row` | `status` and `pr_head_sha` of the `runs` row |
| `polled` | the head that phase 0 of a tick has read and not yet written |
| `req` | the request files: `state`, `head_sha`, whether `decided_by` is set |
| `late` | the requests whose `deadline` has passed |
| `log` | the requests with an `orchestrator.merge_override` event |
| `worker` | processes inside `_complete`: `check` (already merged?), `gate`, `record` (the audit), `merge`, `finish`, and the outcome on its way to `_finish` |
| `sweeper` | one sweep: the requests it read and those that were late by its clock. Its own steps take the lock of one file at a time, so one sweeper stands for all: two of them only add writes of the same kind |

| code | actions |
|---|---|
| `tick` phase 0, `mark_awaiting_review`, `request_changes`/`retry`, `_respawn_rework`, `_escalate`, `reopen` | `PollHead`, `RefreshHead`, `HandIn`, `SendBack`, `Rework`, `Escalate`, `Reopen` |
| `request_override`, `create`'s deadline | `RequestOverride`, `DeadlinePasses` |
| `decide` | `Approve`, `Deny`, `DecideTooLate` |
| `resume` (`retry_approved`) | `Resume` |
| `complete_override` | `AlreadyMerged`, `NotYetMerged`, `HeadMoved`, `MergeableUnknown`, `OverrideHolds`, `RecordOverride`, `OverrideMerges`, `MergedMeanwhile`, `OverrideFails` |
| the end of `_complete` | `FinishCompletion` |
| `sweep` | `StartSweep`, `SweepOne` |
| GitHub, other mergers, crashes | `Push`, `OtherMerges`, `WorkerDies` |

Abstractions. The gate's clauses on base, CI, conflicts and tier can refuse at any time
and are one action, `OverrideFails`, which also stands for an exception; the clauses on the
head, on mergeability and on the run's status are explicit, because they decide the request's
state. `request_override` is one step: its live read, the look for an existing request and
`create`. GitHub merges under `--match-head-commit` only that head; that `gh pr merge` of a pull request
already merged succeeds is taken from how the code uses it. A merge whose `gh` was
killed, or after which something raised, ends `failed` although it happened: both outcomes
of `OverrideMerges`. Once merged the head no longer moves. Release requests, which ride in
the same files, are left out.

`MergeLedger` has four variables: what each request asked, which are granted, how each ended,
and what was merged on whose authority. `MergeFor(r)` merges the head that was asked, under a
grant; `Deny(r)` takes the grant back and is impossible once the request has merged. The
refinement mapping reads `asked` and `outcome` off the request files, and takes as granted
the requests that carry a decision and were not denied. A request that expired under its
own merge keeps its grant in the ledger: that it merges then is not against the ledger
(it is one of the divergences below).

## 5. `JudgeRound`

A green pull request is judged once per head. The tick stamps the head in the row, checks it
out, launches an agent in a window; the agent starts `chela judge run`, which claims a slot,
runs experiments in the worktree for minutes, reads the live head and writes its verdict. All
share the row, the worktree, the window and the lock file.

| variable | code |
|---|---|
| `head`, `patch`, `merged` | GitHub: the head, which heads differ in the pull request's own files, whether it is merged |
| `row` | status, `pr_head_sha`, and the judge columns: `judge_sha`, state, tries, `judge_no_verdict`, `judge_unknown_final`, launch owner. `row.tree` is a ghost: the head whose tree the recorded verdict was reached on |
| `tick` | the tick's position, the head phase 0 has read, the row its query returned |
| `wt`, `win`, `lock` | the judge's worktree, window and slot file |
| `proc` | processes of `judge_run`: position, the sha and head they read, the tree they are in |
| `faults` | how many faults there were, of the kinds in `Faults` |

| code | actions |
|---|---|
| `tick` phase 0, row loop, `mark_awaiting_review` | `Poll`, `SettleMerged`, `HandIn`, `RowsQuiet` |
| `_cancel_moot_judges`; `_judge_watchdog` | `CancelMoot`, `CancelReap`; `WatchdogGivesUp`, `WatchdogWrites`, `WatchdogReaps` |
| `_escalate_stranded_judge_unknowns` | `EscalateStranded`, `SweepQuiet` |
| `_judge_candidates`, the judge phase | `Select`, `Held` |
| `_carry_base_only_verdict`, `_stamp_prose_only` | `CarryVerdict`, `StampExempt` |
| `_spawn_judge` | `SpawnRefused`, `SpawnStamps`, `Checkout`, `CheckoutFails`, `CheckoutSkips`, `Launch`, `LaunchFails`, `Launched` |
| `judge_run` | `Start`, `ClaimSlot`, `SlotTaken`, `Unlink`, `Battery`, `ReadHead`, `Publish`, `Release`, `Cleanup` |
| deaths, GitHub, reviewers, operators, time | `Crash`, `ProcDies`, `WindowVanishes`, `Push`, `PushBase`, `OtherMerges`, `SendBack`, `Rework`, `Escalate`, `Reopen`, `Retry`, `RunsLate` |

Abstractions. One daemon: two are excluded by the tick lock (`ticklock.py`). The decisions of
the two sweeps of one tick are taken together. The slot cap, the backoff between tries and the
checks that must be green first are one refusal (`Held`); an expired login and a classifier outage
are a window that vanishes. Clocks are `row.late`. A checkout takes seconds and a battery minutes,
so no battery ends during a checkout (`slow` lifts the other such assumption, that a run does
not claim its slot within a launch). The battery is a choice of outcome for the tree it ran in.
`request_changes` and the blocked state it comes with are one step.

`VerdictIsVerified` holds of one process with `launch`, `window` and `death` (run `judge`, where two
heads with files of their own are judged and a third may need no judge) and, outside
the runs, of two processes without faults (10.3 million states). It fails under `crash` (run
`verified`), `checkout`, `slow` and `unread`: each lets a tree and a sha of different heads meet.

## 6. `Inbox`

The tick turns edges of runs into events in a store, pushes them into the tmux window that
registered, and launches a persona when there is news and nobody to take it. A window id
is a number that the next tmux server gives to another window.

| variable | code |
|---|---|
| `tmux`, `act` | the server's epoch and what runs in each window; whether a persona is working |
| `run`, `head` | the run an event is about, and the head of its pull request |
| `store` | `decisions-inbox.json`: address, the server that issued it (ghost), whether it is stamped with that server's epoch, session, queue, the run's durable mark |
| `stamp`, `lease` | `orchestrator-autolaunch.json` with its cooldown; whether a human attends |
| `tick` | the tick's position and what it has read: statuses, the epoch (`now`, none if tmux did not answer; `epoch` is the server's then, ghost), the run, a draft of the store, what it has sent |

`Snapshot` is `run_events` and the reads; `Hold`, `DropAll`, `Deliver`, `SendFails`, `Save` are
`_deliver_loop` and its end under the lock; `WakeFires`, `WakeWithheld`, `Spawn`, `RegisterAuto` and
`ReapFires`, `ReapWithheld`, `Unregister`, `Kill` are autolaunch. `Register`, `Readdress`, `Forget`,
`Enqueue`, `Attend` are commands and hooks of other processes; windows open, boot, exit and
are renumbered by `ServerRestarts`.

`EpochRead` is `epoch.current()`: whoever asks, the tick (twice: for its pass, and again for the
launch), a registration, a re-address, may get no answer. An address recorded then has no stamp, as
in the code, and `Dangling` is false of it and of every address met without an epoch; the tick
writes to it by number (`inbox.py:481`). These failures spend `MaxFaults`.

Abstractions. Delivery is at least once: a daemon that dies between a send and its save sends
again. Events the code echoes on purpose, `moved` notices, digest holds, watches, denials and
windowless peers are left out, and so is an address pinned in the environment
(`CHELA_ORCHESTRATOR_WID`); a window that waits at a prompt is a send that fails. `chela restore` is
modelled with an epoch that was read: without one it finds nothing dangling. The cooldown is longer than a boot and a tick.

## 7. `GateRelay`

An agent's question is held by its hook, in the dashboard's process, until the phone answers;
it can be answered on the pane meanwhile. The bot mirrors the pane in one message.

| variable | code |
|---|---|
| `agent`, `up`, `log` | the agent, what each question says, how it was answered, and (ghost) whose `PreToolUse` nobody heard; the dashboard; hook events of this boot |
| `hook`, `file`, `reply` | for each question, its held `PermissionRequest` (ghost `late`: it wrote its file after the question's `PostToolUse`), its gate file, its answer file |
| `bound` | the registry: the agent's window has a topic |
| `draft`, `tap` | the taps so far, and the one being delivered |
| `chat`, `track`, `pace`, `poll` | the messages there are, the mirror's record of its own, its throttle, the reconcile under way |
| `queue`, `hand`, `lost` | messages to delete, what each thread is deleting, messages given up |

The agent's steps are `PreToolUse`, `PermissionRequest`, `AnswerOnPane`, `PostToolUse` and `AgentDies`.
The first two are two posts of one call, a few moments apart: each is lost if the dashboard is down,
and neither is repeated. The hook's steps, in the dashboard's process, are those of `Held`: it is held
only if the window has a topic and the pending gate says what the request says (`Found`; two questions
may say the same), and between the lookup and the write of the gate file there is a step
(`HoldLater`, `Open`). The phone's are `Pick`, `Send`, `TooLate` and `Submit`; the mirror's `Capture`,
`Look`, `Edit`, `Post`, `Drain`, `Delete` and their refusals; the topic's `Reap` (auto-topics unbinds
a dead window), `TopicClosed` (the human does) and `Provision`. Only a window with a topic is polled.
`map` in `PROJECT.json` has the functions.

Abstractions. One window. A message does not say in which topic it is: after `Provision` the
mirror goes on with the message it has, which the code edits or deletes where it was. That topics
may be set to be deleted when they close, messages included, is left out: then less stays. Auto-topics
gives a topic to a quiet dispatched agent only when it is blocked; here it may at any time, or never.
The slots of held requests can only make a request fail open. An event is lost while the dashboard is
down; one it receives is logged at once. The other prompt kinds, cards and the status relay share
`_sync` and are left out.

## 8. `FleetPause`

An operator who pauses the fleet takes the hold, interrupts every agent and stops (SIGSTOP)
every judge; the hold has a time, and whoever lets it go, or the tick that finds it gone, sets
them going. Everything passes through files that no lock guards.

| variable | code |
|---|---|
| `hold` | `dispatch-hold.json`: none, in force, or past its time |
| `file`, `kept` | `fleet-pause.json`; the same renamed `.resuming` by a resume that claimed it |
| `ledger` | `<task>.freeze`: the round it is for, its last interval, whether an earlier one is open too (`stale`), the retry a thaw grants |
| `workflow` | `WORKFLOW.md` as the daemon finds it: parsed; broken, with the last good one in force; or off (none ever parsed, its workspace refused, dispatch switched off) |
| `run` | status, window, whether the agent stopped; the judge's round, process, and whether its wall has passed |
| `hand` | each process: position, the pause it is composing or undoing, whom it has yet to deal with, the ledger it read |
| `unheard`, `orphans` | history: agents a resume message did not reach; those whose record died with a process or was overwritten by a second claim |

| code | actions |
|---|---|
| `hold.take`, `release`, `expire_if_stale`, `active` | `Take`, `Release`, `Expire`, `ReadHold`, `HoldLapses` |
| `pause_all` | `ReadPause`, `TellPause`, `TellNobody`, `TellFails`, `WritePause` |
| `_freeze_judges` | `ReadJudges`, `FreezeNothing`, `FreezeLook`, `FreezeRecord`, `FreezeStop` |
| `resume_all` and its callers | `Resume`, `FleetTick` (both by `Claim`), `ReadClaimed`, `Unlink`, `SayResume`, `SayFails`, `Resumed` |
| `_thaw_judges` | `ThawLook`, `ThawRecord`, `ThawCont` |
| `_cancel_moot_judges`, `_judge_watchdog`, the claims of a tick | `CancelMoot`, `Watchdog`, `WatchdogRetries`, `Launch`, `SpawnJudge`, `EndTick` |
| the tick's early returns (`dispatcher.py:5873`, 7081) | `Begun` (no step of a tick without a workflow), `Watched` (a broken one ends the tick short of the hold and the fleet); `Breaks`, `Mends` |

Abstractions. One workflow: with several, a tick of any that parses thaws the fleet too. The file is
looked at when `Watched` decides, not when the tick begins. A file is read or written in one step (`write_text` is not, an unreadable pause file
is kept under its `.resuming` name for a human). A launch is one step: an agent whose launch is
under way when the fleet is paused is not paused, in the code as here. A judge's window that
cannot be identified is not frozen in the code; here a judge that runs is. A head that moves
under a judge is `JudgeRound`'s. A resume message that fails is not sent again.

## 9. What the runs check

Budgets are small, every bound is a constant, and the bounds on what falls in from outside
(`MaxOps`, `MaxFaults`, `MaxMoves`, `MaxHolds`) leave the daemon's tick to run for ever.
Counters of `RunLifecycle` stop at `CounterTop`, which no budget they are compared with passes (1 and 3 retries in `live`).

| run | instance | properties | shows |
|---|---|---|---|
| `slots` | 2 interchangeable tasks, 1 slot, 3 outside steps | `TypeOK`, `SlotBound`, `SlotsReserved`, `ClosedStays` | no interleaving of closes, deletes, disputes, deaths, crashes and failed launches over-commits the slot, and no later tick revives a closed run. Two tasks and one slot make every launch compete |
| `live` | 1 task, 2 attempts, 3 outside steps, `FairSpec` | `ReworkNeverFails`, `AttemptBound`, `CachedPrIsTrue`, `DoneMeansShipped`; `DeadAgentSettles`, `MergedRunSettles`, `SpentRunLeaves`, `TerminalWindowReaped`, `LaunchFailuresEnd` | the row stays truthful through retries, reworks, requeues and reopens, and what must eventually happen does. Rows influence one another only through slots, so one task suffices |
| `overrides` | 1 request, 2 completing processes, 3 heads, `FairSpec` | `TypeOK`, `OneCompletion`, `OverrideOnRecord`, `LedgerKept`, `RequestSettles` | approvals, retries, deadlines, sweeps, crashes and other merges in every order. Two processes are what it takes to meet; three heads make a cached head older than an older request's |
| `judge` | 1 process, 3 heads of which the last may be exempt, a launch, window or run that dies | `TypeOK`, `VerdictIsVerified` | the retry budget is one, and a verdict is of the files it names |
| `judgelive` | 1 head, one fault of any of the seven kinds, `FairSpec` | `JudgingEnds`, `HeadIsDecided` | no round runs for ever and a waiting run gets a verdict or a human |
| `verified` | 1 process, 2 heads, a daemon that dies | `VerdictIsVerified` | violated: see findings |
| `inbox` | a human and another agent, 2 windows, 2 tmux servers, 2 heads, 1 fault | `TypeOK`, `NewsKept`, `NoStranger` | no update of the store is lost and no news goes to a stranger; the fault may be an epoch that is not read |
| `persona` | a human, a request, 3 windows, 2 tmux servers, 1 fault, `FairSpec` | `RequestTold`, `PersonaEnds`, `HandRunSurvives` | the persona comes, goes, and nobody else is torn down |
| `killed` | a human, a request, 2 windows, no fault | `NeverKilledAtWork` | violated |
| `gate` | 2 questions one after the other that say the same or not, 2 options, 1 fault of dashboard, daemon, thread, acknowledgement | `AnswerIsForGate` | an answer is whole and for the question it was tapped for. Two options make a choice of both, which is not whole, possible; a dashboard that comes back between the two posts of the second question is among the states |
| `gatelive` | 1 question of several choices, 3 messages, 2 faults, `FairSpec` | `TypeOK`, `NoOrphan`, `AnsweredReleases`, `QuestionIsOffered`, `OldMessageGoes` | refusals, deaths, a slow thread and a closed topic hide no question, hold no answered request and leave no live keys |
| `fleet` | 1 task, a hand and the daemon, 2 pauses, 2 rounds, 1 end of an agent or a round, death of a process or break of `WORKFLOW.md`, `FairSpec` | `TypeOK`, `StopIsOwed`, `PauseIsOwed`, `StoppedGoesOn`, `PausedGoesOn`, `RoundEnds` | who was stopped stays on record and goes on once `WORKFLOW.md` parses. Two rounds make a ledger of one round outlive it into the next. Tasks meet only in the files, which are per task or hold one entry per task. Two pauses are what it takes to pause during a resume; two resumes meet as the hand's and the tick's. The safety half was also run with a second, resuming hand (3.1 million states) |

That something does not last for ever (`P ~> ~P \/ ...`) is written `[]<>(~P \/ ...)` in `Inbox`,
`GateRelay` and `FleetPause`, which is the same.

Deadlock is checked where a tick can always be started (`RunLifecycle`, `FleetPause`). In the other
modules all that is modelled may be over: the request settled, the run merged, the bounds spent.

Fairness, and why the code justifies it:

* `RunLifecycle`. `WF_vars(Tick)`: the daemon's loop calls `tick` for ever (`main.py:361`), and a step
  of it that is under way ends, since every subprocess it runs is one it waits for.
  `SF_vars(RefreshAll)`: again and again a refresh is answered for every PR; a GitHub that
  never answers again settles nothing, and the code does not claim it would. Nothing is
  assumed of agents, operators, crashes, or of a step's outcome: a launch may fail every time.
* `MergeOverrides`. Time passes (`DeadlinePasses`), the daemon sweeps after every tick
  (`main.py:332`) and finishes its sweep, and a completing process that has not died goes on,
  as `_complete` turns every exception into an outcome. Nobody has to ask, decide or merge.
* `JudgeRound`. The daemon ticks, a judge process goes on, time passes; GitHub answers again and
  again, and nothing refuses a judge for ever (`SF_vars(Select)`). That an agent ever starts its
  run is not assumed.
* `Inbox`. The daemon ticks, cooldowns pass, a claude that was started comes up.
* `GateRelay`. Agent, dashboard and bot go on, and the bot's throttle passes; a window is polled
  again and again only as long as it has a topic. That it gets one, that anybody answers, or that a
  held question expires, is not assumed.
* `FleetPause`. The tick goes on, a hand that has begun to pause or resume goes on until it
  dies, the hold's time passes, and the wall of a round passes when its ledger does not put it off.
  That a hand ever resumes is not assumed. Nor that anybody mends a broken `WORKFLOW.md`: the three
  liveness properties say what happens if it is mended for good (`Mended`), since until then no tick
  gets as far as the fleet (`dispatcher.py:7081`).

### Findings

Two runs state what the repository says of the program and TLC refutes it. The quotes are in
`PROJECT.json`.

* `VerdictIsVerified`, run `verified`: `judge.py:3014` calls the sha it takes from the row the commit
  the call tested. A daemon that dies after the stamp leaves the old agent in the old worktree,
  whose run then records a verdict of the old tree for the new head.
* `NeverKilledAtWork`, run `killed`: `should_teardown` never kills a window at work. It decides on the
  statuses of the tick's beginning; the delivery of the same tick sets the persona to work.

### Divergences that no run is about

Met while modelling, reproducible in the models, and left out of the properties by the
exceptions named here.

* `RunLifecycle`: the launch's last write (`dispatcher.py:7816`) and the window-gone, watchdog
  and escalation writes are keyed by the task alone, so a run closed during the launch runs
  again; a merged row can be re-spawned (7205) and is settled one tick later; a marker of an
  earlier round hands in the next round's work (6304); a respawn that dies before its own write
  is charged to the infrastructure budget with the cause still `review`, which neither cap
  compares (the docstring at 8391 says it burns its rounds and escalates).
* `MergeOverrides`: the sweep expires a request that was approved, or is merging, since it was
  listed (`overrides.py:535`, 702); a stale cached head expires a live request (712).
* `JudgeRound`: `_cleanup`'s guard against a newer judge compares the tmux server's epoch
  (`judge.py:3990`), which two runs share; a final unknown that is handed in again unchanged is
  neither selected nor escalated (`dispatcher.py:9558`).
* `Inbox`: with no live session at all, an empty status map keeps a dead address alive
  (`inbox.py:515`; `RequestTold` excepts `Quiet`); after a tmux restart the stamp's window id may be
  a human's (`HandRunSurvives` excepts it); a persona whose inbox somebody takes over is left
  for ever (`PersonaEnds` excepts it); a clean notice dropped as stale is not announced again when
  its verdict is carried; an address recorded while tmux did not answer has no stamp, and after a
  tmux restart news is sent to whoever has its number, as is that for any older address while the
  epoch cannot be read (`inbox.py:481`; `NoStranger` excepts `Unverified`).
* `GateRelay`: after a daemon restart the log forgets who asked and the question loses its answer
  buttons (`QuestionIsOffered`); a post whose acknowledgement is lost, and the messages of a bot
  that died, keep live keys (`NoOrphan`: `lost`); a dashboard that dies leaves the gate open, and a
  tap is told that the agent has it. A dashboard that comes back between a question's two posts finds
  an earlier unresolved question that says the same, and an answer to that one, a late tap included,
  decides this one (`gateanswer.py:508`; `AnswerIsForGate` excepts `unheard`). A request that writes
  its gate file after the `PostToolUse` (looked up at 503, written at 519), or that holds another
  gate, waits out its budget (`AnsweredReleases`). A window that lost its topic is polled no more: its
  message keeps its keys until it gets a topic again, for a dead agent for ever (`OldMessageGoes`).
* `FleetPause`: two pauses at once overwrite each other's record, and an agent paused between is
  never told to go on (one pauser in the run); a pause during a resume may leave two
  open freezes in a ledger of which the thaw closes one, and the wall of that round never passes
  (`RoundEnds` excepts `stale`); nothing reads a `.resuming` file again after a death, and a second
  resume overwrites it (`orphans`); a round respawned between the freezer's read of the row and
  its look at the processes is stopped with its ledger under the old round. While `WORKFLOW.md` does not parse, a hold that has
  lapsed thaws no judge and tells no agent to go on: `tick` returns before it looks (7081); only a
  hand that resumes does.

## 10. What is proved

For all values of the constants allowed by the named assumptions (any finite set of tasks, any
budgets and bounds):

| module | theorem | of |
|---|---|---|
| `RunLifecycleProofs` | `TypeCorrect`, `SlotsNeverExceeded`, `CountNeverBehind` | `TypeOK`, `SlotBound`, `SlotsReserved` |
| `RunHistoryProofs` | `ReworksNeverFail`, `AttemptsBounded`, `CachedPrsTrue`, `DoneIsShipped` | the four invariants of `live` |
| `RunClosedProofs` | `ClosedRunsStay` | `ClosedStays`, an action property |
| `MergeOverridesProofs` | `TypeCorrect`, `CompletionsNeverMeet`, `OverridesOnRecord`, `LedgerImplemented` | `TypeOK`, `OneCompletion`, `OverrideOnRecord`, and the refinement of `MergeLedger` |
| `JudgeRoundProofs` | `TypeCorrect`, `VerdictsAreVerified` | `TypeOK`, with the bound on tries; `VerdictIsVerified`, of runs that do not overlap and faults of some kinds |
| `InboxProofs` | `TypeCorrect`, `NewsIsKept`, `NoStrangersTold`, `HandRunsSurvive` | `TypeOK`, and the three action properties, with the exceptions they name |
| `GateRelayProofs` | `TypeCorrect`, `AnswersAreForGate`, `NoOrphans` | `TypeOK`, `AnswerIsForGate`, `NoOrphan`, with faults of every kind |
| `FleetPauseProofs` | `TypeCorrect`, `StopsAreOwed`, `PausesAreOwed` | `TypeOK`, `StopIsOwed`, `PauseIsOwed`; the last two for any number of hands of which one pauses |

`RunLifecycleProofs`. `SlotBound` is not inductive: nothing in it says why the launch in progress
fits. The invariant is `IInv == TypeOK /\ CurOK /\ SlotBound /\ SlotsReserved`. `CurOK` says that `cur` is
a task while the tick is launching or handing in. `SlotsReserved` says that from the count
on, the active rows are at most `active`, and that while a launch is under way they are at most
`active` not counting its own row, with `active < MaxConcurrent`. The proof then has one
fact about counting (`OneWrite`: a write to one row adds at most that row), and per phase a
lemma that its steps do not make a row active, except the three that do: `Respawn` and
`Claim`, which take the slot in reserve, and `Seed`, which moves it into `active`. `MaxOps` is any
natural number, so the theorems hold of unboundedly many outside steps.

`RunHistoryProofs` adds `History` to it: what rows, and the stale copies of rows that ticks act on,
can be. `RowOK` has the four properties and what they rest on (which states go with a rework,
which with a settled PR); `SnapOK` says the same of the copies while they may still be written
back; `LoopOK` and `ClaimOK` say what is left of a copy's truth at the step that uses it: a row
read for a claim is failed, requeued or missing, and its attempt is still below the bound. Every
write of the code is one of a few shapes (`Fits`), and each action is shown to be one of them.

`RunClosedProofs` needs one invariant, `ReadOK`: what a later step of this tick may still write on the
strength of a read was read in a state other than `closed`, or the step leaves closed rows alone
(`OwnWrites`).

`MergeOverridesProofs`. None of its properties is inductive alone. `IInv` adds `WorkersOK` (a process is idle or
completes a request); `AskedOK` (a request without a head was never asked, a merging or
deferred one carries a decision); `MergerOK` (whoever merged is on record and past every state
that can still be decided, which is why a denial can no longer come); `CompletionOK` (before the
merge step the request has not merged, at the merge step it is on record, and what is
reported at the end is true enough). `OneCompletion` itself carries the argument: the only
states from which a completion starts exclude a completion in progress, and of the writes that
may hit a request under completion, an expiry, none makes it startable again.

`JudgeRoundProofs`. The bound on tries is not local to the write: the row is stamped from a copy read
earlier in the tick. `Local` types the copies, and `MayRetry` says that a copy read for another try was
read of a row with a try left, which nothing but the tick itself can spend before the stamp.

`VerdictsAreVerified` has two assumptions beyond the model's own. `Benign`: no run is started by
hand, and of the faults only launches, windows and runs that die; a run by hand or any of the
other faults (a daemon that dies between stamp and checkout, a checkout that leaves the old tree, a
slow claim, a head that cannot be read) does break it, in TLC. `Alone`: no two runs overlap. The
run `judge` has both. The invariant `VInv` is about two things that are read at different
times, a tree and a stamped head. It cannot say that they go together, since runs remake the tree
at a newer head than the one stamped and die; it says that they do if the stamped head's files
are still the pull request's (`Right`), which is enough: a run whose head has moved on publishes
nothing. `PatchOK` (heads of the same files follow each other) makes this survive pushes that
only merge the base, and verdicts that are carried over them. `WindowOK` says it of what an agent
that starts now would find, `ClaimOK` of a run that has read the row and not yet the tree, and
`RunOK` of one with both, up to the write.

`InboxProofs`. `NewsIsKept` rests on what a tick has in hand when it saves: `SaveOK` says that its
draft holds what the store held, or what it has sent. Nobody else writes between the two, since the
draft is made and saved under the lock; that this survives a registration, an enqueued event or a
death at any other point is the proof. `NoStrangersTold` needs `AddressesOK`: an address whose server
still runs is never that of an agent that did not register. It holds of the store, of the
draft, and of the persona about to be registered, because a tmux server gives no number twice
(`New`), and a new server makes every older epoch stale. Where there is no stamp to compare, or no
epoch to compare it with, the theorem says nothing (`Unverified`); that this is the only way past
`Dangling` is part of the proof.
`HandRunsSurvive` needs the same of the stamp (`StampOK`) at the steps where the tick acts on it.

`GateRelayProofs`. For `AnswersAreForGate` the hooks' log matters: `LogOK` says that it names no
question later than the last one and never that one as answered, and that it names it at all unless
its `PreToolUse` was lost or the log has been emptied since. `HookOK` says that a hook which looked
its gate up while its question is on the pane found its own, as the last question asked that is
not over, or, if nobody heard of its own, an earlier one that says the same (`StandsFor`: the
comparison of the questions is all that is left then).
An answer is whole since `validate_answers` is the only way into the
reply file, which is part of the types. For `NoOrphans` `OwnersOK` says who sees to a message:
exactly one of the mirror's record, a place in the queue, or a thread; what the owners hold exists
and was not given up, no message is queued twice, and no two threads hold the same. Each refusal,
retry and death moves a message from one owner to the next, or gives it up (`lost`).

`FleetPauseProofs`. `OnePauser` is the one assumption beyond the model's own, and the run has it too:
two pauses at once do overwrite each other's file. `LocalInv` says what a process at each of its
steps has in hand: a pause it composes or undoes, rounds no later than the row's, every
judge it has yet to thaw. That a stopped judge is on record needs two things more. A pause writes
the file over the one it read, so what the file names must be in the copy (`Composed`). And a
resume that has found a ledger with nothing to close will drop its record all the same, so an
open freeze has to be on the record of somebody who is not such a resume (`Keepers`, `Dropping`):
a freeze opened behind a resume's back is on the pause's own copy. With these,
`JudgeOK` and `AgentOK` hold the records for each task, and each action moves a record (copy to
file, file to claim, claim to copy, copy to the list of those to be told), leaves it alone, or
ends what it was for.

Only model-checked: `VerdictIsVerified` of two runs that overlap (without faults), and all liveness
(liveness under fairness and `ENABLED` are not what the proof system decides). Every other
property of the runs is a theorem.

## 11. What is not modelled

The parts listed as `not_modelled` in `PROJECT.json`, each with its reason. Most of the lines of the
repository read, render and report, or wrap tools: the dashboard and its pages, the command line, runtime truth and
doctor, configuration, panes scanned by text patterns, worktrees and git, the share proxy,
updates. They keep no state that the modelled parts rest on, beyond what appears as an action or
a choice, and a model of them would restate their code. That is why the map covers about a tenth
of the implementation's lines and not more. Parks and usage limits, suite slots and release requests have
small protocols of their own that are not modelled yet.
