------------------------------ MODULE GateRelay ------------------------------
(* A question an agent asks in its terminal, relayed to a phone. The hook of *)
(* the question is held by the dashboard, which waits for a file the bot     *)
(* writes when the human has tapped an answer (gateanswer.py,                *)
(* telegram/gateanswers.py); meanwhile the question can be answered on the   *)
(* pane. The bot mirrors the pane in one message, whose buttons it keeps     *)
(* true and which it deletes when the question is over                       *)
(* (telegram/gatewatch.py). Agent, dashboard and bot are processes of their  *)
(* own, and share an event log and two files for every question. All of it   *)
(* rests on the topic the agent's window is bound to (telegram/reconcile.py).*)
EXTENDS Integers, Sequences, FiniteSets, SequencesExt

CONSTANTS
    Questions,   \* of every gate
    Many,        \* those of which several options may be chosen
    Options,     \* of every question
    Texts,       \* what the questions of a gate say
    Threads,     \* of the bot, that may delete messages
    MaxTries,    \* _MAX_POOF_TRIES
    MaxGate,     \* bound: gates, one after the other
    MaxPost,     \* bound: messages
    Faults,      \* what may go wrong, of FaultKinds
    MaxFaults    \* bound: how often

\* Telegram refuses a call, or its answer to a post is lost; the dashboard, the
\* daemon (whose start moves the log's boot_id), the bot or the agent dies; a
\* thread of the dashboard is slow; the human closes the topic.
FaultKinds == {"refuse", "ack", "dashboard", "daemon", "bot", "death", "slow", "topic"}

ASSUME FaultAssumption == Faults \subseteq FaultKinds /\ MaxFaults \in Nat
ASSUME GateAssumption ==
    /\ Questions # {} /\ Options # {} /\ Many \subseteq Questions
    /\ {MaxTries, MaxGate, MaxPost} \subseteq Nat \ {0}

Gates == 1..MaxGate
NoGate == 0

\* What was chosen, for every question; nothing yet, or nothing at all.
Blank == [q \in Questions |-> {}]
NoAnswer == Blank

\* What a message shows: the gate on the pane, and whose answer buttons.
NoCard == [shows |-> NoGate, answers |-> NoGate]

Posts == 1..MaxPost
NoPost == 0

VARIABLES
    agent,     \* what it does, its last gate, what each gate says and how it was
               \* answered, and (ghost) the gates whose PreToolUse nobody heard
    up,        \* the dashboard runs
    log,       \* the hook events of this boot: gates asked, gates over
    hook,      \* for every gate, its PermissionRequest in the dashboard; ghost: it
               \* wrote its gate file after the PostToolUse that would remove it
    file,      \* for every gate, its gate file: "none", "open" or past its deadline
    reply,     \* for every gate, its answer file
    bound,     \* the agent's window has a topic
    draft,     \* for every gate, the taps so far
    tap,       \* the tap that is being delivered
    chat,      \* the messages there are, by id
    track,     \* the mirror's message: its id, and what it shows by now
    pace,      \* an edit or a re-post has to wait
    poll,      \* the reconcile under the bot's lock
    queue,     \* messages to delete
    hand,      \* what each thread is deleting
    lost,      \* ghost: messages nobody will delete
    faults     \* how many faults there were

vars == <<agent, up, log, hook, file, reply, bound, draft, tap,
          chat, track, pace, poll, queue, hand, lost, faults>>

rendezvous == <<hook, file, reply>>
phone == <<bound, draft, tap>>
mirror == <<chat, track, pace, poll, queue, hand, lost>>

NoTrack == [id |-> NoPost, card |-> NoCard]
NoHand == [id |-> NoPost, tries |-> 0]
IdlePoll == [pc |-> "idle", force |-> FALSE, card |-> NoCard]
IdleTap == [gate |-> NoGate, answer |-> NoAnswer]
NoHook == [pc |-> "none", gate |-> NoGate, answer |-> NoAnswer, late |-> FALSE]
NoDraft == [picks |-> Blank, final |-> {}]

Init ==
    /\ \E text \in [Gates -> Texts] :
          agent = [pc |-> "works", gate |-> NoGate, text |-> text,
                   by |-> [g \in Gates |-> "none"], unheard |-> {}]
    /\ up = TRUE /\ log = [asked |-> {}, over |-> {}]
    /\ hook = [g \in Gates |-> NoHook]
    /\ file = [g \in Gates |-> "none"]
    /\ reply = [g \in Gates |-> NoAnswer]
    /\ bound \in BOOLEAN
    /\ draft = [g \in Gates |-> NoDraft] /\ tap = IdleTap
    /\ chat = [p \in {} |-> NoCard] /\ track = NoTrack /\ pace = FALSE
    /\ poll = IdlePoll /\ queue = <<>> /\ hand = [t \in Threads |-> NoHand] /\ lost = {}
    /\ faults = 0

Fault(kind) == kind \in Faults /\ faults < MaxFaults /\ faults' = faults + 1

-----------------------------------------------------------------------------
(* The agent                                                                *)

Asking(g) == agent.pc = "asks" /\ agent.gate = g

\* Two posts of the agent's, one after the other and neither repeated; each is
\* lost if there is no dashboard. The first is logged.
PreToolUse ==
    LET g == agent.gate + 1
    IN  /\ agent.pc = "works" /\ agent.gate < MaxGate
        /\ agent' = [agent EXCEPT !.pc = "uses", !.gate = g,
                                  !.unheard = IF up THEN @ ELSE @ \cup {g}]
        /\ log' = IF up THEN [log EXCEPT !.asked = @ \cup {g}] ELSE log
        /\ UNCHANGED <<up, rendezvous, phone, mirror, faults>>

\* The second is answered by answer_permission_request.
PermissionRequest ==
    /\ agent.pc = "uses"
    /\ agent' = [agent EXCEPT !.pc = "asks"]
    /\ hook' = IF up THEN [hook EXCEPT ![agent.gate].pc = "asked"] ELSE hook
    /\ UNCHANGED <<up, log, file, reply, phone, mirror, faults>>

Answered(by) == agent' = [agent EXCEPT !.pc = "told", !.by[agent.gate] = by]

\* At the terminal, or by the keys of the mirror.
AnswerOnPane ==
    /\ agent.pc = "asks"
    /\ Answered("pane")
    /\ UNCHANGED <<up, log, rendezvous, phone, mirror, faults>>

\* PostToolUse: logged, and gate_resolved.
\* Mutant: only logged.
PostToolUseLogs ==
    LET g == agent.gate
    IN  /\ agent.pc = "told"
        /\ agent' = [agent EXCEPT !.pc = "works"]
        /\ log' = IF up THEN [log EXCEPT !.over = @ \cup {g}] ELSE log
        /\ UNCHANGED <<up, hook, file, reply, phone, mirror, faults>>

PostToolUse ==
    LET g == agent.gate
    IN  /\ agent.pc = "told"
        /\ agent' = [agent EXCEPT !.pc = "works"]
        /\ log' = IF up THEN [log EXCEPT !.over = @ \cup {g}] ELSE log
        /\ file' = IF up THEN [file EXCEPT ![g] = "none"] ELSE file
        /\ UNCHANGED <<up, hook, reply, phone, mirror, faults>>

AgentDies ==
    /\ agent.pc # "dead" /\ Fault("death")
    /\ agent' = [agent EXCEPT !.pc = "dead"]
    /\ UNCHANGED <<up, log, rendezvous, phone, mirror>>

-----------------------------------------------------------------------------
(* The dashboard: answer_permission_request, one thread for every gate      *)

\* pending_gate: the last question of this boot that is not over.
\* Mutant: the first.
PendingFirst ==
    LET open == log.asked \ log.over
    IN  IF open = {} THEN NoGate ELSE CHOOSE g \in open : \A h \in open : g <= h

Pending ==
    LET open == log.asked \ log.over
    IN  IF open = {} THEN NoGate ELSE CHOOSE g \in open : \A h \in open : h <= g

others == <<agent, up, log, phone, mirror, faults>>

\* The pending gate is held, if the window has a topic and the gate says what
\* this request says. Otherwise, or without a wait slot, the request fails open.
Found(g) == bound /\ Pending # NoGate /\ agent.text[Pending] = agent.text[g]

Hold(g) ==
    /\ hook[g].pc = "asked" /\ Found(g)
    /\ hook' = [hook EXCEPT ![g].pc = "waits", ![g].gate = Pending]
    /\ file' = [file EXCEPT ![Pending] = "open"]
    /\ UNCHANGED <<reply, others>>

\* Looked up now, written later: perhaps after the gate's PostToolUse, which then
\* has removed nothing.
HoldLater(g) ==
    /\ hook[g].pc = "asked" /\ Found(g) /\ Fault("slow")
    /\ hook' = [hook EXCEPT ![g].pc = "opens", ![g].gate = Pending]
    /\ UNCHANGED <<file, reply, agent, up, log, phone, mirror>>

Over(g) == agent.by[g] # "none" /\ ~(agent.pc = "told" /\ agent.gate = g)

Open(g) ==
    /\ hook[g].pc = "opens"
    /\ hook' = [hook EXCEPT ![g].pc = "waits", ![g].late = Over(hook[g].gate)]
    /\ file' = [file EXCEPT ![hook[g].gate] = "open"]
    /\ UNCHANGED <<reply, others>>

FailOpen(g) ==
    /\ hook[g].pc = "asked"
    /\ hook' = [hook EXCEPT ![g] = NoHook]
    /\ UNCHANGED <<file, reply, others>>

\* wait_for_answer: an answer; a gate file that is gone; or a budget that is.
TakeAnswer(g) ==
    LET held == hook[g].gate
    IN  /\ hook[g].pc = "waits" /\ reply[held] # NoAnswer
        /\ hook' = [hook EXCEPT ![g].pc = "closes", ![g].answer = reply[held]]
        /\ UNCHANGED <<file, reply, others>>

GiveUp(g) ==
    LET held == hook[g].gate
    IN  /\ hook[g].pc = "waits" /\ reply[held] = NoAnswer /\ file[held] # "open"
        /\ hook' = [hook EXCEPT ![g].pc = "closes"]
        /\ UNCHANGED <<file, reply, others>>

CloseGate(g) ==
    LET held == hook[g].gate
    IN  /\ hook[g].pc = "closes"
        /\ hook' = IF hook[g].answer = NoAnswer THEN [hook EXCEPT ![g] = NoHook]
                                                ELSE [hook EXCEPT ![g].pc = "decides"]
        /\ file' = [file EXCEPT ![held] = "none"]
        /\ reply' = [reply EXCEPT ![held] = NoAnswer]
        /\ UNCHANGED others

\* The decision answers the question, unless it has been answered meanwhile.
Decide(g) ==
    /\ hook[g].pc = "decides"
    /\ IF Asking(g) THEN Answered("hook") ELSE UNCHANGED agent
    /\ hook' = [hook EXCEPT ![g] = NoHook]
    /\ UNCHANGED <<file, reply, up, log, phone, mirror, faults>>

Expire(g) ==
    /\ file[g] = "open"
    /\ file' = [file EXCEPT ![g] = "old"]
    /\ UNCHANGED <<hook, reply, others>>

\* The held hooks die with the dashboard, and fail open; the files stay.
DashboardDies ==
    /\ up /\ Fault("dashboard")
    /\ up' = FALSE
    /\ hook' = [g \in Gates |-> NoHook]
    /\ UNCHANGED <<agent, log, file, reply, phone, mirror>>

DashboardStarts ==
    /\ ~up
    /\ up' = TRUE
    /\ UNCHANGED <<agent, log, rendezvous, phone, mirror, faults>>

DaemonRestarts ==
    /\ Fault("daemon")
    /\ log' = [asked |-> {}, over |-> {}]
    /\ UNCHANGED <<agent, up, rendezvous, phone, mirror>>

-----------------------------------------------------------------------------
(* The topic of the window: auto-topics' reconcile, TopicClosedHandler       *)

unbinds == <<agent, up, log, rendezvous, draft, tap, mirror>>

\* A dead window is unbound, and so is one whose topic the human closes; the
\* tracker of the mirror is not told.
Reap ==
    /\ bound /\ agent.pc = "dead"
    /\ bound' = FALSE
    /\ UNCHANGED <<unbinds, faults>>

TopicClosed ==
    /\ bound /\ Fault("topic")
    /\ bound' = FALSE
    /\ UNCHANGED unbinds

\* A live agent without a topic gets one, in time, or when it is blocked.
Provision ==
    /\ ~bound /\ agent.pc # "dead"
    /\ bound' = TRUE
    /\ UNCHANGED <<unbinds, faults>>

-----------------------------------------------------------------------------
(* Taps on a message's answer buttons: Drafts, submit_answer                 *)

Button(g) == \E p \in DOMAIN chat : chat[p].answers = g

\* validate_answers
Whole(answer) ==
    \A q \in Questions : answer[q] # {} /\ (q \notin Many => Cardinality(answer[q]) = 1)

\* Once every question is final the answer goes out, if the gate is open and it
\* is whole; whatever comes of it, the draft is forgotten.
Advance(g, d) ==
    IF d.final # Questions
    THEN /\ draft' = [draft EXCEPT ![g] = d]
         /\ UNCHANGED tap
    ELSE /\ draft' = [draft EXCEPT ![g] = NoDraft]
         /\ tap' = IF Whole(d.picks) THEN [gate |-> g, answer |-> d.picks] ELSE IdleTap

\* In a topic that is bound to no window a tap does nothing.
TapOn(g) == tap = IdleTap /\ bound /\ Button(g)

tapped == <<agent, up, log, rendezvous, bound, mirror, faults>>

\* A choice of several toggles, and has to be sent again.
Pick(g, q, o) ==
    LET d == draft[g]
    IN  /\ TapOn(g) /\ file[g] = "open"
        /\ IF q \in Many
           THEN /\ draft' = [draft EXCEPT ![g].final = @ \ {q},
                               ![g].picks[q] = IF o \in @ THEN @ \ {o} ELSE @ \cup {o}]
                /\ UNCHANGED tap
           ELSE Advance(g, [picks |-> [d.picks EXCEPT ![q] = {o}], final |-> d.final \cup {q}])
        /\ UNCHANGED tapped

Send(g, q) ==
    LET d == draft[g]
    IN  /\ TapOn(g) /\ file[g] = "open" /\ q \in Many /\ d.picks[q] # {}
        /\ Advance(g, [d EXCEPT !.final = @ \cup {q}])
        /\ UNCHANGED tapped

TooLate(g) ==
    /\ TapOn(g) /\ file[g] # "open"
    /\ draft' = [draft EXCEPT ![g] = NoDraft]
    /\ UNCHANGED <<tap, tapped>>

\* Checked before, written now.
Submit ==
    /\ tap # IdleTap
    /\ reply' = [reply EXCEPT ![tap.gate] = tap.answer]
    /\ tap' = IdleTap
    /\ UNCHANGED <<agent, up, log, hook, file, bound, draft, mirror, faults>>

-----------------------------------------------------------------------------
(* The mirror: PermissionGateWatcher                                        *)

rest == <<agent, up, log, rendezvous, phone>>

\* Of the windows that have a topic the pane first; then the log and the gate
\* file. A key tapped on the mirror does the same at once (refresh_mirror).
Capture(force) ==
    /\ poll.pc = "idle" /\ bound
    /\ force => DOMAIN chat # {}
    /\ poll' = [pc |-> "look", force |-> force,
                card |-> [NoCard EXCEPT !.shows = IF agent.pc = "asks" THEN agent.gate ELSE NoGate]]
    /\ UNCHANGED <<rest, chat, track, pace, queue, hand, lost, faults>>

Look ==
    /\ poll.pc = "look"
    /\ poll' = [poll EXCEPT !.pc = "sync",
                  !.card.answers = IF poll.card.shows # NoGate /\ Pending # NoGate
                                      /\ file[Pending] = "open"
                                   THEN Pending ELSE NoGate]
    /\ UNCHANGED <<rest, chat, track, pace, queue, hand, lost, faults>>

Queued(id) == IF id = NoPost THEN queue ELSE Append(queue, [id |-> id, tries |-> 0])
Deferred == pace /\ ~poll.force

\* _sync. The dialog has left the pane: its message goes.
Resolve ==
    /\ poll.pc = "sync" /\ poll.card.shows = NoGate
    /\ queue' = Queued(track.id)
    /\ track' = NoTrack /\ pace' = FALSE /\ poll' = IdlePoll
    /\ UNCHANGED <<rest, chat, hand, lost, faults>>

\* Nothing has changed, or it is too early, or the topic has gone since.
LeaveAsIs ==
    /\ poll.pc = "sync" /\ poll.card.shows # NoGate
    /\ track.card = poll.card \/ Deferred \/ ~bound
    /\ poll' = IdlePoll
    /\ UNCHANGED <<rest, chat, track, pace, queue, hand, lost, faults>>

Due == poll.card.shows # NoGate /\ track.card # poll.card /\ ~Deferred /\ bound

Edit ==
    /\ poll.pc = "sync" /\ Due /\ track.id # NoPost
    /\ chat' = [chat EXCEPT ![track.id] = poll.card]
    /\ track' = [track EXCEPT !.card = poll.card]
    /\ pace' = TRUE /\ poll' = IdlePoll
    /\ UNCHANGED <<rest, queue, hand, lost, faults>>

EditRefused ==
    /\ poll.pc = "sync" /\ Due /\ track.id # NoPost
    /\ Fault("refuse")
    /\ poll' = [poll EXCEPT !.pc = "post"]
    /\ UNCHANGED <<rest, chat, track, pace, queue, hand, lost>>

Posting == poll.pc = "post" \/ (poll.pc = "sync" /\ Due /\ track.id = NoPost)

NextPost == CHOOSE p \in Posts \ (DOMAIN chat \cup lost) : TRUE
Room == Posts \ (DOMAIN chat \cup lost) # {}
With(p) == [x \in DOMAIN chat \cup {p} |-> IF x = p THEN poll.card ELSE chat[x]]

\* A new message replaces the one that could not be edited.
\* Mutant: which stays.
PostBeside ==
    /\ Posting /\ Room
    /\ chat' = With(NextPost)
    /\ track' = [id |-> NextPost, card |-> poll.card]
    /\ pace' = TRUE /\ poll' = IdlePoll
    /\ UNCHANGED <<rest, queue, hand, lost, faults>>

Post ==
    /\ Posting /\ Room
    /\ chat' = With(NextPost)
    /\ track' = [id |-> NextPost, card |-> poll.card]
    /\ queue' = Queued(track.id)
    /\ pace' = TRUE /\ poll' = IdlePoll
    /\ UNCHANGED <<rest, hand, lost, faults>>

\* What Telegram did not take is not recorded, and tried again later.
\* Mutant: it is recorded.
PostRefusedRecorded ==
    /\ Posting
    /\ Fault("refuse")
    /\ track' = [track EXCEPT !.card = poll.card]
    /\ pace' = TRUE /\ poll' = IdlePoll
    /\ UNCHANGED <<rest, chat, queue, hand, lost>>

PostRefused ==
    /\ Posting
    /\ Fault("refuse")
    /\ track' = [track EXCEPT !.card = NoCard]
    /\ pace' = TRUE /\ poll' = IdlePoll
    /\ UNCHANGED <<rest, chat, queue, hand, lost>>

\* It took it, and nobody knows.
PostUnknown ==
    /\ Posting /\ Room
    /\ Fault("ack")
    /\ chat' = With(NextPost) /\ lost' = lost \cup {NextPost}
    /\ track' = [track EXCEPT !.card = NoCard]
    /\ pace' = TRUE /\ poll' = IdlePoll
    /\ UNCHANGED <<rest, queue, hand>>

Cool ==
    /\ pace
    /\ pace' = FALSE
    /\ UNCHANGED <<rest, chat, track, poll, queue, hand, lost, faults>>

\* _drain_poofs, outside the lock, by any thread.
Drain(t) ==
    /\ hand[t] = NoHand /\ queue # <<>>
    /\ hand' = [hand EXCEPT ![t] = Head(queue)]
    /\ queue' = Tail(queue)
    /\ UNCHANGED <<rest, chat, track, pace, poll, lost, faults>>

Delete(t) ==
    /\ hand[t] # NoHand
    /\ chat' = [p \in DOMAIN chat \ {hand[t].id} |-> chat[p]]
    /\ hand' = [hand EXCEPT ![t] = NoHand]
    /\ UNCHANGED <<rest, track, pace, poll, queue, lost, faults>>

\* Mutants: a refused deletion is forgotten; it is tried once too often.
DeleteForgotten(t) ==
    /\ hand[t] # NoHand /\ Fault("refuse")
    /\ hand' = [hand EXCEPT ![t] = NoHand]
    /\ UNCHANGED <<rest, chat, track, pace, poll, queue, lost>>

DeleteRefusedOnceMore(t) ==
    LET again == [hand[t] EXCEPT !.tries = @ + 1]
    IN  /\ hand[t] # NoHand /\ Fault("refuse")
        /\ IF again.tries <= MaxTries
           THEN queue' = Append(queue, again) /\ UNCHANGED lost
           ELSE lost' = lost \cup {again.id} /\ UNCHANGED queue
        /\ hand' = [hand EXCEPT ![t] = NoHand]
        /\ UNCHANGED <<rest, chat, track, pace, poll>>

DeleteRefused(t) ==
    LET again == [hand[t] EXCEPT !.tries = @ + 1]
    IN  /\ hand[t] # NoHand /\ Fault("refuse")
        /\ IF again.tries < MaxTries
           THEN queue' = Append(queue, again) /\ UNCHANGED lost
           ELSE lost' = lost \cup {again.id} /\ UNCHANGED queue
        /\ hand' = [hand EXCEPT ![t] = NoHand]
        /\ UNCHANGED <<rest, chat, track, pace, poll>>

\* The bot's memory is gone: the drafts, and which messages are its own.
BotRestarts ==
    /\ Fault("bot")
    /\ draft' = [g \in Gates |-> NoDraft] /\ tap' = IdleTap
    /\ lost' = lost \cup DOMAIN chat
    /\ track' = NoTrack /\ pace' = FALSE /\ poll' = IdlePoll
    /\ queue' = <<>> /\ hand' = [t \in Threads |-> NoHand]
    /\ UNCHANGED <<agent, up, log, rendezvous, bound, chat>>

-----------------------------------------------------------------------------
Agent == PreToolUse \/ PermissionRequest \/ AnswerOnPane \/ PostToolUse \/ AgentDies

Held(g) == Hold(g) \/ HoldLater(g) \/ Open(g) \/ FailOpen(g) \/ TakeAnswer(g) \/ GiveUp(g) \/ CloseGate(g) \/ Decide(g)

Dashboard ==
    \/ \E g \in Gates : Held(g) \/ Expire(g)
    \/ DashboardDies \/ DashboardStarts \/ DaemonRestarts

Topic == Reap \/ TopicClosed \/ Provision

Taps ==
    \/ \E g \in Gates :
          \/ \E q \in Questions, o \in Options : Pick(g, q, o)
          \/ \E q \in Questions : Send(g, q)
          \/ TooLate(g)
    \/ Submit

Reconcile ==
    \/ Look \/ Resolve \/ LeaveAsIs \/ Edit \/ EditRefused
    \/ Post \/ PostRefused \/ PostUnknown

Mirror ==
    \/ Capture(FALSE) \/ Capture(TRUE) \/ Reconcile \/ Cool
    \/ \E t \in Threads : Drain(t) \/ Delete(t) \/ DeleteRefused(t)
    \/ BotRestarts

Next == Agent \/ Dashboard \/ Topic \/ Taps \/ Mirror

Spec == Init /\ [][Next]_vars

\* The processes go on, and time passes for the bot, which polls a window only as
\* long as it has a topic; that a window gets one, that a held question expires,
\* or that anybody answers, is not assumed.
Fairness ==
    /\ WF_vars(PermissionRequest) /\ WF_vars(PostToolUse)
    /\ WF_vars(DashboardStarts) /\ WF_vars(Submit)
    /\ \A g \in Gates : WF_vars(Held(g))
    /\ WF_vars(Capture(FALSE)) /\ WF_vars(Reconcile) /\ SF_vars(Cool)
    /\ \A t \in Threads : WF_vars(Drain(t)) /\ WF_vars(Delete(t) \/ DeleteRefused(t))

FairSpec == Spec /\ Fairness

-----------------------------------------------------------------------------
(* Properties                                                               *)

Answers == [Questions -> SUBSET Options]

Cards == [shows : Gates \cup {NoGate}, answers : Gates \cup {NoGate}]

\* The state has its type, and an answer that was handed over is whole.
TypeOK ==
    /\ agent \in [pc : {"works", "uses", "asks", "told", "dead"}, gate : Gates \cup {NoGate},
                  text : [Gates -> Texts], by : [Gates -> {"none", "pane", "hook"}],
                  unheard : SUBSET Gates]
    /\ up \in BOOLEAN
    /\ log \in [asked : SUBSET Gates, over : SUBSET Gates]
    /\ hook \in [Gates -> [pc : {"none", "asked", "opens", "waits", "closes", "decides"},
                           gate : Gates \cup {NoGate}, answer : Answers, late : BOOLEAN]]
    /\ file \in [Gates -> {"none", "open", "old"}]
    /\ reply \in [Gates -> {a \in Answers : a = NoAnswer \/ Whole(a)}]
    /\ bound \in BOOLEAN
    /\ draft \in [Gates -> [picks : Answers, final : SUBSET Questions]]
    /\ tap \in [gate : Gates \cup {NoGate}, answer : Answers]
    /\ DOMAIN chat \subseteq Posts /\ Range(chat) \subseteq Cards
    /\ track \in [id : Posts \cup {NoPost}, card : Cards] /\ pace \in BOOLEAN
    /\ poll \in [pc : {"idle", "look", "sync", "post"}, force : BOOLEAN, card : Cards]
    /\ Range(queue) \cup Range(hand) \subseteq [id : Posts \cup {NoPost}, tries : 0..MaxTries-1]
    /\ lost \subseteq Posts /\ faults \in 0..MaxFaults

\* A message whose buttons are live has one owner, whatever Telegram refuses: it
\* is the mirror's, or is queued for deletion, or a thread is deleting it. What
\* the code gives up is excepted: a post whose acknowledgement was lost, a
\* deletion refused to the last try, the messages of a bot that has died.
Deleted(p) ==
    Cardinality({i \in DOMAIN queue : queue[i].id = p})
        + Cardinality({t \in Threads : hand[t].id = p})

NoOrphan ==
    \A p \in DOMAIN chat \ lost : Deleted(p) + (IF track.id = p THEN 1 ELSE 0) = 1

\* The decision that answers a question is whole, and was tapped for this question
\* although the held request looks its gate up by window, in a log that is
\* forgotten when the daemon restarts. What the code lets through is excepted: if
\* nobody heard the question's PreToolUse, an earlier question that says the same,
\* and of which nobody heard that it was over, stands for it.
StandsFor(h, g) == h = g \/ (g \in agent.unheard /\ agent.text[h] = agent.text[g])

AnswerIsForGate ==
    \A g \in Gates :
        hook[g].pc = "decides" /\ Asking(g) =>
            StandsFor(hook[g].gate, g) /\ Whole(hook[g].answer)

\* A held request does not outlast its question: once that is answered on the
\* pane the request returns, and not only when its budget is over. What the code
\* does not see is excepted: a request that wrote its gate file after the
\* PostToolUse, and one that holds another gate, wait out their budgets.
AnsweredReleases ==
    \A g \in Gates :
        []<>~(/\ hook[g].pc = "waits" /\ hook[g].gate = g /\ ~hook[g].late
              /\ agent.pc # "dead" /\ agent.by[g] = "pane")

\* A question is brought to the phone, as long as the window has a topic, although
\* Telegram refuses, and while its request is held, with the buttons that answer
\* it; without them if the daemon has restarted since it was asked, as the log then
\* forgets who asked.
Offered(g) ==
    \E p \in DOMAIN chat :
        /\ chat[p].shows = g
        /\ hook[g].pc = "waits" /\ g \in log.asked => chat[p].answers = g

QuestionIsOffered == \A g \in Gates : Asking(g) ~> Offered(g) \/ ~Asking(g) \/ ~bound

\* The message of a question that is over goes, with its keys: again and again there
\* is none that the bot could still delete. Only while the window has no topic does
\* the mirror's own stay, for ever if it gets none.
Stale(g) ==
    {p \in DOMAIN chat \ lost :
        chat[p].shows = g /\ ~Asking(g) /\ (bound \/ track.id # p)}

OldMessageGoes == \A g \in Gates : []<>(Stale(g) = {})

=============================================================================
