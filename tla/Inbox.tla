-------------------------------- MODULE Inbox --------------------------------
(* The decisions inbox (inbox.py) and the orchestrator it is for: a durable  *)
(* queue of news about runs, pushed once per tick into the tmux window that  *)
(* registered; and the persona the daemon launches when there is news and    *)
(* nobody to take it, and tears down when it has done (autolaunch.py). A     *)
(* window's id means something only to the tmux server that issued it.       *)
EXTENDS Integers, Sequences, FiniteSets, FiniteSetsExt, SequencesExt

CONSTANTS
    People,      \* who opens windows, of "human" and "agent"
    News,        \* what is told, of "run" (its edges) and "asked" (a request)
    Attended,    \* whether a human attends: TRUE, FALSE or either in turn
    MaxWid,      \* bound: windows of one tmux server that matter at one time
    MaxEpoch,    \* bound: tmux servers, one after the other
    MaxHead,     \* bound: heads of the run's pull request
    MaxFaults    \* bound: daemons, sends and windows that die, epochs that cannot be read

ASSUME InstanceAssumption ==
    /\ People \subseteq {"human", "agent"} /\ News \subseteq {"run", "asked"}
    /\ Attended \subseteq BOOLEAN /\ Attended # {}
ASSUME BoundAssumption == /\ {MaxWid, MaxEpoch, MaxHead} \subseteq Nat \ {0}
                          /\ MaxFaults \in Nat

Wids == 1..MaxWid
NoWid == 0
Epochs == 1..MaxEpoch
NoEpoch == 0

\* What runs in a window: nothing, the human's session that orchestrates, some
\* other agent, a launched persona that is not up yet, and one that is.
Occupants == {"none", "human", "agent", "boot", "auto"}
Claude == {"human", "agent", "auto"}
Personas == {"boot", "auto"}

RunStates == {"running", "review", "clean", "sent"}

Event == [kind : {"clean", "sent", "asked"}, sha : 0..MaxHead]
About(kind) == [kind |-> kind, sha |-> 0]
Asked == About("asked")

VARIABLES
    tmux,     \* the server's epoch and what runs in its windows
    act,      \* what the persona in each window does: "idle" or "busy"
    run,      \* the run: its state and the commit its verdict is for
    head,     \* the head of its pull request, on GitHub
    store,    \* decisions-inbox.json: the address, the server that issued it (ghost)
              \* and whether it is stamped with that server's epoch
    stamp,    \* orchestrator-autolaunch.json (its epoch is ghost), and its cooldown
    lease,    \* a human attends
    tick,     \* the daemon: where its tick is, and what it has read; now is the epoch
              \* as read, epoch that of the server then (ghost)
    faults    \* how many faults there were

world == <<tmux, act, run, head>>
vars == <<tmux, act, run, head, store, stamp, lease, tick, faults>>

NoStatuses == [w \in Wids |-> "none"]
NoRun == [state |-> "running", sha |-> 0]
Empty == [orch |-> NoWid, epoch |-> NoEpoch, stamped |-> FALSE, session |-> "none",
          queue |-> <<>>, mark |-> "running"]
NoStamp == [wid |-> NoWid, epoch |-> NoEpoch, cool |-> FALSE]
IdleTick == [pc |-> "idle", statuses |-> NoStatuses, epoch |-> NoEpoch, now |-> NoEpoch,
             run |-> NoRun, head |-> 0, heal |-> NoWid, draft |-> Empty, out |-> {}, wid |-> NoWid]

Init ==
    /\ tmux = [epoch |-> 1, win |-> [w \in Wids |-> "none"]]
    /\ act = [w \in Wids |-> "idle"]
    /\ run = NoRun /\ head = 1
    /\ store = Empty /\ stamp = NoStamp /\ lease \in Attended
    /\ tick = IdleTick
    /\ faults = 0

At(pc) == tick.pc = pc
GoTo(pc) == tick' = [tick EXCEPT !.pc = pc]
Unlocked == ~At("save")
Fault == faults < MaxFaults /\ faults' = faults + 1

-----------------------------------------------------------------------------
(* The address                                                              *)

\* epoch.current, where now is what it returns: tmux may not answer.
EpochRead(now) ==
    \/ now = tmux.epoch /\ UNCHANGED faults
    \/ now = NoEpoch /\ Fault

\* epoch.is_dangling: never of an address without a stamp, nor where the epoch is
\* not known.
Dangling(s, now) == s.stamped /\ now # NoEpoch /\ s.epoch # now

\* address_state. An empty status map, which is also what a failed probe looks
\* like, says nothing of the window.
\* Mutant: the number is enough.
UndeliverableByNumber(s, statuses, now) ==
    s.orch # NoWid /\ statuses # NoStatuses /\ statuses[s.orch] = "none"

Undeliverable(s, statuses, now) ==
    /\ s.orch # NoWid
    /\ Dangling(s, now) \/ (statuses # NoStatuses /\ statuses[s.orch] = "none")

Statuses == [w \in Wids |-> IF tmux.win[w] \in Claude THEN act[w] ELSE "none"]

\* (The notice of a move, one more event like a request, is left out.)
Registered(s, w, session, now) ==
    [s EXCEPT !.orch = w, !.epoch = tmux.epoch, !.stamped = (now # NoEpoch), !.session = session]

\* Mutant: the number goes, its stamp stays.
UnregisteredHalf(s) == [s EXCEPT !.orch = NoWid, !.session = "none"]

Unregistered(s) ==
    [s EXCEPT !.orch = NoWid, !.epoch = NoEpoch, !.stamped = FALSE, !.session = "none"]

\* A write under the store's lock, by somebody who is not the daemon's tick.
Write(s) ==
    /\ Unlocked
    /\ store' = s

-----------------------------------------------------------------------------
(* The daemon's pass: inbox.tick                                            *)

\* Everything slow is read first, without the lock: statuses, runs, the epoch,
\* the live head; and, if the address has rotted, where its session is now.
Snapshot ==
    /\ At("idle")
    /\ \E now \in {NoEpoch, tmux.epoch} :
         LET heal == {w \in Wids : tmux.win[w] = store.session /\ w # store.orch}
             rotten == store.session # "none" /\ Undeliverable(store, Statuses, now)
         IN  /\ EpochRead(now)
             /\ tick' = [tick EXCEPT !.pc = "locked", !.statuses = Statuses, !.epoch = tmux.epoch,
                           !.now = now, !.run = run, !.head = head,
                           !.heal = IF rotten /\ heal # {} THEN Min(heal) ELSE NoWid]
    /\ UNCHANGED <<world, store, stamp, lease>>

\* _apply_heal, on what is registered by now.
Healed(s) ==
    IF /\ tick.heal # NoWid /\ tick.statuses[tick.heal] # "none"
       /\ s.session = tmux.win[tick.heal]
       /\ Undeliverable(s, tick.statuses, tick.now)
    THEN [s EXCEPT !.orch = tick.heal, !.epoch = tick.epoch, !.stamped = (tick.now # NoEpoch)]
    ELSE s

\* run_events: edges against a durable mark.
Edges(s) ==
    LET news == IF tick.run.state = s.mark THEN <<>>
                ELSE CASE tick.run.state = "clean" -> <<[kind |-> "clean", sha |-> tick.run.sha]>>
                       [] tick.run.state = "sent"  -> <<About("sent")>>
                       [] OTHER -> <<>>
    IN  [s EXCEPT !.queue = @ \o news, !.mark = tick.run.state]

\* stale_reason
Stale(e) ==
    \/ e.kind = "clean" /\ (tick.run.state \notin {"review", "clean"} \/ tick.head # e.sha)
    \/ e.kind = "sent" /\ tick.run.state # "sent"

\* The queue without the stale events in front of its first true one.
Fresh(q) ==
    LET true == {i \in DOMAIN q : ~Stale(q[i])}
    IN  IF true = {} THEN <<>> ELSE SubSeq(q, Min(true), Len(q))

Ready == Edges(Healed(store))

Deliverable ==
    /\ Ready.queue # <<>> /\ Ready.orch # NoWid
    /\ ~Undeliverable(Ready, tick.statuses, tick.now)
    /\ tick.statuses[Ready.orch] \in {"idle", "busy"}

\* What leaves the queue, told or dropped, is out (ghost).
Locked(s, out) ==
    /\ tick' = [tick EXCEPT !.pc = "save", !.draft = s, !.out = out]
    /\ UNCHANGED <<tmux, run, head, store, stamp, lease>>

\* An address that cannot take anything: all is held.
Hold ==
    /\ At("locked") /\ ~Deliverable
    /\ Locked(Ready, {})
    /\ UNCHANGED <<act, faults>>

\* deliver: what is no longer true is dropped, then one event is sent to
\* whatever runs under that number now.
Dropped == Range(Ready.queue) \ Range(Fresh(Ready.queue))

DropAll ==
    /\ At("locked") /\ Deliverable /\ Fresh(Ready.queue) = <<>>
    /\ Locked([Ready EXCEPT !.queue = <<>>], Dropped)
    /\ UNCHANGED <<act, faults>>

Deliver ==
    /\ At("locked") /\ Deliverable /\ Fresh(Ready.queue) # <<>>
    /\ tmux.win[Ready.orch] \in Claude
    /\ Locked([Ready EXCEPT !.queue = Tail(Fresh(@))], Dropped \cup {Head(Fresh(Ready.queue))})
    /\ act' = [act EXCEPT ![Ready.orch] = IF tmux.win[Ready.orch] = "auto" THEN "busy" ELSE @]
    /\ UNCHANGED faults

SendFails ==
    /\ At("locked") /\ Deliverable /\ Fresh(Ready.queue) # <<>>
    /\ IF tmux.win[Ready.orch] \in Claude THEN Fault ELSE UNCHANGED faults
    /\ Locked([Ready EXCEPT !.queue = Fresh(@)], Dropped)
    /\ UNCHANGED act

\* The store is replaced whole; then the lock is free.
Save ==
    /\ At("save")
    /\ store' = tick.draft
    /\ tick' = [tick EXCEPT !.pc = "wake", !.draft = Empty, !.out = {}, !.now = NoEpoch,
                          !.run = NoRun, !.head = 0, !.heal = NoWid]
    /\ UNCHANGED <<world, stamp, lease, faults>>

-----------------------------------------------------------------------------
(* Launch and teardown of the persona: autolaunch.py                        *)

\* Mutant: whoever is registered lives.
LiveByName(now) == store.orch # NoWid

\* The epoch is read again.
Live(now) == store.orch # NoWid /\ ~Undeliverable(store, tick.statuses, now)

\* should_launch
ShouldLaunch(now) == lease /\ store.queue # <<>> /\ ~Live(now) /\ ~stamp.cool

Wake(fires, pc) ==
    /\ At("wake")
    /\ \E now \in {NoEpoch, tmux.epoch} : EpochRead(now) /\ ShouldLaunch(now) = fires
    /\ GoTo(pc)
    /\ UNCHANGED <<world, store, stamp, lease>>

WakeFires == Wake(TRUE, "spawn")
WakeWithheld == Wake(FALSE, "reap")

\* A number nobody remembers of this server stands for a new one.
Forgotten(w) ==
    /\ store.orch = w => store.epoch # tmux.epoch
    /\ w \notin {tick.wid, tick.draft.orch}

New(w) ==
    /\ tmux.win[w] = "none" /\ Forgotten(w)
    /\ stamp.wid = w => stamp.epoch # tmux.epoch
    /\ tick.statuses[w] # "none" => tick.epoch # tmux.epoch

\* _spawn_orchestrator_window kills what has the persona's name; record_launch.
Spawn ==
    /\ At("spawn")
    /\ \E w \in Wids :
         /\ tmux.win[w] \in {"none"} \cup Personas /\ Forgotten(w)
         /\ tmux' = [tmux EXCEPT !.win = [v \in Wids |-> IF v = w THEN "boot"
                                                        ELSE IF @[v] \in Personas THEN "none"
                                                        ELSE @[v]]]
         /\ act' = [act EXCEPT ![w] = "idle"]
         /\ stamp' = [wid |-> w, epoch |-> tmux.epoch, cool |-> TRUE]
         /\ tick' = [tick EXCEPT !.pc = "register", !.wid = w, !.statuses[w] = "none"]
    /\ UNCHANGED <<run, head, store, lease, faults>>

\* register(source="autolaunch"), if the window is there.
RegisterAuto ==
    /\ At("register")
    /\ IF tmux.win[tick.wid] = "none" THEN UNCHANGED <<store, faults>>
       ELSE \E now \in {NoEpoch, tmux.epoch} :
              EpochRead(now) /\ Write(Registered(store, tick.wid, "none", now))
    /\ tick' = [tick EXCEPT !.pc = "reap", !.wid = NoWid]
    /\ UNCHANGED <<world, stamp, lease>>

\* should_teardown, on the statuses of the tick's beginning.
\* Mutants: an idle orchestrator is torn down whoever launched it; only when
\* nobody attends either.
ShouldTeardownAny ==
    /\ store.orch # NoWid
    /\ tick.statuses[store.orch] = "idle"
    /\ store.queue = <<>> \/ ~lease

ShouldTeardownAlone ==
    /\ store.orch # NoWid /\ stamp.wid = store.orch
    /\ tick.statuses[store.orch] = "idle"
    /\ store.queue = <<>> /\ ~lease

ShouldTeardown ==
    /\ store.orch # NoWid /\ stamp.wid = store.orch
    /\ tick.statuses[store.orch] = "idle"
    /\ store.queue = <<>> \/ ~lease

ReapFires ==
    /\ At("reap") /\ ShouldTeardown
    /\ tick' = [tick EXCEPT !.pc = "unregister", !.wid = store.orch]
    /\ UNCHANGED <<world, store, stamp, lease, faults>>

ReapWithheld ==
    /\ At("reap") /\ ~ShouldTeardown
    /\ tick' = IdleTick
    /\ UNCHANGED <<world, store, stamp, lease, faults>>

Unregister ==
    /\ At("unregister")
    /\ Write(IF store.orch = tick.wid THEN Unregistered(store) ELSE store)
    /\ GoTo("kill")
    /\ UNCHANGED <<world, stamp, lease, faults>>

\* Whatever has that number now.
Kill ==
    /\ At("kill")
    /\ tmux' = [tmux EXCEPT !.win[tick.wid] = "none"]
    /\ stamp' = NoStamp
    /\ tick' = IdleTick
    /\ UNCHANGED <<act, run, head, store, lease, faults>>

\* The daemon dies or is restarted; what it had read is forgotten.
Crash ==
    /\ ~At("idle") /\ Fault
    /\ tick' = IdleTick
    /\ UNCHANGED <<world, store, stamp, lease>>

-----------------------------------------------------------------------------
(* Everybody else                                                           *)

daemon == <<stamp, lease, tick>>

\* What registers the human's session in a window.
HumanIn(w) ==
    /\ tmux.win[w] = "human"
    /\ \E now \in {NoEpoch, tmux.epoch} :
         EpochRead(now) /\ Write(Registered(store, w, "human", now))
    /\ UNCHANGED <<world, daemon>>

\* chela watch, from the human's window: the normal claim, or a take-over.
Register(w) == HumanIn(w)

\* chela restore: readdress and unregister_dangling, both only if the address
\* is still the one that was classified.
Readdress(w) ==
    /\ store.orch # NoWid /\ Dangling(store, tmux.epoch)
    /\ store.session = "human"
    /\ HumanIn(w)

Forget ==
    /\ store.orch # NoWid /\ Dangling(store, tmux.epoch)
    /\ Write(Unregistered(store))
    /\ UNCHANGED <<world, daemon, faults>>

\* enqueue: an escalation, a request for an override. One at a time is enough.
\* Mutant: without the lock.
EnqueueUnlocked ==
    /\ "asked" \in News /\ Asked \notin Range(store.queue)
    /\ store' = [store EXCEPT !.queue = Append(@, Asked)]
    /\ UNCHANGED <<world, daemon, faults>>

Enqueue ==
    /\ "asked" \in News /\ Asked \notin Range(store.queue)
    /\ Write([store EXCEPT !.queue = Append(@, Asked)])
    /\ UNCHANGED <<world, daemon, faults>>

Attend ==
    /\ lease' \in Attended \ {lease}
    /\ UNCHANGED <<world, store, stamp, tick, faults>>

\* The cooldown is longer than a claude takes to come up and a tick to see it.
CooldownPasses ==
    /\ stamp.cool
    /\ \A w \in Wids : tmux.win[w] \in Personas => tick.statuses[w] # "none"
    /\ stamp' = [stamp EXCEPT !.cool = FALSE]
    /\ UNCHANGED <<world, store, lease, tick, faults>>

inbox == <<store, stamp, lease, tick>>

\* Windows. The human's session runs in one window at a time and can be
\* resumed in another.
Open(w, who) ==
    /\ New(w) /\ who \in People
    /\ who = "human" => \A v \in Wids : tmux.win[v] # "human"
    /\ tmux' = [tmux EXCEPT !.win[w] = who]
    /\ act' = [act EXCEPT ![w] = "idle"]
    /\ UNCHANGED <<run, head, inbox, faults>>

Boots(w) ==
    /\ tmux.win[w] = "boot"
    /\ tmux' = [tmux EXCEPT !.win[w] = "auto"]
    /\ UNCHANGED <<act, run, head, inbox, faults>>

Exits(w) ==
    /\ tmux.win[w] # "none" /\ Fault
    /\ tmux' = [tmux EXCEPT !.win[w] = "none"]
    /\ UNCHANGED <<act, run, head, inbox>>

\* A turn begins, on somebody's word, or ends.
Turn(w) ==
    /\ tmux.win[w] = "auto"
    /\ act' = [act EXCEPT ![w] = IF @ = "idle" THEN "busy" ELSE "idle"]
    /\ UNCHANGED <<tmux, run, head, inbox, faults>>

ServerRestarts ==
    /\ tmux.epoch < MaxEpoch
    /\ tmux' = [epoch |-> tmux.epoch + 1, win |-> [w \in Wids |-> "none"]]
    /\ act' = [w \in Wids |-> "idle"]
    /\ UNCHANGED <<run, head, inbox, faults>>

\* The run.
Moves(from, to) ==
    /\ "run" \in News /\ run.state = from
    /\ run' = to
    /\ UNCHANGED <<tmux, act, head, inbox, faults>>

HandIn == Moves("running", [state |-> "review", sha |-> run.sha])
JudgedClean == run.sha # head /\ Moves("review", [state |-> "clean", sha |-> head])
SentBack == \E from \in {"review", "clean"} : Moves(from, [state |-> "sent", sha |-> run.sha])
Rejudged == run.sha # head /\ Moves("clean", [state |-> "review", sha |-> run.sha])

\* A verdict outlives a head move that only merges the base.
Carried == run.sha # head /\ Moves("clean", [state |-> "clean", sha |-> head])

Rework ==
    /\ head < MaxHead
    /\ run.state = "sent"
    /\ run' = [run EXCEPT !.state = "running"] /\ head' = head + 1
    /\ UNCHANGED <<tmux, act, inbox, faults>>

Push ==
    /\ "run" \in News /\ head < MaxHead /\ run.state \in {"review", "clean"}
    /\ head' = head + 1
    /\ UNCHANGED <<tmux, act, run, inbox, faults>>

-----------------------------------------------------------------------------
Tick ==
    \/ Snapshot \/ Hold \/ DropAll \/ Deliver \/ SendFails \/ Save
    \/ WakeFires \/ WakeWithheld \/ Spawn \/ RegisterAuto
    \/ ReapFires \/ ReapWithheld \/ Unregister \/ Kill

Commands ==
    \/ \E w \in Wids : Register(w) \/ Readdress(w)
    \/ Forget \/ Enqueue \/ Attend

Windows ==
    \/ \E w \in Wids : Open(w, "human") \/ Open(w, "agent") \/ Boots(w) \/ Exits(w) \/ Turn(w)
    \/ ServerRestarts

Run == HandIn \/ JudgedClean \/ SentBack \/ Rejudged \/ Carried \/ Rework \/ Push

Next == Tick \/ Crash \/ Commands \/ CooldownPasses \/ Windows \/ Run

Spec == Init /\ [][Next]_vars

\* The daemon ticks, time passes, and a claude that was started comes up.
Fairness ==
    /\ WF_vars(Tick) /\ SF_vars(CooldownPasses)
    /\ \A w \in Wids : WF_vars(Boots(w))

FairSpec == Spec /\ Fairness

-----------------------------------------------------------------------------
(* Properties                                                               *)

\* The state has its type, and what carries a stamp is an address.
TypeOK ==
    /\ tmux \in [epoch : Epochs, win : [Wids -> Occupants]]
    /\ act \in [Wids -> {"idle", "busy"}]
    /\ run \in [state : RunStates, sha : 0..MaxHead] /\ head \in 1..MaxHead
    /\ store.orch \in Wids \cup {NoWid} /\ store.epoch \in Epochs \cup {NoEpoch}
    /\ store.stamped \in BOOLEAN /\ (store.stamped => store.orch # NoWid)
    /\ store.session \in {"none", "human"} /\ store.mark \in RunStates
    /\ Range(store.queue) \subseteq Event
    /\ stamp \in [wid : Wids \cup {NoWid}, epoch : Epochs \cup {NoEpoch}, cool : BOOLEAN]
    /\ lease \in BOOLEAN /\ faults \in 0..MaxFaults

\* locked_store ("THE fix for lost updates"), run_events' durable mark: news
\* leaves the queue only by being told or being no longer true, whoever
\* registers, enqueues or dies meanwhile; and a mark moves with its news.
Taken == IF At("save") THEN tick.out ELSE {}

NewsKept ==
    [][/\ Range(store.queue) \subseteq Range(store'.queue) \cup Taken
       /\ store'.mark = "clean" /\ store.mark # "clean" =>
            \E e \in Range(store'.queue) \cup Taken : e.kind = "clean"]_vars

\* address_state, _apply_heal: news is never handed to a session that did not
\* register, though windows are renumbered and addresses rot. Excepted are a tmux
\* server that goes while the tick is at it, and an address of an earlier server
\* that the tick cannot tell from one of this: without a stamp, or where the epoch
\* could not be read, it is written to all the same.
Unverified == Ready.epoch # tmux.epoch /\ (~Ready.stamped \/ tick.now = NoEpoch)

NoStranger ==
    [][Deliver => \/ tmux.win[Ready.orch] \in {"human", "auto"}
                  \/ tick.epoch # tmux.epoch \/ Unverified]_vars

\* A request does not wait for ever while somebody attends, whether or not anybody had
\* registered, or registered and died: the persona is launched to take it. (Not
\* if no session at all is running: an empty status map is no evidence.)
Asking == Asked \in Range(store.queue)
Quiet == \A w \in Wids : tmux.win[w] \notin Claude

RequestTold == []<>(~Asking \/ ~lease \/ Quiet)

\* The persona is ephemeral: registered and with nothing to do, it is torn
\* down, unless somebody takes the inbox over (whom it then outlives).
Persona(w) == tmux.win[w] = "auto" /\ store.orch = w /\ store.epoch = tmux.epoch /\ stamp.wid = w
PersonaEnds ==
    \A w \in Wids : []<>(~Persona(w) \/ act[w] = "busy" \/ Asking)

\* we_launched: a session the daemon did not launch is never torn down, by the
\* stamp's word, which is a number of the server that issued it: as long as that
\* server runs.
HandRunSurvives ==
    [][Kill => tmux.win[tick.wid] \in {"none"} \cup Personas \/ stamp.epoch # tmux.epoch]_vars

\* should_teardown: "never kill a window while it is working". (Not so: an event
\* delivered to the persona sets it to work after its status was read.)
NeverKilledAtWork == [][Kill /\ tmux.win[tick.wid] = "auto" => act[tick.wid] = "idle"]_vars

=============================================================================
