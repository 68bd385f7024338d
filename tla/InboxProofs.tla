----------------------------- MODULE InboxProofs -----------------------------
(***************************************************************************)
(* Theorems about Inbox, for any windows, tmux servers, heads and faults.  *)
(***************************************************************************)
EXTENDS Inbox, SequenceTheorems, WellFoundedInduction, TLAPS

Stores == [orch : Wids \cup {NoWid}, epoch : Epochs \cup {NoEpoch}, stamped : BOOLEAN,
           session : {"none", "human"}, queue : Seq(Event), mark : RunStates]
RunType == [state : RunStates, sha : 0..MaxHead]
Pcs == {"idle", "locked", "save", "wake", "spawn", "register", "reap", "unregister", "kill"}
Ticks == [pc : Pcs, statuses : [Wids -> {"none", "idle", "busy"}], epoch : Epochs \cup {NoEpoch},
          now : Epochs \cup {NoEpoch}, run : RunType, head : 0..MaxHead, heal : Wids \cup {NoWid}, draft : Stores,
          out : SUBSET Event, wid : Wids \cup {NoWid}]

(* A number goes with the server that issued it, and a stamp with a number. *)
AddressOK(s) == (s.orch = NoWid <=> s.epoch = NoEpoch) /\ (s.stamped => s.orch # NoWid)

Typed ==
    /\ tmux \in [epoch : Epochs, win : [Wids -> Occupants]]
    /\ act \in [Wids -> {"idle", "busy"}]
    /\ run \in RunType /\ head \in 1..MaxHead
    /\ store \in Stores /\ AddressOK(store)
    /\ tick \in Ticks /\ AddressOK(tick.draft)
    /\ stamp \in [wid : Wids \cup {NoWid}, epoch : Epochs \cup {NoEpoch}, cool : BOOLEAN]
    /\ lease \in BOOLEAN /\ faults \in 0..MaxFaults

-----------------------------------------------------------------------------
(* Sequences of events.                                                    *)

\* A set of naturals that is not empty has a least one.
LEMMA LeastOf == ASSUME NEW S \in SUBSET Nat, S # {} PROVE Min(S) \in S
<1>1. \E x \in S : \A y \in S : ~(<<y, x>> \in OpToRel(<, Nat))
  BY NatLessThanWellFounded, WFMin
<1>2. PICK x \in S : \A y \in S : ~(<<y, x>> \in OpToRel(<, Nat))
  BY <1>1
<1>3. \A y \in S : <<y, x>> \in Nat \X Nat /\ ~(<<y, x>> \in {ss \in Nat \X Nat : ss[1] < ss[2]})
  BY <1>2 DEF OpToRel
<1>4. ASSUME NEW y \in S PROVE x <= y
  <2>1. x \in Nat /\ y \in Nat
    OBVIOUS
  <2>2. ~(<<y, x>>[1] < <<y, x>>[2])
    BY <1>3, <2>1
  <2> QED
    BY <2>1, <2>2
<1> QED
  BY <1>4 DEF Min

\* What is fresh was in the queue.
LEMMA FreshOf ==
    ASSUME NEW q \in Seq(Event)
    PROVE  Fresh(q) \in Seq(Event) /\ Range(Fresh(q)) \subseteq Range(q)
<1> DEFINE true == {i \in DOMAIN q : ~Stale(q[i])}
<1>1. CASE true = {}
  BY <1>1, RangeOfSeq DEF Fresh, Range
<1>2. CASE true # {}
  <2>1. DOMAIN q = 1..Len(q) /\ Len(q) \in Nat /\ \A i \in 1..Len(q) : q[i] \in Event
    BY LenProperties
  <2>2. Min(true) \in 1..Len(q)
    <3>1. true \subseteq 1..Len(q) /\ 1..Len(q) \subseteq Nat
      BY <2>1
    <3> HIDE DEF true
    <3>2. true \in SUBSET Nat
      BY <3>1
    <3>3. Min(true) \in true
      BY <1>2, <3>2, LeastOf
    <3> QED
      BY <3>1, <3>3
  <2> DEFINE m == Min(true)
  <2> HIDE DEF m
  <2>3. m \in 1..Len(q)
    BY <2>2 DEF m
  <2>4. /\ SubSeq(q, m, Len(q)) \in Seq(Event)
        /\ Len(SubSeq(q, m, Len(q))) = IF m <= Len(q) THEN Len(q) - m + 1 ELSE 0
        /\ \A i \in 1..Len(q) - m + 1 : SubSeq(q, m, Len(q))[i] = q[m + i - 1]
    BY <2>1, <2>3, SubSeqProperties
  <2>5. DOMAIN SubSeq(q, m, Len(q)) = 1..Len(SubSeq(q, m, Len(q)))
    BY <2>4, LenProperties
  <2>6. Range(SubSeq(q, m, Len(q))) \subseteq Range(q)
    <3> SUFFICES ASSUME NEW i \in DOMAIN SubSeq(q, m, Len(q))
                 PROVE  SubSeq(q, m, Len(q))[i] \in Range(q)
      BY DEF Range
    <3>1. i \in 1..Len(q) - m + 1 /\ m + i - 1 \in 1..Len(q)
      BY <2>1, <2>3, <2>4, <2>5
    <3> QED
      BY <2>1, <2>4, <3>1 DEF Range
  <2>7. Fresh(q) = SubSeq(q, m, Len(q))
    BY <1>2 DEF Fresh, m
  <2> QED
    BY <2>4, <2>6, <2>7
<1> QED
  BY <1>1, <1>2

\* A queue is its first event and the others.
LEMMA FirstAndOthers ==
    ASSUME NEW q \in Seq(Event), q # <<>>
    PROVE  Head(q) \in Event /\ Tail(q) \in Seq(Event) /\ Range(q) \subseteq Range(Tail(q)) \cup {Head(q)}
<1>1. /\ Head(q) \in Event /\ Tail(q) \in Seq(Event) /\ Len(Tail(q)) = Len(q) - 1
      /\ \A i \in 1..Len(Tail(q)) : Tail(q)[i] = q[i + 1]
  BY HeadTailProperties
<1>2. /\ DOMAIN q = 1..Len(q) /\ Len(q) \in Nat
      /\ DOMAIN Tail(q) = 1..Len(Tail(q))
  BY <1>1, LenProperties
<1>3. Range(q) \subseteq Range(Tail(q)) \cup {Head(q)}
  <2> SUFFICES ASSUME NEW i \in 1..Len(q) PROVE q[i] \in Range(Tail(q)) \cup {Head(q)}
    BY <1>2 DEF Range
  <2>1. CASE i = 1
    BY <1>2, <2>1
  <2>2. CASE i # 1
    <3>1. i - 1 \in 1..Len(Tail(q)) /\ Tail(q)[i - 1] = q[i]
      BY <1>1, <1>2, <2>2
    <3> QED
      BY <1>2, <3>1 DEF Range
  <2> QED
    BY <2>1, <2>2
<1> QED
  BY <1>1, <1>3

-----------------------------------------------------------------------------
(* The daemon's draft.                                                     *)

(* What a step of the tick relies on. *)
PlaceOK ==
    /\ tick.pc # "idle" => tick.epoch \in Epochs
    /\ tick.now \in {NoEpoch, tick.epoch}
    /\ tick.pc \in {"register", "unregister", "kill"} => tick.wid \in Wids
    /\ tick.pc \in {"unregister", "kill"} => tick.wid = stamp.wid

(* News is kept, and a verdict that is marked is told or queued. *)
Keeps(s, new, out) ==
    /\ Range(s.queue) \subseteq Range(new.queue) \cup out
    /\ new.mark = "clean" /\ s.mark # "clean" => \E e \in Range(new.queue) \cup out : e.kind = "clean"

SaveOK == At("save") => Keeps(store, tick.draft, tick.out)

(* No address that is good now is an agent's that did not register. *)
NotAgents(s) == s.orch # NoWid /\ s.epoch = tmux.epoch => tmux.win[s.orch] # "agent"
AddressesOK ==
    /\ store.epoch <= tmux.epoch /\ tick.draft.epoch <= tmux.epoch /\ tick.epoch <= tmux.epoch
    /\ NotAgents(store) /\ NotAgents(tick.draft)
    /\ tick.pc = "register" => tmux.win[tick.wid] # "agent"

(* The stamp's number is the persona's, on the server that issued it. *)
StampOK ==
    /\ stamp.epoch <= tmux.epoch
    /\ stamp.wid # NoWid /\ stamp.epoch = tmux.epoch => tmux.win[stamp.wid] \in {"none"} \cup Personas

Inv == Typed /\ PlaceOK /\ SaveOK /\ AddressesOK /\ StampOK

\* The constants.
LEMMA Values ==
    /\ MaxWid \in Nat /\ MaxEpoch \in Nat /\ MaxHead \in Nat /\ MaxFaults \in Nat
    /\ 1 \in Epochs /\ 1 \in 1..MaxHead /\ NoWid \notin Wids /\ NoEpoch \notin Epochs
    /\ \A e \in Epochs \cup {NoEpoch} : e \in Int
  BY BoundAssumption DEF Wids, NoWid, Epochs, NoEpoch

\* Nothing, and what is asked, are of their types.
LEMMA EmptyOK ==
    /\ Empty \in Stores /\ AddressOK(Empty) /\ NoRun \in RunType /\ Asked \in Event
    /\ Empty.orch = NoWid /\ Empty.epoch = NoEpoch
    /\ NoStatuses \in [Wids -> {"none", "idle", "busy"}]
  BY Values, EmptySeq DEF Empty, Stores, AddressOK, NoRun, RunType, RunStates, Asked, About, Event, NoStatuses

\* As is a tick that is over.
LEMMA IdleOK == IdleTick \in Ticks
  BY Values, EmptyOK DEF IdleTick, Ticks, Pcs

\* Reading the epoch costs a fault at most.
LEMMA EpochReadOK == ASSUME Typed, NEW now, EpochRead(now) PROVE faults' \in 0..MaxFaults
  BY Values DEF EpochRead, Fault, Typed

\* An address that is healed was the registered session's when the tick began.
LEMMA HealedOK ==
    ASSUME Typed, PlaceOK, tick.pc # "idle", NEW s \in Stores, AddressOK(s)
    PROVE  /\ Healed(s) \in Stores /\ AddressOK(Healed(s))
           /\ Healed(s).queue = s.queue /\ Healed(s).mark = s.mark
           /\ \/ Healed(s) = s
              \/ Healed(s).orch \in Wids /\ Healed(s).epoch = tick.epoch /\ tmux.win[Healed(s).orch] \in {"none", "human"}
<1>1. CASE Healed(s) = s
  BY <1>1
<1>2. CASE Healed(s) # s
  <2>1. /\ tick.heal # NoWid /\ s.session = tmux.win[tick.heal]
        /\ Healed(s) = [s EXCEPT !.orch = tick.heal, !.epoch = tick.epoch, !.stamped = (tick.now # NoEpoch)]
    BY <1>2 DEF Healed
  <2>2. tick.heal \in Wids /\ tick.epoch \in Epochs /\ s.session \in {"none", "human"}
    BY <2>1 DEF Typed, PlaceOK, Ticks, Stores
  <2>3. /\ Healed(s) \in Stores /\ Healed(s).queue = s.queue /\ Healed(s).mark = s.mark
        /\ Healed(s).orch = tick.heal /\ Healed(s).epoch = tick.epoch
    BY <2>1, <2>2 DEF Stores
  <2> QED
    BY <2>1, <2>2, <2>3, Values DEF AddressOK
<1> QED
  BY <1>1, <1>2

\* The edges of a run add to the queue, and a mark moves with its news.
LEMMA EdgesOK ==
    ASSUME Typed, NEW s \in Stores, AddressOK(s)
    PROVE  /\ Edges(s) \in Stores /\ AddressOK(Edges(s)) /\ Keeps(s, Edges(s), {})
           /\ Edges(s).orch = s.orch /\ Edges(s).epoch = s.epoch
           /\ Edges(s).stamped = s.stamped
<1> DEFINE news == IF tick.run.state = s.mark THEN <<>>
                   ELSE CASE tick.run.state = "clean" -> <<[kind |-> "clean", sha |-> tick.run.sha]>>
                          [] tick.run.state = "sent"  -> <<About("sent")>>
                          [] OTHER -> <<>>
<1>1. tick.run \in RunType
  BY DEF Typed, Ticks
<1>2. [kind |-> "clean", sha |-> tick.run.sha] \in Event /\ About("sent") \in Event
  BY <1>1, Values DEF Event, RunType, About
<1>3. news \in Seq(Event)
  BY <1>2
<1>4. tick.run.state = "clean" /\ s.mark # "clean" => news = <<[kind |-> "clean", sha |-> tick.run.sha]>>
  OBVIOUS
<1>5. Edges(s) = [s EXCEPT !.queue = s.queue \o news, !.mark = tick.run.state]
  BY DEF Edges
<1> HIDE DEF news
<1>6. s.queue \in Seq(Event)
  BY DEF Stores
<1>7. s.queue \o news \in Seq(Event) /\ Range(s.queue \o news) = Range(s.queue) \cup Range(news)
  BY <1>3, <1>6, ConcatProperties, RangeConcatenation
<1>8. /\ Edges(s) \in Stores /\ Edges(s).orch = s.orch /\ Edges(s).epoch = s.epoch
      /\ Edges(s).stamped = s.stamped /\ Edges(s).queue = s.queue \o news /\ Edges(s).mark = tick.run.state
  BY <1>1, <1>5, <1>7 DEF Stores, RunType
<1>9. Keeps(s, Edges(s), {})
  <2>1. ASSUME tick.run.state = "clean", s.mark # "clean" PROVE \E e \in Range(news) : e.kind = "clean"
    <3> DEFINE e == [kind |-> "clean", sha |-> tick.run.sha]
    <3>1. news = <<e>> /\ e.kind = "clean"
      BY <1>4, <2>1
    <3> HIDE DEF e
    <3>2. e \in Range(news)
      BY <3>1 DEF Range
    <3> QED
      BY <3>1, <3>2
  <2> QED
    BY <1>7, <1>8, <2>1 DEF Keeps
<1> QED
  BY <1>8, <1>9 DEF AddressOK

\* What the tick has under the lock before it delivers.
LEMMA ReadyOK ==
    ASSUME Inv, At("locked")
    PROVE  /\ Ready \in Stores /\ AddressOK(Ready) /\ Keeps(store, Ready, {})
           /\ NotAgents(Ready) /\ Ready.epoch <= tmux.epoch
<1>1. tick.pc = "locked" /\ store \in Stores /\ AddressOK(store)
  BY DEF Inv, Typed, At
<1>2. /\ Healed(store) \in Stores /\ AddressOK(Healed(store))
      /\ Healed(store).queue = store.queue /\ Healed(store).mark = store.mark
      /\ \/ Healed(store) = store
         \/ Healed(store).orch \in Wids /\ Healed(store).epoch = tick.epoch /\ tmux.win[Healed(store).orch] \in {"none", "human"}
  BY <1>1, HealedOK DEF Inv
<1>3. /\ Ready \in Stores /\ AddressOK(Ready) /\ Keeps(Healed(store), Ready, {})
      /\ Ready.orch = Healed(store).orch /\ Ready.epoch = Healed(store).epoch
  BY <1>2, EdgesOK DEF Inv, Ready
<1>4. Keeps(store, Ready, {})
  BY <1>2, <1>3 DEF Keeps
<1>5. NotAgents(Ready) /\ Ready.epoch <= tmux.epoch
  <2>1. CASE Healed(store) = store
    BY <1>3, <2>1 DEF Inv, AddressesOK, NotAgents
  <2>2. CASE Healed(store) # store
    BY <1>2, <1>3, <2>2 DEF Inv, AddressesOK, NotAgents
  <2> QED
    BY <2>1, <2>2
<1> QED
  BY <1>3, <1>4, <1>5

-----------------------------------------------------------------------------
(* The tick.                                                               *)

\* The daemon's pass ends in a draft that keeps the news.
LEMMA LockedStep ==
    ASSUME Inv, At("locked"), NEW q \in Seq(Event), NEW out \in SUBSET Event,
           Range(Ready.queue) \subseteq Range(q) \cup out,
           Locked([Ready EXCEPT !.queue = q], out),
           act' \in [Wids -> {"idle", "busy"}], faults' \in 0..MaxFaults
    PROVE  Inv'
<1> DEFINE new == [Ready EXCEPT !.queue = q]
<1>1. /\ Ready \in Stores /\ AddressOK(Ready) /\ Keeps(store, Ready, {})
      /\ NotAgents(Ready) /\ Ready.epoch <= tmux.epoch
  BY ReadyOK
<1>2. /\ new \in Stores /\ new.orch = Ready.orch /\ new.epoch = Ready.epoch
      /\ new.stamped = Ready.stamped /\ new.queue = q
      /\ new.mark = Ready.mark
  BY <1>1 DEF Stores
<1>3. /\ tick' = [tick EXCEPT !.pc = "save", !.draft = new, !.out = out]
      /\ UNCHANGED <<tmux, run, head, store, stamp, lease>>
  BY DEF Locked
<1> HIDE DEF new
<1>4. /\ tick \in Ticks /\ tick' \in Ticks /\ tick'.pc = "save" /\ tick'.draft = new /\ tick'.out = out
      /\ tick'.epoch = tick.epoch /\ tick'.now = tick.now /\ tick'.wid = tick.wid /\ tick.pc = "locked"
  BY <1>2, <1>3 DEF Inv, Typed, Ticks, Pcs, At
<1>5. Keeps(store, new, out)
  BY <1>1, <1>2 DEF Keeps
<1>6. Typed'
  BY <1>1, <1>2, <1>3, <1>4 DEF Inv, Typed, AddressOK
<1>7. PlaceOK' /\ SaveOK'
  BY <1>3, <1>4, <1>5 DEF Inv, PlaceOK, SaveOK, Keeps
<1>8. AddressesOK'
  BY <1>1, <1>2, <1>3, <1>4 DEF Inv, AddressesOK, NotAgents
<1> QED
  BY <1>3, <1>6, <1>7, <1>8 DEF Inv, StampOK

\* What is held, dropped, told or not taken.
LEMMA PassStep ==
    ASSUME Inv, Hold \/ DropAll \/ Deliver \/ SendFails
    PROVE  Inv'
<1>1. /\ Ready \in Stores /\ At("locked") /\ act \in [Wids -> {"idle", "busy"}] /\ faults \in 0..MaxFaults
      /\ Ready.queue \in Seq(Event)
  BY ReadyOK DEF Hold, DropAll, Deliver, SendFails, Inv, Typed, Stores
<1>2. /\ Range(Ready.queue) \subseteq Event
      /\ Fresh(Ready.queue) \in Seq(Event) /\ Range(Fresh(Ready.queue)) \subseteq Range(Ready.queue)
  BY <1>1, RangeOfSeq, FreshOf
<1>3. /\ Dropped \in SUBSET Event /\ Range(Ready.queue) = Dropped \cup Range(Fresh(Ready.queue))
  BY <1>2 DEF Dropped
<1>4. CASE Hold
  <2>1. Ready = [Ready EXCEPT !.queue = Ready.queue]
    BY <1>1 DEF Stores
  <2>2. Locked([Ready EXCEPT !.queue = Ready.queue], {}) /\ act' = act /\ faults' = faults
    BY <1>4, <2>1 DEF Hold
  <2>3. Range(Ready.queue) \subseteq Range(Ready.queue) \cup {} /\ {} \in SUBSET Event
    OBVIOUS
  <2> QED
    BY <1>1, <2>2, <2>3, LockedStep
<1>5. CASE DropAll
  <2>1. Range(Ready.queue) \subseteq Range(<<>>) \cup Dropped /\ <<>> \in Seq(Event)
    BY <1>3, <1>5 DEF DropAll, Range
  <2> QED
    BY <1>1, <1>3, <1>5, <2>1, LockedStep DEF DropAll
<1>6. CASE Deliver
  <2> DEFINE q == Fresh(Ready.queue)
  <2>1. q # <<>>
    BY <1>6 DEF Deliver
  <2>2. Head(q) \in Event /\ Tail(q) \in Seq(Event) /\ Range(q) \subseteq Range(Tail(q)) \cup {Head(q)}
    BY <1>2, <2>1, FirstAndOthers
  <2>3. Locked([Ready EXCEPT !.queue = Tail(Fresh(@))], Dropped \cup {Head(q)})
    BY <1>6 DEF Deliver
  <2>4. [Ready EXCEPT !.queue = Tail(Fresh(@))] = [Ready EXCEPT !.queue = Tail(q)]
    BY <1>1 DEF Stores
  <2>5. act' \in [Wids -> {"idle", "busy"}] /\ faults' = faults
    BY <1>1, <1>6 DEF Deliver
  <2>6. Dropped \cup {Head(q)} \in SUBSET Event
    BY <1>3, <2>2
  <2>7. Range(Ready.queue) \subseteq Range(Tail(q)) \cup (Dropped \cup {Head(q)})
    BY <1>3, <2>2
  <2> HIDE DEF q
  <2> QED
    BY <1>1, <2>2, <2>3, <2>4, <2>5, <2>6, <2>7, LockedStep
<1>7. CASE SendFails
  <2>1. act' = act /\ faults' \in {faults, faults + 1} /\ (faults' = faults \/ faults < MaxFaults)
    BY <1>7 DEF SendFails, Fault
  <2>2. faults' \in 0..MaxFaults
    BY <1>1, <2>1, Values
  <2>3. Locked([Ready EXCEPT !.queue = Fresh(Ready.queue)], Dropped)
    <3>1. Locked([Ready EXCEPT !.queue = Fresh(@)], Dropped)
      BY <1>7 DEF SendFails
    <3>2. [Ready EXCEPT !.queue = Fresh(@)] = [Ready EXCEPT !.queue = Fresh(Ready.queue)]
      BY <1>1 DEF Stores
    <3> QED
      BY <3>1, <3>2
  <2> QED
    BY <1>1, <1>2, <1>3, <2>1, <2>2, <2>3, LockedStep
<1> QED
  BY <1>4, <1>5, <1>6, <1>7

\* What is read before the lock.
LEMMA SnapshotStep == ASSUME Inv, Snapshot PROVE Inv'
<1>0. PICK now \in {NoEpoch, tmux.epoch} :
        LET heal == {w \in Wids : tmux.win[w] = store.session /\ w # store.orch}
            rotten == store.session # "none" /\ Undeliverable(store, Statuses, now)
        IN  /\ EpochRead(now)
            /\ tick' = [tick EXCEPT !.pc = "locked", !.statuses = Statuses, !.epoch = tmux.epoch,
                          !.now = now, !.run = run, !.head = head,
                          !.heal = IF rotten /\ heal # {} THEN Min(heal) ELSE NoWid]
  BY DEF Snapshot
<1> DEFINE heal == {w \in Wids : tmux.win[w] = store.session /\ w # store.orch}
           rotten == store.session # "none" /\ Undeliverable(store, Statuses, now)
           to == IF rotten /\ heal # {} THEN Min(heal) ELSE NoWid
<1>1. to \in Wids \cup {NoWid}
  <2>1. heal \in SUBSET Nat
    BY Values DEF Wids
  <2>2. heal # {} => Min(heal) \in heal
    BY <2>1, LeastOf
  <2> QED
    BY <2>2
<1>2. Statuses \in [Wids -> {"none", "idle", "busy"}]
  BY DEF Inv, Typed, Statuses
<1>3. tick' = [tick EXCEPT !.pc = "locked", !.statuses = Statuses, !.epoch = tmux.epoch,
                      !.now = now, !.run = run, !.head = head, !.heal = to]
      /\ UNCHANGED <<tmux, act, run, head, store, stamp, lease>> /\ faults' \in 0..MaxFaults
  BY <1>0, EpochReadOK DEF Snapshot, world, Inv
<1> HIDE DEF to
<1>4. /\ tick \in Ticks /\ run \in RunType /\ tmux.epoch \in Epochs /\ head \in 0..MaxHead
  BY Values DEF Inv, Typed
<1>5. /\ tick' \in Ticks /\ tick'.pc = "locked" /\ tick'.draft = tick.draft /\ tick'.epoch = tmux.epoch
      /\ tick'.now \in {NoEpoch, tmux.epoch}
  BY <1>1, <1>2, <1>3, <1>4 DEF Ticks, Pcs
<1>6. Typed' /\ PlaceOK' /\ SaveOK'
  BY <1>3, <1>4, <1>5 DEF Inv, Typed, AddressOK, PlaceOK, SaveOK, At
<1>7. AddressesOK' /\ StampOK'
  BY <1>3, <1>4, <1>5, Values DEF Inv, AddressesOK, NotAgents, StampOK
<1> QED
  BY <1>6, <1>7 DEF Inv

\* The draft becomes the store.
LEMMA SaveStep == ASSUME Inv, Save PROVE Inv'
<1>1. /\ store' = tick.draft /\ tick.pc = "save" /\ tick \in Ticks /\ tick.draft \in Stores
      /\ tick' = [tick EXCEPT !.pc = "wake", !.draft = Empty, !.out = {}, !.now = NoEpoch, !.run = NoRun, !.head = 0, !.heal = NoWid]
      /\ UNCHANGED <<tmux, act, run, head, stamp, lease, faults>>
  BY DEF Save, At, world, Inv, Typed, Ticks
<1>2. /\ tick' \in Ticks /\ tick'.pc = "wake" /\ tick'.draft = Empty /\ tick'.epoch = tick.epoch /\ tick'.now = NoEpoch
  <2> DEFINE none == Empty
             over == NoRun
  <2>1. none \in Stores /\ over \in RunType /\ {} \in SUBSET Event /\ 0 \in 0..MaxHead
    BY EmptyOK, Values
  <2>2. tick' = [tick EXCEPT !.pc = "wake", !.draft = none, !.out = {}, !.now = NoEpoch, !.run = over, !.head = 0, !.heal = NoWid]
    BY <1>1
  <2> HIDE DEF none, over
  <2>3. /\ tick' \in Ticks /\ tick'.pc = "wake" /\ tick'.draft = none /\ tick'.epoch = tick.epoch /\ tick'.now = NoEpoch
    BY <1>1, <2>1, <2>2 DEF Ticks, Pcs
  <2> QED
    BY <2>3 DEF none
<1>3. Typed' /\ PlaceOK' /\ SaveOK'
  BY <1>1, <1>2, EmptyOK DEF Inv, Typed, AddressOK, PlaceOK, SaveOK, At
<1>4. 0 <= tmux.epoch
  BY DEF Inv, Typed, Epochs
<1>5. AddressesOK' /\ StampOK'
  BY <1>1, <1>2, <1>4, EmptyOK DEF Inv, AddressesOK, NotAgents, StampOK, NoEpoch
<1> QED
  BY <1>3, <1>5 DEF Inv

\* Deciding to launch or to tear down, or not.
LEMMA DecideStep ==
    ASSUME Inv, WakeFires \/ WakeWithheld \/ ReapFires \/ ReapWithheld
    PROVE  Inv'
<1>1. /\ tick \in Ticks /\ UNCHANGED <<tmux, act, run, head, store, stamp, lease>>
      /\ faults' \in 0..MaxFaults
  <2>1. /\ tick \in Ticks /\ UNCHANGED <<tmux, act, run, head, store, stamp, lease>>
        /\ faults' = faults \/ \E now : EpochRead(now)
    BY DEF Inv, Typed, WakeFires, WakeWithheld, Wake, ReapFires, ReapWithheld, world
  <2> QED
    BY <2>1, EpochReadOK DEF Inv, Typed
<1>2. CASE WakeFires \/ WakeWithheld
  <2>1. /\ tick' \in Ticks /\ tick'.pc \in {"spawn", "reap"} /\ tick.pc = "wake" /\ tick'.draft = tick.draft
        /\ tick'.epoch = tick.epoch /\ tick'.now = tick.now
    BY <1>1, <1>2 DEF WakeFires, WakeWithheld, Wake, GoTo, At, Ticks, Pcs
  <2> QED
    BY <1>1, <2>1 DEF Inv, Typed, AddressOK, PlaceOK, SaveOK, At, AddressesOK, NotAgents, StampOK
<1>3. CASE ReapFires
  <2>1. /\ store.orch \in Wids /\ stamp.wid = store.orch
    BY <1>3 DEF ReapFires, ShouldTeardown, Inv, Typed, Stores
  <2>2. /\ tick' \in Ticks /\ tick'.pc = "unregister" /\ tick.pc = "reap" /\ tick'.draft = tick.draft
        /\ tick'.epoch = tick.epoch /\ tick'.now = tick.now /\ tick'.wid = store.orch
    BY <1>1, <1>3, <2>1 DEF ReapFires, At, Ticks, Pcs
  <2> QED
    BY <1>1, <2>1, <2>2 DEF Inv, Typed, AddressOK, PlaceOK, SaveOK, At, AddressesOK, NotAgents, StampOK
<1>4. CASE ReapWithheld
  <2>1. /\ tick' = IdleTick /\ IdleTick.pc = "idle" /\ IdleTick.draft = Empty /\ IdleTick.epoch = NoEpoch /\ IdleTick.now = NoEpoch
    BY <1>4 DEF ReapWithheld, IdleTick
  <2>2. NoEpoch <= tmux.epoch
    BY DEF Inv, Typed, Epochs, NoEpoch
  <2> QED
    BY <1>1, <2>1, <2>2, IdleOK, EmptyOK
       DEF Inv, Typed, AddressOK, PlaceOK, SaveOK, At, AddressesOK, NotAgents, StampOK
<1> QED
  BY <1>2, <1>3, <1>4

\* A store that is replaced, under the lock, by one with a good address.
LEMMA WriteStep ==
    ASSUME Inv, store' \in Stores, AddressOK(store'), store'.epoch <= tmux.epoch, NotAgents(store'),
           UNCHANGED <<world, stamp, lease>>, faults' \in 0..MaxFaults,
           tick' \in Ticks, tick'.pc # "save", tick'.draft = tick.draft, tick'.epoch = tick.epoch /\ tick'.now = tick.now,
           tick.pc # "idle" \/ tick'.pc = "idle",
           tick'.pc \in {"register", "unregister", "kill"} => tick'.pc = tick.pc \/ (tick'.pc = "kill" /\ tick.pc = "unregister"),
           tick'.pc \in {"register", "unregister", "kill"} => tick'.wid = tick.wid
    PROVE  Inv'
<1>1. UNCHANGED <<tmux, act, run, head, stamp, lease>>
  BY DEF world
<1>2. Typed' /\ PlaceOK' /\ SaveOK'
  BY <1>1 DEF Inv, Typed, AddressOK, PlaceOK, SaveOK, At
<1>3. AddressesOK' /\ StampOK'
  BY <1>1 DEF Inv, AddressesOK, NotAgents, StampOK
<1> QED
  BY <1>2, <1>3 DEF Inv

\* What the commands and the persona write is an address, or none.
LEMMA RegisteredOK ==
    ASSUME Inv, NEW w \in Wids, NEW session \in {"none", "human"}, NEW now, tmux.win[w] # "agent"
    PROVE  LET s == Registered(store, w, session, now)
           IN  s \in Stores /\ AddressOK(s) /\ s.epoch <= tmux.epoch /\ NotAgents(s)
<1>1. store \in Stores /\ tmux.epoch \in Epochs /\ tmux.epoch \in Int
  BY Values DEF Inv, Typed
<1>2. /\ Registered(store, w, session, now) \in Stores
      /\ Registered(store, w, session, now).orch = w /\ Registered(store, w, session, now).epoch = tmux.epoch
  BY <1>1 DEF Registered, Stores
<1> QED
  BY <1>1, <1>2, Values DEF AddressOK, NotAgents

LEMMA UnregisteredOK ==
    ASSUME Inv
    PROVE  LET s == Unregistered(store)
           IN  s \in Stores /\ AddressOK(s) /\ s.epoch <= tmux.epoch /\ NotAgents(s)
<1>1. store \in Stores /\ tmux.epoch \in Epochs /\ tmux.epoch \in 1..MaxEpoch
  BY DEF Inv, Typed, Epochs
<1>2. /\ Unregistered(store) \in Stores
      /\ Unregistered(store).orch = NoWid /\ Unregistered(store).epoch = NoEpoch
      /\ ~Unregistered(store).stamped
  BY <1>1 DEF Unregistered, Stores
<1>3. NoEpoch <= tmux.epoch
  BY <1>1, Values DEF NoEpoch
<1> QED
  BY <1>1, <1>2, <1>3 DEF AddressOK, NotAgents

\* The persona is registered, or is gone.
LEMMA RegisterAutoStep == ASSUME Inv, RegisterAuto PROVE Inv'
<1>1. /\ tick.pc = "register" /\ tick.wid \in Wids /\ tmux.win[tick.wid] # "agent" /\ tick \in Ticks
      /\ store \in Stores /\ AddressOK(store) /\ store.epoch <= tmux.epoch /\ NotAgents(store)
  BY DEF RegisterAuto, At, Inv, PlaceOK, AddressesOK, Typed
<1>2. /\ tick' \in Ticks /\ tick'.pc = "reap" /\ tick'.draft = tick.draft /\ tick'.epoch = tick.epoch /\ tick'.now = tick.now
  BY <1>1 DEF RegisterAuto, Ticks, Pcs
<1>3. /\ store' = store \/ \E now : store' = Registered(store, tick.wid, "none", now)
      /\ faults' = faults \/ \E now : EpochRead(now)
  BY DEF RegisterAuto, Write
<1>4. store' \in Stores /\ AddressOK(store') /\ store'.epoch <= tmux.epoch /\ NotAgents(store')
  BY <1>1, <1>3, RegisteredOK
<1>5. UNCHANGED <<world, stamp, lease>> /\ faults' \in 0..MaxFaults
  BY <1>3, EpochReadOK DEF RegisterAuto, Inv, Typed
<1> QED
  BY <1>1, <1>2, <1>4, <1>5, WriteStep

\* The address is given up before the window is killed.
LEMMA UnregisterStep == ASSUME Inv, Unregister PROVE Inv'
<1>1. /\ tick.pc = "unregister" /\ tick \in Ticks
      /\ store \in Stores /\ AddressOK(store) /\ store.epoch <= tmux.epoch /\ NotAgents(store)
  BY DEF Unregister, At, Inv, AddressesOK, Typed
<1>2. /\ tick' \in Ticks /\ tick'.pc = "kill" /\ tick'.draft = tick.draft /\ tick'.epoch = tick.epoch /\ tick'.now = tick.now
      /\ tick'.wid = tick.wid
  BY <1>1 DEF Unregister, GoTo, Ticks, Pcs
<1>3. store' \in {store, Unregistered(store)}
  BY DEF Unregister, Write
<1>4. store' \in Stores /\ AddressOK(store') /\ store'.epoch <= tmux.epoch /\ NotAgents(store')
  BY <1>1, <1>3, UnregisteredOK
<1>5. UNCHANGED <<world, stamp, lease>> /\ faults' \in 0..MaxFaults
  BY DEF Unregister, Inv, Typed
<1> QED
  BY <1>1, <1>2, <1>4, <1>5, WriteStep

\* The commands.
LEMMA CommandsStep == ASSUME Inv, Commands PROVE Inv'
<1> DEFINE Good == store' \in Stores /\ AddressOK(store') /\ store'.epoch <= tmux.epoch /\ NotAgents(store')
<1>1. /\ tick \in Ticks /\ store \in Stores /\ AddressOK(store) /\ store.epoch <= tmux.epoch /\ NotAgents(store)
  BY DEF Inv, AddressesOK, Typed
<1>0. ASSUME Good, Unlocked, UNCHANGED <<world, stamp, lease, tick>>, faults' \in 0..MaxFaults
      PROVE  Inv'
  <2>1. /\ UNCHANGED <<tmux, act, run, head, stamp, lease>> /\ tick' = tick /\ tick.pc # "save"
    BY <1>0 DEF Unlocked, At, world
  <2>2. Typed' /\ PlaceOK' /\ SaveOK'
    BY <1>0, <2>1 DEF Inv, Typed, AddressOK, PlaceOK, SaveOK, At
  <2>3. AddressesOK' /\ StampOK'
    BY <1>0, <2>1 DEF Inv, AddressesOK, NotAgents, StampOK
  <2> QED
    BY <2>2, <2>3 DEF Inv
<1>2. ASSUME NEW w \in Wids, Register(w) \/ Readdress(w)
      PROVE  Good /\ Unlocked /\ UNCHANGED <<world, stamp, lease, tick>> /\ faults' \in 0..MaxFaults
  <2>1. /\ tmux.win[w] = "human" /\ (\E now : EpochRead(now) /\ store' = Registered(store, w, "human", now))
        /\ Unlocked
        /\ UNCHANGED <<world, stamp, lease, tick>> /\ faults' \in 0..MaxFaults
    BY <1>2, EpochReadOK DEF Register, Readdress, HumanIn, Write, daemon, Inv
  <2> QED
    BY <2>1, RegisteredOK
<1>3. CASE Forget
  <2>1. /\ store' = Unregistered(store) /\ Unlocked /\ UNCHANGED <<world, stamp, lease, tick>> /\ faults' \in 0..MaxFaults
    BY <1>3 DEF Forget, Write, daemon, Inv, Typed
  <2>2. Good
    BY <2>1, UnregisteredOK
  <2> QED
    BY <1>0, <2>1, <2>2
<1>4. CASE Enqueue
  <2>1. /\ store' = [store EXCEPT !.queue = Append(@, Asked)] /\ Unlocked
        /\ UNCHANGED <<world, stamp, lease, tick>> /\ faults' \in 0..MaxFaults
    BY <1>4 DEF Enqueue, Write, daemon, Inv, Typed
  <2>2. Append(store.queue, Asked) \in Seq(Event)
    BY <1>1, EmptyOK, AppendProperties DEF Stores
  <2>3. store' \in Stores /\ store'.orch = store.orch /\ store'.epoch = store.epoch
        /\ store'.stamped = store.stamped
    BY <1>1, <2>1, <2>2 DEF Stores
  <2>4. Good
    BY <1>1, <2>3 DEF AddressOK, NotAgents
  <2> QED
    BY <1>0, <2>1, <2>4
<1>5. CASE Attend
  <2>1. lease' \in BOOLEAN /\ UNCHANGED <<tmux, act, run, head, store, stamp, tick, faults>>
    BY <1>5, InstanceAssumption DEF Attend, world
  <2> QED
    BY <1>1, <2>1 DEF Inv, Typed, AddressOK, PlaceOK, SaveOK, At, AddressesOK, NotAgents, StampOK
<1>6. CASE \E w \in Wids : Register(w) \/ Readdress(w)
  <2>1. Good /\ Unlocked /\ UNCHANGED <<world, stamp, lease, tick>> /\ faults' \in 0..MaxFaults
    BY <1>2, <1>6
  <2> QED
    BY <1>0, <2>1
<1> QED
  BY <1>3, <1>4, <1>5, <1>6 DEF Commands

\* The cooldown, and the run, are nobody's address.
LEMMA CooldownStep == ASSUME Inv, CooldownPasses PROVE Inv'
<1>1. /\ stamp' = [stamp EXCEPT !.cool = FALSE]
      /\ stamp \in [wid : Wids \cup {NoWid}, epoch : Epochs \cup {NoEpoch}, cool : BOOLEAN]
      /\ UNCHANGED <<tmux, act, run, head, store, lease, tick, faults>>
  BY DEF CooldownPasses, world, Inv, Typed
<1>2. /\ stamp' \in [wid : Wids \cup {NoWid}, epoch : Epochs \cup {NoEpoch}, cool : BOOLEAN]
      /\ stamp'.wid = stamp.wid /\ stamp'.epoch = stamp.epoch
  BY <1>1
<1> QED
  BY <1>1, <1>2 DEF Inv, Typed, AddressOK, PlaceOK, SaveOK, At, AddressesOK, NotAgents, StampOK

LEMMA RunStep == ASSUME Inv, Run PROVE Inv'
<1>1. run' \in RunType /\ head' \in 1..MaxHead /\ UNCHANGED <<tmux, act, store, stamp, lease, tick, faults>>
  <2>1. run \in RunType /\ head \in 1..MaxHead /\ head \in 0..MaxHead
    BY Values DEF Inv, Typed
  <2>2. ASSUME NEW from, NEW to \in RunType, Moves(from, to)
        PROVE  run' \in RunType /\ head' = head /\ UNCHANGED <<tmux, act, store, stamp, lease, tick, faults>>
    BY <2>2 DEF Moves, inbox
  <2>3. \A state \in RunStates : /\ [state |-> state, sha |-> run.sha] \in RunType
                                 /\ [state |-> state, sha |-> head] \in RunType
    BY <2>1 DEF RunType
  <2>4. {"review", "clean", "sent", "running"} = RunStates
    BY DEF RunStates
  <2>5. CASE HandIn \/ JudgedClean \/ SentBack \/ Rejudged \/ Carried
    BY <2>1, <2>2, <2>3, <2>4, <2>5 DEF HandIn, JudgedClean, SentBack, Rejudged, Carried
  <2>6. CASE Rework \/ Push
    <3>1. /\ run' \in {run, [run EXCEPT !.state = "running"]} /\ head' = head + 1 /\ head < MaxHead
          /\ UNCHANGED <<tmux, act, store, stamp, lease, tick, faults>>
      BY <2>6 DEF Rework, Push, inbox
    <3> QED
      BY <2>1, <2>4, <3>1, Values DEF RunType
  <2> QED
    BY <2>5, <2>6 DEF Run
<1> QED
  BY <1>1 DEF Inv, Typed, AddressOK, PlaceOK, SaveOK, At, AddressesOK, NotAgents, StampOK

-----------------------------------------------------------------------------
(* Windows.                                                                *)

\* What runs in one window changes: no agent takes a number that somebody goes
\* by, nor a session other than the persona the stamp's.
LEMMA WindowStep ==
    ASSUME Inv, NEW w \in Wids, NEW x \in Occupants, tmux' = [tmux EXCEPT !.win[w] = x],
           act' \in [Wids -> {"idle", "busy"}], faults' \in 0..MaxFaults, UNCHANGED <<run, head, inbox>>,
           x = "agent" => /\ w \notin {tick.wid, tick.draft.orch}
                          /\ store.orch = w => store.epoch # tmux.epoch,
           x \in {"none"} \cup Personas \/ (stamp.wid = w => stamp.epoch # tmux.epoch)
    PROVE  Inv'
<1>1. /\ UNCHANGED <<run, head, store, stamp, lease, tick>>
      /\ tmux \in [epoch : Epochs, win : [Wids -> Occupants]]
  BY DEF Inv, Typed, inbox
<1>2. /\ tmux' \in [epoch : Epochs, win : [Wids -> Occupants]] /\ tmux'.epoch = tmux.epoch
      /\ tmux'.win = [tmux.win EXCEPT ![w] = x]
  BY <1>1
<1>3. \A v \in Wids : tmux'.win[v] = IF v = w THEN x ELSE tmux.win[v]
  BY <1>1, <1>2
<1>4. Typed' /\ PlaceOK' /\ SaveOK'
  BY <1>1, <1>2 DEF Inv, Typed, AddressOK, PlaceOK, SaveOK, At
<1>5. AddressesOK'
  <2>1. /\ store.orch \in Wids \cup {NoWid} /\ tick.draft.orch \in Wids \cup {NoWid}
        /\ tick.pc = "register" => tick.wid \in Wids
    BY DEF Inv, Typed, Stores, Ticks, PlaceOK
  <2>2. (NotAgents(store) /\ NotAgents(tick.draft))'
    BY <1>1, <1>2, <1>3, <2>1 DEF Inv, AddressesOK, NotAgents
  <2>3. (tick.pc = "register" => tmux.win[tick.wid] # "agent")'
    BY <1>1, <1>3, <2>1 DEF Inv, AddressesOK
  <2> QED
    BY <1>1, <1>2, <2>2, <2>3 DEF Inv, AddressesOK
<1>6. StampOK'
  <2>1. stamp.wid \in Wids \cup {NoWid}
    BY DEF Inv, Typed
  <2> QED
    BY <1>1, <1>2, <1>3, <2>1 DEF Inv, StampOK
<1> QED
  BY <1>4, <1>5, <1>6 DEF Inv

\* Windows open, come up, go and work; and all go with their server.
LEMMA WindowsStep == ASSUME Inv, Windows PROVE Inv'
<1>1. /\ act \in [Wids -> {"idle", "busy"}] /\ faults \in 0..MaxFaults
      /\ tmux \in [epoch : Epochs, win : [Wids -> Occupants]]
  BY DEF Inv, Typed
<1>2. ASSUME NEW w \in Wids, NEW who \in {"human", "agent"}, Open(w, who) PROVE Inv'
  <2>1. /\ w \notin {tick.wid, tick.draft.orch}
        /\ store.orch = w => store.epoch # tmux.epoch
        /\ stamp.wid = w => stamp.epoch # tmux.epoch
        /\ tmux' = [tmux EXCEPT !.win[w] = who]
        /\ UNCHANGED <<run, head, inbox>> /\ faults' = faults
    BY <1>2 DEF Open, New, Forgotten
  <2>2. act' \in [Wids -> {"idle", "busy"}] /\ who \in Occupants
    BY <1>1, <1>2 DEF Open, Occupants
  <2> QED
    BY <1>1, <2>1, <2>2, WindowStep
<1>3. ASSUME NEW w \in Wids, Boots(w) PROVE Inv'
  <2>1. "auto" \in Occupants /\ "auto" # "agent" /\ "auto" \in {"none"} \cup Personas
    BY DEF Occupants, Personas
  <2>2. tmux' = [tmux EXCEPT !.win[w] = "auto"] /\ UNCHANGED <<run, head, inbox>> /\ faults' = faults /\ act' = act
    BY <1>3 DEF Boots
  <2> QED
    BY <1>1, <2>1, <2>2, WindowStep
<1>4. ASSUME NEW w \in Wids, Exits(w) PROVE Inv'
  <2>1. "none" \in Occupants /\ "none" # "agent" /\ "none" \in {"none"} \cup Personas
    BY DEF Occupants, Personas
  <2>2. /\ tmux' = [tmux EXCEPT !.win[w] = "none"] /\ UNCHANGED <<run, head, inbox>> /\ act' = act
        /\ faults < MaxFaults /\ faults' = faults + 1
    BY <1>4 DEF Exits, Fault
  <2>3. faults' \in 0..MaxFaults
    BY <1>1, <2>2, Values
  <2> QED
    BY <1>1, <2>1, <2>2, <2>3, WindowStep
<1>5. ASSUME NEW w \in Wids, Turn(w) PROVE Inv'
  <2>1. /\ act' \in [Wids -> {"idle", "busy"}]
        /\ UNCHANGED <<tmux, run, head, store, stamp, lease, tick, faults>>
    BY <1>1, <1>5 DEF Turn, inbox
  <2> QED
    BY <2>1 DEF Inv, Typed, AddressOK, PlaceOK, SaveOK, At, AddressesOK, NotAgents, StampOK
<1>6. CASE ServerRestarts
  <2>1. /\ tmux' = [epoch |-> tmux.epoch + 1, win |-> [w \in Wids |-> "none"]]
        /\ tmux.epoch < MaxEpoch /\ act' = [w \in Wids |-> "idle"]
        /\ UNCHANGED <<run, head, store, stamp, lease, tick, faults>>
    BY <1>6 DEF ServerRestarts, inbox
  <2>2. /\ tmux'.epoch = tmux.epoch + 1 /\ tmux'.epoch \in Epochs
        /\ tmux'.win = [w \in Wids |-> "none"]
    BY <1>1, <2>1, Values DEF Epochs
  <2>3. Typed' /\ PlaceOK' /\ SaveOK'
    BY <2>1, <2>2 DEF Inv, Typed, AddressOK, PlaceOK, SaveOK, At, Occupants
  <2>4. /\ store.orch \in Wids \cup {NoWid} /\ tick.draft.orch \in Wids \cup {NoWid}
        /\ tick.pc = "register" => tick.wid \in Wids
        /\ stamp.wid \in Wids \cup {NoWid}
    BY DEF Inv, Typed, Stores, Ticks, PlaceOK
  <2>5. /\ store.epoch \in Int /\ tick.draft.epoch \in Int /\ tick.epoch \in Int /\ stamp.epoch \in Int
        /\ tmux.epoch \in Int
    BY <1>1, Values DEF Inv, Typed, Stores, Ticks
  <2>6. AddressesOK' /\ StampOK'
    BY <2>1, <2>2, <2>4, <2>5 DEF Inv, AddressesOK, NotAgents, StampOK
  <2> QED
    BY <2>3, <2>6 DEF Inv
<1> QED
  BY <1>2, <1>3, <1>4, <1>5, <1>6 DEF Windows

\* The persona's window: what had its name goes.
LEMMA SpawnStep == ASSUME Inv, Spawn PROVE Inv'
<1>1. PICK w \in Wids :
         /\ tmux.win[w] \in {"none"} \cup Personas
         /\ tmux' = [tmux EXCEPT !.win = [v \in Wids |-> IF v = w THEN "boot"
                                                        ELSE IF @[v] \in Personas THEN "none"
                                                        ELSE @[v]]]
         /\ act' = [act EXCEPT ![w] = "idle"]
         /\ stamp' = [wid |-> w, epoch |-> tmux.epoch, cool |-> TRUE]
         /\ tick' = [tick EXCEPT !.pc = "register", !.wid = w, !.statuses[w] = "none"]
  BY DEF Spawn
<1>2. /\ tick.pc = "spawn" /\ UNCHANGED <<run, head, store, lease, faults>>
      /\ tick \in Ticks /\ act \in [Wids -> {"idle", "busy"}]
      /\ tmux \in [epoch : Epochs, win : [Wids -> Occupants]]
  BY DEF Spawn, At, Inv, Typed
<1>3. /\ tmux' \in [epoch : Epochs, win : [Wids -> Occupants]] /\ tmux'.epoch = tmux.epoch
      /\ \A v \in Wids : tmux'.win[v] = IF v = w THEN "boot"
                                        ELSE IF tmux.win[v] \in Personas THEN "none" ELSE tmux.win[v]
  <2> DEFINE f == [v \in Wids |-> IF v = w THEN "boot"
                                  ELSE IF tmux.win[v] \in Personas THEN "none" ELSE tmux.win[v]]
  <2>1. f \in [Wids -> Occupants]
    BY <1>2 DEF Occupants
  <2>2. tmux' = [tmux EXCEPT !.win = f]
    BY <1>1, <1>2
  <2>3. \A v \in Wids : f[v] = IF v = w THEN "boot"
                               ELSE IF tmux.win[v] \in Personas THEN "none" ELSE tmux.win[v]
    OBVIOUS
  <2> HIDE DEF f
  <2> QED
    BY <1>2, <2>1, <2>2, <2>3
<1>4. /\ stamp'.wid = w /\ stamp'.epoch = tmux.epoch
      /\ stamp' \in [wid : Wids \cup {NoWid}, epoch : Epochs \cup {NoEpoch}, cool : BOOLEAN]
  BY <1>1, <1>2
<1>5. /\ tick' \in Ticks /\ tick'.pc = "register" /\ tick'.wid = w /\ tick'.draft = tick.draft
      /\ tick'.epoch = tick.epoch /\ tick'.now = tick.now
  <2>1. [tick.statuses EXCEPT ![w] = "none"] \in [Wids -> {"none", "idle", "busy"}]
    BY <1>2 DEF Ticks
  <2>2. tick' = [tick EXCEPT !.pc = "register", !.wid = w, !.statuses = [tick.statuses EXCEPT ![w] = "none"]]
    BY <1>1, <1>2 DEF Ticks
  <2> DEFINE g == [tick.statuses EXCEPT ![w] = "none"]
  <2>3. g \in [Wids -> {"none", "idle", "busy"}] /\ tick' = [tick EXCEPT !.pc = "register", !.wid = w, !.statuses = g]
    BY <2>1, <2>2
  <2> HIDE DEF g
  <2> QED
    BY <1>2, <2>3 DEF Ticks, Pcs
<1>6. act' \in [Wids -> {"idle", "busy"}]
  BY <1>1, <1>2
<1>7. Typed' /\ PlaceOK' /\ SaveOK'
  BY <1>2, <1>3, <1>4, <1>5, <1>6 DEF Inv, Typed, AddressOK, PlaceOK, SaveOK, At
<1>8. AddressesOK' /\ StampOK'
  <2>1. /\ store.orch \in Wids \cup {NoWid} /\ tick.draft.orch \in Wids \cup {NoWid}
        /\ tmux.epoch \in Int
    BY <1>2, Values DEF Inv, Typed, Stores, Ticks
  <2>2. \A v \in Wids : tmux.win[v] # "agent" => tmux'.win[v] # "agent"
    BY <1>3
  <2>3. (NotAgents(store) /\ NotAgents(tick.draft))'
    BY <1>2, <1>3, <1>5, <2>1, <2>2 DEF Inv, AddressesOK, NotAgents
  <2>4. tmux'.win[w] = "boot"
    BY <1>3
  <2>5. AddressesOK'
    BY <1>2, <1>3, <1>5, <2>3, <2>4 DEF Inv, AddressesOK
  <2>6. StampOK'
    BY <1>3, <1>4, <2>1, <2>4 DEF StampOK, Personas
  <2> QED
    BY <2>5, <2>6
<1> QED
  BY <1>7, <1>8 DEF Inv

\* A tick is over, killed or not.
LEMMA KillStep == ASSUME Inv, Kill PROVE Inv'
<1>1. /\ tick.pc = "kill" /\ tick.wid \in Wids
      /\ tmux' = [tmux EXCEPT !.win[tick.wid] = "none"] /\ stamp' = NoStamp /\ tick' = IdleTick
      /\ UNCHANGED <<act, run, head, store, lease, faults>>
      /\ tmux \in [epoch : Epochs, win : [Wids -> Occupants]]
  BY DEF Kill, At, Inv, PlaceOK, Typed
<1>2. /\ tmux' \in [epoch : Epochs, win : [Wids -> Occupants]] /\ tmux'.epoch = tmux.epoch
      /\ \A v \in Wids : tmux'.win[v] \in {tmux.win[v], "none"}
  BY <1>1 DEF Occupants
<1>3. /\ IdleTick.pc = "idle" /\ IdleTick.draft = Empty /\ IdleTick.epoch = NoEpoch /\ IdleTick.now = NoEpoch
      /\ NoStamp.wid = NoWid /\ NoStamp.epoch = NoEpoch
      /\ NoStamp \in [wid : Wids \cup {NoWid}, epoch : Epochs \cup {NoEpoch}, cool : BOOLEAN]
  BY DEF IdleTick, NoStamp
<1>4. NoEpoch <= tmux.epoch
  BY DEF Inv, Typed, Epochs, NoEpoch
<1>5. Typed' /\ PlaceOK' /\ SaveOK'
  BY <1>1, <1>2, <1>3, IdleOK, EmptyOK DEF Inv, Typed, AddressOK, PlaceOK, SaveOK, At
<1>6. store.orch \in Wids \cup {NoWid}
  BY DEF Inv, Typed, Stores
<1>7. AddressesOK' /\ StampOK'
  BY <1>1, <1>2, <1>3, <1>4, <1>6, EmptyOK DEF Inv, AddressesOK, NotAgents, StampOK
<1> QED
  BY <1>5, <1>7 DEF Inv

LEMMA CrashStep == ASSUME Inv, Crash PROVE Inv'
<1>1. /\ tick' = IdleTick /\ faults < MaxFaults /\ faults' = faults + 1
      /\ UNCHANGED <<tmux, act, run, head, store, stamp, lease>>
  BY DEF Crash, Fault, world
<1>2. IdleTick.pc = "idle" /\ IdleTick.draft = Empty /\ IdleTick.epoch = NoEpoch /\ IdleTick.now = NoEpoch
  BY DEF IdleTick
<1>3. faults' \in 0..MaxFaults
  BY <1>1, Values DEF Inv, Typed
<1>4. NoEpoch <= tmux.epoch
  BY DEF Inv, Typed, Epochs, NoEpoch
<1> QED
  BY <1>1, <1>2, <1>3, <1>4, IdleOK, EmptyOK
     DEF Inv, Typed, AddressOK, PlaceOK, SaveOK, At, AddressesOK, NotAgents, StampOK

-----------------------------------------------------------------------------
(* The invariant.                                                          *)

LEMMA InitInv == Init => Inv
<1> SUFFICES ASSUME Init PROVE Inv
  OBVIOUS
<1>1. /\ tmux = [epoch |-> 1, win |-> [w \in Wids |-> "none"]]
      /\ act = [w \in Wids |-> "idle"] /\ run = NoRun /\ head = 1
      /\ store = Empty /\ stamp = NoStamp /\ lease \in BOOLEAN /\ tick = IdleTick /\ faults = 0
  BY InstanceAssumption DEF Init
<1>2. /\ IdleTick.pc = "idle" /\ IdleTick.draft = Empty /\ IdleTick.epoch = NoEpoch /\ IdleTick.now = NoEpoch
      /\ NoStamp.wid = NoWid /\ NoStamp.epoch = NoEpoch
      /\ NoStamp \in [wid : Wids \cup {NoWid}, epoch : Epochs \cup {NoEpoch}, cool : BOOLEAN]
  BY DEF IdleTick, NoStamp
<1>3. tmux \in [epoch : Epochs, win : [Wids -> Occupants]] /\ tmux.epoch = 1 /\ NoEpoch <= 1
  BY <1>1, Values DEF Occupants, NoEpoch
<1>4. faults \in 0..MaxFaults /\ head \in 1..MaxHead /\ act \in [Wids -> {"idle", "busy"}]
  BY <1>1, Values
<1> QED
  BY <1>1, <1>2, <1>3, <1>4, IdleOK, EmptyOK
     DEF Inv, Typed, PlaceOK, SaveOK, At, AddressesOK, NotAgents, StampOK

LEMMA NextInv == Inv /\ [Next]_vars => Inv'
<1> SUFFICES ASSUME Inv, [Next]_vars PROVE Inv'
  OBVIOUS
<1>1. CASE Tick
  BY <1>1, PassStep, SnapshotStep, SaveStep, DecideStep, SpawnStep, RegisterAutoStep, UnregisterStep, KillStep
     DEF Tick
<1>2. CASE Crash
  BY <1>2, CrashStep
<1>3. CASE Commands
  BY <1>3, CommandsStep
<1>4. CASE CooldownPasses
  BY <1>4, CooldownStep
<1>5. CASE Windows
  BY <1>5, WindowsStep
<1>6. CASE Run
  BY <1>6, RunStep
<1>7. CASE UNCHANGED vars
  BY <1>7 DEF vars, Inv, Typed, AddressOK, PlaceOK, SaveOK, At, AddressesOK, NotAgents, StampOK
<1> QED
  BY <1>1, <1>2, <1>3, <1>4, <1>5, <1>6, <1>7 DEF Next

LEMMA InvHolds == Spec => []Inv
  BY InitInv, NextInv, PTL DEF Spec

-----------------------------------------------------------------------------
(* The theorems.                                                           *)

\* Windows, addresses, queue and stamp keep their types, and an epoch on record
\* stamps a number: what is unregistered leaves none behind (inbox.register,
\* unregister).
THEOREM TypeCorrect == Spec => []TypeOK
<1>1. Inv => TypeOK
  <2> SUFFICES ASSUME Inv PROVE TypeOK
    OBVIOUS
  <2>1. /\ store.orch \in Wids \cup {NoWid} /\ store.epoch \in Epochs \cup {NoEpoch}
        /\ store.session \in {"none", "human"} /\ store.mark \in RunStates
        /\ store.queue \in Seq(Event)
        /\ store.stamped \in BOOLEAN /\ (store.stamped => store.orch # NoWid)
    BY DEF Inv, Typed, Stores, AddressOK
  <2>2. Range(store.queue) \subseteq Event
    BY <2>1, RangeOfSeq
  <2> QED
    BY <2>1, <2>2 DEF Inv, Typed, TypeOK, RunType
<1> QED
  BY <1>1, InvHolds, PTL

\* What a step does to the queue and the mark.
LEMMA KeptStep ==
    ASSUME Inv, [Next]_vars
    PROVE  Keeps(store, store', Taken)
<1> DEFINE Same == store'.queue = store.queue /\ store'.mark = store.mark
<1>0. store \in Stores
  BY DEF Inv, Typed
<1>1. ASSUME Same PROVE Keeps(store, store', Taken)
  BY <1>1 DEF Keeps
<1>2. CASE Save
  BY <1>2 DEF Save, Inv, SaveOK, Taken, At
<1>3. CASE Enqueue
  <2>1. store' = [store EXCEPT !.queue = Append(store.queue, Asked)] /\ store.queue \in Seq(Event)
    BY <1>0, <1>3 DEF Enqueue, Write, Stores
  <2>2. /\ Append(store.queue, Asked) \in Seq(Event)
        /\ Len(Append(store.queue, Asked)) = Len(store.queue) + 1
        /\ \A i \in 1..Len(store.queue) : Append(store.queue, Asked)[i] = store.queue[i]
    BY <2>1, EmptyOK, AppendProperties
  <2>3. /\ DOMAIN store.queue = 1..Len(store.queue) /\ Len(store.queue) \in Nat
        /\ DOMAIN Append(store.queue, Asked) = 1..(Len(store.queue) + 1)
    BY <2>1, <2>2, LenProperties
  <2>4. Range(store.queue) \subseteq Range(Append(store.queue, Asked))
    BY <2>2, <2>3 DEF Range
  <2>5. store'.queue = Append(store.queue, Asked) /\ store'.mark = store.mark
    BY <1>0, <2>1 DEF Stores
  <2> QED
    BY <2>4, <2>5 DEF Keeps
<1>4. ASSUME NEW w \in Wids, Register(w) \/ Readdress(w) PROVE Same
  BY <1>0, <1>4 DEF Register, Readdress, HumanIn, Write, Registered, Stores
<1>5. CASE Forget
  <2>1. Same
    BY <1>0, <1>5 DEF Forget, Write, Unregistered, Stores
  <2> QED
    BY <1>1, <2>1
<1>6. CASE RegisterAuto \/ Unregister
  <2>1. Same
    BY <1>0, <1>6 DEF RegisterAuto, Unregister, Write, Registered, Unregistered, Stores
  <2> QED
    BY <1>1, <2>1
<1>7. ASSUME store' = store PROVE Keeps(store, store', Taken)
  BY <1>1, <1>7
<1>8. CASE Commands
  BY <1>1, <1>3, <1>4, <1>5, <1>7, <1>8 DEF Commands, Attend
<1>9. CASE Tick
  <2>1. CASE Snapshot \/ Hold \/ DropAll \/ Deliver \/ SendFails
    BY <1>7, <2>1 DEF Snapshot, Hold, DropAll, Deliver, SendFails, Locked
  <2>2. CASE WakeFires \/ WakeWithheld \/ Spawn \/ ReapFires \/ ReapWithheld \/ Kill
    BY <1>7, <2>2 DEF WakeFires, WakeWithheld, Wake, Spawn, ReapFires, ReapWithheld, Kill
  <2> QED
    BY <1>2, <1>6, <1>9, <2>1, <2>2 DEF Tick
<1>10. CASE Crash \/ CooldownPasses \/ UNCHANGED vars
  BY <1>7, <1>10 DEF Crash, CooldownPasses, vars
<1>11. CASE Windows
  BY <1>7, <1>11 DEF Windows, Open, Boots, Exits, Turn, ServerRestarts, inbox
<1>12. CASE Run
  BY <1>7, <1>12 DEF Run, HandIn, JudgedClean, SentBack, Rejudged, Carried, Rework, Push, Moves, inbox
<1> QED
  BY <1>8, <1>9, <1>10, <1>11, <1>12 DEF Next

\* locked_store: news leaves the queue only told or no longer true, whoever
\* registers, enqueues or dies meanwhile; a mark moves with its news.
THEOREM NewsIsKept == Spec => NewsKept
<1> DEFINE Kept == /\ Range(store.queue) \subseteq Range(store'.queue) \cup Taken
                   /\ store'.mark = "clean" /\ store.mark # "clean" =>
                        \E e \in Range(store'.queue) \cup Taken : e.kind = "clean"
<1>1. Inv /\ [Next]_vars => [Kept]_vars
  BY KeptStep DEF Keeps
<1>2. Spec => [][Kept]_vars
  BY <1>1, InitInv, NextInv, PTL DEF Spec
<1> QED
  BY <1>2 DEF NewsKept

\* address_state, _apply_heal: news is never handed to a session that did not
\* register, unless the tmux server went while the tick was at it, or the address
\* is of an earlier server and has no stamp, or the tick no epoch, to tell by.
THEOREM NoStrangersTold == Spec => NoStranger
<1> DEFINE Known == Deliver => \/ tmux.win[Ready.orch] \in {"human", "auto"}
                               \/ tick.epoch # tmux.epoch \/ Unverified
<1>1. Inv => Known
  <2> SUFFICES ASSUME Inv, Deliver, tick.epoch = tmux.epoch, ~Unverified
               PROVE  tmux.win[Ready.orch] \in {"human", "auto"}
    OBVIOUS
  <2>1. /\ At("locked") /\ Deliverable /\ tmux.win[Ready.orch] \in Claude
    BY DEF Deliver
  <2>2. NotAgents(Ready)
    BY <2>1, ReadyOK
  <2>3. Ready.orch # NoWid /\ ~Dangling(Ready, tick.now)
    BY <2>1 DEF Deliverable, Undeliverable
  <2>4. Ready.epoch = tmux.epoch
    BY <2>3 DEF Unverified, Dangling, Inv, PlaceOK
  <2> QED
    BY <2>1, <2>2, <2>3, <2>4 DEF NotAgents, Claude
<1>2. Inv => [Known]_vars
  BY <1>1
<1>3. Spec => [][Known]_vars
  BY <1>2, InitInv, NextInv, PTL DEF Spec
<1> QED
  BY <1>3 DEF NoStranger

\* we_launched: a session the daemon did not launch is never torn down, as long
\* as the tmux server runs that issued the stamp's number.
THEOREM HandRunsSurvive == Spec => HandRunSurvives
<1> DEFINE Own == Kill => tmux.win[tick.wid] \in {"none"} \cup Personas \/ stamp.epoch # tmux.epoch
<1>1. Inv => Own
  BY Values DEF Kill, At, Inv, PlaceOK, StampOK
<1>2. Inv => [Own]_vars
  BY <1>1
<1>3. Spec => [][Own]_vars
  BY <1>2, InitInv, NextInv, PTL DEF Spec
<1> QED
  BY <1>3 DEF HandRunSurvives
=============================================================================
