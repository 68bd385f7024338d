--------------------------- MODULE GateRelayProofs ---------------------------
(***************************************************************************)
(* Theorems about GateRelay, for any questions, options, threads, tries,   *)
(* gates, messages and faults of every kind: an answer that is taken was   *)
(* tapped for the question it answers, or, if nobody heard that one's      *)
(* PreToolUse, for an earlier one that says the same; and every message    *)
(* with live buttons has exactly one owner who will see to it.             *)
(***************************************************************************)
EXTENDS GateRelay, SequenceTheorems, FiniteSetTheorems, WellFoundedInduction, TLAPS

-----------------------------------------------------------------------------
(* The invariant.                                                          *)

AnswerOK(a) == a = NoAnswer \/ Whole(a)
HookPcs == {"none", "asked", "opens", "waits", "closes", "decides"}
HookType == [pc : HookPcs, gate : Gates \cup {NoGate}, answer : {a \in Answers : AnswerOK(a)},
             late : BOOLEAN]
DraftType == [picks : Answers, final : SUBSET Questions]
Jobs == [id : Posts, tries : 0..(MaxTries - 1)]

AgentType ==
    /\ agent \in [pc : {"works", "uses", "asks", "told", "dead"}, gate : Gates \cup {NoGate},
                  text : [Gates -> Texts], by : [Gates -> {"none", "pane", "hook"}],
                  unheard : SUBSET Gates]
    /\ up \in BOOLEAN
    /\ log \in [asked : SUBSET Gates, over : SUBSET Gates]

RelayType ==
    /\ hook \in [Gates -> HookType]
    /\ file \in [Gates -> {"none", "open", "old"}]
    /\ reply \in [Gates -> {a \in Answers : AnswerOK(a)}]

PhoneType ==
    /\ bound \in BOOLEAN
    /\ draft \in [Gates -> DraftType]
    /\ tap \in [gate : Gates \cup {NoGate}, answer : {a \in Answers : AnswerOK(a)}]

MirrorType ==
    /\ DOMAIN chat \subseteq Posts /\ chat \in [DOMAIN chat -> Cards]
    /\ track \in [id : Posts \cup {NoPost}, card : Cards] /\ pace \in BOOLEAN
    /\ poll \in [pc : {"idle", "look", "sync", "post"}, force : BOOLEAN, card : Cards]
    /\ queue \in Seq(Jobs) /\ hand \in [Threads -> Jobs \cup {NoHand}]
    /\ lost \subseteq Posts

FaultType == faults \in 0..MaxFaults

(* What the log says of the last gate, unless its PreToolUse was lost; and what *)
(* it does not say after a restart.                                             *)
LogOK ==
    /\ \A g \in log.asked \cup log.over : g <= agent.gate
    /\ agent.pc \in {"uses", "asks", "told"} => agent.gate \in Gates
    /\ agent.pc \in {"uses", "asks"} =>
          /\ agent.gate \notin log.over
          /\ log.asked = {} \/ agent.gate \in log.asked \cup agent.unheard

(* The hook of the question on the pane has this gate, or one that stands for *)
(* it, or none as yet.                                                        *)
HookOK(g) ==
    /\ hook[g].pc # "none" => g <= agent.gate /\ ~(agent.pc = "uses" /\ agent.gate = g)
    /\ hook[g].pc \notin {"none", "asked"} /\ Asking(g) => StandsFor(hook[g].gate, g)
    /\ hook[g].pc \notin {"none", "asked"} => hook[g].gate \in Gates
    /\ hook[g].pc = "decides" => hook[g].answer # NoAnswer

RelayOK == LogOK /\ \A g \in Gates : HookOK(g)

(* A message whose buttons are live has an owner, and one only. *)
Live(p) == p \in DOMAIN chat \ lost
Waiting(p) == \E i \in DOMAIN queue : queue[i].id = p
Going(p) == \E t \in Threads : hand[t].id = p

OwnersOK ==
    /\ track.id # NoPost => Live(track.id) /\ ~Waiting(track.id) /\ ~Going(track.id)
    /\ \A i \in DOMAIN queue : Live(queue[i].id) /\ ~Going(queue[i].id)
    /\ \A i, j \in DOMAIN queue : queue[i].id = queue[j].id => i = j
    /\ \A t \in Threads : hand[t] # NoHand => Live(hand[t].id)
    /\ \A t, u \in Threads : hand[t] # NoHand /\ hand[t].id = hand[u].id => t = u
    /\ \A p \in Posts : Live(p) => track.id = p \/ Waiting(p) \/ Going(p)

Inv ==
    /\ AgentType /\ RelayType /\ PhoneType /\ MirrorType /\ FaultType
    /\ RelayOK /\ OwnersOK

-----------------------------------------------------------------------------
(* Values, and the pending gate.                                           *)

\* The constants, and what stands for nothing.
LEMMA Values ==
    /\ MaxGate \in Nat \ {0} /\ MaxPost \in Nat \ {0} /\ MaxTries \in Nat \ {0} /\ MaxFaults \in Nat
    /\ NoGate \notin Gates /\ NoPost \notin Posts
    /\ NoAnswer \in {a \in Answers : AnswerOK(a)} /\ NoCard \in Cards
    /\ NoHook \in HookType /\ NoDraft \in DraftType
    /\ IdleTap \in [gate : Gates \cup {NoGate}, answer : {a \in Answers : AnswerOK(a)}]
    /\ NoTrack \in [id : Posts \cup {NoPost}, card : Cards]
    /\ IdlePoll \in [pc : {"idle", "look", "sync", "post"}, force : BOOLEAN, card : Cards]
<1>1. NoAnswer \in {a \in Answers : AnswerOK(a)} /\ Blank \in Answers
  BY DEF NoAnswer, Blank, Answers, AnswerOK
<1>2. NoCard \in Cards
  BY DEF NoCard, Cards
<1>3. NoHook \in HookType
  BY <1>1 DEF NoHook, HookType, HookPcs
<1>4. NoDraft \in DraftType
  BY <1>1 DEF NoDraft, DraftType
<1>5. IdleTap \in [gate : Gates \cup {NoGate}, answer : {a \in Answers : AnswerOK(a)}]
  BY <1>1 DEF IdleTap
<1>6. /\ NoTrack \in [id : Posts \cup {NoPost}, card : Cards]
      /\ IdlePoll \in [pc : {"idle", "look", "sync", "post"}, force : BOOLEAN, card : Cards]
  BY <1>2 DEF NoTrack, IdlePoll
<1> QED
  BY <1>1, <1>2, <1>3, <1>4, <1>5, <1>6, GateAssumption, FaultAssumption
     DEF Gates, NoGate, Posts, NoPost

\* A fault is one of those that are allowed for.
LEMMA FaultStep ==
    ASSUME FaultType, faults' = faults \/ \E kind \in FaultKinds : Fault(kind) PROVE FaultType'
  BY Values DEF FaultType, Fault

\* Gates that are not none have a last one.
LEMMA LastGate ==
    ASSUME NEW S \in SUBSET Gates, S # {}
    PROVE  \E g \in S : \A h \in S : h <= g
<1> DEFINE T == {MaxGate - g : g \in S}
<1>1. T \in SUBSET Nat /\ T # {}
  <2>1. \A g \in S : MaxGate - g \in Nat
    BY Values DEF Gates
  <2>2. T \in SUBSET Nat
    BY <2>1
  <2>3. PICK g \in S : TRUE
    OBVIOUS
  <2>4. MaxGate - g \in T
    BY <2>3
  <2> QED
    BY <2>2, <2>4
<1>2. \E x \in T : \A y \in T : ~(<<y, x>> \in OpToRel(<, Nat))
  BY <1>1, NatLessThanWellFounded, WFMin
<1>3. PICK x \in T : \A y \in T : ~(<<y, x>> \in OpToRel(<, Nat))
  BY <1>2
<1>4. PICK g \in S : x = MaxGate - g
  BY <1>3
<1>5. ASSUME NEW h \in S PROVE h <= g
  <2>1. MaxGate - h \in T /\ g \in Nat /\ h \in Nat /\ MaxGate \in Nat
    BY Values DEF Gates
  <2>2. ~(<<MaxGate - h, x>> \in {ss \in Nat \X Nat : ss[1] < ss[2]})
    BY <1>3, <2>1 DEF OpToRel
  <2>3. MaxGate - h \in Nat /\ x \in Nat
    BY <1>1, <2>1
  <2>4. <<MaxGate - h, x>> \in Nat \X Nat
    BY <2>3
  <2>5. ~(<<MaxGate - h, x>>[1] < <<MaxGate - h, x>>[2])
    BY <2>2, <2>4
  <2> QED
    BY <1>4, <2>1, <2>5
<1> QED
  BY <1>5

\* The pending gate is the last that is open.
LEMMA PendingOK ==
    ASSUME AgentType
    PROVE  /\ Pending \in Gates \cup {NoGate}
           /\ Pending # NoGate => /\ Pending \in log.asked \ log.over
                                  /\ \A h \in log.asked \ log.over : h <= Pending
<1> DEFINE open == log.asked \ log.over
<1>1. open \in SUBSET Gates
  BY DEF AgentType
<1>2. CASE open = {}
  BY <1>2 DEF Pending
<1>3. CASE open # {}
  <2>1. \E g \in open : \A h \in open : h <= g
    BY <1>1, <1>3, LastGate
  <2>2. Pending = CHOOSE g \in open : \A h \in open : h <= g
    BY <1>3 DEF Pending
  <2> HIDE DEF open
  <2>3. Pending \in open /\ \A h \in open : h <= Pending
    BY <2>1, <2>2
  <2> QED
    BY <1>1, <2>3 DEF open
<1> QED
  BY <1>2, <1>3

\* The hook of the question on the pane finds its own gate, or one that stands
\* for it, or none.
LEMMA OwnGate ==
    ASSUME AgentType, RelayOK, NEW g \in Gates, Asking(g), Found(g)
    PROVE  StandsFor(Pending, g)
<1>1. Pending \in log.asked \ log.over /\ \A h \in log.asked \ log.over : h <= Pending
  BY PendingOK DEF Found
<1>2. /\ agent.gate = g /\ g \notin log.over /\ g \in log.asked \cup agent.unheard
      /\ \A h \in log.asked : h <= g
  BY <1>1 DEF RelayOK, LogOK, Asking
<1>3. CASE g \in log.asked
  <2>1. Pending <= g /\ g <= Pending /\ Pending \in Int /\ g \in Int
    BY <1>1, <1>2, <1>3 DEF AgentType, Gates
  <2> QED
    BY <2>1 DEF StandsFor
<1>4. CASE g \notin log.asked
  BY <1>2, <1>4 DEF StandsFor, Found
<1> QED
  BY <1>3, <1>4

-----------------------------------------------------------------------------
(* The agent.                                                              *)

\* The mirror does not touch the relay, nor the relay the mirror.
LEMMA RelayKept ==
    ASSUME Inv, UNCHANGED rest PROVE AgentType' /\ RelayType' /\ PhoneType' /\ RelayOK'
<1>1. UNCHANGED <<agent, up, log, hook, file, reply, bound, draft, tap>>
  BY DEF rest, rendezvous, phone
<1> QED
  BY <1>1 DEF Inv, AgentType, RelayType, PhoneType, RelayOK, LogOK, HookOK, Asking, StandsFor

LEMMA MirrorKept == ASSUME Inv, UNCHANGED mirror PROVE MirrorType' /\ OwnersOK'
<1>1. UNCHANGED <<chat, track, pace, poll, queue, hand, lost>>
  BY DEF mirror
<1> QED
  BY <1>1 DEF Inv, MirrorType, OwnersOK, Live, Waiting, Going

\* A gate that is new has no hook; the log hears of it, or it is unheard.
LEMMA PreToolUseStep == ASSUME Inv, PreToolUse PROVE Inv'
<1> DEFINE g == agent.gate + 1
           u == IF up THEN agent.unheard ELSE agent.unheard \cup {g}
<1>1. /\ agent.pc = "works" /\ agent.gate < MaxGate
      /\ agent' = [agent EXCEPT !.pc = "uses", !.gate = g, !.unheard = u]
      /\ log' = IF up THEN [log EXCEPT !.asked = @ \cup {g}] ELSE log
      /\ UNCHANGED <<up, hook, file, reply, bound, draft, tap, mirror, faults>>
  BY DEF PreToolUse, rendezvous, phone, Inv, AgentType
<1>2. AgentType /\ RelayType /\ RelayOK
  BY DEF Inv
<1>3. g \in Gates /\ agent.gate \in Int /\ agent.gate < g
  BY <1>1, <1>2, Values DEF AgentType, Gates, NoGate
<1>4. u \in SUBSET Gates /\ (up \/ g \in u)
  BY <1>2, <1>3 DEF AgentType
<1> HIDE DEF g, u
<1>5. /\ agent'.pc = "uses" /\ agent'.gate = g /\ agent'.unheard = u /\ AgentType'
      /\ log'.over = log.over /\ log'.asked \subseteq log.asked \cup {g} /\ (up => g \in log'.asked)
  BY <1>1, <1>2, <1>3, <1>4 DEF AgentType
<1>6. LogOK'
  <2>1. \A h \in log.asked \cup log.over : h <= agent.gate /\ h \in Int
    BY <1>2 DEF RelayOK, LogOK, AgentType, Gates
  <2>2. \A h \in log.asked \cup log.over \cup {g} : h <= g
    BY <1>3, <2>1 DEF Gates
  <2>3. g \notin log.over
    BY <1>3, <2>1
  <2> QED
    BY <1>3, <1>4, <1>5, <2>2, <2>3 DEF LogOK
<1>7. ASSUME NEW h \in Gates PROVE HookOK(h)'
  <2>1. HookOK(h) /\ h \in Int /\ g \in Int
    BY <1>2, <1>3 DEF RelayOK, Gates
  <2>2. hook[h].pc # "none" => h <= agent.gate /\ h # g
    BY <1>3, <2>1 DEF HookOK
  <2> QED
    BY <1>1, <1>3, <1>5, <2>1, <2>2 DEF HookOK, Asking
<1>8. RelayType' /\ PhoneType' /\ FaultType'
  BY <1>1 DEF Inv, RelayType, PhoneType, FaultType
<1> QED
  BY <1>1, <1>5, <1>6, <1>7, <1>8, MirrorKept DEF Inv, RelayOK

\* A question comes to the pane, and its hook to the dashboard, or not.
LEMMA PermissionRequestStep == ASSUME Inv, PermissionRequest PROVE Inv'
<1> DEFINE g == agent.gate
<1>1. /\ agent.pc = "uses" /\ agent' = [agent EXCEPT !.pc = "asks"]
      /\ hook' = IF up THEN [hook EXCEPT ![g].pc = "asked"] ELSE hook
      /\ UNCHANGED <<up, log, file, reply, bound, draft, tap, mirror, faults>>
  BY DEF PermissionRequest, phone
<1>2. AgentType /\ RelayType /\ RelayOK
  BY DEF Inv
<1>3. g \in Gates /\ hook[g].pc = "none" /\ g <= g
  BY <1>1, <1>2 DEF RelayOK, LogOK, HookOK, Gates
<1>4. AgentType' /\ agent'.pc = "asks" /\ agent'.gate = g /\ agent'.unheard = agent.unheard
  BY <1>1, <1>2 DEF AgentType
<1> HIDE DEF g
<1>5. /\ hook' \in [Gates -> HookType]
      /\ \A h \in Gates \ {g} : hook'[h] = hook[h]
      /\ hook'[g].pc \in {"none", "asked"}
  BY <1>1, <1>2, <1>3 DEF RelayType, HookType, HookPcs
<1>6. LogOK'
  BY <1>1, <1>2, <1>4 DEF RelayOK, LogOK, g
<1>7. ASSUME NEW h \in Gates PROVE HookOK(h)'
  <2>1. HookOK(h) /\ agent.gate = g
    BY <1>2 DEF RelayOK, g
  <2>2. CASE h # g
    BY <1>4, <1>5, <2>1, <2>2 DEF HookOK, Asking
  <2>3. CASE h = g
    BY <1>3, <1>4, <1>5, <2>3 DEF HookOK
  <2> QED
    BY <2>2, <2>3
<1>8. RelayType' /\ PhoneType' /\ FaultType'
  BY <1>1, <1>2, <1>5 DEF Inv, RelayType, PhoneType, FaultType
<1> QED
  BY <1>1, <1>4, <1>6, <1>7, <1>8, MirrorKept DEF Inv, RelayOK

\* A question that is answered has been told.
LEMMA AnsweredOK ==
    ASSUME AgentType, LogOK, agent.pc = "asks", NEW by \in {"pane", "hook"}, Answered(by), UNCHANGED <<up, log>>
    PROVE  AgentType' /\ agent'.gate = agent.gate /\ agent'.pc = "told"
<1> DEFINE bys == [agent.by EXCEPT ![agent.gate] = by]
<1>1. bys \in [Gates -> {"none", "pane", "hook"}]
  BY DEF AgentType
<1>2. agent' = [agent EXCEPT !.pc = "told", !.by = bys]
  BY DEF Answered, AgentType
<1> HIDE DEF bys
<1> QED
  BY <1>1, <1>2 DEF AgentType

\* A question that is answered or given up is asked no more.
LEMMA AgentStep == ASSUME Inv, Agent PROVE Inv'
<1>1. AgentType /\ RelayType /\ RelayOK
  BY DEF Inv
<1>2. CASE AnswerOnPane \/ AgentDies
  <2>1. /\ AgentType' /\ agent'.gate = agent.gate /\ agent'.pc \notin {"uses", "asks"}
        /\ agent'.pc = "told" => agent.pc = "asks"
    <3>1. CASE AnswerOnPane
      BY <1>1, <3>1, AnsweredOK DEF AnswerOnPane, RelayOK
    <3>2. CASE AgentDies
      BY <1>1, <3>2 DEF AgentDies, AgentType
    <3> QED
      BY <1>2, <3>1, <3>2
  <2>2. UNCHANGED <<up, log, hook, file, reply, bound, draft, tap, mirror>>
    BY <1>2 DEF AnswerOnPane, AgentDies, rendezvous, phone
  <2>3. RelayType' /\ PhoneType' /\ RelayOK'
    BY <2>1, <2>2 DEF Inv, RelayType, PhoneType, RelayOK, LogOK, HookOK, Asking, StandsFor
  <2>4. FaultType'
    BY <1>2, FaultStep DEF Inv, AnswerOnPane, AgentDies, FaultKinds
  <2> QED
    BY <2>1, <2>2, <2>3, <2>4, MirrorKept DEF Inv
<1>3. CASE PostToolUse
  <2>1. /\ agent.pc = "told" /\ agent' = [agent EXCEPT !.pc = "works"]
        /\ log' = IF up THEN [log EXCEPT !.over = @ \cup {agent.gate}] ELSE log
        /\ file' = IF up THEN [file EXCEPT ![agent.gate] = "none"] ELSE file
        /\ UNCHANGED <<up, hook, reply, bound, draft, tap, mirror, faults>>
    BY <1>3 DEF PostToolUse, phone
  <2>2. agent.gate \in Gates
    BY <1>1, <2>1 DEF RelayOK, LogOK
  <2>3. /\ AgentType' /\ agent'.gate = agent.gate /\ agent'.pc = "works" /\ log'.asked = log.asked
        /\ log'.over \subseteq log.over \cup {agent.gate}
    BY <1>1, <2>1, <2>2 DEF AgentType
  <2>4. RelayType' /\ PhoneType' /\ FaultType'
    BY <1>1, <2>1, <2>2 DEF Inv, RelayType, PhoneType, FaultType
  <2>5. RelayOK'
    BY <1>1, <2>1, <2>2, <2>3 DEF RelayOK, LogOK, HookOK, Asking, Gates
  <2> QED
    BY <2>1, <2>3, <2>4, <2>5, MirrorKept DEF Inv
<1> QED
  BY <1>2, <1>3, PreToolUseStep, PermissionRequestStep DEF Agent

-----------------------------------------------------------------------------
(* The dashboard.                                                          *)

\* A held request takes its gate when it is asked, and keeps it to the end.
LEMMA HeldStep == ASSUME Inv, NEW g \in Gates, Held(g) PROVE Inv'
<1>1. /\ AgentType /\ RelayType /\ RelayOK /\ HookOK(g)
      /\ hook[g] \in HookType /\ hook[g].gate \in Gates \cup {NoGate}
      /\ Pending \in Gates \cup {NoGate}
      /\ NoAnswer \in {a \in Answers : AnswerOK(a)} /\ NoHook \in HookType /\ NoHook.pc = "none"
  BY PendingOK, Values DEF Inv, RelayType, RelayOK, HookType, NoHook
<1>2. ASSUME NEW r \in HookType, hook' = [hook EXCEPT ![g] = r],
             file' \in [Gates -> {"none", "open", "old"}],
             reply' \in [Gates -> {a \in Answers : AnswerOK(a)}],
             UNCHANGED <<agent, up, log, phone, mirror>>, FaultType',
             r.pc # "none" => hook[g].pc # "none", r.pc # "asked",
             r.pc # "none" /\ Asking(g) => StandsFor(r.gate, g), r.pc # "none" => r.gate \in Gates,
             r.pc = "decides" => r.answer # NoAnswer
      PROVE  Inv'
  <2>1. UNCHANGED <<agent, up, log, bound, draft, tap, mirror>>
    BY <1>2 DEF phone
  <2>2. hook' \in [Gates -> HookType] /\ hook'[g] = r /\ \A h \in Gates \ {g} : hook'[h] = hook[h]
    BY <1>1, <1>2 DEF RelayType
  <2>3. AgentType' /\ RelayType' /\ PhoneType' /\ LogOK'
    BY <1>1, <1>2, <2>1, <2>2 DEF Inv, AgentType, RelayType, PhoneType, RelayOK, LogOK
  <2>4. ASSUME NEW h \in Gates PROVE HookOK(h)'
    <3>1. CASE h = g
      BY <1>1, <1>2, <2>1, <2>2, <3>1 DEF HookOK, Asking, StandsFor
    <3>2. CASE h # g
      BY <1>1, <2>1, <2>2, <3>2 DEF RelayOK, HookOK, Asking, StandsFor
    <3> QED
      BY <3>1, <3>2
  <2> QED
    BY <1>2, <2>1, <2>3, <2>4, MirrorKept DEF Inv, RelayOK
<1>3. CASE Hold(g) \/ HoldLater(g)
  <2>1. hook[g].pc = "asked" /\ Found(g) /\ Pending \in Gates
    BY <1>1, <1>3 DEF Hold, HoldLater, Found
  <2>2. Asking(g) => StandsFor(Pending, g)
    BY <1>1, <2>1, OwnGate
  <2> DEFINE p == Pending
  <2>3. /\ \E pc \in {"waits", "opens"} : hook' = [hook EXCEPT ![g].pc = pc, ![g].gate = p]
        /\ file' \in {file, [file EXCEPT ![p] = "open"]} /\ reply' = reply
        /\ UNCHANGED <<agent, up, log, phone, mirror>>
    BY <1>3 DEF Hold, HoldLater, others
  <2>4. FaultType'
    BY <1>3, FaultStep DEF Inv, Hold, HoldLater, others, FaultKinds
  <2>5. p \in Gates /\ (Asking(g) => StandsFor(p, g))
    BY <2>1, <2>2
  <2> HIDE DEF p
  <2>6. PICK pc \in {"waits", "opens"} : hook' = [hook EXCEPT ![g].pc = pc, ![g].gate = p]
    BY <2>3
  <2> DEFINE r == [hook[g] EXCEPT !.pc = pc, !.gate = p]
  <2>7. r \in HookType /\ r.pc \in {"waits", "opens"} /\ r.gate = p
    BY <1>1, <2>5 DEF HookType, HookPcs
  <2>8. file' \in [Gates -> {"none", "open", "old"}] /\ reply' \in [Gates -> {a \in Answers : AnswerOK(a)}]
    BY <1>1, <2>3, <2>5 DEF RelayType
  <2>9. hook' = [hook EXCEPT ![g] = r]
    BY <1>1, <2>6 DEF RelayType, HookType
  <2> HIDE DEF r
  <2> QED
    BY <1>2, <2>1, <2>3, <2>4, <2>5, <2>7, <2>8, <2>9
<1>4. CASE FailOpen(g)
  <2>1. /\ hook' = [hook EXCEPT ![g] = NoHook]
        /\ UNCHANGED <<file, reply, agent, up, log, phone, mirror>> /\ faults' = faults
    BY <1>4 DEF FailOpen, others
  <2>2. FaultType'
    BY <2>1 DEF Inv, FaultType
  <2> QED
    BY <1>1, <1>2, <2>1, <2>2 DEF RelayType
<1>5. CASE Open(g) \/ TakeAnswer(g) \/ GiveUp(g)
  <2> DEFINE pc == IF hook[g].pc = "opens" THEN "waits" ELSE "closes"
             a == IF TakeAnswer(g) THEN reply[hook[g].gate] ELSE hook[g].answer
             l == IF Open(g) THEN Over(hook[g].gate) ELSE hook[g].late
             r == [hook[g] EXCEPT !.pc = pc, !.answer = a, !.late = l]
  <2>1. /\ hook[g].pc \in {"opens", "waits"} /\ pc \in {"waits", "closes"}
        /\ UNCHANGED <<reply, agent, up, log, phone, mirror>> /\ faults' = faults
    BY <1>5 DEF Open, TakeAnswer, GiveUp, others
  <2>2. a \in {b \in Answers : AnswerOK(b)}
    <3>1. CASE TakeAnswer(g)
      <4>1. hook[g].gate \in Gates
        BY <1>1, <3>1 DEF TakeAnswer, HookOK
      <4> QED
        BY <1>1, <3>1, <4>1 DEF RelayType
    <3>2. CASE ~TakeAnswer(g)
      BY <1>1, <3>2 DEF HookType
    <3> QED
      BY <3>1, <3>2
  <2>3. l \in BOOLEAN
    BY <1>1 DEF Over, HookType
  <2>4. hook' = [hook EXCEPT ![g] = r]
    <3>1. CASE Open(g)
      <4>1. a = hook[g].answer /\ pc = "waits" /\ l = Over(hook[g].gate)
        BY <3>1 DEF Open, TakeAnswer
      <4>2. r = [hook[g] EXCEPT !.pc = "waits", !.late = Over(hook[g].gate)]
        BY <1>1, <4>1 DEF HookType
      <4> QED
        BY <1>1, <3>1, <4>2 DEF Open, RelayType
    <3>2. CASE TakeAnswer(g)
      <4>1. pc = "closes" /\ a = reply[hook[g].gate] /\ l = hook[g].late
        BY <3>2 DEF TakeAnswer, Open
      <4>2. r = [hook[g] EXCEPT !.pc = "closes", !.answer = reply[hook[g].gate]]
        BY <1>1, <4>1 DEF HookType
      <4> QED
        BY <1>1, <3>2, <4>2 DEF TakeAnswer, RelayType
    <3>3. CASE GiveUp(g)
      <4>1. a = hook[g].answer /\ pc = "closes" /\ l = hook[g].late
        BY <3>3 DEF GiveUp, TakeAnswer, Open
      <4>2. r = [hook[g] EXCEPT !.pc = "closes"]
        BY <1>1, <4>1 DEF HookType
      <4> QED
        BY <1>1, <3>3, <4>2 DEF GiveUp, RelayType
    <3> QED
      BY <1>5, <3>1, <3>2, <3>3
  <2>5. file' \in [Gates -> {"none", "open", "old"}] /\ reply' \in [Gates -> {b \in Answers : AnswerOK(b)}] /\ FaultType'
    BY <1>1, <1>5, <2>1 DEF Open, TakeAnswer, GiveUp, RelayType, Inv, FaultType
  <2> HIDE DEF pc, a, l
  <2>6. r \in HookType /\ r.pc = pc /\ r.gate = hook[g].gate
    BY <1>1, <2>1, <2>2, <2>3 DEF HookType, HookPcs
  <2>7. r.gate \in Gates /\ (Asking(g) => StandsFor(r.gate, g))
    BY <1>1, <2>1, <2>6 DEF HookOK
  <2> HIDE DEF r
  <2> QED
    BY <1>2, <2>1, <2>4, <2>5, <2>6, <2>7
<1>6. CASE CloseGate(g)
  <2> DEFINE r == IF hook[g].answer = NoAnswer THEN NoHook ELSE [hook[g] EXCEPT !.pc = "decides"]
  <2>1. /\ hook[g].pc = "closes" /\ hook' = [hook EXCEPT ![g] = r]
        /\ file' = [file EXCEPT ![hook[g].gate] = "none"]
        /\ reply' = [reply EXCEPT ![hook[g].gate] = NoAnswer]
        /\ UNCHANGED <<agent, up, log, phone, mirror>> /\ faults' = faults
    BY <1>1, <1>6 DEF CloseGate, others, RelayType
  <2>2. /\ r \in HookType /\ r.pc \in {"none", "decides"}
        /\ r.pc = "decides" => r.gate = hook[g].gate /\ r.answer = hook[g].answer /\ r.answer # NoAnswer
    BY <1>1 DEF HookType, HookPcs
  <2> HIDE DEF r
  <2>3. r.pc # "none" => r.gate \in Gates /\ (Asking(g) => StandsFor(r.gate, g))
    BY <1>1, <2>1, <2>2 DEF HookOK
  <2>4. file' \in [Gates -> {"none", "open", "old"}] /\ reply' \in [Gates -> {a \in Answers : AnswerOK(a)}] /\ FaultType'
    BY <1>1, <2>1 DEF RelayType, Inv, FaultType
  <2> QED
    BY <1>2, <2>1, <2>2, <2>3, <2>4
<1>7. CASE Decide(g)
  <2>1. /\ hook' = [hook EXCEPT ![g] = NoHook] /\ UNCHANGED <<file, reply, up, log, bound, draft, tap, mirror, faults>>
        /\ IF Asking(g) THEN Answered("hook") ELSE UNCHANGED agent
    BY <1>7 DEF Decide, phone
  <2>2. /\ AgentType' /\ agent'.gate = agent.gate
        /\ agent' = agent \/ (agent.pc = "asks" /\ agent'.pc = "told")
    <3>1. CASE Asking(g)
      BY <1>1, <2>1, <3>1, AnsweredOK DEF Asking, RelayOK
    <3>2. CASE ~Asking(g)
      BY <1>1, <2>1, <3>2 DEF AgentType
    <3> QED
      BY <3>1, <3>2
  <2>3. hook' \in [Gates -> HookType] /\ \A h \in Gates : hook'[h] = IF h = g THEN NoHook ELSE hook[h]
    BY <1>1, <2>1 DEF RelayType
  <2>4. RelayType' /\ PhoneType' /\ FaultType' /\ LogOK'
    BY <1>1, <2>1, <2>2, <2>3 DEF Inv, RelayType, PhoneType, FaultType, RelayOK, LogOK
  <2>5. \A h \in Gates : HookOK(h)'
    BY <1>1, <2>1, <2>2, <2>3 DEF RelayOK, HookOK, Asking, StandsFor, NoHook
  <2> QED
    BY <2>1, <2>2, <2>4, <2>5, MirrorKept DEF Inv, RelayOK
<1> QED
  BY <1>3, <1>4, <1>5, <1>6, <1>7 DEF Held

\* A request expires; dashboard and daemon go and come back.
LEMMA DashboardStep == ASSUME Inv, Dashboard PROVE Inv'
<1>1. AgentType /\ RelayType /\ RelayOK
  BY DEF Inv
<1>2. ASSUME NEW g \in Gates, Expire(g) PROVE Inv'
  <2>1. /\ file' = [file EXCEPT ![g] = "old"]
        /\ UNCHANGED <<agent, up, log, hook, reply, bound, draft, tap, mirror, faults>>
    BY <1>2 DEF Expire, others, phone
  <2>2. AgentType' /\ RelayType' /\ PhoneType' /\ FaultType' /\ RelayOK'
    BY <1>1, <2>1 DEF Inv, AgentType, RelayType, PhoneType, FaultType, RelayOK, LogOK, HookOK, Asking, StandsFor
  <2> QED
    BY <2>1, <2>2, MirrorKept DEF Inv
<1>3. CASE DashboardDies \/ DashboardStarts
  <2>1. /\ up' \in BOOLEAN /\ hook' \in {hook, [g \in Gates |-> NoHook]}
        /\ UNCHANGED <<agent, log, file, reply, bound, draft, tap, mirror>>
    BY <1>3 DEF DashboardDies, DashboardStarts, rendezvous, phone
  <2>2. FaultType'
    BY <1>3, FaultStep DEF Inv, DashboardDies, DashboardStarts, FaultKinds
  <2>3. /\ hook' \in [Gates -> HookType]
        /\ \A g \in Gates : hook'[g] = hook[g] \/ hook'[g].pc = "none"
    <3>1. NoHook.pc = "none" /\ NoHook \in HookType
      BY Values DEF NoHook
    <3> QED
      BY <1>1, <2>1, <3>1 DEF RelayType
  <2>4. AgentType' /\ RelayType' /\ PhoneType' /\ LogOK'
    BY <1>1, <2>1, <2>3 DEF Inv, AgentType, RelayType, PhoneType, RelayOK, LogOK
  <2>5. \A g \in Gates : HookOK(g)'
    BY <1>1, <2>1, <2>3 DEF RelayOK, HookOK, Asking, StandsFor
  <2> QED
    BY <2>1, <2>2, <2>4, <2>5, MirrorKept DEF Inv, RelayOK
<1>4. CASE DaemonRestarts
  <2>1. /\ log' = [asked |-> {}, over |-> {}]
        /\ UNCHANGED <<agent, up, hook, file, reply, bound, draft, tap, mirror>>
    BY <1>4 DEF DaemonRestarts, rendezvous, phone
  <2>2. FaultType'
    BY <1>4, FaultStep DEF Inv, DaemonRestarts, FaultKinds
  <2>3. log'.asked = {} /\ log'.over = {} /\ log' \in [asked : SUBSET Gates, over : SUBSET Gates]
    BY <2>1
  <2>4. AgentType' /\ RelayType' /\ PhoneType' /\ RelayOK'
    BY <1>1, <2>1, <2>3 DEF Inv, AgentType, RelayType, PhoneType, RelayOK, LogOK, HookOK, Asking, StandsFor
  <2> QED
    BY <2>1, <2>2, <2>4, MirrorKept DEF Inv
<1> QED
  BY <1>2, <1>3, <1>4, HeldStep DEF Dashboard

-----------------------------------------------------------------------------
(* The topic, and the phone.                                               *)

\* Whether there is a topic concerns neither relay nor mirror.
LEMMA TopicStep == ASSUME Inv, Topic PROVE Inv'
<1>1. bound' \in BOOLEAN /\ UNCHANGED <<agent, up, log, hook, file, reply, draft, tap, mirror>>
  BY DEF Topic, Reap, TopicClosed, Provision, unbinds, rendezvous
<1>2. AgentType' /\ RelayType' /\ PhoneType' /\ RelayOK'
  BY <1>1 DEF Inv, AgentType, RelayType, PhoneType, RelayOK, LogOK, HookOK, Asking, StandsFor
<1>3. FaultType'
  BY FaultStep DEF Inv, Topic, Reap, TopicClosed, Provision, FaultKinds
<1> QED
  BY <1>1, <1>2, <1>3, MirrorKept DEF Inv

\* A draft that is whole becomes an answer.
LEMMA AdvanceOK ==
    ASSUME PhoneType, NEW g \in Gates, NEW d \in DraftType, Advance(g, d), bound' = bound
    PROVE  PhoneType'
<1>1. CASE d.final # Questions
  BY <1>1 DEF Advance, PhoneType
<1>2. CASE d.final = Questions
  <2>1. draft' = [draft EXCEPT ![g] = NoDraft]
    BY <1>2 DEF Advance
  <2>2. tap' = IF Whole(d.picks) THEN [gate |-> g, answer |-> d.picks] ELSE IdleTap
    BY <1>2 DEF Advance
  <2>3. Whole(d.picks) => d.picks \in {a \in Answers : AnswerOK(a)}
    BY DEF DraftType, AnswerOK
  <2>4. tap' \in [gate : Gates \cup {NoGate}, answer : {a \in Answers : AnswerOK(a)}]
    BY <2>2, <2>3, Values
  <2> QED
    BY <2>1, <2>4, Values DEF PhoneType
<1> QED
  BY <1>1, <1>2

\* Taps change drafts, and the answer that is handed over.
LEMMA TapsStep == ASSUME Inv, Taps PROVE Inv'
<1>1. PhoneType /\ RelayType
  BY DEF Inv
<1>2. ASSUME PhoneType', UNCHANGED tapped PROVE Inv'
  <2>1. UNCHANGED <<agent, up, log, hook, file, reply, bound, mirror, faults>>
    BY <1>2 DEF tapped, rendezvous
  <2>2. AgentType' /\ RelayType' /\ FaultType' /\ RelayOK'
    BY <2>1 DEF Inv, AgentType, RelayType, FaultType, RelayOK, LogOK, HookOK, Asking, StandsFor
  <2> QED
    BY <1>2, <2>1, <2>2, MirrorKept DEF Inv
<1>3. ASSUME NEW g \in Gates, NEW q \in Questions, NEW o \in Options, Pick(g, q, o) PROVE Inv'
  <2> DEFINE d == draft[g]
  <2>1. d \in DraftType
    BY <1>1 DEF PhoneType
  <2>2. CASE q \in Many
    <3> DEFINE n == IF o \in d.picks[q] THEN d.picks[q] \ {o} ELSE d.picks[q] \cup {o}
               e == [picks |-> [d.picks EXCEPT ![q] = n], final |-> d.final \ {q}]
    <3>1. n \in SUBSET Options
      BY <2>1 DEF DraftType, Answers
    <3>2. draft' = [draft EXCEPT ![g].final = @ \ {q}, ![g].picks[q] = IF o \in @ THEN @ \ {o} ELSE @ \cup {o}]
          /\ tap' = tap /\ bound' = bound
      BY <1>3, <2>2 DEF Pick, tapped
    <3>3. draft' = [draft EXCEPT ![g] = e]
      BY <1>1, <2>1, <3>2 DEF PhoneType, DraftType, Answers
    <3> HIDE DEF n
    <3>4. e \in DraftType
      BY <2>1, <3>1 DEF DraftType, Answers
    <3> HIDE DEF e
    <3>5. PhoneType'
      BY <1>1, <3>2, <3>3, <3>4 DEF PhoneType
    <3> QED
      BY <1>2, <1>3, <3>5 DEF Pick
  <2>3. CASE q \notin Many
    <3> DEFINE e == [picks |-> [d.picks EXCEPT ![q] = {o}], final |-> d.final \cup {q}]
    <3>1. Advance(g, e) /\ bound' = bound
      BY <1>3, <2>3 DEF Pick, tapped
    <3>2. e \in DraftType
      BY <2>1 DEF DraftType, Answers
    <3> HIDE DEF e
    <3> QED
      BY <1>1, <1>2, <1>3, <3>1, <3>2, AdvanceOK DEF Pick
  <2> QED
    BY <2>2, <2>3
<1>4. ASSUME NEW g \in Gates, NEW q \in Questions, Send(g, q) PROVE Inv'
  <2> DEFINE d == draft[g]
             e == [d EXCEPT !.final = @ \cup {q}]
  <2>1. d \in DraftType
    BY <1>1 DEF PhoneType
  <2>2. e \in DraftType
    BY <2>1 DEF DraftType
  <2>3. Advance(g, e) /\ UNCHANGED tapped /\ bound' = bound
    BY <1>4 DEF Send, tapped
  <2> HIDE DEF e
  <2> QED
    BY <1>1, <1>2, <2>2, <2>3, AdvanceOK
<1>5. ASSUME NEW g \in Gates, TooLate(g) PROVE Inv'
  <2>1. PhoneType'
    BY <1>1, <1>5, Values DEF TooLate, tapped, PhoneType
  <2> QED
    BY <1>2, <1>5, <2>1 DEF TooLate
<1>6. CASE Submit
  <2>1. /\ reply' = [reply EXCEPT ![tap.gate] = tap.answer] /\ tap' = IdleTap
        /\ UNCHANGED <<agent, up, log, hook, file, bound, draft, mirror, faults>>
    BY <1>6 DEF Submit
  <2>2. tap.answer \in {a \in Answers : AnswerOK(a)}
    BY <1>1 DEF PhoneType
  <2>3. reply' \in [Gates -> {a \in Answers : AnswerOK(a)}]
    BY <1>1, <2>1, <2>2 DEF RelayType
  <2>4. AgentType' /\ RelayType' /\ PhoneType' /\ FaultType' /\ RelayOK'
    BY <1>1, <2>1, <2>3, Values DEF Inv, AgentType, RelayType, PhoneType, FaultType, RelayOK, LogOK, HookOK, Asking, StandsFor
  <2> QED
    BY <2>1, <2>4, MirrorKept DEF Inv
<1> QED
  BY <1>3, <1>4, <1>5, <1>6 DEF Taps

-----------------------------------------------------------------------------
(* The mirror.                                                             *)

\* One more to delete.
LEMMA OneMore ==
    ASSUME MirrorType, NEW j \in Jobs
    PROVE  /\ Append(queue, j) \in Seq(Jobs)
           /\ DOMAIN Append(queue, j) = DOMAIN queue \cup {Len(queue) + 1} /\ Len(queue) + 1 \notin DOMAIN queue
           /\ \A i \in DOMAIN queue : Append(queue, j)[i] = queue[i]
           /\ Append(queue, j)[Len(queue) + 1] = j
<1>1. queue \in Seq(Jobs)
  BY DEF MirrorType
<1>2. /\ Append(queue, j) \in Seq(Jobs) /\ Len(Append(queue, j)) = Len(queue) + 1
      /\ \A i \in 1..Len(queue) : Append(queue, j)[i] = queue[i]
      /\ Append(queue, j)[Len(queue) + 1] = j
  BY <1>1, AppendProperties
<1>3. /\ DOMAIN queue = 1..Len(queue) /\ Len(queue) \in Nat
      /\ DOMAIN Append(queue, j) = 1..(Len(queue) + 1)
  BY <1>1, <1>2, LenProperties
<1> QED
  BY <1>2, <1>3

\* One less.
LEMMA OneLess ==
    ASSUME MirrorType, queue # <<>>
    PROVE  /\ Head(queue) = queue[1] /\ 1 \in DOMAIN queue /\ queue[1] \in Jobs
           /\ Tail(queue) \in Seq(Jobs)
           /\ \A i \in DOMAIN Tail(queue) : /\ i \in Nat /\ i + 1 \in DOMAIN queue /\ i + 1 # 1
                                            /\ Tail(queue)[i] = queue[i + 1]
           /\ \A i \in DOMAIN queue : i # 1 => i - 1 \in DOMAIN Tail(queue) /\ Tail(queue)[i - 1] = queue[i]
<1>1. queue \in Seq(Jobs)
  BY DEF MirrorType
<1>2. /\ Tail(queue) \in Seq(Jobs) /\ Len(Tail(queue)) = Len(queue) - 1 /\ Head(queue) = queue[1]
      /\ \A i \in 1..Len(Tail(queue)) : Tail(queue)[i] = queue[i + 1]
  BY <1>1, HeadTailProperties
<1>3. /\ DOMAIN queue = 1..Len(queue) /\ Len(queue) \in Nat /\ Len(queue) # 0
      /\ DOMAIN Tail(queue) = 1..(Len(queue) - 1)
      /\ \A i \in 1..Len(queue) : queue[i] \in Jobs
  BY <1>1, <1>2, LenProperties, EmptySeq
<1> QED
  BY <1>2, <1>3

\* Messages that stay who they are and with whom they are.
LEMMA OwnersSame ==
    ASSUME OwnersOK, DOMAIN chat' = DOMAIN chat, track'.id = track.id, UNCHANGED <<queue, hand, lost>>
    PROVE  OwnersOK'
  BY DEF OwnersOK, Live, Waiting, Going

\* The mirror's message is handed to the queue, and a new one may take its place.
LEMMA HandOver ==
    ASSUME MirrorType, OwnersOK, NEW n \in Posts \cup {NoPost}, n \notin DOMAIN chat \cup lost,
           DOMAIN chat' = DOMAIN chat \cup (IF n = NoPost THEN {} ELSE {n}), track'.id = n,
           queue' = Queued(track.id), UNCHANGED <<hand, lost>>
    PROVE  queue' \in Seq(Jobs) /\ OwnersOK'
<1>0. /\ NoPost \notin Posts /\ lost \subseteq Posts /\ DOMAIN chat \subseteq Posts
      /\ \A i \in DOMAIN queue : queue[i].id \in Posts
      /\ \A t \in Threads : hand[t] # NoHand => hand[t] \in Jobs /\ hand[t].id \in Posts
      /\ track.id \in Posts \cup {NoPost} /\ NoHand.id = NoPost
  <2>1. \A i \in DOMAIN queue : queue[i] \in Jobs
    BY LenProperties DEF MirrorType
  <2> QED
    BY <2>1, Values DEF MirrorType, Jobs, NoHand
<1>1. \A p : Live(p)' <=> Live(p) \/ (p = n /\ n # NoPost)
  BY DEF Live
<1>2. \A p : Going(p)' <=> Going(p)
  BY DEF Going
<1>3. \A p \in Posts : Going(p) => \E t \in Threads : hand[t] # NoHand /\ hand[t].id = p
  BY <1>0 DEF Going
<1>4. n # NoPost => ~Live(n) /\ ~Waiting(n) /\ ~Going(n)
  BY <1>0, <1>3 DEF OwnersOK, Live, Waiting
<1>5. CASE track.id = NoPost
  <2>1. queue' = queue
    BY <1>5 DEF Queued
  <2>2. \A p : Waiting(p)' <=> Waiting(p)
    BY <2>1 DEF Waiting
  <2> QED
    BY <1>0, <1>1, <1>2, <1>4, <1>5, <2>1, <2>2 DEF OwnersOK, MirrorType
<1>6. CASE track.id # NoPost
  <2> DEFINE j == [id |-> track.id, tries |-> 0]
             m == Len(queue) + 1
  <2>1. j \in Jobs /\ j.id = track.id
    BY <1>0, <1>6, Values DEF Jobs
  <2>2. queue' = Append(queue, j)
    BY <1>6 DEF Queued
  <2> HIDE DEF j
  <2>3. /\ queue' \in Seq(Jobs) /\ DOMAIN queue' = DOMAIN queue \cup {m} /\ m \notin DOMAIN queue
        /\ \A i \in DOMAIN queue : queue'[i] = queue[i]
        /\ queue'[m] = j
    BY <2>1, <2>2, OneMore
  <2> HIDE DEF m
  <2>4. \A p : Waiting(p)' <=> Waiting(p) \/ p = track.id
    BY <2>1, <2>3 DEF Waiting
  <2>5. Live(track.id) /\ ~Waiting(track.id) /\ ~Going(track.id)
    BY <1>6 DEF OwnersOK
  <2>6. (\A i \in DOMAIN queue : Live(queue[i].id) /\ ~Going(queue[i].id))'
    BY <1>1, <1>2, <2>1, <2>3, <2>5 DEF OwnersOK
  <2>7. (\A i, k \in DOMAIN queue : queue[i].id = queue[k].id => i = k)'
    BY <2>1, <2>3, <2>5 DEF OwnersOK, Waiting
  <2>8. (track.id # NoPost => Live(track.id) /\ ~Waiting(track.id) /\ ~Going(track.id))'
    BY <1>1, <1>2, <1>4, <2>4, <2>5
  <2>9. (\A p \in Posts : Live(p) => track.id = p \/ Waiting(p) \/ Going(p))'
    BY <1>1, <1>2, <2>4 DEF OwnersOK
  <2> QED
    BY <1>1, <2>3, <2>6, <2>7, <2>8, <2>9 DEF OwnersOK
<1> QED
  BY <1>5, <1>6

PollType == [pc : {"idle", "look", "sync", "post"}, force : BOOLEAN, card : Cards]

\* A look at the pane, the log and the file; and what leaves messages alone.
LEMMA LookStep ==
    ASSUME Inv, \/ Capture(FALSE) \/ Capture(TRUE) \/ Look \/ LeaveAsIs \/ EditRefused
                \/ Edit \/ PostRefused \/ Cool
    PROVE  Inv'
<1>1. /\ MirrorType /\ AgentType /\ poll \in PollType /\ poll.card \in Cards /\ IdlePoll \in PollType
      /\ NoCard \in Cards /\ Pending \in Gates \cup {NoGate} /\ agent.gate \in Gates \cup {NoGate}
  BY Values, PendingOK DEF Inv, MirrorType, AgentType, PollType
<1>2. UNCHANGED <<rest, queue, hand, lost>> /\ DOMAIN chat' = DOMAIN chat /\ track'.id = track.id
  <2>1. CASE Edit
    BY <1>1, <2>1 DEF Edit, MirrorType
  <2>2. CASE PostRefused
    BY <1>1, <2>2 DEF PostRefused, MirrorType
  <2> QED
    BY <2>1, <2>2 DEF Capture, Look, LeaveAsIs, EditRefused, Cool
<1>3. FaultType'
  BY FaultStep DEF Inv, Capture, Look, LeaveAsIs, EditRefused, Edit, PostRefused, Cool, FaultKinds
<1>4. poll' \in PollType
  <2>1. ASSUME NEW force \in BOOLEAN, Capture(force) PROVE poll' \in PollType
    <3> DEFINE g == IF agent.pc = "asks" THEN agent.gate ELSE NoGate
               card == [NoCard EXCEPT !.shows = g]
    <3>1. g \in Gates \cup {NoGate} /\ poll' = [pc |-> "look", force |-> force, card |-> card]
      BY <1>1, <2>1 DEF Capture
    <3>2. card \in Cards
      BY <1>1, <3>1 DEF Cards
    <3> QED
      BY <3>1, <3>2 DEF PollType
  <2>2. CASE Look
    <3> DEFINE g == IF poll.card.shows # NoGate /\ Pending # NoGate /\ file[Pending] = "open"
                    THEN Pending ELSE NoGate
               card == [poll.card EXCEPT !.answers = g]
    <3>1. g \in Gates \cup {NoGate} /\ poll' = [poll EXCEPT !.pc = "sync", !.card = card]
      BY <1>1, <2>2 DEF Look, PollType, Cards
    <3>2. card \in Cards
      BY <1>1, <3>1 DEF Cards
    <3> HIDE DEF card
    <3> QED
      BY <1>1, <3>1, <3>2 DEF PollType
  <2>3. CASE LeaveAsIs \/ EditRefused \/ Edit \/ PostRefused \/ Cool
    <3>1. poll' \in {poll, IdlePoll, [poll EXCEPT !.pc = "post"]}
      BY <2>3 DEF LeaveAsIs, EditRefused, Edit, PostRefused, Cool
    <3> QED
      BY <1>1, <3>1 DEF PollType
  <2> QED
    BY <2>1, <2>2, <2>3
<1>5. chat' \in [DOMAIN chat' -> Cards]
  BY <1>1 DEF Capture, Look, LeaveAsIs, EditRefused, Edit, PostRefused, Cool, MirrorType
<1>6. track' \in [id : Posts \cup {NoPost}, card : Cards] /\ pace' \in BOOLEAN
  BY <1>1 DEF Capture, Look, LeaveAsIs, EditRefused, Edit, PostRefused, Cool, MirrorType
<1>7. MirrorType'
  BY <1>1, <1>2, <1>4, <1>5, <1>6 DEF MirrorType, PollType
<1> QED
  BY <1>2, <1>3, <1>7, RelayKept, OwnersSame DEF Inv

\* A message goes with its dialog, or gives way to another.
LEMMA PostStep == ASSUME Inv, Resolve \/ Post PROVE Inv'
<1>1. /\ MirrorType /\ OwnersOK /\ poll.card \in Cards
      /\ NoTrack.id = NoPost /\ NoPost \notin Posts
  BY Values DEF Inv, MirrorType, NoTrack
<1>2. FaultType' /\ UNCHANGED <<rest, hand, lost>> /\ queue' = Queued(track.id) /\ pace' \in BOOLEAN /\ poll' = IdlePoll
  BY DEF Inv, FaultType, Resolve, Post
<1>3. CASE Resolve
  <2>1. chat' = chat /\ track' = NoTrack
    BY <1>3 DEF Resolve
  <2>2. NoPost \notin DOMAIN chat \cup lost /\ DOMAIN chat' = DOMAIN chat \cup {}
    BY <1>1, <2>1 DEF MirrorType
  <2>3. queue' \in Seq(Jobs) /\ OwnersOK'
    BY <1>1, <1>2, <2>1, <2>2, HandOver
  <2>4. MirrorType'
    BY <1>1, <1>2, <2>1, <2>3, Values DEF MirrorType
  <2> QED
    BY <1>2, <2>3, <2>4, RelayKept DEF Inv
<1>4. CASE Post
  <2> DEFINE n == NextPost
  <2>1. n \in Posts /\ n \notin DOMAIN chat \cup lost
    BY <1>4 DEF Post, Room, NextPost
  <2>2. chat' = With(n) /\ track' = [id |-> n, card |-> poll.card]
    BY <1>4 DEF Post
  <2> HIDE DEF n
  <2>3. DOMAIN chat' = DOMAIN chat \cup {n} /\ chat' \in [DOMAIN chat \cup {n} -> Cards] /\ track'.id = n /\ n # NoPost
    BY <1>1, <2>1, <2>2 DEF With, MirrorType
  <2>4. queue' \in Seq(Jobs) /\ OwnersOK'
    BY <1>1, <1>2, <2>1, <2>3, HandOver
  <2>5. MirrorType'
    BY <1>1, <1>2, <2>1, <2>2, <2>3, <2>4, Values DEF MirrorType
  <2> QED
    BY <1>2, <2>4, <2>5, RelayKept DEF Inv
<1> QED
  BY <1>3, <1>4

\* A message nobody knows of.
LEMMA UnknownStep == ASSUME Inv, PostUnknown PROVE Inv'
<1> DEFINE n == NextPost
<1>1. /\ MirrorType /\ OwnersOK /\ poll.card \in Cards /\ NoCard \in Cards
  BY Values DEF Inv, MirrorType
<1>2. n \in Posts /\ n \notin DOMAIN chat \cup lost
  BY DEF PostUnknown, Room, NextPost
<1>3. /\ chat' = With(n) /\ lost' = lost \cup {n} /\ track' = [track EXCEPT !.card = NoCard]
      /\ pace' = TRUE /\ poll' = IdlePoll /\ UNCHANGED <<rest, queue, hand>>
  BY DEF PostUnknown
<1>4. FaultType'
  BY FaultStep DEF Inv, PostUnknown, FaultKinds
<1> HIDE DEF n
<1>5. DOMAIN chat' = DOMAIN chat \cup {n} /\ chat' \in [DOMAIN chat \cup {n} -> Cards] /\ track'.id = track.id
  BY <1>1, <1>2, <1>3 DEF With, MirrorType
<1>6. MirrorType'
  <2>1. track' \in [id : Posts \cup {NoPost}, card : Cards]
    BY <1>1, <1>3 DEF MirrorType
  <2>2. chat' \in [DOMAIN chat' -> Cards] /\ DOMAIN chat' \subseteq Posts /\ lost' \subseteq Posts
    BY <1>1, <1>2, <1>3, <1>5 DEF MirrorType
  <2> QED
    BY <1>1, <1>3, <2>1, <2>2, Values DEF MirrorType
<1>7. \A p : Live(p)' <=> Live(p)
  BY <1>2, <1>3, <1>5 DEF Live
<1>8. OwnersOK'
  BY <1>1, <1>3, <1>5, <1>7 DEF OwnersOK, Waiting, Going
<1> QED
  BY <1>3, <1>4, <1>6, <1>8, RelayKept DEF Inv

\* A bot that forgets everything.
LEMMA BotStep == ASSUME Inv, BotRestarts PROVE Inv'
<1>1. /\ draft' = [g \in Gates |-> NoDraft] /\ tap' = IdleTap /\ lost' = lost \cup DOMAIN chat
      /\ track' = NoTrack /\ pace' = FALSE /\ poll' = IdlePoll
      /\ queue' = <<>> /\ hand' = [t \in Threads |-> NoHand]
      /\ UNCHANGED <<agent, up, log, hook, file, reply, bound, chat>>
  BY DEF BotRestarts, rendezvous
<1>2. FaultType'
  BY FaultStep DEF Inv, BotRestarts, FaultKinds
<1>3. AgentType' /\ RelayType' /\ PhoneType' /\ RelayOK'
  BY <1>1, Values DEF Inv, AgentType, RelayType, PhoneType, RelayOK, LogOK, HookOK, Asking, StandsFor
<1>4. MirrorType'
  <2>1. <<>> \in Seq(Jobs) /\ [t \in Threads |-> NoHand] \in [Threads -> Jobs \cup {NoHand}]
    OBVIOUS
  <2> QED
    BY <1>1, <2>1, Values DEF Inv, MirrorType
<1>5. /\ \A p : ~Live(p)'
      /\ track'.id = NoPost /\ DOMAIN queue' = {} /\ \A t \in Threads : hand'[t] = NoHand
  BY <1>1 DEF Live, NoTrack
<1>6. OwnersOK'
  BY <1>5 DEF OwnersOK
<1> QED
  BY <1>2, <1>3, <1>4, <1>6 DEF Inv

-----------------------------------------------------------------------------
(* Deletion.                                                               *)

\* Whom jobs are for.
LEMMA JobsOK ==
    ASSUME MirrorType
    PROVE  /\ \A i \in DOMAIN queue : queue[i] \in Jobs /\ queue[i].id \in Posts
           /\ \A t \in Threads : hand[t] # NoHand => hand[t] \in Jobs /\ hand[t].id \in Posts
           /\ NoHand.id \notin Posts /\ NoHand \notin Jobs
           /\ track.id \in Posts \cup {NoPost} /\ NoPost \notin Posts
<1>1. \A i \in DOMAIN queue : queue[i] \in Jobs
  BY LenProperties DEF MirrorType
<1>2. NoHand.id \notin Posts
  BY Values DEF NoHand
<1>3. NoHand \notin Jobs
  BY <1>2 DEF Jobs
<1> QED
  BY <1>1, <1>2, <1>3, Values DEF MirrorType, Jobs

\* A thread takes a job.
LEMMA DrainStep == ASSUME Inv, NEW t \in Threads, Drain(t) PROVE Inv'
<1>1. /\ MirrorType /\ OwnersOK
      /\ hand[t] = NoHand /\ queue # <<>> /\ hand' = [hand EXCEPT ![t] = Head(queue)] /\ queue' = Tail(queue)
      /\ UNCHANGED <<rest, chat, track, pace, poll, lost, faults>>
  BY DEF Inv, Drain
<1> DEFINE q == Tail(queue)
<1>2. /\ Head(queue) = queue[1] /\ 1 \in DOMAIN queue /\ queue[1] \in Jobs
      /\ q \in Seq(Jobs)
      /\ \A i \in DOMAIN q : /\ i \in Nat /\ i + 1 \in DOMAIN queue /\ i + 1 # 1
                             /\ q[i] = queue[i + 1]
      /\ \A i \in DOMAIN queue : i # 1 => i - 1 \in DOMAIN q /\ q[i - 1] = queue[i]
  BY <1>1, OneLess
<1>3. queue' = q
  BY <1>1
<1> HIDE DEF q
<1> DEFINE a == queue[1].id
<1>4. /\ a \in Posts /\ Live(a) /\ ~Going(a) /\ \A i \in DOMAIN queue : i # 1 => queue[i].id # a
  BY <1>1, <1>2, JobsOK DEF OwnersOK
<1>5. /\ hand' \in [Threads -> Jobs \cup {NoHand}] /\ hand'[t] = queue[1] /\ hand'[t].id = a
      /\ \A u \in Threads \ {t} : hand'[u] = hand[u]
  BY <1>1, <1>2 DEF MirrorType
<1>6. \A p \in Posts : Going(p)' <=> Going(p) \/ p = a
  BY <1>1, <1>5, JobsOK DEF Going
<1>7. \A p \in Posts : Waiting(p)' => Waiting(p) /\ p # a
  BY <1>2, <1>3, <1>4 DEF Waiting
<1>8. \A p \in Posts : Waiting(p) /\ p # a => Waiting(p)'
  <2> SUFFICES ASSUME NEW p \in Posts, Waiting(p), p # a PROVE Waiting(p)'
    OBVIOUS
  <2>1. PICK i \in DOMAIN queue : queue[i].id = p
    BY DEF Waiting
  <2>2. i - 1 \in DOMAIN q /\ q[i - 1] = queue[i]
    BY <1>2, <2>1
  <2>3. i - 1 \in DOMAIN queue' /\ queue'[i - 1].id = p
    BY <1>3, <2>1, <2>2
  <2> QED
    BY <2>3 DEF Waiting
<1>9. \A p : Live(p)' <=> Live(p)
  BY <1>1 DEF Live
<1>10. (track.id # NoPost => Live(track.id) /\ ~Waiting(track.id) /\ ~Going(track.id))'
  <2>1. track.id # NoPost => track.id \in Posts /\ track.id # a
    BY <1>1, <1>2, JobsOK DEF OwnersOK, Waiting
  <2> QED
    BY <1>1, <1>6, <1>7, <1>9, <2>1 DEF OwnersOK
<1>11. (\A i \in DOMAIN queue : Live(queue[i].id) /\ ~Going(queue[i].id))'
  <2> SUFFICES ASSUME NEW i \in DOMAIN queue' PROVE (Live(queue[i].id) /\ ~Going(queue[i].id))'
    OBVIOUS
  <2>1. i \in DOMAIN q /\ queue'[i] = q[i]
    BY <1>3
  <2>2. i + 1 \in DOMAIN queue /\ i + 1 # 1 /\ q[i] = queue[i + 1]
    BY <1>2, <2>1
  <2>3. PICK b \in Posts : b = queue'[i].id
    BY <1>1, <2>1, <2>2, JobsOK
  <2>4. b # a /\ Live(b) /\ ~Going(b)
    BY <1>1, <1>4, <2>1, <2>2, <2>3 DEF OwnersOK
  <2>5. Live(b)' /\ ~Going(b)'
    BY <1>6, <1>9, <2>4
  <2> QED
    BY <2>3, <2>5 DEF Live, Going
<1>12. (\A i, k \in DOMAIN queue : queue[i].id = queue[k].id => i = k)'
  <2> SUFFICES ASSUME NEW i \in DOMAIN q, NEW k \in DOMAIN q, q[i].id = q[k].id PROVE i = k
    BY <1>3
  <2>1. i \in Nat /\ k \in Nat /\ i + 1 \in DOMAIN queue /\ k + 1 \in DOMAIN queue
        /\ queue[i + 1].id = queue[k + 1].id
    BY <1>2
  <2>2. i + 1 = k + 1
    BY <1>1, <2>1 DEF OwnersOK
  <2> QED
    BY <2>1, <2>2
<1>13. (\A u \in Threads : hand[u] # NoHand => Live(hand[u].id))'
  BY <1>1, <1>4, <1>5, <1>9 DEF OwnersOK
<1>14. (\A u, v \in Threads : hand[u] # NoHand /\ hand[u].id = hand[v].id => u = v)'
  BY <1>1, <1>4, <1>5 DEF OwnersOK, Going
<1>15. (\A p \in Posts : Live(p) => track.id = p \/ Waiting(p) \/ Going(p))'
  BY <1>1, <1>6, <1>8, <1>9 DEF OwnersOK
<1>16. OwnersOK'
  BY <1>10, <1>11, <1>12, <1>13, <1>14, <1>15 DEF OwnersOK
<1>17. MirrorType' /\ FaultType'
  BY <1>1, <1>2, <1>3, <1>5 DEF Inv, MirrorType, FaultType
<1> QED
  BY <1>1, <1>16, <1>17, RelayKept DEF Inv

\* A thread that is done with a message: which goes, is queued again, or is given up.
LEMMA Released ==
    ASSUME MirrorType, OwnersOK, NEW t \in Threads, hand[t] # NoHand, hand' = [hand EXCEPT ![t] = NoHand]
    PROVE  /\ hand[t] \in Jobs /\ hand[t].id \in Posts /\ Live(hand[t].id) /\ Going(hand[t].id)
           /\ ~Waiting(hand[t].id) /\ track.id # hand[t].id
           /\ hand' \in [Threads -> Jobs \cup {NoHand}]
           /\ hand'[t] = NoHand /\ \A u \in Threads \ {t} : hand'[u] = hand[u]
           /\ \A p \in Posts : Going(p)' <=> Going(p) /\ p # hand[t].id
<1>1. /\ hand[t] \in Jobs /\ hand[t].id \in Posts /\ Live(hand[t].id) /\ Going(hand[t].id)
  BY JobsOK DEF OwnersOK, Going
<1>2. ~Waiting(hand[t].id) /\ track.id # hand[t].id
  BY <1>1, JobsOK DEF OwnersOK, Waiting
<1>3. /\ hand' \in [Threads -> Jobs \cup {NoHand}]
      /\ hand'[t] = NoHand /\ \A u \in Threads \ {t} : hand'[u] = hand[u]
  BY DEF MirrorType
<1>4. \A p \in Posts : Going(p)' <=> Going(p) /\ p # hand[t].id
  BY <1>3, JobsOK DEF Going, OwnersOK
<1> QED
  BY <1>1, <1>2, <1>3, <1>4

\* A deletion that Telegram takes, refuses, or refuses once too often.
LEMMA DeleteStep == ASSUME Inv, NEW t \in Threads, Delete(t) \/ DeleteRefused(t) PROVE Inv'
<1> DEFINE a == hand[t].id
           again == [hand[t] EXCEPT !.tries = @ + 1]
<1>1. /\ MirrorType /\ OwnersOK /\ hand[t] # NoHand /\ hand' = [hand EXCEPT ![t] = NoHand]
      /\ UNCHANGED <<rest, track, pace, poll>>
  BY DEF Inv, Delete, DeleteRefused
<1>2. /\ hand[t] \in Jobs /\ a \in Posts /\ Live(a) /\ Going(a)
      /\ ~Waiting(a) /\ track.id # a
      /\ hand' \in [Threads -> Jobs \cup {NoHand}]
      /\ hand'[t] = NoHand /\ \A u \in Threads \ {t} : hand'[u] = hand[u]
      /\ \A p \in Posts : Going(p)' <=> Going(p) /\ p # a
  BY <1>1, Released
<1>3. FaultType'
  BY FaultStep DEF Inv, Delete, DeleteRefused, FaultKinds
<1>4. /\ \A i \in DOMAIN queue : queue[i] \in Jobs /\ queue[i].id \in Posts /\ queue[i].id # a
      /\ track.id \in Posts \cup {NoPost} /\ NoPost \notin Posts
      /\ \A u \in Threads : hand[u] # NoHand => hand[u].id \in Posts
      /\ \A u \in Threads \ {t} : hand[u] # NoHand => hand[u].id # a
  BY <1>1, <1>2, JobsOK DEF Waiting, OwnersOK
\* What is neither live nor handed on.
<1>5. ASSUME queue' = queue, \A p : Live(p)' <=> Live(p) /\ p # a
      PROVE  OwnersOK'
  <2>1. \A p : Waiting(p)' <=> Waiting(p)
    BY <1>5 DEF Waiting
  <2>2. (track.id # NoPost => Live(track.id) /\ ~Waiting(track.id) /\ ~Going(track.id))'
    BY <1>1, <1>2, <1>4, <1>5, <2>1 DEF OwnersOK
  <2>3. (\A i \in DOMAIN queue : Live(queue[i].id) /\ ~Going(queue[i].id))'
    BY <1>1, <1>2, <1>4, <1>5 DEF OwnersOK
  <2>4. (\A u \in Threads : hand[u] # NoHand => Live(hand[u].id))'
    BY <1>1, <1>2, <1>4, <1>5 DEF OwnersOK
  <2>5. (\A u, v \in Threads : hand[u] # NoHand /\ hand[u].id = hand[v].id => u = v)'
    BY <1>1, <1>2, JobsOK DEF OwnersOK
  <2>6. (\A p \in Posts : Live(p) => track.id = p \/ Waiting(p) \/ Going(p))'
    BY <1>1, <1>2, <1>5, <2>1 DEF OwnersOK
  <2> QED
    BY <1>1, <1>5, <2>2, <2>3, <2>4, <2>5, <2>6 DEF OwnersOK
<1>6. CASE Delete(t)
  <2>1. /\ chat' = [p \in DOMAIN chat \ {a} |-> chat[p]] /\ queue' = queue /\ lost' = lost
    BY <1>6 DEF Delete
  <2>2. DOMAIN chat' = DOMAIN chat \ {a} /\ chat' \in [DOMAIN chat \ {a} -> Cards]
    BY <1>1, <2>1 DEF MirrorType
  <2>3. \A p : Live(p)' <=> Live(p) /\ p # a
    BY <2>1, <2>2 DEF Live
  <2>4. MirrorType'
    BY <1>1, <1>2, <2>1, <2>2 DEF MirrorType
  <2> QED
    BY <1>1, <1>3, <1>5, <2>1, <2>3, <2>4, RelayKept DEF Inv
<1>7. CASE DeleteRefused(t) /\ again.tries < MaxTries
  <2>1. /\ queue' = Append(queue, again) /\ lost' = lost /\ chat' = chat
    BY <1>7 DEF DeleteRefused
  <2>2. again \in Jobs /\ again.id = a
    BY <1>2, <1>7, Values DEF Jobs
  <2> DEFINE j == again
             m == Len(queue) + 1
  <2> HIDE DEF j, m
  <2>3. /\ queue' \in Seq(Jobs) /\ DOMAIN queue' = DOMAIN queue \cup {m} /\ m \notin DOMAIN queue
        /\ \A i \in DOMAIN queue : queue'[i] = queue[i]
        /\ queue'[m].id = a
    <3>1. j \in Jobs /\ j.id = a /\ queue' = Append(queue, j)
      BY <2>1, <2>2 DEF j
    <3> QED
      BY <1>1, <3>1, OneMore DEF m
  <2>4. \A p : Waiting(p)' <=> Waiting(p) \/ p = a
    BY <2>3 DEF Waiting
  <2>5. \A p : Live(p)' <=> Live(p)
    BY <2>1 DEF Live
  <2>6. (track.id # NoPost => Live(track.id) /\ ~Waiting(track.id) /\ ~Going(track.id))'
    BY <1>1, <1>2, <1>4, <2>4, <2>5 DEF OwnersOK
  <2>7. (\A i \in DOMAIN queue : Live(queue[i].id) /\ ~Going(queue[i].id))'
    BY <1>1, <1>2, <1>4, <2>3, <2>5 DEF OwnersOK
  <2>8. (\A i, k \in DOMAIN queue : queue[i].id = queue[k].id => i = k)'
    BY <1>1, <1>4, <2>3 DEF OwnersOK
  <2>9. (\A u \in Threads : hand[u] # NoHand => Live(hand[u].id))'
    BY <1>1, <1>2, <2>5 DEF OwnersOK
  <2>10. (\A u, v \in Threads : hand[u] # NoHand /\ hand[u].id = hand[v].id => u = v)'
    BY <1>1, <1>2, JobsOK DEF OwnersOK
  <2>11. (\A p \in Posts : Live(p) => track.id = p \/ Waiting(p) \/ Going(p))'
    BY <1>1, <1>2, <2>4, <2>5 DEF OwnersOK
  <2>12. OwnersOK'
    BY <2>6, <2>7, <2>8, <2>9, <2>10, <2>11 DEF OwnersOK
  <2>13. MirrorType'
    BY <1>1, <1>2, <2>1, <2>3 DEF MirrorType
  <2> QED
    BY <1>1, <1>3, <2>12, <2>13, RelayKept DEF Inv
<1>8. CASE DeleteRefused(t) /\ ~(again.tries < MaxTries)
  <2>1. again.id = a
    BY <1>2 DEF Jobs
  <2>2. lost' = lost \cup {a} /\ queue' = queue /\ chat' = chat
    BY <1>8, <2>1 DEF DeleteRefused
  <2>3. \A p : Live(p)' <=> Live(p) /\ p # a
    BY <2>2 DEF Live
  <2>4. MirrorType'
    BY <1>1, <1>2, <2>2 DEF MirrorType
  <2> QED
    BY <1>1, <1>3, <1>5, <2>2, <2>3, <2>4, RelayKept DEF Inv
<1> QED
  BY <1>6, <1>7, <1>8

-----------------------------------------------------------------------------
(* The invariant holds.                                                    *)

LEMMA InitInv == ASSUME Init PROVE Inv
<1>1. /\ \E text \in [Gates -> Texts] :
            agent = [pc |-> "works", gate |-> NoGate, text |-> text,
                     by |-> [g \in Gates |-> "none"], unheard |-> {}]
      /\ up = TRUE /\ log = [asked |-> {}, over |-> {}]
      /\ hook = [g \in Gates |-> NoHook] /\ file = [g \in Gates |-> "none"]
      /\ reply = [g \in Gates |-> NoAnswer]
      /\ bound \in BOOLEAN
      /\ draft = [g \in Gates |-> NoDraft] /\ tap = IdleTap
      /\ chat = [p \in {} |-> NoCard] /\ track = NoTrack /\ pace = FALSE
      /\ poll = IdlePoll /\ queue = <<>> /\ hand = [t \in Threads |-> NoHand] /\ lost = {}
      /\ faults = 0
  BY DEF Init
<1>2. AgentType /\ RelayType /\ PhoneType /\ FaultType
  BY <1>1, Values DEF AgentType, RelayType, PhoneType, FaultType
<1>3. RelayOK
  BY <1>1 DEF RelayOK, LogOK, HookOK, NoHook
<1>4. MirrorType
  <2>1. <<>> \in Seq(Jobs) /\ [t \in Threads |-> NoHand] \in [Threads -> Jobs \cup {NoHand}]
    OBVIOUS
  <2>2. DOMAIN chat = {} /\ chat \in [DOMAIN chat -> Cards]
    BY <1>1
  <2> QED
    BY <1>1, <2>1, <2>2, Values DEF MirrorType
<1>5. /\ \A p : ~Live(p)
      /\ track.id = NoPost /\ DOMAIN queue = {} /\ \A t \in Threads : hand[t] = NoHand
  BY <1>1 DEF Live, NoTrack
<1>6. OwnersOK
  BY <1>5 DEF OwnersOK
<1> QED
  BY <1>2, <1>3, <1>4, <1>6 DEF Inv

LEMMA NextInv == ASSUME Inv, [Next]_vars PROVE Inv'
<1>1. CASE Agent
  BY <1>1, AgentStep
<1>2. CASE Dashboard
  BY <1>2, DashboardStep
<1>3. CASE Topic
  BY <1>3, TopicStep
<1>4. CASE Taps
  BY <1>4, TapsStep
<1>5. CASE Mirror
  BY <1>5, LookStep, PostStep, UnknownStep, DrainStep, DeleteStep, BotStep DEF Mirror, Reconcile
<1>6. CASE UNCHANGED vars
  <2>1. UNCHANGED <<rest, mirror, faults>>
    BY <1>6 DEF vars, rest, mirror, rendezvous, phone
  <2> QED
    BY <2>1, RelayKept, MirrorKept DEF Inv, FaultType
<1> QED
  BY <1>1, <1>2, <1>3, <1>4, <1>5, <1>6 DEF Next

LEMMA InvHolds == Spec => []Inv
<1>1. Init => Inv
  BY InitInv
<1>2. Inv /\ [Next]_vars => Inv'
  BY NextInv
<1> QED
  BY <1>1, <1>2, PTL DEF Spec

-----------------------------------------------------------------------------
(* The theorems.                                                           *)

\* Agent, dashboard, phone and mirror keep their types; an answer that was
\* handed over is whole (validate_answers), and no deletion is tried more often
\* than _MAX_POOF_TRIES.
THEOREM TypeCorrect == Spec => []TypeOK
<1>1. Inv => TypeOK
  <2> SUFFICES ASSUME Inv PROVE TypeOK
    OBVIOUS
  <2>1. AgentType /\ RelayType /\ PhoneType /\ MirrorType /\ FaultType
    BY DEF Inv
  <2>2. hook \in [Gates -> [pc : HookPcs, gate : Gates \cup {NoGate}, answer : Answers, late : BOOLEAN]]
    BY <2>1 DEF RelayType, HookType
  <2>3. Range(chat) \subseteq Cards
    BY <2>1 DEF MirrorType, Range
  <2>4. Range(queue) \cup Range(hand) \subseteq [id : Posts \cup {NoPost}, tries : 0..MaxTries-1]
    <3>1. \A i \in DOMAIN queue : queue[i] \in Jobs
      BY <2>1, JobsOK
    <3>2. \A t \in DOMAIN hand : hand[t] \in Jobs \cup {NoHand}
      BY <2>1 DEF MirrorType
    <3>3. Jobs \cup {NoHand} \subseteq [id : Posts \cup {NoPost}, tries : 0..MaxTries-1]
      BY Values DEF Jobs, NoHand
    <3> QED
      BY <3>1, <3>2, <3>3 DEF Range
  <2>5. reply \in [Gates -> {a \in Answers : a = NoAnswer \/ Whole(a)}] /\ tap \in [gate : Gates \cup {NoGate}, answer : Answers]
    BY <2>1 DEF RelayType, PhoneType, AnswerOK
  <2> QED
    BY <2>1, <2>2, <2>3, <2>4, <2>5
       DEF TypeOK, AgentType, RelayType, PhoneType, MirrorType, FaultType, HookPcs, DraftType
<1> QED
  BY <1>1, InvHolds, PTL

\* The decision that answers a question was tapped for this question, or, if
\* nobody heard its PreToolUse, for an earlier one that says the same; although
\* the held request looks its gate up by window, in a log that loses and forgets.
THEOREM AnswersAreForGate == Spec => []AnswerIsForGate
<1>1. Inv => AnswerIsForGate
  <2> SUFFICES ASSUME Inv, NEW g \in Gates, hook[g].pc = "decides", Asking(g)
               PROVE  StandsFor(hook[g].gate, g) /\ Whole(hook[g].answer)
    BY DEF AnswerIsForGate
  <2>1. HookOK(g) /\ hook[g] \in HookType
    BY DEF Inv, RelayOK, RelayType
  <2> QED
    BY <2>1 DEF HookOK, HookType, AnswerOK
<1> QED
  BY <1>1, InvHolds, PTL

\* A message whose buttons are live has exactly one owner: the mirror, the queue
\* of deletions or one thread (_sync, _drain_poofs).
THEOREM NoOrphans == Spec => []NoOrphan
<1>1. Inv => NoOrphan
  <2> SUFFICES ASSUME Inv, NEW p \in DOMAIN chat \ lost
               PROVE  Deleted(p) + (IF track.id = p THEN 1 ELSE 0) = 1
    BY DEF NoOrphan
  <2> DEFINE Q == {i \in DOMAIN queue : queue[i].id = p}
             H == {t \in Threads : hand[t].id = p}
  <2>1. MirrorType /\ OwnersOK /\ Live(p) /\ p \in Posts /\ p # NoPost
    BY Values DEF Inv, MirrorType, Live
  <2>2. /\ (Waiting(p) /\ ~Going(p) /\ track.id # p) \/ (~Waiting(p) /\ Going(p) /\ track.id # p)
           \/ (~Waiting(p) /\ ~Going(p) /\ track.id = p)
    BY <2>1 DEF OwnersOK, Waiting
  <2>3. Waiting(p) => Cardinality(Q) = 1
    <3> SUFFICES ASSUME Waiting(p) PROVE Cardinality(Q) = 1
      OBVIOUS
    <3>1. PICK i \in DOMAIN queue : queue[i].id = p
      BY DEF Waiting
    <3>2. Q = {i}
      BY <2>1, <3>1 DEF OwnersOK
    <3> QED
      BY <3>2, FS_Singleton
  <2>4. Going(p) => Cardinality(H) = 1
    <3> SUFFICES ASSUME Going(p) PROVE Cardinality(H) = 1
      OBVIOUS
    <3>1. PICK t \in Threads : hand[t].id = p
      BY DEF Going
    <3>2. hand[t] # NoHand
      BY <2>1, <3>1, JobsOK
    <3>3. H = {t}
      BY <2>1, <3>1, <3>2 DEF OwnersOK
    <3> QED
      BY <3>3, FS_Singleton
  <2>5. ~Waiting(p) => Cardinality(Q) = 0
    <3>1. ~Waiting(p) => Q = {}
      BY DEF Waiting
    <3> QED
      BY <3>1, FS_EmptySet
  <2>6. ~Going(p) => Cardinality(H) = 0
    <3>1. ~Going(p) => H = {}
      BY DEF Going
    <3> QED
      BY <3>1, FS_EmptySet
  <2>7. Deleted(p) = Cardinality(Q) + Cardinality(H)
    BY DEF Deleted
  <2> HIDE DEF Q, H
  <2> QED
    BY <2>2, <2>3, <2>4, <2>5, <2>6, <2>7
<1> QED
  BY <1>1, InvHolds, PTL

=============================================================================
