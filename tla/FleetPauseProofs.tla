--------------------------- MODULE FleetPauseProofs ---------------------------
(***************************************************************************)
(* Theorems about FleetPause, for any tasks, hands and bounds, with any    *)
(* number of hands that resume and one that pauses.                        *)
(*                                                                         *)
(* That a stopped judge is on record is not inductive.  A resume that has  *)
(* looked at a ledger drops its record at the end whatever the ledger says *)
(* then, so an open freeze must be on a record that is not being dropped   *)
(* (Keepers); and a pause writes the file over the one it read, so what    *)
(* the file names must be in the pause being composed (Composed).          *)
(***************************************************************************)
EXTENDS FleetPause, TLAPS

(* Two pauses at once overwrite one another's file. *)
OnePauser == \A g, h \in Pausers : g = h

Composing == {"tell", "freeze", "record", "stop"}
Freezing == {"freeze", "record", "stop"}
Thawing == {"thaw", "close", "cont"}

(* What a row and its ledger say of the rounds. *)
RowOK(t) ==
    /\ ledger[t].round <= run[t].round
    /\ run[t].round = 0 => ~run[t].judging /\ run[t].judge = "none"
    /\ run[t].paused => run[t].window # 0
    /\ run[t].window # 0 => run[t].status = "active"

(* A process has a pause in hand while it composes or undoes one. *)
PlaceOK(p) ==
    /\ hand[p].pc \in Composing => p \in Pausers
    /\ hand[p].pc = "read" => p \in Pausers \cup {Daemon}
    /\ hand[p].pc \notin Composing \cup Thawing => hand[p].st = Blank

(* The rounds a pause has yet to stop are on no record of its own, and none is later
   than the row's. *)
FreezeOK(p) ==
    hand[p].pc \in Freezing =>
        /\ \A x \in hand[p].todo : hand[p].st.judges[x[1]] = 0 /\ x[2] <= run[x[1]].round
        /\ \A x, y \in hand[p].todo : x[1] = y[1] => x = y
        /\ hand[p].pc # "freeze" =>
              \E t \in Tasks, r, s \in Windows :
                 /\ hand[p].at = <<t, r, s>> /\ r <= s /\ s <= run[t].round
                 /\ hand[p].st.judges[t] = 0
                 /\ \A x \in hand[p].todo : x[1] # t

(* The judges a resume has on record are those it has yet to thaw. *)
ThawOK(p) ==
    hand[p].pc \in Thawing =>
        /\ \A x \in hand[p].todo : x[2] = hand[p].st.judges[x[1]]
        /\ hand[p].pc = "thaw" =>
              \A t \in Tasks : hand[p].st.judges[t] # 0 => <<t, hand[p].st.judges[t]>> \in hand[p].todo
        /\ hand[p].pc # "thaw" =>
              \E t \in Tasks :
                 /\ hand[p].at = <<t, hand[p].st.judges[t]>>
                 /\ hand[p].pc = "close" => hand[p].rec.round <= run[t].round
                 /\ \A x \in hand[p].todo : x[1] # t
                 /\ \A u \in Tasks \ {t} : hand[p].st.judges[u] # 0 => <<u, hand[p].st.judges[u]>> \in hand[p].todo

(* What the file names is in the pause that will replace it. *)
Composed(p) ==
    hand[p].pc \in Composing /\ file # NoFile =>
        \A t \in Tasks : /\ file.agents[t] # "no" => hand[p].st.agents[t] # "no"
                         /\ file.judges[t] # 0 => hand[p].st.judges[t] = file.judges[t]

(* A resume that will not close t's freeze any more. *)
Dropping(p, t) ==
    \E r \in Windows : /\ hand[p].at = <<t, r>>
                       /\ At(p, "cont") \/ (At(p, "close") /\ hand[p].rec.last # "open")
Keepers(t) == {p \in Procs : ~Dropping(p, t)}

(* The round of t's judge is on record: a file's, or that of a process in S. *)
OnRecord(t, S) ==
    \/ file # NoFile /\ file.judges[t] = run[t].round
    \/ kept # NoFile /\ kept.judges[t] = run[t].round /\ \E p \in Procs : At(p, "claimed")
    \/ \E p \in S : hand[p].st.judges[t] = run[t].round
    \/ \E p \in Procs : At(p, "stop") /\ hand[p].at = <<t, run[t].round, run[t].round>>

JudgeOK(t) ==
    t \in orphans \/ /\ run[t].judge = "stopped" => OnRecord(t, Procs)
                     /\ Frozen(t) => OnRecord(t, Keepers(t))

(* t's agent is on record. *)
Noted(t) ==
    \/ file # NoFile /\ file.agents[t] # "no"
    \/ kept # NoFile /\ kept.agents[t] # "no" /\ \E p \in Procs : At(p, "claimed")
    \/ \E p \in Procs : hand[p].st.agents[t] # "no"
    \/ \E p \in Procs : At(p, "say") /\ <<t, run[t].window>> \in hand[p].todo

AgentOK(t) == t \in orphans \/ t \in unheard \/ (run[t].paused => Noted(t))

Local(p) == PlaceOK(p) /\ FreezeOK(p) /\ ThawOK(p)
LocalInv == TypeOK /\ (\A t \in Tasks : RowOK(t)) /\ \A p \in Procs : Local(p)
Inv == LocalInv /\ (\A p \in Procs : Composed(p)) /\ \A t \in Tasks : JudgeOK(t) /\ AgentOK(t)

-----------------------------------------------------------------------------
(* Local steps.                                                            *)

\* The values a process starts from are of their types.
LEMMA Values ==
    /\ Windows \subseteq Nat /\ 0 \in Windows /\ Daemon \in Procs /\ Hands \subseteq Procs
    /\ Pausers \subseteq Procs /\ Daemon \notin Pausers
    /\ Blank \in Pauses /\ NoLedger \in Ledgers
    /\ \A t \in Tasks : Blank.judges[t] = 0 /\ Blank.agents[t] = "no"
    /\ \A p \in Procs : Idle(p) \in Hand
<1>1. Windows \subseteq Nat /\ 0 \in Windows
  BY BoundAssumption DEF Windows
<1>2. Blank \in Pauses /\ NoLedger \in Ledgers
  BY <1>1 DEF Blank, Pauses, Told, NoLedger, Ledgers
<1>3. \A p \in Procs : Idle(p) \in Hand
  BY <1>2 DEF Idle, Hand
<1> QED
  BY <1>1, <1>2, <1>3, ProcAssumption DEF Blank, Procs

\* A pause that has a task in it is not the absence of one.
LEMMA FileType ==
    ASSUME TypeOK, NEW t \in Tasks
    PROVE  /\ file # NoFile => file \in Pauses
           /\ kept # NoFile => kept \in Pauses
           /\ NoFile \notin Pauses
<1>1. DOMAIN NoFile.agents = {}
  BY DEF NoFile
<1> QED
  BY <1>1 DEF TypeOK, Pauses

\* A process that does not move keeps what it has in hand, as no round goes back.
LEMMA Undisturbed ==
    ASSUME LocalInv, NEW q \in Procs, hand'[q] = hand[q],
           run' \in [Tasks -> Runs], \A t \in Tasks : run[t].round <= run'[t].round
    PROVE  Local(q)'
<1>1. /\ hand'[q] = hand[q] /\ Local(q) /\ hand[q] \in Hand
      /\ \A t \in Tasks : run[t] \in Runs /\ run'[t] \in Runs
  BY DEF LocalInv, TypeOK
<1>2. PlaceOK(q)'
  BY <1>1 DEF Local, PlaceOK
<1>3. \A t \in Tasks : run[t].round \in Nat /\ run'[t].round \in Nat
  BY <1>1, Values DEF Runs
<1>4. \A x \in hand[q].todo : x[1] \in Tasks /\ x[2] \in Nat
  BY <1>1, Values DEF Hand
<1>5. FreezeOK(q)'
  <2> SUFFICES ASSUME hand[q].pc \in Freezing PROVE FreezeOK(q)'
    BY <1>1 DEF FreezeOK
  <2>1. FreezeOK(q)
    BY <1>1 DEF Local
  <2>2. \A x \in hand[q].todo : hand[q].st.judges[x[1]] = 0 /\ x[2] <= run'[x[1]].round
    BY <2>1, <1>3, <1>4 DEF FreezeOK
  <2>3. hand[q].pc # "freeze" =>
          \E t \in Tasks, r, s \in Windows :
             /\ hand[q].at = <<t, r, s>> /\ r <= s /\ s <= run'[t].round
             /\ hand[q].st.judges[t] = 0
             /\ \A x \in hand[q].todo : x[1] # t
    BY <2>1, <1>3, Values DEF FreezeOK
  <2> QED
    BY <2>1, <2>2, <2>3, <1>1 DEF FreezeOK
<1>6. ThawOK(q)'
  <2> SUFFICES ASSUME hand[q].pc \in Thawing PROVE ThawOK(q)'
    BY <1>1 DEF ThawOK
  <2>1. ThawOK(q)
    BY <1>1 DEF Local
  <2>2. hand[q].rec.round \in Nat
    BY <1>1, Values DEF Hand, Ledgers
  <2>3. hand[q].pc # "thaw" =>
          \E t \in Tasks :
             /\ hand[q].at = <<t, hand[q].st.judges[t]>>
             /\ hand[q].pc = "close" => hand[q].rec.round <= run'[t].round
             /\ \A x \in hand[q].todo : x[1] # t
             /\ \A u \in Tasks \ {t} :
                   hand[q].st.judges[u] # 0 => <<u, hand[q].st.judges[u]>> \in hand[q].todo
    BY <2>1, <2>2, <1>3 DEF ThawOK
  <2> QED
    BY <2>1, <2>3, <1>1 DEF ThawOK
<1> QED
  BY <1>2, <1>5, <1>6 DEF Local

\* One process moves.
LEMMA ProcMoves ==
    ASSUME LocalInv, NEW p \in Procs,
           run' \in [Tasks -> Runs], \A t \in Tasks : run[t].round <= run'[t].round,
           hand' \in [Procs -> Hand], \A q \in Procs \ {p} : hand'[q] = hand[q],
           Local(p)'
    PROVE  \A q \in Procs : Local(q)'
  BY Undisturbed

\* A process with nothing in hand is at rest wherever it is.
LEMMA AtRest ==
    ASSUME NEW p \in Procs, hand'[p].pc \notin Composing \cup Thawing, hand'[p].st = Blank,
           hand'[p].pc = "read" => p \in Pausers \cup {Daemon}
    PROVE  Local(p)'
  BY DEF Local, PlaceOK, FreezeOK, ThawOK, Composing, Freezing, Thawing

\* What RowOK looks at, but for paused.
SameRow(t) ==
    /\ run'[t].round = run[t].round /\ run'[t].judging = run[t].judging
    /\ run'[t].judge = run[t].judge /\ run'[t].window = run[t].window
    /\ run'[t].status = run[t].status /\ ledger'[t].round = ledger[t].round

\* A row that changes in nothing of it stays well formed.
LEMMA SameRowOK ==
    ASSUME NEW t \in Tasks, RowOK(t), SameRow(t), run'[t].paused => run'[t].window # 0
    PROVE  RowOK(t)'
  BY DEF RowOK, SameRow

\* A step of one process that leaves the rows and their ledgers alone.
LEMMA HandMoves ==
    ASSUME LocalInv, NEW p \in Procs, NEW new \in Hand,
           hand' = [hand EXCEPT ![p] = new], UNCHANGED <<run, ledger>>,
           hold' \in {"none", "held", "late"}, workflow' \in Workflows, file' \in Pauses \cup {NoFile},
           kept' \in Pauses \cup {NoFile}, unheard' \subseteq Tasks, orphans' \subseteq Tasks,
           holds' \in 0..MaxHolds, moves' \in 0..MaxMoves,
           Local(p)'
    PROVE  LocalInv'
<1>1. /\ hand' \in [Procs -> Hand] /\ \A q \in Procs \ {p} : hand'[q] = hand[q]
      /\ \A t \in Tasks : run[t].round \in Nat
  BY Values DEF LocalInv, TypeOK, Runs
<1>2. \A q \in Procs : Local(q)'
  BY <1>1, ProcMoves DEF LocalInv, TypeOK
<1>3. TypeOK'
  BY <1>1 DEF LocalInv, TypeOK
<1>4. \A t \in Tasks : RowOK(t)'
  BY DEF LocalInv, RowOK
<1> QED
  BY <1>2, <1>3, <1>4 DEF LocalInv

\* As one to a process with nothing in hand.
LEMMA Resting ==
    ASSUME LocalInv, NEW p \in Procs, NEW new \in Hand,
           hand' = [hand EXCEPT ![p] = new], UNCHANGED <<run, ledger>>,
           hold' \in {"none", "held", "late"}, workflow' \in Workflows, file' \in Pauses \cup {NoFile},
           kept' \in Pauses \cup {NoFile}, unheard' \subseteq Tasks, orphans' \subseteq Tasks,
           holds' \in 0..MaxHolds, moves' \in 0..MaxMoves,
           new.pc \notin Composing \cup Thawing, new.st = Blank,
           new.pc = "read" => p \in Pausers \cup {Daemon}
    PROVE  LocalInv'
<1>1. hand'[p] = new
  BY DEF LocalInv, TypeOK
<1> QED
  BY <1>1, AtRest, HandMoves

-----------------------------------------------------------------------------
(* Pausing.                                                                *)

\* Reading the pause on record.
LEMMA ReadPauseLocal ==
    ASSUME LocalInv, NEW h \in Hands, ReadPause(h)
    PROVE  LocalInv'
<1> DEFINE st == IF file = NoFile THEN Blank ELSE file
           todo == {<<t, run[t].window>> : t \in {u \in Active : st.agents[u] # "told" /\ run[u].window # 0}}
           new == [hand[h] EXCEPT !.pc = "tell", !.st = st, !.todo = todo]
<1>1. /\ hand[h] \in Hand /\ h \in Procs /\ h # Daemon /\ h \in Pausers
      /\ \A t \in Tasks : run[t].window \in Windows
  BY Values, ProcAssumption DEF LocalInv, TypeOK, Runs, Local, PlaceOK, ReadPause, At
<1>2. st \in Pauses /\ todo \subseteq Tasks \X Windows
  BY <1>1, Values DEF LocalInv, TypeOK, Active
<1>3. hand' = [hand EXCEPT ![h] = new]
  BY DEF ReadPause, LocalInv, TypeOK
<1> HIDE DEF st, todo
<1>4. new \in Hand /\ new.pc = "tell"
  BY <1>1, <1>2 DEF Hand
<1>5. hand'[h] = new
  BY <1>1, <1>3 DEF LocalInv, TypeOK
<1> HIDE DEF new
<1>6. Local(h)'
  BY <1>1, <1>4, <1>5 DEF Local, PlaceOK, FreezeOK, ThawOK, Composing, Freezing, Thawing
<1> QED
  BY <1>1, <1>3, <1>4, <1>6, HandMoves DEF LocalInv, TypeOK, ReadPause, files, history

\* What a pause says of an agent is written in its own copy.
Said(h, t, todo, word) == [hand EXCEPT ![h].todo = todo, ![h].st.agents[t] = word]

\* That copy stays a pause, and its judges are left alone.
LEMMA TellUpdate ==
    ASSUME hand \in [Procs -> Hand], NEW h \in Procs, NEW t \in Tasks,
           NEW todo \in SUBSET (Tasks \X Windows), NEW word \in Told,
           hand' = Said(h, t, todo, word)
    PROVE  \E new \in Hand :
              /\ hand' = [hand EXCEPT ![h] = new]
              /\ new.pc = hand[h].pc /\ new.todo = todo /\ new.st.judges = hand[h].st.judges
              /\ new.st.agents = [hand[h].st.agents EXCEPT ![t] = word]
<1> DEFINE st == [hand[h].st EXCEPT !.agents = [hand[h].st.agents EXCEPT ![t] = word]]
           new == [hand[h] EXCEPT !.todo = todo, !.st = st]
<1>1. hand' = [hand EXCEPT ![h] = new]
  BY DEF Hand, Pauses, Said
<1>2. /\ st \in Pauses /\ st.judges = hand[h].st.judges
      /\ st.agents = [hand[h].st.agents EXCEPT ![t] = word]
  BY DEF Hand, Pauses
<1> HIDE DEF st
<1>3. new \in Hand /\ new.pc = hand[h].pc /\ new.todo = todo /\ new.st = st
  BY <1>2 DEF Hand
<1> HIDE DEF new
<1> QED
  BY <1>1, <1>2, <1>3

\* Telling an agent, or failing to.
LEMMA TellLocal ==
    ASSUME LocalInv, NEW h \in Hands, NEW t \in Tasks, NEW w \in Windows,
           TellPause(h, t, w) \/ TellNobody(h, t, w) \/ TellFails(h, t, w)
    PROVE  LocalInv'
<1> DEFINE todo == hand[h].todo \ {<<t, w>>}
<1>1. \/ \E word \in Told : hand' = Said(h, t, todo, word)
      \/ hand' = [hand EXCEPT ![h].todo = todo]
  BY DEF TellPause, TellNobody, TellFails, Tells, Told, Said
<1>2. /\ hand[h] \in Hand /\ hand \in [Procs -> Hand] /\ h \in Procs /\ h \in Pausers /\ hand[h].pc = "tell"
  BY Values DEF LocalInv, TypeOK, Local, PlaceOK, TellPause, TellNobody, TellFails, At, Composing
<1>3. todo \in SUBSET (Tasks \X Windows)
  BY <1>2 DEF Hand
<1> HIDE DEF todo
<1>4. \E new \in Hand : hand' = [hand EXCEPT ![h] = new] /\ new.pc = "tell"
  <2>1. CASE hand' = [hand EXCEPT ![h].todo = todo]
    <3>1. [hand[h] EXCEPT !.todo = todo] \in Hand
      BY <1>2, <1>3 DEF Hand
    <3> QED
      BY <2>1, <3>1, <1>2 DEF Hand
  <2>2. ASSUME NEW word \in Told, hand' = Said(h, t, todo, word)
        PROVE  \E new \in Hand : hand' = [hand EXCEPT ![h] = new] /\ new.pc = "tell"
    <3>1. \E new \in Hand :
             /\ hand' = [hand EXCEPT ![h] = new]
             /\ new.pc = hand[h].pc /\ new.todo = todo /\ new.st.judges = hand[h].st.judges
             /\ new.st.agents = [hand[h].st.agents EXCEPT ![t] = word]
      BY <1>2, <1>3, <2>2, TellUpdate
    <3> QED
      BY <3>1, <1>2
  <2> QED
    BY <1>1, <2>1, <2>2
<1>5. PICK new \in Hand : hand' = [hand EXCEPT ![h] = new] /\ new.pc = "tell"
  BY <1>4
<1>6. /\ hand' \in [Procs -> Hand] /\ hand'[h] = new /\ \A q \in Procs \ {h} : hand'[q] = hand[q]
  BY <1>2, <1>5
<1>7. Local(h)'
  BY <1>2, <1>5, <1>6 DEF Local, PlaceOK, FreezeOK, ThawOK, Composing, Freezing, Thawing
<1>8. /\ run \in [Tasks -> Runs]
      /\ run' = run \/ (There(t, w) /\ run' = [run EXCEPT ![t].paused = TRUE])
      /\ UNCHANGED <<files, history>>
  BY DEF TellPause, TellNobody, TellFails, LocalInv, TypeOK
<1>9. /\ run' \in [Tasks -> Runs]
      /\ \A u \in Tasks : run'[u].round = run[u].round /\ RowOK(u)'
  <2>1. /\ ledger' = ledger /\ \A u \in Tasks : RowOK(u) /\ run[u] \in Runs
    BY <1>8 DEF files, LocalInv
  <2>2. CASE run' = run
    BY <1>8, <2>1, <2>2 DEF RowOK
  <2>3. CASE There(t, w) /\ run' = [run EXCEPT ![t].paused = TRUE]
    <3> DEFINE row == [run[t] EXCEPT !.paused = TRUE]
    <3>r. row \in Runs
      BY <2>1 DEF Runs
    <3>w. run[t].window # 0
      BY <2>3 DEF There
    <3>1. run' \in [Tasks -> Runs] /\ run'[t] = [run[t] EXCEPT !.paused = TRUE] /\ run[t].window # 0
      BY <1>8, <2>3, <3>r, <3>w
    <3>2. \A u \in Tasks \ {t} : run'[u] = run[u]
      BY <1>8, <2>3
    <3>3. \A u \in Tasks : SameRow(u)
      BY <2>1, <3>1, <3>2 DEF SameRow, Runs
    <3>4. run'[t].window # 0
      BY <2>1, <3>1 DEF Runs
    <3> QED
      BY <2>1, <3>1, <3>2, <3>3, <3>4, SameRowOK DEF SameRow, RowOK
  <2> QED
    BY <1>8, <2>2, <2>3
<1>10. \A u \in Tasks : run[u].round <= run'[u].round
  BY <1>8, <1>9, Values DEF Runs
<1>11. \A q \in Procs : Local(q)'
  BY <1>2, <1>6, <1>7, <1>9, <1>10, ProcMoves
<1>12. TypeOK'
  BY <1>6, <1>8, <1>9 DEF LocalInv, TypeOK, files, history
<1> QED
  BY <1>9, <1>11, <1>12 DEF LocalInv

\* The rounds to stop.
LEMMA ReadJudgesLocal ==
    ASSUME LocalInv, NEW h \in Hands, ReadJudges(h)
    PROVE  LocalInv'
<1> DEFINE who == {u \in Tasks : /\ run[u].judging /\ run[u].status # "over"
                                 /\ hand[h].st.judges[u] = 0}
           todo == {<<t, run[t].round>> : t \in who}
           new == [hand[h] EXCEPT !.pc = "freeze", !.todo = todo]
<1>1. /\ hand[h] \in Hand /\ h \in Procs /\ h \in Pausers
      /\ \A t \in Tasks : run[t].round \in Windows /\ run[t].round \in Nat
  BY Values DEF LocalInv, TypeOK, Runs, Local, PlaceOK, ReadJudges, At, Composing
<1>2. todo \subseteq Tasks \X Windows
  BY <1>1
<1>3. hand' = [hand EXCEPT ![h] = new]
  BY DEF ReadJudges, LocalInv, TypeOK
<1>4. /\ \A x \in todo : hand[h].st.judges[x[1]] = 0 /\ x[2] <= run[x[1]].round
      /\ \A x, y \in todo : x[1] = y[1] => x = y
  BY <1>1
<1> HIDE DEF todo
<1>5. new \in Hand /\ new.pc = "freeze" /\ new.todo = todo /\ new.st = hand[h].st
  BY <1>1, <1>2 DEF Hand
<1>6. hand'[h] = new /\ run' = run
  BY <1>1, <1>3 DEF LocalInv, TypeOK, ReadJudges
<1> HIDE DEF new
<1>7. Local(h)'
  BY <1>1, <1>4, <1>5, <1>6 DEF Local, PlaceOK, FreezeOK, ThawOK, Composing, Freezing, Thawing
<1> QED
  BY <1>1, <1>3, <1>5, <1>7, HandMoves DEF LocalInv, TypeOK, ReadJudges, files, history

\* A round with nothing to stop.
LEMMA FreezeNothingLocal ==
    ASSUME LocalInv, NEW h \in Hands, NEW t \in Tasks, NEW r \in Windows, FreezeNothing(h, t, r)
    PROVE  LocalInv'
<1> DEFINE new == [hand[h] EXCEPT !.todo = @ \ {<<t, r>>}]
<1>1. /\ hand[h] \in Hand /\ h \in Procs /\ h \in Pausers /\ hand[h].pc = "freeze" /\ FreezeOK(h)
  BY Values DEF LocalInv, TypeOK, Local, PlaceOK, FreezeNothing, At, Composing
<1>2. hand' = [hand EXCEPT ![h] = new] /\ run' = run
  BY DEF FreezeNothing, LocalInv, TypeOK
<1>3. /\ new \in Hand /\ new.pc = "freeze" /\ new.st = hand[h].st
      /\ new.todo = hand[h].todo \ {<<t, r>>}
  BY <1>1 DEF Hand
<1>4. hand'[h] = new
  BY <1>1, <1>2 DEF LocalInv, TypeOK
<1> HIDE DEF new
<1>5. Local(h)'
  BY <1>1, <1>2, <1>3, <1>4 DEF Local, PlaceOK, FreezeOK, ThawOK, Composing, Freezing, Thawing
<1> QED
  BY <1>1, <1>2, <1>3, <1>5, HandMoves DEF LocalInv, TypeOK, FreezeNothing, files, history

\* Looking at a judge's tree.
LEMMA FreezeLookLocal ==
    ASSUME LocalInv, NEW h \in Hands, NEW t \in Tasks, NEW r \in Windows, FreezeLook(h, t, r)
    PROVE  LocalInv'
<1> DEFINE new == [hand[h] EXCEPT !.pc = "record", !.todo = @ \ {<<t, r>>},
                                  !.at = <<t, r, run[t].round>>, !.rec = ledger[t]]
<1>1. /\ hand[h] \in Hand /\ h \in Procs /\ h \in Pausers /\ hand[h].pc = "freeze" /\ FreezeOK(h)
      /\ <<t, r>> \in hand[h].todo /\ run[t].round \in Windows /\ ledger[t] \in Ledgers
      /\ run[t].round \in Nat
  BY Values DEF LocalInv, TypeOK, Runs, Local, PlaceOK, FreezeLook, At, Composing
<1>2. hand' = [hand EXCEPT ![h] = new] /\ run' = run
  BY DEF FreezeLook, LocalInv, TypeOK
<1>3. /\ new \in Hand /\ new.pc = "record" /\ new.st = hand[h].st
      /\ new.todo = hand[h].todo \ {<<t, r>>} /\ new.at = <<t, r, run[t].round>>
  BY <1>1 DEF Hand
<1>4. hand'[h] = new
  BY <1>1, <1>2 DEF LocalInv, TypeOK
<1> HIDE DEF new
<1>5. FreezeOK(h)'
  <2>1. /\ hand[h].st.judges[t] = 0 /\ r <= run[t].round /\ run[t].round <= run[t].round
        /\ \A x \in new.todo : x[1] # t
    <3>1. hand[h].st.judges[<<t, r>>[1]] = 0 /\ <<t, r>>[2] <= run[<<t, r>>[1]].round
      BY <1>1 DEF FreezeOK, Freezing
    <3>2. \A x \in hand[h].todo : x[1] = <<t, r>>[1] => x = <<t, r>>
      BY <1>1 DEF FreezeOK, Freezing
    <3> QED
      BY <3>1, <3>2, <1>1, <1>3
  <2>2. /\ \A x \in new.todo : new.st.judges[x[1]] = 0 /\ x[2] <= run[x[1]].round
        /\ \A x, y \in new.todo : x[1] = y[1] => x = y
    BY <1>1, <1>3 DEF FreezeOK, Freezing
  <2> QED
    BY <2>1, <2>2, <1>1, <1>2, <1>3, <1>4 DEF FreezeOK
<1>6. Local(h)'
  BY <1>1, <1>3, <1>4, <1>5 DEF Local, PlaceOK, ThawOK, Composing, Freezing, Thawing
<1> QED
  BY <1>1, <1>2, <1>3, <1>6, HandMoves DEF LocalInv, TypeOK, FreezeLook, files, history

\* Opening the freeze in the ledger.
LEMMA FreezeRecordLocal ==
    ASSUME LocalInv, NEW h \in Hands, FreezeRecord(h)
    PROVE  LocalInv'
<1> DEFINE new == [hand[h] EXCEPT !.pc = "stop"]
<1>1. /\ hand[h] \in Hand /\ h \in Procs /\ h \in Pausers /\ hand[h].pc = "record" /\ FreezeOK(h)
      /\ hand[h].rec \in Ledgers
  BY Values DEF LocalInv, TypeOK, Runs, Local, PlaceOK, FreezeRecord, At, Composing, Hand
<1>2. PICK t \in Tasks, r \in Windows, s \in Windows :
         /\ hand[h].at = <<t, r, s>> /\ r <= s /\ s <= run[t].round
         /\ hand[h].st.judges[t] = 0 /\ \A x \in hand[h].todo : x[1] # t
  BY <1>1 DEF FreezeOK, Freezing
<1>3. /\ hand' = [hand EXCEPT ![h] = new] /\ run' = run
      /\ ledger' = [ledger EXCEPT ![t] = Opened(hand[h].rec, r)]
  BY <1>2 DEF FreezeRecord, Goes, LocalInv, TypeOK
<1>4. Opened(hand[h].rec, r) \in Ledgers /\ Opened(hand[h].rec, r).round = r
  BY <1>1 DEF Opened, Ledgers
<1>5. /\ new \in Hand /\ new.pc = "stop" /\ new.st = hand[h].st
      /\ new.todo = hand[h].todo /\ new.at = hand[h].at
  BY <1>1 DEF Hand
<1>6. /\ hand'[h] = new /\ hand' \in [Procs -> Hand] /\ \A q \in Procs \ {h} : hand'[q] = hand[q]
      /\ run' \in [Tasks -> Runs] /\ \A u \in Tasks : run'[u].round <= run[u].round
  BY <1>1, <1>3, <1>5, Values DEF LocalInv, TypeOK, Runs
<1> HIDE DEF new
<1>7. Local(h)'
  <2>1. FreezeOK(h)'
    BY <1>1, <1>3, <1>5, <1>6 DEF FreezeOK, Freezing
  <2> QED
    BY <2>1, <1>1, <1>3, <1>5, <1>6 DEF Local, PlaceOK, ThawOK, Composing, Freezing, Thawing
<1>8. \A q \in Procs : Local(q)'
  BY <1>1, <1>3, <1>6, <1>7, ProcMoves
<1>9. ledger' \in [Tasks -> Ledgers] /\ \A u \in Tasks : RowOK(u)'
  <2>1. ledger' \in [Tasks -> Ledgers] /\ \A u \in Tasks \ {t} : ledger'[u] = ledger[u]
    BY <1>3, <1>4 DEF LocalInv, TypeOK
  <2>2. ledger'[t].round = r /\ r <= run[t].round
    <3>1. r \in Nat /\ s \in Nat /\ run[t].round \in Nat
      BY Values DEF LocalInv, TypeOK, Runs
    <3>2. ledger'[t] = Opened(hand[h].rec, r)
      BY <1>3 DEF LocalInv, TypeOK
    <3> QED
      BY <3>1, <3>2, <1>2, <1>4
  <2> QED
    BY <2>1, <2>2, <1>3 DEF LocalInv, RowOK
<1>10. TypeOK'
  BY <1>3, <1>6, <1>9 DEF FreezeRecord, history, LocalInv, TypeOK
<1> QED
  BY <1>8, <1>9, <1>10 DEF LocalInv

\* A signal to a judge leaves the rest of its row alone.
LEMMA SignalRows ==
    ASSUME LocalInv, NEW t \in Tasks, NEW r \in Windows, NEW from \in {"runs", "stopped"},
           NEW to \in {"runs", "stopped"}, Signalled(t, r, from, to), UNCHANGED ledger
    PROVE  /\ run' \in [Tasks -> Runs] /\ \A u \in Tasks \ {t} : run'[u] = run[u]
           /\ \A u \in Tasks : /\ RowOK(u)' /\ run'[u].round = run[u].round
                               /\ run'[u].judging = run[u].judging
                               /\ run'[u].window = run[u].window /\ run'[u].paused = run[u].paused
           /\ IF run[t].round = r /\ run[t].judge = from THEN run'[t].judge = to ELSE run' = run
<1>1. run \in [Tasks -> Runs] /\ \A u \in Tasks : run[u] \in Runs /\ RowOK(u)
  BY DEF LocalInv, TypeOK
<1>2. CASE run[t].round = r /\ run[t].judge = from
  <2> DEFINE row == [run[t] EXCEPT !.judge = to]
  <2>1. row \in Runs
    BY <1>1 DEF Runs
  <2>2. run' = [run EXCEPT ![t] = row]
    BY <1>2 DEF Signalled
  <2>3. run' \in [Tasks -> Runs] /\ run'[t] = row /\ \A u \in Tasks \ {t} : run'[u] = run[u]
    BY <1>1, <2>1, <2>2
  <2>4. /\ row.round = run[t].round /\ row.judging = run[t].judging /\ row.window = run[t].window
        /\ row.paused = run[t].paused /\ row.status = run[t].status /\ row.judge = to
    BY <1>1 DEF Runs
  <2>5. run[t].round # 0
    BY <1>1, <1>2 DEF RowOK
  <2> HIDE DEF row
  <2>6. RowOK(t)'
    BY <1>1, <2>3, <2>4, <2>5 DEF RowOK
  <2>7. \A u \in Tasks \ {t} : RowOK(u)'
    BY <1>1, <2>3 DEF RowOK
  <2> QED
    BY <1>2, <2>3, <2>4, <2>6, <2>7
<1>3. CASE ~(run[t].round = r /\ run[t].judge = from)
  <2>1. run' = run
    BY <1>3 DEF Signalled
  <2> QED
    BY <1>1, <1>3, <2>1 DEF RowOK
<1> QED
  BY <1>2, <1>3

\* A step of one process and a row.
LEMMA BothMove ==
    ASSUME LocalInv, NEW p \in Procs, NEW new \in Hand, hand' = [hand EXCEPT ![p] = new],
           run' \in [Tasks -> Runs], ledger' \in [Tasks -> Ledgers],
           \A t \in Tasks : run'[t].round = run[t].round /\ RowOK(t)',
           hold' \in {"none", "held", "late"}, workflow' \in Workflows, file' \in Pauses \cup {NoFile},
           kept' \in Pauses \cup {NoFile}, unheard' \subseteq Tasks, orphans' \subseteq Tasks,
           holds' \in 0..MaxHolds, moves' \in 0..MaxMoves,
           Local(p)'
    PROVE  LocalInv'
<1>1. /\ hand' \in [Procs -> Hand] /\ \A q \in Procs \ {p} : hand'[q] = hand[q]
      /\ \A t \in Tasks : run[t].round \in Nat
  BY Values DEF LocalInv, TypeOK, Runs
<1>2. \A q \in Procs : Local(q)'
  BY <1>1, ProcMoves
<1>3. TypeOK'
  BY <1>1 DEF TypeOK
<1> QED
  BY <1>2, <1>3 DEF LocalInv

\* What a process writes about a judge in its own copy.
Marked(p, pc, t, r) ==
    [hand EXCEPT ![p].pc = pc, ![p].at = <<>>, ![p].rec = NoLedger, ![p].st.judges[t] = r]

\* That copy stays a pause, and its agents are left alone.
LEMMA MarkUpdate ==
    ASSUME hand \in [Procs -> Hand], NEW p \in Procs, NEW t \in Tasks, NEW r \in Windows,
           NEW pc \in {"freeze", "thaw"}, hand' = Marked(p, pc, t, r)
    PROVE  \E new \in Hand :
              /\ hand' = [hand EXCEPT ![p] = new]
              /\ new.pc = pc /\ new.todo = hand[p].todo /\ new.at = <<>>
              /\ new.st.agents = hand[p].st.agents
              /\ new.st.judges = [hand[p].st.judges EXCEPT ![t] = r]
<1> DEFINE st == [hand[p].st EXCEPT !.judges = [hand[p].st.judges EXCEPT ![t] = r]]
           h0 == [hand[p] EXCEPT !.pc = pc, !.at = <<>>, !.rec = NoLedger]
           new == [h0 EXCEPT !.st = st]
<1>1. h0 \in Hand /\ h0.pc = pc /\ h0.todo = hand[p].todo /\ h0.st = hand[p].st /\ h0.at = <<>>
  <2>1. hand[p] \in Hand /\ NoLedger \in Ledgers
    BY Values
  <2> QED
    BY <2>1 DEF Hand
<1>2. hand' = [hand EXCEPT ![p] = new]
  <2>1. hand' = [[hand EXCEPT ![p] = h0] EXCEPT ![p].st.judges[t] = r]
    BY DEF Marked, Hand
  <2> HIDE DEF h0
  <2>2. [hand EXCEPT ![p] = h0] \in [Procs -> Hand] /\ [hand EXCEPT ![p] = h0][p] = h0
    BY <1>1
  <2> QED
    BY <2>1, <2>2, <1>1 DEF Hand, Pauses
<1> HIDE DEF h0
<1>3. /\ st \in Pauses /\ st.agents = hand[p].st.agents
      /\ st.judges = [hand[p].st.judges EXCEPT ![t] = r]
  BY DEF Hand, Pauses
<1> HIDE DEF st
<1>4. new \in Hand /\ new.pc = pc /\ new.todo = hand[p].todo /\ new.st = st /\ new.at = <<>>
  BY <1>1, <1>3 DEF Hand
<1> HIDE DEF new
<1> QED
  BY <1>2, <1>3, <1>4

\* What stopping a judge does, to the process, its copy and the row.
LEMMA FreezeStopSays ==
    ASSUME LocalInv, NEW h \in Hands, FreezeStop(h)
    PROVE  \E t \in Tasks, r, s \in Windows, new \in Hand :
              /\ hand[h].at = <<t, r, s>> /\ r <= s /\ s <= run[t].round
              /\ hand[h].st.judges[t] = 0 /\ (\A x \in hand[h].todo : x[1] # t)
              /\ Signalled(t, s, "runs", "stopped")
              /\ hand' = [hand EXCEPT ![h] = new]
              /\ new.pc = "freeze" /\ new.todo = hand[h].todo /\ new.at = <<>>
              /\ new.st.agents = hand[h].st.agents
              /\ new.st.judges = [hand[h].st.judges EXCEPT ![t] = s]
<1>1. /\ hand[h] \in Hand /\ h \in Procs /\ hand[h].pc = "stop" /\ FreezeOK(h)
      /\ hand \in [Procs -> Hand]
  BY Values DEF LocalInv, TypeOK, Local, FreezeStop, At
<1>2. PICK t \in Tasks, r \in Windows, s \in Windows :
         /\ hand[h].at = <<t, r, s>> /\ r <= s /\ s <= run[t].round
         /\ hand[h].st.judges[t] = 0 /\ \A x \in hand[h].todo : x[1] # t
  BY <1>1 DEF FreezeOK, Freezing
<1>3. Signalled(t, s, "runs", "stopped") /\ hand' = Marked(h, "freeze", t, s)
  BY <1>2 DEF FreezeStop, Marked
<1>4. \E new \in Hand :
              /\ hand' = [hand EXCEPT ![h] = new]
              /\ new.pc = "freeze" /\ new.todo = hand[h].todo /\ new.at = <<>>
              /\ new.st.agents = hand[h].st.agents
              /\ new.st.judges = [hand[h].st.judges EXCEPT ![t] = s]
  BY <1>1, <1>3, MarkUpdate
<1> QED
  BY <1>2, <1>3, <1>4

\* Stopping a judge.
LEMMA FreezeStopLocal ==
    ASSUME LocalInv, NEW h \in Hands, FreezeStop(h)
    PROVE  LocalInv'
<1>1. PICK t \in Tasks, r \in Windows, s \in Windows, new \in Hand :
              /\ hand[h].at = <<t, r, s>> /\ r <= s /\ s <= run[t].round
              /\ hand[h].st.judges[t] = 0 /\ (\A x \in hand[h].todo : x[1] # t)
              /\ Signalled(t, s, "runs", "stopped")
              /\ hand' = [hand EXCEPT ![h] = new]
              /\ new.pc = "freeze" /\ new.todo = hand[h].todo /\ new.at = <<>>
              /\ new.st.agents = hand[h].st.agents
              /\ new.st.judges = [hand[h].st.judges EXCEPT ![t] = s]
  BY FreezeStopSays
<1>2. /\ hand[h] \in Hand /\ h \in Procs /\ h \in Pausers /\ hand[h].pc = "stop" /\ FreezeOK(h)
      /\ UNCHANGED <<ledger, hold, file, kept, workflow, unheard, orphans, holds, moves>>
  BY Values DEF LocalInv, TypeOK, Local, PlaceOK, FreezeStop, At, Composing, files, history
<1>3. /\ run' \in [Tasks -> Runs]
      /\ \A u \in Tasks : run'[u].round = run[u].round /\ RowOK(u)'
  BY <1>1, <1>2, SignalRows
<1>4. hand'[h] = new
  BY <1>1, <1>2 DEF LocalInv, TypeOK
<1>5. \A u \in Tasks \ {t} : new.st.judges[u] = hand[h].st.judges[u]
  BY <1>1, <1>2 DEF Hand, Pauses
<1>6. \A x \in hand[h].todo : x[1] \in Tasks \ {t}
  BY <1>1, <1>2 DEF Hand
<1>7. FreezeOK(h)'
  <2>1. \A x \in new.todo : new.st.judges[x[1]] = 0 /\ x[2] <= run'[x[1]].round
    BY <1>1, <1>2, <1>3, <1>5, <1>6 DEF FreezeOK, Freezing
  <2>2. \A x, y \in new.todo : x[1] = y[1] => x = y
    BY <1>1, <1>2 DEF FreezeOK, Freezing
  <2> QED
    BY <2>1, <2>2, <1>1, <1>4 DEF FreezeOK
<1>8. Local(h)'
  BY <1>1, <1>2, <1>4, <1>7 DEF Local, PlaceOK, ThawOK, Composing, Freezing, Thawing
<1> QED
  BY <1>1, <1>2, <1>3, <1>8, BothMove DEF LocalInv, TypeOK

\* The pause goes on record.
LEMMA WritePauseLocal ==
    ASSUME LocalInv, NEW h \in Hands, WritePause(h)
    PROVE  LocalInv'
<1>1. /\ h \in Procs /\ Idle(h) \in Hand /\ hand' = [hand EXCEPT ![h] = Idle(h)]
      /\ hand[h] \in Hand /\ file' = hand[h].st /\ UNCHANGED <<hold, kept, ledger, workflow, run, history>>
  BY Values DEF WritePause, Rests, LocalInv, TypeOK
<1>2. Idle(h).pc \in {"idle", "watch"} /\ Idle(h).st = Blank
  BY DEF Idle
<1> QED
  BY <1>1, <1>2, Resting DEF LocalInv, TypeOK, history, Hand, Composing, Thawing

-----------------------------------------------------------------------------
(* Resuming.                                                               *)

\* Whoever goes on after a resume has nothing in hand.
LEMMA AfterType ==
    ASSUME NEW p \in Procs
    PROVE  /\ After(p) \in Hand /\ After(p).st = Blank /\ After(p).pc \in {"start", "release"}
<1> DEFINE todo == {<<t, 0>> : t \in {u \in Tasks : Startable(u)}}
<1>1. todo \subseteq Tasks \X Windows
  BY Values
<1> HIDE DEF todo
<1>2. After(p) = IF p = Daemon THEN [Idle(p) EXCEPT !.pc = "start", !.todo = todo]
                 ELSE [Idle(p) EXCEPT !.pc = "release"]
  BY DEF After, todo
<1>3. Idle(p).st = Blank /\ Idle(p) \in Hand
  BY Values DEF Idle
<1> QED
  BY <1>1, <1>2, <1>3 DEF Hand

\* A step to where the tick, or the hand, goes on.
LEMMA GoesOnLocal ==
    ASSUME LocalInv, NEW p \in Procs, GoesOn(p), UNCHANGED <<files, run, history>>
    PROVE  LocalInv'
  BY AfterType, Resting DEF GoesOn, LocalInv, TypeOK, files, history, Composing, Thawing

\* Claiming the pause on record.
LEMMA ClaimLocal ==
    ASSUME LocalInv, NEW p \in Procs, Claim(p), hand[p].pc \in {"idle", "fleet"}
    PROVE  LocalInv'
<1>1. CASE GoesOn(p) /\ UNCHANGED <<files, run, orphans, unheard, holds, moves>>
  BY <1>1, GoesOnLocal DEF history
<1>2. CASE /\ file # NoFile /\ kept' = file /\ file' = NoFile /\ Goes(p, "claimed")
           /\ orphans' = orphans \cup Unread(p)
           /\ UNCHANGED <<hold, ledger, workflow, run, unheard, holds, moves>>
  <2> DEFINE new == [hand[p] EXCEPT !.pc = "claimed"]
  <2>1. /\ hand[p] \in Hand /\ hand[p].st = Blank /\ hand' = [hand EXCEPT ![p] = new]
    BY <1>2 DEF LocalInv, TypeOK, Local, PlaceOK, Goes, Composing, Thawing
  <2>2. new \in Hand /\ new.pc = "claimed" /\ new.st = Blank
    BY <2>1 DEF Hand
  <2> HIDE DEF new
  <2>3. Unread(p) \subseteq Tasks
    <3>1. Names(kept) \subseteq Tasks
      BY DEF Names, LocalInv, TypeOK, Pauses, NoFile
    <3> QED
      BY <3>1 DEF Unread
  <2> QED
    BY <1>2, <2>1, <2>2, <2>3, Resting DEF LocalInv, TypeOK, Composing, Thawing
<1> QED
  BY <1>1, <1>2 DEF Claim

\* Reading the claim.
LEMMA ReadClaimedLocal ==
    ASSUME LocalInv, NEW p \in Procs, ReadClaimed(p)
    PROVE  LocalInv'
<1>0. UNCHANGED <<files, run, history>>
  BY DEF ReadClaimed
<1>1. CASE kept = NoFile
  BY <1>0, <1>1, GoesOnLocal DEF ReadClaimed
<1>2. CASE kept # NoFile
  <2> DEFINE todo == {<<t, kept.judges[t]>> : t \in {u \in Tasks : kept.judges[u] # 0}}
             new == [hand[p] EXCEPT !.pc = "thaw", !.st = kept, !.todo = todo]
  <2>1. kept \in Pauses /\ hand[p] \in Hand /\ run' = run
    BY <1>0, <1>2 DEF LocalInv, TypeOK
  <2>2. hand' = [hand EXCEPT ![p] = new]
    BY <1>2 DEF ReadClaimed, LocalInv, TypeOK
  <2>3. /\ todo \subseteq Tasks \X Windows
        /\ \A x \in todo : x[2] = kept.judges[x[1]]
        /\ \A t \in Tasks : kept.judges[t] # 0 => <<t, kept.judges[t]>> \in todo
    BY <2>1 DEF Pauses
  <2> HIDE DEF todo
  <2>4. new \in Hand /\ new.pc = "thaw" /\ new.st = kept /\ new.todo = todo
    BY <2>1, <2>3 DEF Hand
  <2>5. hand'[p] = new
    BY <2>2 DEF LocalInv, TypeOK
  <2> HIDE DEF new
  <2>6. Local(p)'
    BY <2>3, <2>4, <2>5 DEF Local, PlaceOK, FreezeOK, ThawOK, Composing, Freezing, Thawing
  <2> QED
    BY <1>0, <2>2, <2>4, <2>6, HandMoves DEF LocalInv, TypeOK, files, history
<1> QED
  BY <1>1, <1>2

\* Looking at the ledger of a judge to thaw.
LEMMA ThawLookLocal ==
    ASSUME LocalInv, NEW p \in Procs, NEW t \in Tasks, NEW r \in Windows, ThawLook(p, t, r)
    PROVE  LocalInv'
<1> DEFINE new == [hand[p] EXCEPT !.pc = "close", !.todo = @ \ {<<t, r>>},
                                  !.at = <<t, r>>, !.rec = ledger[t]]
<1>1. /\ hand[p] \in Hand /\ hand[p].pc = "thaw" /\ ThawOK(p) /\ <<t, r>> \in hand[p].todo
      /\ ledger[t] \in Ledgers /\ ledger[t].round <= run[t].round
  BY DEF LocalInv, TypeOK, RowOK, Local, ThawLook, At
<1>2. hand' = [hand EXCEPT ![p] = new] /\ run' = run
  BY DEF ThawLook, LocalInv, TypeOK
<1>3. /\ new \in Hand /\ new.pc = "close" /\ new.st = hand[p].st
      /\ new.todo = hand[p].todo \ {<<t, r>>} /\ new.at = <<t, r>> /\ new.rec = ledger[t]
  BY <1>1 DEF Hand
<1>4. hand'[p] = new
  BY <1>1, <1>2 DEF LocalInv, TypeOK
<1> HIDE DEF new
<1>5. ThawOK(p)'
  <2>1. /\ \A x \in hand[p].todo : x[2] = hand[p].st.judges[x[1]]
        /\ \A u \in Tasks : hand[p].st.judges[u] # 0 => <<u, hand[p].st.judges[u]>> \in hand[p].todo
    BY <1>1 DEF ThawOK, Thawing
  <2>2. r = hand[p].st.judges[t]
    <3>1. <<t, r>>[2] = hand[p].st.judges[<<t, r>>[1]]
      BY <2>1, <1>1
    <3> QED
      BY <3>1
  <2>3. \A x \in new.todo : x[1] # t
    <3> SUFFICES ASSUME NEW x \in new.todo, x[1] = t PROVE FALSE
      OBVIOUS
    <3>1. x \in Tasks \X Windows /\ x[2] = r
      BY <2>1, <2>2, <1>1, <1>3 DEF Hand
    <3> QED
      BY <3>1, <1>3
  <2>4. \A u \in Tasks \ {t} : new.st.judges[u] # 0 => <<u, new.st.judges[u]>> \in new.todo
    BY <2>1, <1>3
  <2> QED
    BY <2>1, <2>2, <2>3, <2>4, <1>1, <1>2, <1>3, <1>4 DEF ThawOK
<1>6. Local(p)'
  BY <1>3, <1>4, <1>5 DEF Local, PlaceOK, FreezeOK, Composing, Freezing, Thawing
<1> QED
  BY <1>2, <1>3, <1>6, HandMoves DEF LocalInv, TypeOK, ThawLook, files, history

\* Closing the freeze in the ledger.
LEMMA ThawRecordLocal ==
    ASSUME LocalInv, NEW p \in Procs, ThawRecord(p)
    PROVE  LocalInv'
<1> DEFINE new == [hand[p] EXCEPT !.pc = "cont"]
<1>1. /\ hand[p] \in Hand /\ hand[p].pc = "close" /\ ThawOK(p) /\ hand[p].rec \in Ledgers
  BY DEF LocalInv, TypeOK, Local, ThawRecord, At, Hand
<1>2. PICK t \in Tasks :
         /\ hand[p].at = <<t, hand[p].st.judges[t]>> /\ hand[p].rec.round <= run[t].round
         /\ \A x \in hand[p].todo : x[1] # t
         /\ \A u \in Tasks \ {t} :
               hand[p].st.judges[u] # 0 => <<u, hand[p].st.judges[u]>> \in hand[p].todo
  BY <1>1 DEF ThawOK, Thawing
<1>3. /\ hand' = [hand EXCEPT ![p] = new] /\ run' = run
      /\ UNCHANGED <<hold, file, kept, workflow, unheard, orphans, holds, moves>>
      /\ ledger' = ledger \/ ledger' = [ledger EXCEPT ![t] = Closed(hand[p].rec)]
  BY <1>2 DEF ThawRecord, Goes, LocalInv, TypeOK, history
<1>4. Closed(hand[p].rec) \in Ledgers /\ Closed(hand[p].rec).round = hand[p].rec.round
  BY <1>1 DEF Closed, Ledgers
<1>5. /\ new \in Hand /\ new.pc = "cont" /\ new.st = hand[p].st
      /\ new.todo = hand[p].todo /\ new.at = hand[p].at
  BY <1>1 DEF Hand
<1>6. hand'[p] = new
  BY <1>3 DEF LocalInv, TypeOK
<1> HIDE DEF new
<1>7. ThawOK(p)'
  BY <1>1, <1>2, <1>5, <1>6 DEF ThawOK, Thawing
<1>8. Local(p)'
  BY <1>5, <1>6, <1>7 DEF Local, PlaceOK, FreezeOK, Composing, Freezing, Thawing
<1>9. ledger' \in [Tasks -> Ledgers] /\ \A u \in Tasks : RowOK(u)'
  <2>1. \A u \in Tasks : RowOK(u) /\ ledger[u] \in Ledgers
    BY DEF LocalInv, TypeOK
  <2>2. ledger' \in [Tasks -> Ledgers] /\ \A u \in Tasks : ledger'[u] = ledger[u] \/ (u = t /\ ledger'[t] = Closed(hand[p].rec))
    BY <1>3, <1>4 DEF LocalInv, TypeOK
  <2> QED
    BY <2>1, <2>2, <1>2, <1>3, <1>4 DEF RowOK
<1> QED
  BY <1>3, <1>5, <1>8, <1>9, BothMove DEF LocalInv, TypeOK

\* What setting a judge going does, to the process, its copy and the row.
LEMMA ThawContSays ==
    ASSUME LocalInv, NEW p \in Procs, ThawCont(p)
    PROVE  \E t \in Tasks, new \in Hand :
              /\ hand[p].at = <<t, hand[p].st.judges[t]>> /\ (\A x \in hand[p].todo : x[1] # t)
              /\ \A u \in Tasks \ {t} :
                    hand[p].st.judges[u] # 0 => <<u, hand[p].st.judges[u]>> \in hand[p].todo
              /\ Signalled(t, hand[p].st.judges[t], "stopped", "runs")
              /\ hand' = [hand EXCEPT ![p] = new]
              /\ new.pc = "thaw" /\ new.todo = hand[p].todo /\ new.at = <<>>
              /\ new.st.agents = hand[p].st.agents
              /\ new.st.judges = [hand[p].st.judges EXCEPT ![t] = 0]
<1>1. /\ hand[p] \in Hand /\ hand[p].pc = "cont" /\ ThawOK(p) /\ hand \in [Procs -> Hand]
  BY DEF LocalInv, TypeOK, Local, ThawCont, At
<1>2. PICK t \in Tasks :
         /\ hand[p].at = <<t, hand[p].st.judges[t]>> /\ \A x \in hand[p].todo : x[1] # t
         /\ \A u \in Tasks \ {t} :
               hand[p].st.judges[u] # 0 => <<u, hand[p].st.judges[u]>> \in hand[p].todo
  BY <1>1 DEF ThawOK, Thawing
<1>3. /\ Signalled(t, hand[p].st.judges[t], "stopped", "runs")
      /\ hand' = Marked(p, "thaw", t, 0)
  BY <1>2 DEF ThawCont, Marked
<1>4. \E new \in Hand :
              /\ hand' = [hand EXCEPT ![p] = new]
              /\ new.pc = "thaw" /\ new.todo = hand[p].todo /\ new.at = <<>>
              /\ new.st.agents = hand[p].st.agents
              /\ new.st.judges = [hand[p].st.judges EXCEPT ![t] = 0]
  BY <1>1, <1>3, MarkUpdate, Values
<1> QED
  BY <1>2, <1>3, <1>4

\* Setting a judge going.
LEMMA ThawContLocal ==
    ASSUME LocalInv, NEW p \in Procs, ThawCont(p)
    PROVE  LocalInv'
<1>1. PICK t \in Tasks, new \in Hand :
              /\ hand[p].at = <<t, hand[p].st.judges[t]>> /\ (\A x \in hand[p].todo : x[1] # t)
              /\ \A u \in Tasks \ {t} :
                    hand[p].st.judges[u] # 0 => <<u, hand[p].st.judges[u]>> \in hand[p].todo
              /\ Signalled(t, hand[p].st.judges[t], "stopped", "runs")
              /\ hand' = [hand EXCEPT ![p] = new]
              /\ new.pc = "thaw" /\ new.todo = hand[p].todo /\ new.at = <<>>
              /\ new.st.agents = hand[p].st.agents
              /\ new.st.judges = [hand[p].st.judges EXCEPT ![t] = 0]
  BY ThawContSays
<1>2. /\ hand[p] \in Hand /\ hand[p].pc = "cont" /\ ThawOK(p)
      /\ UNCHANGED <<ledger, hold, file, kept, workflow, unheard, orphans, holds, moves>>
  BY DEF LocalInv, TypeOK, Local, ThawCont, At, files, history
<1>3. hand[p].st.judges[t] \in Windows
  BY <1>2 DEF Hand, Pauses
<1>4. /\ run' \in [Tasks -> Runs]
      /\ \A u \in Tasks : run'[u].round = run[u].round /\ RowOK(u)'
  BY <1>1, <1>2, <1>3, SignalRows
<1>5. hand'[p] = new
  BY <1>1 DEF LocalInv, TypeOK
<1>6. /\ \A u \in Tasks \ {t} : new.st.judges[u] = hand[p].st.judges[u]
      /\ new.st.judges[t] = 0
  BY <1>1, <1>2 DEF Hand, Pauses
<1>7. \A x \in hand[p].todo : x[1] \in Tasks \ {t} /\ x[2] = hand[p].st.judges[x[1]]
  BY <1>1, <1>2 DEF Hand, ThawOK, Thawing
<1>8. /\ \A x \in new.todo : x[2] = new.st.judges[x[1]]
      /\ \A u \in Tasks : new.st.judges[u] # 0 => <<u, new.st.judges[u]>> \in new.todo
  BY <1>1, <1>6, <1>7
<1>9. Local(p)'
  BY <1>1, <1>5, <1>8 DEF Local, PlaceOK, FreezeOK, ThawOK, Composing, Freezing, Thawing
<1> QED
  BY <1>1, <1>2, <1>4, <1>9, BothMove DEF LocalInv, TypeOK

\* A process that does not hold a claim has none to lose but another's.
LEMMA UnreadType ==
    ASSUME LocalInv, NEW p \in Procs
    PROVE  Unread(p) \subseteq Tasks
<1>1. Names(kept) \subseteq Tasks
  BY DEF Names, LocalInv, TypeOK, Pauses, NoFile
<1> QED
  BY <1>1 DEF Unread

\* The claim goes, and the agents are told.
LEMMA UnlinkLocal ==
    ASSUME LocalInv, NEW p \in Procs, Unlink(p)
    PROVE  LocalInv'
<1> DEFINE todo == {<<t, run[t].window>> : t \in {u \in Active : hand[p].st.agents[u] # "no"}}
           new == [hand[p] EXCEPT !.pc = "say", !.st = Blank, !.todo = todo]
<1>1. /\ hand[p] \in Hand /\ \A t \in Tasks : run[t].window \in Windows
  BY DEF LocalInv, TypeOK, Runs
<1>2. todo \subseteq Tasks \X Windows
  BY <1>1 DEF Active
<1>3. /\ hand' = [hand EXCEPT ![p] = new] /\ kept' = NoFile /\ orphans' = orphans \cup Unread(p)
      /\ UNCHANGED <<hold, file, ledger, workflow, run, unheard, holds, moves>>
  BY DEF Unlink, LocalInv, TypeOK
<1> HIDE DEF todo
<1>4. new \in Hand /\ new.pc = "say" /\ new.st = Blank
  BY <1>1, <1>2, Values DEF Hand
<1> HIDE DEF new
<1> QED
  BY <1>3, <1>4, UnreadType, Resting DEF LocalInv, TypeOK, Composing, Thawing

\* One row is replaced by another that is well formed.
LEMMA RowReplaced ==
    ASSUME LocalInv, NEW t \in Tasks, NEW row \in Runs, run' = [run EXCEPT ![t] = row],
           \A u \in Tasks : ledger'[u].round = ledger[u].round,
           run[t].round <= row.round,
           row.round = 0 => ~row.judging /\ row.judge = "none",
           row.paused => row.window # 0, row.window # 0 => row.status = "active"
    PROVE  /\ run' \in [Tasks -> Runs] /\ run'[t] = row /\ \A u \in Tasks \ {t} : run'[u] = run[u]
           /\ \A u \in Tasks : run[u].round <= run'[u].round /\ RowOK(u)'
<1>1. run \in [Tasks -> Runs] /\ ledger \in [Tasks -> Ledgers] /\ \A u \in Tasks : RowOK(u)
  BY DEF LocalInv, TypeOK
<1>2. run' \in [Tasks -> Runs] /\ run'[t] = row /\ \A u \in Tasks \ {t} : run'[u] = run[u]
  BY <1>1
<1>3. \A u \in Tasks : run[u].round \in Nat /\ run'[u].round \in Nat /\ ledger[u].round \in Nat
  BY <1>1, <1>2, Values DEF Runs, Ledgers
<1>4. \A u \in Tasks \ {t} : run[u].round <= run'[u].round /\ RowOK(u)'
  BY <1>1, <1>2, <1>3 DEF RowOK
<1>5. ledger'[t].round <= run'[t].round
  BY <1>1, <1>2, <1>3 DEF RowOK
<1>6. RowOK(t)'
  BY <1>2, <1>5 DEF RowOK
<1> QED
  BY <1>2, <1>4, <1>6

\* A resume message that lands, and one that does not.
LEMMA SayLocal ==
    ASSUME LocalInv, NEW p \in Procs, NEW t \in Tasks, NEW w \in Windows,
           SayResume(p, t, w) \/ SayFails(p, t, w)
    PROVE  LocalInv'
<1> DEFINE new == [hand[p] EXCEPT !.todo = @ \ {<<t, w>>}]
<1>1. /\ hand[p] \in Hand /\ hand[p].pc = "say" /\ hand[p].st = Blank
      /\ hand' = [hand EXCEPT ![p] = new]
      /\ UNCHANGED <<files, orphans, holds, moves>>
  BY DEF LocalInv, TypeOK, Local, PlaceOK, SayResume, SayFails, At, Composing, Thawing, history
<1>2. new \in Hand /\ new.pc = "say" /\ new.st = Blank
  BY <1>1 DEF Hand
<1>3. hand'[p] = new
  BY <1>1 DEF LocalInv, TypeOK
<1> HIDE DEF new
<1>4. Local(p)'
  BY <1>2, <1>3, AtRest DEF Composing, Thawing
<1>5. unheard' \subseteq Tasks
  BY DEF SayResume, SayFails, LocalInv, TypeOK, history
<1>6. /\ run' \in [Tasks -> Runs]
      /\ \A u \in Tasks : run'[u].round = run[u].round /\ RowOK(u)'
  <2>1. ledger' = ledger /\ \A u \in Tasks : RowOK(u) /\ run[u] \in Runs
    BY <1>1 DEF files, LocalInv, TypeOK
  <2>2. CASE run' = run
    BY <2>1, <2>2 DEF RowOK, LocalInv, TypeOK
  <2>3. CASE run' = [run EXCEPT ![t].paused = FALSE]
    <3> DEFINE row == [run[t] EXCEPT !.paused = FALSE]
    <3>1. /\ row \in Runs /\ row.round = run[t].round /\ row.judging = run[t].judging
          /\ row.judge = run[t].judge /\ row.window = run[t].window /\ row.status = run[t].status
      BY <2>1 DEF Runs
    <3>2. ~row.paused
      BY <2>1 DEF Runs
    <3>3. run[t].round <= row.round /\ run' = [run EXCEPT ![t] = row]
      BY <2>1, <2>3, <3>1, Values DEF Runs
    <3> HIDE DEF row
    <3>4. /\ row.round = 0 => ~row.judging /\ row.judge = "none"
          /\ row.window # 0 => row.status = "active"
      BY <2>1, <3>1 DEF RowOK
    <3>5. run' \in [Tasks -> Runs] /\ \A u \in Tasks : RowOK(u)'
      BY <2>1, <3>1, <3>2, <3>3, <3>4, RowReplaced
    <3>6. \A u \in Tasks : run'[u].round = run[u].round
      BY <3>1, <3>3 DEF LocalInv, TypeOK
    <3> QED
      BY <3>5, <3>6
  <2> QED
    BY <2>2, <2>3 DEF SayResume, SayFails
<1> QED
  BY <1>1, <1>2, <1>4, <1>5, <1>6, BothMove DEF LocalInv, TypeOK, files

\* A hand lets the hold go.
LEMMA ReleaseLocal ==
    ASSUME LocalInv, NEW h \in Hands, Release(h)
    PROVE  LocalInv'
<1>1. /\ Idle(h) \in Hand /\ Idle(h).pc \in {"idle", "watch"} /\ Idle(h).st = Blank /\ h \in Procs
  BY Values DEF Idle
<1> QED
  BY <1>1, Resting DEF Release, Rests, LocalInv, TypeOK, history, Composing, Thawing

\* A hand takes the hold.
LEMMA TakeLocal ==
    ASSUME LocalInv, NEW h \in Hands, Take(h)
    PROVE  LocalInv'
<1> DEFINE new == IF hand' = hand THEN hand[h] ELSE [hand[h] EXCEPT !.pc = "read"]
<1>1. /\ hand[h] \in Hand /\ hand[h].pc = "idle" /\ hand[h].st = Blank /\ h \in Procs /\ h \in Pausers
  BY Values DEF LocalInv, TypeOK, Local, PlaceOK, Take, At, Composing, Thawing
<1>2. hand' = [hand EXCEPT ![h] = new]
  BY DEF Take, Goes, LocalInv, TypeOK
<1>3. new \in Hand /\ new.pc \in {"idle", "read"} /\ new.st = Blank
  BY <1>1 DEF Hand
<1> HIDE DEF new
<1>4. holds' \in 0..MaxHolds
  BY BoundAssumption DEF Take, LocalInv, TypeOK
<1> QED
  BY <1>1, <1>2, <1>3, <1>4, Resting DEF Take, LocalInv, TypeOK, Composing, Thawing

\* The steps of a hand.
LEMMA HandLocal ==
    ASSUME LocalInv, NEW h \in Hands, Take(h) \/ Resume(h) \/ HandStep(h)
    PROVE  LocalInv'
<1>1. h \in Procs
  BY Values
<1>2. CASE ResumeStep(h)
  BY <1>1, <1>2, ReadClaimedLocal, ThawRecordLocal, ThawContLocal, UnlinkLocal, ThawLookLocal, SayLocal,
     GoesOnLocal DEF ResumeStep, Resumed
<1>3. CASE PauseStep(h)
  BY <1>3, ReadPauseLocal, ReadJudgesLocal, FreezeRecordLocal, FreezeStopLocal, WritePauseLocal,
     TellLocal, FreezeNothingLocal, FreezeLookLocal DEF PauseStep
<1>4. CASE Resume(h)
  BY <1>1, <1>4, ClaimLocal DEF Resume, At
<1> QED
  BY <1>2, <1>3, <1>4, TakeLocal, ReleaseLocal DEF HandStep

-----------------------------------------------------------------------------
(* The tick, the world and deaths.                                         *)

\* A step that moves no process.
LEMMA RowsMove ==
    ASSUME LocalInv, UNCHANGED <<hand, file, kept, unheard, orphans, holds>>,
           run' \in [Tasks -> Runs], ledger' \in [Tasks -> Ledgers],
           \A t \in Tasks : run[t].round <= run'[t].round /\ RowOK(t)',
           hold' \in {"none", "held", "late"}, workflow' \in Workflows, moves' \in 0..MaxMoves
    PROVE  LocalInv'
<1>1. \A q \in Procs : Local(q)'
  BY Undisturbed
<1>2. TypeOK'
  BY DEF LocalInv, TypeOK
<1> QED
  BY <1>1, <1>2 DEF LocalInv

\* As one that replaces a row.
LEMMA RowMoves ==
    ASSUME LocalInv, UNCHANGED <<hand, hold, file, kept, workflow, unheard, orphans, holds>>,
           NEW t \in Tasks, NEW row \in Runs, run' = [run EXCEPT ![t] = row],
           ledger' \in [Tasks -> Ledgers], \A u \in Tasks : ledger'[u].round = ledger[u].round,
           row.round = run[t].round,
           row.round = 0 => ~row.judging /\ row.judge = "none",
           row.paused => row.window # 0, row.window # 0 => row.status = "active",
           moves' \in 0..MaxMoves
    PROVE  LocalInv'
<1>1. run[t].round \in Nat
  BY Values DEF LocalInv, TypeOK, Runs
<1>2. run[t].round <= row.round
  BY <1>1
<1> QED
  BY <1>2, RowReplaced, RowsMove DEF LocalInv, TypeOK

\* A round that ends, with its freeze or not.
LEMMA RoundsEnd ==
    ASSUME LocalInv, NEW t \in Tasks, CancelMoot(t) \/ Watchdog(t)
    PROVE  LocalInv'
<1> DEFINE row == [run[t] EXCEPT !.judging = FALSE, !.judge = "none", !.late = FALSE]
<1>1. /\ run[t] \in Runs /\ RowOK(t) /\ run' = [run EXCEPT ![t] = row] /\ ledger[t] \in Ledgers
      /\ UNCHANGED <<hand, hold, file, kept, workflow, unheard, orphans, holds, moves>>
      /\ ledger' = ledger \/ ledger' = [ledger EXCEPT ![t].last = "closed"]
  BY DEF CancelMoot, Watchdog, EndRound, LocalInv, TypeOK, files, history
<1>2. /\ row \in Runs /\ row.round = run[t].round /\ ~row.judging /\ row.judge = "none"
      /\ row.paused = run[t].paused /\ row.window = run[t].window /\ row.status = run[t].status
  BY <1>1 DEF Runs
<1> HIDE DEF row
<1>3. row.paused => row.window # 0
  BY <1>1, <1>2 DEF RowOK
<1>4. row.window # 0 => row.status = "active"
  BY <1>1, <1>2 DEF RowOK
<1>5. /\ ledger' \in [Tasks -> Ledgers] /\ \A u \in Tasks : ledger'[u].round = ledger[u].round
  BY <1>1 DEF LocalInv, TypeOK, Ledgers
<1> QED
  BY <1>1, <1>2, <1>3, <1>4, <1>5, RowMoves DEF LocalInv, TypeOK

\* The retry after a thaw.
LEMMA RetryLocal ==
    ASSUME LocalInv, NEW t \in Tasks, WatchdogRetries(t)
    PROVE  LocalInv'
<1>1. /\ ledger' = [ledger EXCEPT ![t].retry = FALSE]
      /\ UNCHANGED <<run, hand, hold, file, kept, workflow, unheard, orphans, holds, moves>>
  BY DEF WatchdogRetries, history
<1>2. /\ ledger' \in [Tasks -> Ledgers] /\ \A u \in Tasks : ledger'[u].round = ledger[u].round
  BY <1>1 DEF LocalInv, TypeOK, Ledgers
<1>3. \A u \in Tasks : run[u].round <= run'[u].round /\ RowOK(u)'
  BY <1>1, <1>2, Values DEF LocalInv, TypeOK, Runs, RowOK
<1> QED
  BY <1>1, <1>2, <1>3, RowsMove DEF LocalInv, TypeOK

\* The daemon goes from one part of its tick to the next.
LEMMA TickRests ==
    ASSUME LocalInv, Watched \/ Expire \/ ReadHold \/ EndTick
    PROVE  LocalInv'
<1>1. /\ hand[Daemon] \in Hand /\ Daemon \in Procs /\ hand[Daemon].st = Blank
      /\ Idle(Daemon) \in Hand /\ Idle(Daemon).pc = "watch" /\ Idle(Daemon).st = Blank
  BY Values DEF LocalInv, TypeOK, Local, PlaceOK, Watched, Begun, Expire, ReadHold, EndTick, At,
     Composing, Thawing, Idle
<1>2. Rests(Daemon) \/ \E pc \in {"expire", "read", "fleet"} : Goes(Daemon, pc)
  BY DEF Watched, Expire, ReadHold, EndTick
<1>3. PICK new \in Hand : /\ hand' = [hand EXCEPT ![Daemon] = new] /\ new.st = Blank
                          /\ new.pc \in {"expire", "read", "fleet", "watch"}
  <2>1. ASSUME NEW pc \in {"expire", "read", "fleet"} PROVE
          /\ [hand[Daemon] EXCEPT !.pc = pc] \in Hand
          /\ [hand[Daemon] EXCEPT !.pc = pc].st = Blank /\ [hand[Daemon] EXCEPT !.pc = pc].pc = pc
    BY <1>1 DEF Hand
  <2> QED
    BY <1>1, <1>2, <2>1 DEF Rests, Goes
<1>4. /\ UNCHANGED <<file, kept, ledger, workflow, run, history>> /\ hold' \in {"none", "held", "late"}
  BY DEF Watched, Expire, ReadHold, EndTick, files, LocalInv, TypeOK
<1> QED
  BY <1>1, <1>3, <1>4, Resting DEF history, Composing, Thawing, LocalInv, TypeOK

\* A task is launched, or judged.
LEMMA StartsLocal ==
    ASSUME LocalInv, NEW t \in Tasks, Launch(t) \/ SpawnJudge(t)
    PROVE  LocalInv'
<1> DEFINE new == [hand[Daemon] EXCEPT !.todo = @ \ {<<t, 0>>}]
<1>1. /\ hand[Daemon] \in Hand /\ Daemon \in Procs /\ hand[Daemon].st = Blank /\ hand[Daemon].pc = "start"
      /\ hand' = [hand EXCEPT ![Daemon] = new]
      /\ UNCHANGED <<files, orphans, holds, moves>> /\ unheard' \subseteq Tasks
  BY Values DEF LocalInv, TypeOK, Local, PlaceOK, Launch, SpawnJudge, Starts, At, Composing, Thawing, history
<1>2. new \in Hand /\ new.pc = "start" /\ new.st = Blank
  BY <1>1 DEF Hand
<1>3. /\ hand'[Daemon] = new /\ hand' \in [Procs -> Hand]
      /\ \A q \in Procs \ {Daemon} : hand'[q] = hand[q]
  BY <1>1, <1>2 DEF LocalInv, TypeOK
<1> HIDE DEF new
<1>4. Local(Daemon)'
  BY <1>1, <1>2, <1>3, AtRest DEF Composing, Thawing
<1>5. /\ run[t] \in Runs /\ RowOK(t) /\ run[t].round \in Nat /\ run[t].launches \in Nat /\ ledger' = ledger
  BY <1>1, Values DEF LocalInv, TypeOK, Runs, files
<1>6. run' \in [Tasks -> Runs] /\ \A u \in Tasks : run[u].round <= run'[u].round /\ RowOK(u)'
  <2>1. CASE Launch(t)
    <3> DEFINE row == [run[t] EXCEPT !.status = "active", !.launches = @ + 1,
                                     !.window = run[t].launches + 1, !.paused = FALSE]
    <3>w. run[t].launches < MaxLaunches
      BY <2>1 DEF Launch
    <3>n. run[t].launches + 1 \in Windows
      BY <3>w, <1>5, BoundAssumption DEF Windows
    <3>r. run' = [run EXCEPT ![t] = row]
      BY <2>1 DEF Launch
    <3>1. run' = [run EXCEPT ![t] = row] /\ run[t].launches + 1 \in Windows
      BY <3>n, <3>r
    <3>2. /\ row \in Runs /\ row.status = "active" /\ ~row.paused /\ row.round = run[t].round
          /\ row.judging = run[t].judging /\ row.judge = run[t].judge
      BY <1>5, <3>1 DEF Runs
    <3> HIDE DEF row
    <3>3. row.round = 0 => ~row.judging /\ row.judge = "none"
      BY <1>5, <3>2 DEF RowOK
    <3>4. row.window # 0 => row.status = "active"
      BY <3>2
    <3>5. run[t].round <= row.round
      BY <1>5, <3>2
    <3> QED
      BY <1>5, <3>1, <3>2, <3>3, <3>4, <3>5, RowReplaced
  <2>2. CASE SpawnJudge(t)
    <3> DEFINE row == [run[t] EXCEPT !.judging = TRUE, !.round = @ + 1, !.judge = "runs", !.late = FALSE]
    <3>w. run[t].round < MaxLaunches
      BY <2>2 DEF SpawnJudge
    <3>n. run[t].round + 1 \in Windows
      BY <3>w, <1>5, BoundAssumption DEF Windows
    <3>r. run' = [run EXCEPT ![t] = row]
      BY <2>2 DEF SpawnJudge
    <3>1. run' = [run EXCEPT ![t] = row] /\ run[t].round + 1 \in Windows
      BY <3>n, <3>r
    <3>2. /\ row \in Runs /\ row.status = run[t].status /\ row.paused = run[t].paused
          /\ row.round = run[t].round + 1 /\ row.window = run[t].window
      BY <1>5, <3>1 DEF Runs
    <3> HIDE DEF row
    <3>3. /\ row.paused => row.window # 0
          /\ row.window # 0 => row.status = "active"
      BY <1>5, <3>2 DEF RowOK
    <3>4. run[t].round <= row.round /\ row.round # 0
      BY <1>5, <3>2
    <3> QED
      BY <1>5, <3>1, <3>2, <3>3, <3>4, RowReplaced
  <2> QED
    BY <2>1, <2>2
<1>7. \A q \in Procs : Local(q)'
  BY <1>1, <1>3, <1>4, <1>6, ProcMoves
<1>8. TypeOK'
  BY <1>1, <1>3, <1>6 DEF LocalInv, TypeOK, files
<1> QED
  BY <1>6, <1>7, <1>8 DEF LocalInv

\* What agents, judges and reviewers write in a row.
LEMMA MovesRow ==
    ASSUME LocalInv, NEW t \in Tasks,
           HandsIn(t) \/ AgentDies(t) \/ Verdict(t) \/ JudgeDies(t) \/ SentBack(t) \/ Merges(t)
    PROVE  \E row \in Runs :
              /\ Moves(t, row) /\ row.round = run[t].round
              /\ \/ row.judging = run[t].judging /\ (row.judge = run[t].judge \/ row.judge = "none")
                 \/ ~row.judging /\ row.judge = "none"
              /\ \/ ~row.paused /\ row.window = 0
                 \/ row.paused = run[t].paused /\ row.window = run[t].window
                    /\ (row.status = run[t].status \/ run[t].status = "review")
<1>0. run[t] \in Runs
  BY DEF LocalInv, TypeOK
<1>1. CASE HandsIn(t) \/ AgentDies(t)
  <2> DEFINE row(s) == [run[t] EXCEPT !.status = s, !.window = 0, !.paused = FALSE]
  <2>1. \A s \in {"review", "free"} :
          /\ row(s) \in Runs /\ row(s).round = run[t].round /\ ~row(s).paused /\ row(s).window = 0
          /\ row(s).judging = run[t].judging /\ row(s).judge = run[t].judge
    BY <1>0, Values DEF Runs
  <2>2. Moves(t, row("review")) \/ Moves(t, row("free"))
    BY <1>1 DEF HandsIn, AgentDies
  <2> HIDE DEF row
  <2> QED
    BY <2>1, <2>2
<1>2. CASE Verdict(t)
  <2> DEFINE row(s) == [run[t] EXCEPT !.status = s, !.judging = FALSE, !.judge = "none", !.late = FALSE]
  <2>1. \A s \in {"review", "free", run[t].status} :
          /\ row(s) \in Runs /\ row(s).round = run[t].round /\ row(s).paused = run[t].paused
          /\ row(s).window = run[t].window /\ ~row(s).judging /\ row(s).judge = "none"
          /\ row(s).status = s
    BY <1>0, Values DEF Runs
  <2>2. \E s \in {"review", "free", run[t].status} :
          Moves(t, row(s)) /\ (s = run[t].status \/ run[t].status = "review")
    BY <1>2, <1>0 DEF Verdict, Runs
  <2> HIDE DEF row
  <2> QED
    BY <2>1, <2>2
<1>3. CASE JudgeDies(t)
  <2> DEFINE row == [run[t] EXCEPT !.judge = "none"]
  <2>1. /\ row \in Runs /\ row.round = run[t].round /\ row.paused = run[t].paused
        /\ row.window = run[t].window /\ row.judging = run[t].judging /\ row.judge = "none"
        /\ row.status = run[t].status
    BY <1>0 DEF Runs
  <2>2. Moves(t, row)
    BY <1>3 DEF JudgeDies
  <2> HIDE DEF row
  <2> QED
    BY <2>1, <2>2
<1>4. CASE SentBack(t) \/ Merges(t)
  <2> DEFINE row(s) == [run[t] EXCEPT !.status = s]
  <2>1. \A s \in {"free", "over"} :
          /\ row(s) \in Runs /\ row(s).round = run[t].round /\ row(s).paused = run[t].paused
          /\ row(s).window = run[t].window /\ row(s).judging = run[t].judging
          /\ row(s).judge = run[t].judge
    BY <1>0 DEF Runs
  <2>2. (Moves(t, row("free")) \/ Moves(t, row("over"))) /\ run[t].status = "review"
    BY <1>4 DEF SentBack, Merges
  <2> HIDE DEF row
  <2> QED
    BY <2>1, <2>2
<1> QED
  BY <1>1, <1>2, <1>3, <1>4

\* What agents, judges and reviewers do.
LEMMA MovesLocal ==
    ASSUME LocalInv, NEW t \in Tasks,
           HandsIn(t) \/ AgentDies(t) \/ Verdict(t) \/ JudgeDies(t) \/ SentBack(t) \/ Merges(t)
    PROVE  LocalInv'
<1>1. run[t] \in Runs /\ RowOK(t) /\ moves + 1 \in Nat /\ moves \in 0..MaxMoves
  BY BoundAssumption DEF LocalInv, TypeOK
<1>3. PICK row \in Runs :
        /\ Moves(t, row) /\ row.round = run[t].round
        /\ \/ row.judging = run[t].judging /\ (row.judge = run[t].judge \/ row.judge = "none")
           \/ ~row.judging /\ row.judge = "none"
        /\ \/ ~row.paused /\ row.window = 0
           \/ row.paused = run[t].paused /\ row.window = run[t].window
              /\ (row.status = run[t].status \/ run[t].status = "review")
  BY MovesRow
<1>4. row.round = 0 => ~row.judging /\ row.judge = "none"
  BY <1>1, <1>3 DEF RowOK
<1>5. /\ row.paused => row.window # 0
      /\ row.window # 0 => row.status = "active"
  BY <1>1, <1>3 DEF RowOK
<1>6. /\ run' = [run EXCEPT ![t] = row] /\ moves' = moves + 1 /\ moves < MaxMoves
      /\ UNCHANGED <<hand, hold, file, kept, ledger, workflow, unheard, orphans, holds>>
  BY <1>3 DEF Moves, files
<1>7. moves' \in 0..MaxMoves
  BY <1>1, <1>6, BoundAssumption
<1> QED
  BY <1>3, <1>4, <1>5, <1>6, <1>7, RowMoves DEF LocalInv, TypeOK

\* A process that dies, and time.
LEMMA DiesLocal ==
    ASSUME LocalInv, NEW p \in Procs, Dies(p)
    PROVE  LocalInv'
<1>1. /\ Idle(p) \in Hand /\ Idle(p).pc \in {"idle", "watch"} /\ Idle(p).st = Blank
  BY Values DEF Idle
<1>2. moves' \in 0..MaxMoves
  BY BoundAssumption DEF Dies, LocalInv, TypeOK
<1>3. Holds(p) \subseteq Tasks
  <2>1. Names(kept) \subseteq Tasks /\ Names(hand[p].st) \subseteq Tasks
    BY DEF Names, LocalInv, TypeOK, Pauses, NoFile, Hand
  <2> QED
    BY <2>1 DEF Holds
<1> QED
  BY <1>1, <1>2, <1>3, Resting DEF Dies, Rests, LocalInv, TypeOK, files, Composing, Thawing

\* The hold's time passes, and a round's wall; WORKFLOW.md is edited.
LEMMA TimeLocal ==
    ASSUME LocalInv, HoldLapses \/ Breaks \/ Mends \/ \E t \in Tasks : RoundLate(t)
    PROVE  LocalInv'
<1>1. CASE HoldLapses \/ Breaks \/ Mends
  <2>1. /\ UNCHANGED <<file, kept, ledger, run, hand, unheard, orphans, holds>>
        /\ hold' \in {hold, "late"} /\ workflow' \in Workflows /\ moves' \in 0..MaxMoves
    BY <1>1, BoundAssumption DEF HoldLapses, Breaks, Mends, Workflows, history, LocalInv, TypeOK
  <2>2. \A u \in Tasks : run[u].round \in Nat /\ RowOK(u)
    BY Values DEF LocalInv, TypeOK, Runs
  <2>3. \A u \in Tasks : run[u].round <= run'[u].round /\ RowOK(u)'
    BY <2>1, <2>2 DEF RowOK
  <2> QED
    BY <2>1, <2>3, RowsMove DEF LocalInv, TypeOK
<1>2. ASSUME NEW t \in Tasks, RoundLate(t) PROVE LocalInv'
  <2> DEFINE row == [run[t] EXCEPT !.late = TRUE]
  <2>1. /\ run[t] \in Runs /\ RowOK(t) /\ run' = [run EXCEPT ![t] = row]
        /\ UNCHANGED <<hand, hold, file, kept, ledger, workflow, unheard, orphans, holds, moves>>
    BY <1>2 DEF RoundLate, LocalInv, TypeOK, files, history
  <2>2. /\ row \in Runs /\ row.round = run[t].round /\ row.judging = run[t].judging
        /\ row.judge = run[t].judge
        /\ row.paused = run[t].paused /\ row.window = run[t].window /\ row.status = run[t].status
    BY <2>1 DEF Runs
  <2> HIDE DEF row
  <2>3. row.round = 0 => ~row.judging /\ row.judge = "none"
    BY <2>1, <2>2 DEF RowOK
  <2>4. /\ row.paused => row.window # 0
        /\ row.window # 0 => row.status = "active"
    BY <2>1, <2>2 DEF RowOK
  <2> QED
    BY <2>1, <2>2, <2>3, <2>4, RowMoves DEF LocalInv, TypeOK
<1> QED
  BY <1>1, <1>2

\* Every step, and none.
LEMMA NextLocal == LocalInv /\ [Next]_vars => LocalInv'
<1> SUFFICES ASSUME LocalInv, [Next]_vars PROVE LocalInv'
  OBVIOUS
<1>1. CASE \E h \in Hands : Take(h) \/ Resume(h) \/ HandStep(h)
  BY <1>1, HandLocal
<1>2. CASE TickStep
  <2>1. CASE ResumeStep(Daemon)
    BY <2>1, Values, ReadClaimedLocal, ThawRecordLocal, ThawContLocal, UnlinkLocal, ThawLookLocal,
       SayLocal, GoesOnLocal DEF ResumeStep, Resumed
  <2>2. CASE FleetTick
    BY <2>2, Values, ClaimLocal DEF FleetTick, At
  <2> QED
    BY <1>2, <2>1, <2>2, TickRests, RoundsEnd, RetryLocal, StartsLocal DEF TickStep
<1>3. CASE World
  BY <1>3, TimeLocal, MovesLocal DEF World
<1>4. CASE \E p \in Procs : Dies(p)
  BY <1>4, DiesLocal
<1>5. CASE UNCHANGED vars
  <2>1. UNCHANGED <<hold, file, kept, ledger, workflow, run, hand, unheard, orphans, holds, moves>>
    BY <1>5 DEF vars, files, history
  <2>2. \A u \in Tasks : run[u].round \in Nat /\ RowOK(u)
    BY Values DEF LocalInv, TypeOK, Runs
  <2>3. \A u \in Tasks : run[u].round <= run'[u].round /\ RowOK(u)'
    BY <2>1, <2>2 DEF RowOK
  <2> QED
    BY <2>1, <2>3, RowsMove DEF LocalInv, TypeOK
<1> QED
  BY <1>1, <1>2, <1>3, <1>4, <1>5 DEF Next

\* The first state.
LEMMA InitLocal == Init => LocalInv
<1> SUFFICES ASSUME Init PROVE LocalInv
  OBVIOUS
<1>1. \A t \in Tasks : run[t] \in Runs /\ run[t].round = 0 /\ ~run[t].judging /\ run[t].judge = "none"
                       /\ ~run[t].paused /\ run[t].window = 0
  <2> TAKE t \in Tasks
  <2>1. PICK s \in {"free", "review"} :
          run[t] = [status |-> s, launches |-> 0, window |-> 0, paused |-> FALSE,
                    judging |-> FALSE, round |-> 0, judge |-> "none", late |-> FALSE]
    BY DEF Init
  <2> QED
    BY <2>1, Values DEF Runs
<1>2. run \in [Tasks -> Runs]
  BY <1>1 DEF Init
<1>3. TypeOK
  BY <1>2, Values, BoundAssumption DEF Init, TypeOK
<1>4. \A t \in Tasks : RowOK(t)
  BY <1>1 DEF Init, RowOK, NoLedger
<1>5. \A p \in Procs : hand[p].pc \in {"idle", "watch"} /\ hand[p].st = Blank
  BY DEF Init, Idle
<1>6. \A p \in Procs : Local(p)
  BY <1>5 DEF Local, PlaceOK, FreezeOK, ThawOK, Composing, Freezing, Thawing
<1> QED
  BY <1>3, <1>4, <1>6 DEF LocalInv

\* Every file, row and process holds what the code can write there.
THEOREM TypeCorrect == Spec => []TypeOK
<1>1. LocalInv => TypeOK
  BY DEF LocalInv
<1> QED
  BY <1>1, InitLocal, NextLocal, PTL DEF Spec

-----------------------------------------------------------------------------
(* The pause being composed names what the file does.                      *)

\* What a pause in hand names, it goes on naming.
LEMMA NamedOn ==
    ASSUME NEW p \in Procs, Composed(p), file' = file \/ file' = NoFile,
           hand'[p].pc \in Composing =>
              /\ hand[p].pc \in Composing
              /\ \A t \in Tasks :
                    /\ hand[p].st.agents[t] # "no" => hand'[p].st.agents[t] # "no"
                    /\ hand[p].st.judges[t] # 0 => hand'[p].st.judges[t] = hand[p].st.judges[t]
    PROVE  Composed(p)'
  BY DEF Composed

\* A step that leaves what a process has in hand, or drops it.
LEMMA ComposedSame ==
    ASSUME NEW p \in Procs, Composed(p), file' = file \/ file' = NoFile,
           hand'[p] = hand[p] \/ hand'[p].pc \notin Composing
    PROVE  Composed(p)'
  BY NamedOn

\* Every step of a pause.
LEMMA PauseComposed ==
    ASSUME OnePauser, LocalInv, LocalInv', \A p \in Procs : Composed(p), NEW h \in Hands, PauseStep(h)
    PROVE  \A p \in Procs : Composed(p)'
<1>1. hand \in [Procs -> Hand] /\ h \in Procs /\ hand[h] \in Hand /\ hand' \in [Procs -> Hand]
  BY Values DEF LocalInv, TypeOK
<1>2. CASE ReadPause(h)
  <2> DEFINE st == IF file = NoFile THEN Blank ELSE file
  <2>1. \E todo : hand' = [hand EXCEPT ![h].pc = "tell", ![h].st = st, ![h].todo = todo]
    BY <1>2 DEF ReadPause
  <2>2. hand'[h].st = st /\ file' = file /\ \A q \in Procs \ {h} : hand'[q] = hand[q]
    BY <1>1, <1>2, <2>1 DEF ReadPause, files, Hand
  <2>3. Composed(h)'
    BY <2>2 DEF Composed
  <2> QED
    BY <2>2, <2>3, ComposedSame
<1>3. CASE \E t \in Tasks, w \in Windows : TellPause(h, t, w) \/ TellNobody(h, t, w) \/ TellFails(h, t, w)
  <2> PICK t \in Tasks, w \in Windows : TellPause(h, t, w) \/ TellNobody(h, t, w) \/ TellFails(h, t, w)
    BY <1>3
  <2> DEFINE todo == hand[h].todo \ {<<t, w>>}
  <2>1. /\ \/ \E word \in {"told", "failed"} : hand' = Said(h, t, todo, word)
           \/ hand' = [hand EXCEPT ![h].todo = todo]
        /\ file' = file /\ hand[h].pc = "tell"
    BY DEF TellPause, TellNobody, TellFails, Tells, Said, files, At
  <2>2. todo \in SUBSET (Tasks \X Windows) /\ {"told", "failed"} \subseteq Told
    BY <1>1 DEF Hand, Told
  <2> HIDE DEF todo
  <2>3. CASE hand' = [hand EXCEPT ![h].todo = todo]
    <3>1. hand'[h].st = hand[h].st /\ \A q \in Procs \ {h} : hand'[q] = hand[q]
      BY <2>3, <1>1 DEF Hand
    <3>2. Composed(h)'
      BY <2>1, <3>1, <1>1, NamedOn DEF Composing
    <3> QED
      BY <2>1, <3>1, <3>2, ComposedSame
  <2>4. ASSUME NEW word \in {"told", "failed"}, hand' = Said(h, t, todo, word)
        PROVE  \A p \in Procs : Composed(p)'
    <3>1. \E new \in Hand :
              /\ hand' = [hand EXCEPT ![h] = new]
              /\ new.pc = hand[h].pc /\ new.todo = todo /\ new.st.judges = hand[h].st.judges
              /\ new.st.agents = [hand[h].st.agents EXCEPT ![t] = word]
      BY <1>1, <2>2, <2>4, TellUpdate
    <3>2. /\ hand'[h].st.judges = hand[h].st.judges
          /\ hand'[h].st.agents = [hand[h].st.agents EXCEPT ![t] = word]
          /\ \A q \in Procs \ {h} : hand'[q] = hand[q]
      BY <3>1, <1>1
    <3>3. \A u \in Tasks : hand'[h].st.agents[u] = hand[h].st.agents[u] \/ hand'[h].st.agents[u] = word
      BY <3>2, <1>1 DEF Hand, Pauses
    <3>4. Composed(h)'
      BY <2>1, <3>2, <3>3, <1>1, NamedOn DEF Composing
    <3> QED
      BY <2>1, <3>2, <3>4, ComposedSame
  <2> QED
    BY <2>1, <2>3, <2>4
<1>4. CASE \/ ReadJudges(h) \/ FreezeRecord(h)
           \/ \E t \in Tasks, r \in Windows : FreezeNothing(h, t, r) \/ FreezeLook(h, t, r)
  <2>1. /\ hand'[h].st = hand[h].st /\ hand[h].pc \in Composing
        /\ \A q \in Procs \ {h} : hand'[q] = hand[q]
    <3>1. CASE ReadJudges(h)
      BY <3>1, <1>1 DEF ReadJudges, Hand, At, Composing
    <3>2. CASE FreezeRecord(h)
      BY <3>2, <1>1 DEF FreezeRecord, Goes, Hand, At, Composing
    <3>3. ASSUME NEW t \in Tasks, NEW r \in Windows, FreezeNothing(h, t, r) \/ FreezeLook(h, t, r)
          PROVE  /\ hand'[h].st = hand[h].st /\ hand[h].pc \in Composing
                 /\ \A q \in Procs \ {h} : hand'[q] = hand[q]
      BY <3>3, <1>1 DEF FreezeNothing, FreezeLook, Hand, At, Composing
    <3> QED
      BY <3>1, <3>2, <3>3, <1>4
  <2>2. file' = file
    BY <1>4 DEF ReadJudges, FreezeRecord, FreezeNothing, FreezeLook, files
  <2>3. Composed(h)'
    BY <2>1, <2>2, <1>1, NamedOn
  <2> QED
    BY <2>1, <2>2, <2>3, ComposedSame
<1>5. CASE FreezeStop(h)
  <2>1. PICK t \in Tasks, r \in Windows, s \in Windows, new \in Hand :
              /\ hand[h].at = <<t, r, s>> /\ r <= s /\ s <= run[t].round
              /\ hand[h].st.judges[t] = 0 /\ (\A x \in hand[h].todo : x[1] # t)
              /\ Signalled(t, s, "runs", "stopped")
              /\ hand' = [hand EXCEPT ![h] = new]
              /\ new.pc = "freeze" /\ new.todo = hand[h].todo /\ new.at = <<>>
              /\ new.st.agents = hand[h].st.agents
              /\ new.st.judges = [hand[h].st.judges EXCEPT ![t] = s]
    BY <1>5, FreezeStopSays
  <2>2. /\ hand'[h] = new /\ \A q \in Procs \ {h} : hand'[q] = hand[q]
        /\ file' = file /\ hand[h].pc \in Composing
    BY <2>1, <1>1, <1>5 DEF FreezeStop, files, At, Composing
  <2>3. \A u \in Tasks : hand[h].st.judges[u] # 0 => new.st.judges[u] = hand[h].st.judges[u]
    BY <2>1, <1>1 DEF Hand, Pauses
  <2>4. Composed(h)'
    BY <2>1, <2>2, <2>3, <1>1, NamedOn
  <2> QED
    BY <2>2, <2>4, ComposedSame
<1>6. CASE WritePause(h)
  <2>1. hand[h].pc = "freeze" /\ hand' = [hand EXCEPT ![h] = Idle(h)]
    BY <1>6 DEF WritePause, Rests, At
  <2>2. hand'[h].pc \in {"idle", "watch"} /\ \A q \in Procs \ {h} : hand'[q] = hand[q]
    BY <2>1, <1>1 DEF Idle
  <2>3. h \in Pausers
    BY <2>1, <1>1 DEF LocalInv, Local, PlaceOK, Composing
  <2>4. \A q \in Procs : hand'[q].pc \in Composing => q = h
    BY <2>3 DEF LocalInv, Local, PlaceOK, OnePauser
  <2>5. \A q \in Procs : hand'[q].pc \notin Composing
    BY <2>2, <2>4 DEF Composing
  <2> QED
    BY <2>5 DEF Composed
<1> QED
  BY <1>2, <1>3, <1>4, <1>5, <1>6 DEF PauseStep

\* Every other step.
LEMMA OtherComposed ==
    ASSUME LocalInv, \A p \in Procs : Composed(p), NEW q \in Procs,
           \/ Take(q) \/ Resume(q) \/ ResumeStep(q) \/ Release(q) \/ Dies(q)
           \/ q = Daemon /\ TickStep
           \/ World \/ UNCHANGED vars
    PROVE  \A p \in Procs : Composed(p)'
<1>1. hand \in [Procs -> Hand] /\ hand[q] \in Hand
  BY DEF LocalInv, TypeOK
<1>2. \A p \in Procs : After(p).pc \notin Composing /\ Idle(p).pc \notin Composing
  BY AfterType DEF Idle, Composing
<1>3. ASSUME file' = file \/ file' = NoFile, \A p \in Procs \ {q} : hand'[p] = hand[p],
             hand'[q].pc \notin Composing
      PROVE  \A p \in Procs : Composed(p)'
  BY <1>3, ComposedSame
<1>4. ASSUME GoesOn(q) \/ Rests(q), file' = file PROVE \A p \in Procs : Composed(p)'
  BY <1>1, <1>2, <1>3, <1>4 DEF GoesOn, Rests
<1>5. ASSUME NEW pc, pc \notin Composing, Goes(q, pc), file' = file \/ file' = NoFile
      PROVE  \A p \in Procs : Composed(p)'
  BY <1>1, <1>3, <1>5 DEF Goes, Hand
<1>6. CASE hand' = hand /\ file' = file
  BY <1>1, <1>6, ComposedSame
<1>7. ASSUME Claim(q) PROVE \A p \in Procs : Composed(p)'
  BY <1>4, <1>5, <1>7 DEF Claim, files, Composing
<1>8. ASSUME ResumeStep(q) PROVE \A p \in Procs : Composed(p)'
  <2>1. CASE ReadClaimed(q)
    <3>1. CASE kept = NoFile
      BY <1>4, <2>1, <3>1 DEF ReadClaimed, files
    <3>2. CASE kept # NoFile
      BY <1>1, <1>3, <2>1, <3>2 DEF ReadClaimed, files, Hand, Composing
    <3> QED
      BY <3>1, <3>2
  <2>2. CASE ThawRecord(q)
    BY <1>5, <2>2 DEF ThawRecord, Composing
  <2>3. CASE ThawCont(q)
    <3>1. PICK t \in Tasks, new \in Hand : hand' = [hand EXCEPT ![q] = new] /\ new.pc = "thaw"
      BY <2>3, ThawContSays
    <3> QED
      BY <1>1, <1>3, <2>3, <3>1 DEF ThawCont, files, Composing
  <2>4. CASE Unlink(q)
    BY <1>1, <1>3, <2>4 DEF Unlink, Hand, Composing
  <2>5. CASE Resumed(q)
    BY <1>4, <2>5 DEF Resumed, files
  <2>6. ASSUME NEW t \in Tasks, NEW n \in Windows, ThawLook(q, t, n) \/ SayResume(q, t, n) \/ SayFails(q, t, n)
        PROVE  \A p \in Procs : Composed(p)'
    <3>1. CASE ThawLook(q, t, n)
      BY <1>1, <1>3, <3>1 DEF ThawLook, files, Hand, Composing
    <3>2. CASE SayResume(q, t, n) \/ SayFails(q, t, n)
      <4>1. /\ hand[q].pc = "say" /\ hand' = [hand EXCEPT ![q].todo = @ \ {<<t, n>>}] /\ file' = file
        BY <3>2 DEF SayResume, SayFails, files, At
      <4> QED
        BY <4>1, <1>1, <1>3 DEF Hand, Composing
    <3> QED
      BY <3>1, <3>2, <2>6
  <2> QED
    BY <2>1, <2>2, <2>3, <2>4, <2>5, <2>6, <1>8 DEF ResumeStep
<1>9. ASSUME q = Daemon, TickStep PROVE \A p \in Procs : Composed(p)'
  <2>1. CASE Watched \/ Expire \/ ReadHold \/ EndTick
    <3>1. Rests(q) \/ \E pc \in {"expire", "read", "fleet"} : Goes(q, pc)
      BY <1>9, <2>1 DEF Watched, Expire, ReadHold, EndTick
    <3>2. file' = file
      BY <2>1 DEF Watched, Expire, ReadHold, EndTick, files
    <3> QED
      BY <3>1, <3>2, <1>4, <1>5 DEF Composing
  <2>2. CASE FleetTick
    BY <1>7, <1>9, <2>2 DEF FleetTick
  <2>3. CASE ResumeStep(Daemon)
    BY <1>8, <1>9, <2>3
  <2>4. ASSUME NEW t \in Tasks, CancelMoot(t) \/ Watchdog(t) \/ WatchdogRetries(t)
        PROVE  \A p \in Procs : Composed(p)'
    BY <1>6, <2>4 DEF CancelMoot, Watchdog, WatchdogRetries, files
  <2>5. ASSUME NEW t \in Tasks, Launch(t) \/ SpawnJudge(t)
        PROVE  \A p \in Procs : Composed(p)'
    <3>1. /\ hand[q].pc = "start" /\ hand' = [hand EXCEPT ![q].todo = @ \ {<<t, 0>>}] /\ file' = file
      BY <1>9, <2>5 DEF Launch, SpawnJudge, Starts, files, At
    <3> QED
      BY <3>1, <1>1, <1>3 DEF Hand, Composing
  <2> QED
    BY <2>1, <2>2, <2>3, <2>4, <2>5, <1>9 DEF TickStep
<1>10. CASE World
  BY <1>6, <1>10 DEF World, HoldLapses, Breaks, Mends, RoundLate, HandsIn, AgentDies, Verdict, JudgeDies, SentBack,
                     Merges, Moves, files
<1>11. CASE Take(q)
  <2>1. hand' = hand \/ Goes(q, "read")
    BY <1>11 DEF Take
  <2>2. file' = file
    BY <1>11 DEF Take
  <2> QED
    BY <2>1, <2>2, <1>5, <1>6 DEF Composing
<1>12. CASE Release(q) \/ Dies(q)
  BY <1>4, <1>12 DEF Release, Dies, files
<1>13. CASE UNCHANGED vars
  BY <1>6, <1>13 DEF vars, files
<1> QED
  BY <1>7, <1>8, <1>9, <1>10, <1>11, <1>12, <1>13 DEF Resume

-----------------------------------------------------------------------------
(* Records.                                                                *)

\* Of a judge, and of an agent, p keeps what it has on record.
KeepsJudge(p, t) ==
    /\ hand[p].st.judges[t] = run[t].round => hand'[p].st.judges[t] = run[t].round
    /\ At(p, "claimed") /\ kept # NoFile /\ kept.judges[t] = run[t].round => At(p, "claimed")'
    /\ At(p, "stop") /\ hand[p].at = <<t, run[t].round, run[t].round>> =>
          At(p, "stop")' /\ hand'[p].at = hand[p].at

KeepsAgent(p, t) ==
    /\ hand[p].st.agents[t] # "no" => hand'[p].st.agents[t] # "no"
    /\ At(p, "claimed") /\ kept # NoFile /\ kept.agents[t] # "no" => At(p, "claimed")'
    /\ run[t].paused /\ At(p, "say") /\ <<t, run[t].window>> \in hand[p].todo =>
          At(p, "say")' /\ <<t, run[t].window>> \in hand'[p].todo

KeepsOn(p, t) == KeepsJudge(p, t) /\ KeepsAgent(p, t) /\ (Dropping(p, t)' => Dropping(p, t))

\* A process that does not move keeps what it has.
LEMMA StillKeeps ==
    ASSUME NEW p \in Procs, NEW t \in Tasks, hand'[p] = hand[p]
    PROVE  KeepsOn(p, t)
  BY DEF KeepsOn, KeepsJudge, KeepsAgent, Dropping, At

\* A record of a round that goes on is kept, in a file, by a claim, by a stop or in S.
LEMMA RecordKept ==
    ASSUME NEW t \in Tasks, UNCHANGED <<file, kept>>, \A p \in Procs : KeepsJudge(p, t),
           run'[t].round = run[t].round
    PROVE  /\ OnRecord(t, Procs) => OnRecord(t, Procs)'
           /\ (\A p \in Procs : Dropping(p, t)' => Dropping(p, t)) /\ OnRecord(t, Keepers(t)) =>
                 OnRecord(t, Keepers(t))'
<1>1. ASSUME NEW S, S \subseteq Procs, OnRecord(t, S)
      PROVE  \/ file' # NoFile /\ file'.judges[t] = run'[t].round
             \/ kept' # NoFile /\ kept'.judges[t] = run'[t].round /\ \E p \in Procs : At(p, "claimed")'
             \/ \E p \in S : hand'[p].st.judges[t] = run'[t].round
             \/ \E p \in Procs : At(p, "stop")' /\ hand'[p].at = <<t, run'[t].round, run'[t].round>>
  <2>1. CASE file # NoFile /\ file.judges[t] = run[t].round
    BY <2>1
  <2>2. CASE kept # NoFile /\ kept.judges[t] = run[t].round /\ \E p \in Procs : At(p, "claimed")
    BY <2>2 DEF KeepsJudge
  <2>3. CASE \E p \in S : hand[p].st.judges[t] = run[t].round
    BY <1>1, <2>3 DEF KeepsJudge
  <2>4. CASE \E p \in Procs : At(p, "stop") /\ hand[p].at = <<t, run[t].round, run[t].round>>
    BY <2>4 DEF KeepsJudge
  <2> QED
    BY <1>1, <2>1, <2>2, <2>3, <2>4 DEF OnRecord
<1>2. OnRecord(t, Procs) => OnRecord(t, Procs)'
  BY <1>1 DEF OnRecord
<1>3. Keepers(t) \subseteq Procs
  BY DEF Keepers
<1>4. ASSUME \A p \in Procs : Dropping(p, t)' => Dropping(p, t), OnRecord(t, Keepers(t))
      PROVE  OnRecord(t, Keepers(t))'
  <2>0. Keepers(t) \subseteq Keepers(t)'
    BY <1>4 DEF Keepers
  <2>1. CASE \E p \in Keepers(t) : hand'[p].st.judges[t] = run'[t].round
    BY <2>0, <2>1 DEF OnRecord
  <2>2. CASE ~\E p \in Keepers(t) : hand'[p].st.judges[t] = run'[t].round
    BY <1>1, <1>3, <1>4, <2>2 DEF OnRecord
  <2> QED
    BY <2>1, <2>2
<1> QED
  BY <1>2, <1>4

\* A step that stops no judge, opens no freeze and loses no record.
LEMMA JudgeQuiet ==
    ASSUME NEW t \in Tasks, RowOK(t), JudgeOK(t), UNCHANGED <<file, kept>>, t \in orphans => t \in orphans',
           run[t].round # 0 => \A p \in Procs : KeepsJudge(p, t),
           run'[t].judge = "stopped" => run[t].judge = "stopped" /\ run'[t].round = run[t].round,
           Frozen(t)' => /\ Frozen(t) /\ run'[t].round = run[t].round
                         /\ \A p \in Procs : Dropping(p, t)' => Dropping(p, t)
    PROVE  JudgeOK(t)'
<1>1. CASE t \in orphans
  BY <1>1 DEF JudgeOK
<1>2. CASE t \notin orphans /\ run'[t].round = run[t].round /\ run[t].round # 0
  <2>1. run[t].judge = "stopped" => OnRecord(t, Procs)
    BY <1>2 DEF JudgeOK
  <2>2. Frozen(t) => OnRecord(t, Keepers(t))
    BY <1>2 DEF JudgeOK
  <2> QED
    BY <1>2, <2>1, <2>2, RecordKept DEF JudgeOK
<1>3. CASE run'[t].round # run[t].round \/ run[t].round = 0
  <2>1. run'[t].judge # "stopped" /\ ~Frozen(t)'
    BY <1>3 DEF RowOK, Frozen
  <2> QED
    BY <2>1 DEF JudgeOK
<1> QED
  BY <1>1, <1>2, <1>3

\* A step that pauses no agent and loses no record of one.
LEMMA AgentQuiet ==
    ASSUME NEW t \in Tasks, AgentOK(t), UNCHANGED <<file, kept>>, t \in orphans => t \in orphans',
           t \in unheard => t \in unheard' \/ ~run'[t].paused,
           \A p \in Procs : KeepsAgent(p, t),
           run'[t].paused => run[t].paused /\ run'[t].window = run[t].window
    PROVE  AgentOK(t)'
<1>1. CASE t \in orphans \/ (t \in unheard /\ t \in unheard') \/ ~run'[t].paused
  BY <1>1 DEF AgentOK
<1>2. CASE t \notin orphans /\ t \notin unheard /\ run'[t].paused
  <2>1. Noted(t)
    BY <1>2 DEF AgentOK
  <2>2. Noted(t)'
    <3>1. CASE file # NoFile /\ file.agents[t] # "no"
      BY <3>1 DEF Noted
    <3>2. CASE kept # NoFile /\ kept.agents[t] # "no" /\ \E p \in Procs : At(p, "claimed")
      BY <3>2 DEF Noted, KeepsAgent
    <3>3. CASE \E p \in Procs : hand[p].st.agents[t] # "no"
      BY <3>3 DEF Noted, KeepsAgent
    <3>4. CASE \E p \in Procs : At(p, "say") /\ <<t, run[t].window>> \in hand[p].todo
      BY <1>2, <3>4 DEF Noted, KeepsAgent
    <3> QED
      BY <2>1, <3>1, <3>2, <3>3, <3>4 DEF Noted
  <2> QED
    BY <2>2 DEF AgentOK
<1> QED
  BY <1>1, <1>2

\* A step that only moves processes, and they keep what they have.
LEMMA QuietStep ==
    ASSUME NEW t \in Tasks, RowOK(t), JudgeOK(t), AgentOK(t), UNCHANGED <<file, kept, run, ledger>>,
           t \in orphans => t \in orphans', t \in unheard => t \in unheard',
           run[t].round # 0 => \A p \in Procs : KeepsOn(p, t),
           \A p \in Procs : KeepsAgent(p, t)
    PROVE  JudgeOK(t)' /\ AgentOK(t)'
<1>1. Frozen(t)' => Frozen(t) /\ run[t].round # 0
  BY DEF Frozen, RowOK
<1>2. JudgeOK(t)'
  BY <1>1, JudgeQuiet DEF KeepsOn
<1> QED
  BY <1>2, AgentQuiet

\* The records of a task.
Recorded(t) == JudgeOK(t) /\ AgentOK(t)

\* A step of one process that only adds to what it has on record.
LEMMA NamingMoves ==
    ASSUME LocalInv, NEW p \in Procs, NEW t \in Tasks, Recorded(t),
           UNCHANGED <<file, kept, run, ledger>>,
           t \in orphans => t \in orphans', t \in unheard => t \in unheard',
           \A q \in Procs \ {p} : hand'[q] = hand[q],
           hand[p].pc = "claimed" => kept = NoFile, hand[p].pc # "stop",
           hand[p].pc = "say" => hand[p].todo = {},
           hand'[p].pc \notin {"close", "cont"},
           hand[p].st.judges[t] # 0 => hand'[p].st.judges[t] = hand[p].st.judges[t],
           hand[p].st.agents[t] # "no" => hand'[p].st.agents[t] # "no"
    PROVE  Recorded(t)'
<1>1. KeepsAgent(p, t) /\ (run[t].round # 0 => KeepsOn(p, t))
  BY DEF KeepsOn, KeepsJudge, KeepsAgent, Dropping, At
<1>2. \A q \in Procs \ {p} : KeepsOn(q, t) /\ KeepsAgent(q, t)
  BY StillKeeps DEF KeepsOn
<1>3. /\ run[t].round # 0 => \A q \in Procs : KeepsOn(q, t)
      /\ \A q \in Procs : KeepsAgent(q, t)
  BY <1>1, <1>2
<1> QED
  BY <1>3, QuietStep DEF LocalInv, Recorded

\* A process with no pause in hand, no claim and nobody to tell loses no record.
LEMMA BlankMoves ==
    ASSUME LocalInv, NEW p \in Procs, NEW t \in Tasks, Recorded(t),
           UNCHANGED <<file, kept, run, ledger>>,
           t \in orphans => t \in orphans', t \in unheard => t \in unheard',
           \A q \in Procs \ {p} : hand'[q] = hand[q],
           hand[p].pc \notin Composing \cup Thawing,
           hand[p].pc = "claimed" => kept = NoFile,
           hand[p].pc = "say" => hand[p].todo = {},
           hand'[p].pc \notin {"close", "cont"}
    PROVE  Recorded(t)'
<1>1. hand[p].st = Blank /\ hand[p].pc # "stop"
  BY DEF LocalInv, Local, PlaceOK, Composing
<1>2. hand[p].st.judges[t] = 0 /\ hand[p].st.agents[t] = "no"
  BY <1>1, Values
<1> QED
  BY <1>1, <1>2, NamingMoves

\* The steps of a hand that add nothing to a pause.
LEMMA ComposeQuiet ==
    ASSUME LocalInv, NEW h \in Hands, NEW t \in Tasks, Recorded(t),
           \/ ReadPause(h) \/ ReadJudges(h)
           \/ \E u \in Tasks, n \in Windows : TellNobody(h, u, n) \/ FreezeNothing(h, u, n) \/ FreezeLook(h, u, n)
    PROVE  Recorded(t)'
<1>1. /\ hand \in [Procs -> Hand] /\ h \in Procs /\ hand[h] \in Hand
      /\ UNCHANGED <<file, kept, run, ledger, orphans, unheard>>
  BY Values DEF LocalInv, TypeOK, ReadPause, ReadJudges, TellNobody, FreezeNothing, FreezeLook, files, history
<1>2. CASE ReadPause(h)
  <2>1. /\ hand[h].pc = "read" /\ hand'[h].pc = "tell" /\ \A q \in Procs \ {h} : hand'[q] = hand[q]
    BY <1>1, <1>2 DEF ReadPause, At, Hand
  <2> QED
    BY <1>1, <2>1, BlankMoves DEF Composing, Thawing
<1>3. CASE ReadJudges(h)
  <2>1. /\ hand[h].pc = "tell" /\ hand'[h].pc = "freeze" /\ hand'[h].st = hand[h].st
        /\ \A q \in Procs \ {h} : hand'[q] = hand[q]
    BY <1>1, <1>3 DEF ReadJudges, At, Hand
  <2> QED
    BY <1>1, <2>1, NamingMoves
<1>4. ASSUME NEW u \in Tasks, NEW n \in Windows,
             TellNobody(h, u, n) \/ FreezeNothing(h, u, n) \/ FreezeLook(h, u, n)
      PROVE  Recorded(t)'
  <2>1. /\ hand[h].pc \in {"tell", "freeze"} /\ hand'[h].pc \in {"tell", "freeze", "record"}
        /\ hand'[h].st = hand[h].st /\ \A q \in Procs \ {h} : hand'[q] = hand[q]
    <3>1. CASE TellNobody(h, u, n)
      BY <1>1, <3>1 DEF TellNobody, At, Hand
    <3>2. CASE FreezeNothing(h, u, n)
      BY <1>1, <3>2 DEF FreezeNothing, At, Hand
    <3>3. CASE FreezeLook(h, u, n)
      BY <1>1, <3>3 DEF FreezeLook, At, Hand
    <3> QED
      BY <1>4, <3>1, <3>2, <3>3
  <2> QED
    BY <1>1, <2>1, NamingMoves
<1> QED
  BY <1>2, <1>3, <1>4

\* An agent that was told, or may have been, is noted.
LEMMA TellRecorded ==
    ASSUME LocalInv, NEW h \in Hands, NEW u \in Tasks, NEW w \in Windows, NEW t \in Tasks, Recorded(t),
           TellPause(h, u, w) \/ TellFails(h, u, w)
    PROVE  Recorded(t)'
<1> DEFINE todo == hand[h].todo \ {<<u, w>>}
<1>1. PICK word \in {"told", "failed"} : hand' = Said(h, u, todo, word)
  BY DEF TellPause, TellFails, Tells, Said
<1>2. /\ hand \in [Procs -> Hand] /\ h \in Procs /\ hand[h] \in Hand /\ hand[h].pc = "tell"
      /\ run \in [Tasks -> Runs] /\ RowOK(t)
      /\ UNCHANGED <<file, kept, ledger, orphans, unheard>>
  BY Values DEF LocalInv, TypeOK, TellPause, TellFails, At, files, history
<1>3. todo \in SUBSET (Tasks \X Windows) /\ word \in Told
  BY <1>2 DEF Hand, Told
<1> HIDE DEF todo
<1>4. PICK new \in Hand :
          /\ hand' = [hand EXCEPT ![h] = new]
          /\ new.pc = hand[h].pc /\ new.todo = todo /\ new.st.judges = hand[h].st.judges
          /\ new.st.agents = [hand[h].st.agents EXCEPT ![u] = word]
  BY <1>1, <1>2, <1>3, TellUpdate
<1>5. hand'[h] = new /\ \A q \in Procs \ {h} : hand'[q] = hand[q]
  BY <1>2, <1>4
<1>6. new.st.agents[u] = word /\ \A v \in Tasks \ {u} : new.st.agents[v] = hand[h].st.agents[v]
  BY <1>2, <1>4 DEF Hand, Pauses
<1>7. KeepsOn(h, t)
  BY <1>1, <1>2, <1>4, <1>5, <1>6 DEF KeepsOn, KeepsJudge, KeepsAgent, Dropping, At
<1>8. \A q \in Procs : KeepsOn(q, t)
  BY <1>5, <1>7, StillKeeps
<1>9. /\ run' = run \/ run' = [run EXCEPT ![u].paused = TRUE]
  BY DEF TellPause, TellFails
<1>10. /\ run'[t].judge = run[t].judge /\ run'[t].round = run[t].round /\ run'[t].judging = run[t].judging
       /\ run'[t].window = run[t].window
  BY <1>2, <1>9 DEF Runs
<1>11. t # u => run'[t] = run[t]
  BY <1>2, <1>9
<1>12. JudgeOK(t)'
  <2>1. Frozen(t)' = Frozen(t)
    BY <1>2, <1>10 DEF Frozen
  <2> QED
    BY <1>2, <1>8, <1>10, <2>1, JudgeQuiet DEF Recorded, KeepsOn
<1>13. AgentOK(t)'
  <2>1. CASE t = u
    BY <1>1, <1>2, <1>5, <1>6, <2>1 DEF AgentOK, Noted
  <2>2. CASE t # u
    BY <1>2, <1>8, <1>11, <2>2, AgentQuiet DEF Recorded, KeepsOn
  <2> QED
    BY <2>1, <2>2
<1> QED
  BY <1>12, <1>13 DEF Recorded

\* A freeze that opens is the one its process is about to stop.
LEMMA FreezeRecorded ==
    ASSUME LocalInv, NEW h \in Hands, NEW t \in Tasks, Recorded(t), FreezeRecord(h)
    PROVE  Recorded(t)'
<1>1. /\ hand \in [Procs -> Hand] /\ h \in Procs /\ hand[h] \in Hand /\ hand[h].pc = "record"
      /\ ledger \in [Tasks -> Ledgers] /\ run \in [Tasks -> Runs] /\ RowOK(t) /\ FreezeOK(h)
      /\ UNCHANGED <<file, kept, run, orphans, unheard>>
  BY Values DEF LocalInv, TypeOK, FreezeRecord, At, history, Local
<1>2. PICK u \in Tasks, r \in Windows, s \in Windows :
          hand[h].at = <<u, r, s>> /\ r <= s /\ s <= run[u].round
  BY <1>1 DEF FreezeOK, Freezing
<1>3. /\ hand'[h].pc = "stop" /\ hand'[h].at = hand[h].at /\ hand'[h].st = hand[h].st
      /\ \A q \in Procs \ {h} : hand'[q] = hand[q]
  BY <1>1 DEF FreezeRecord, Goes, Hand
<1>4. ledger' = [ledger EXCEPT ![u] = Opened(hand[h].rec, r)]
  BY <1>2 DEF FreezeRecord
<1>5. KeepsOn(h, t)
  BY <1>1, <1>3 DEF KeepsOn, KeepsJudge, KeepsAgent, Dropping, At
<1>6. \A q \in Procs : KeepsOn(q, t)
  BY <1>3, <1>5, StillKeeps
<1>7. AgentOK(t)'
  BY <1>1, <1>6, AgentQuiet DEF Recorded, KeepsOn
<1>8. JudgeOK(t)'
  <2>1. CASE t # u
    <3>1. Frozen(t)' = Frozen(t)
      BY <1>1, <1>4, <2>1 DEF Frozen
    <3> QED
      BY <1>1, <1>6, <3>1, JudgeQuiet DEF Recorded, KeepsOn
  <2>2. CASE t = u
    <3>1. Frozen(t)' => r = run[t].round
      BY <1>1, <1>4, <2>2 DEF Frozen, Opened
    <3>2. r \in Nat /\ s \in Nat /\ run[t].round \in Nat
      BY <1>1, Values DEF Runs
    <3>3. Frozen(t)' => hand[h].at = <<t, run[t].round, run[t].round>>
      BY <1>2, <2>2, <3>1, <3>2
    <3>4. Frozen(t)' => OnRecord(t, Keepers(t))'
      BY <1>1, <1>3, <3>3 DEF OnRecord, At
    <3>5. t \in orphans \/ (run'[t].judge = "stopped" => OnRecord(t, Procs)')
      BY <1>1, <1>6, RecordKept DEF Recorded, JudgeOK, KeepsOn
    <3> QED
      BY <1>1, <3>4, <3>5 DEF JudgeOK
  <2> QED
    BY <2>1, <2>2
<1> QED
  BY <1>7, <1>8 DEF Recorded

\* A judge that is stopped is on the record of the process that stopped it.
LEMMA StopRecorded ==
    ASSUME LocalInv, NEW h \in Hands, NEW t \in Tasks, Recorded(t), FreezeStop(h)
    PROVE  Recorded(t)'
<1>1. /\ hand \in [Procs -> Hand] /\ h \in Procs /\ hand[h] \in Hand /\ hand[h].pc = "stop"
      /\ run \in [Tasks -> Runs] /\ RowOK(t)
      /\ UNCHANGED <<file, kept, ledger, orphans, unheard>>
  BY Values DEF LocalInv, TypeOK, FreezeStop, At, files, history
<1>2. PICK u \in Tasks, r \in Windows, s \in Windows, new \in Hand :
              /\ hand[h].at = <<u, r, s>> /\ r <= s /\ s <= run[u].round
              /\ hand[h].st.judges[u] = 0 /\ (\A x \in hand[h].todo : x[1] # u)
              /\ Signalled(u, s, "runs", "stopped")
              /\ hand' = [hand EXCEPT ![h] = new]
              /\ new.pc = "freeze" /\ new.todo = hand[h].todo /\ new.at = <<>>
              /\ new.st.agents = hand[h].st.agents
              /\ new.st.judges = [hand[h].st.judges EXCEPT ![u] = s]
  BY FreezeStopSays
<1>3. hand'[h] = new /\ \A q \in Procs \ {h} : hand'[q] = hand[q]
  BY <1>1, <1>2
<1>4. new.st.judges[u] = s /\ \A v \in Tasks \ {u} : new.st.judges[v] = hand[h].st.judges[v]
  BY <1>1, <1>2 DEF Hand, Pauses
<1>5. /\ run' = run \/ (s = run[u].round /\ run' = [run EXCEPT ![u].judge = "stopped"])
      /\ run'[t].round = run[t].round /\ run'[t].judging = run[t].judging
      /\ run'[t].window = run[t].window /\ run'[t].paused = run[t].paused
  BY <1>1, <1>2 DEF Signalled, Runs
<1>6. Frozen(t)' = Frozen(t)
  BY <1>1, <1>5 DEF Frozen
<1>7. ~Dropping(h, t)' /\ KeepsAgent(h, t)
  BY <1>1, <1>2, <1>3 DEF KeepsAgent, Dropping, At
<1>8. \A q \in Procs \ {h} : KeepsOn(q, t)
  BY <1>3, StillKeeps
<1>9. AgentOK(t)'
  BY <1>1, <1>5, <1>7, <1>8, AgentQuiet DEF Recorded, KeepsOn
<1>10. JudgeOK(t)'
  <2>1. CASE t = u /\ s = run[u].round
    <3>1. hand'[h].st.judges[t] = run'[t].round /\ h \in Keepers(t)'
      BY <1>1, <1>3, <1>4, <1>5, <1>7, <2>1 DEF Keepers
    <3>2. OnRecord(t, Procs)' /\ OnRecord(t, Keepers(t))'
      BY <1>1, <3>1 DEF OnRecord
    <3> QED
      BY <3>2 DEF JudgeOK
  <2>2. CASE ~(t = u /\ s = run[u].round)
    <3>1. hand[h].at # <<t, run[t].round, run[t].round>>
      BY <1>2, <2>2
    <3>2. run[t].round # 0 => KeepsJudge(h, t)
      BY <1>1, <1>2, <1>3, <1>4, <3>1 DEF KeepsJudge, At
    <3>3. run[t].round # 0 => \A q \in Procs : KeepsJudge(q, t)
      BY <1>8, <3>2 DEF KeepsOn
    <3>4. \A q \in Procs : Dropping(q, t)' => Dropping(q, t)
      BY <1>7, <1>8 DEF KeepsOn
    <3>5. run'[t].judge = run[t].judge
      BY <1>1, <1>5, <2>2
    <3> QED
      BY <1>1, <1>5, <1>6, <3>3, <3>4, <3>5, JudgeQuiet DEF Recorded
  <2> QED
    BY <2>1, <2>2
<1> QED
  BY <1>9, <1>10 DEF Recorded

\* The pause that is written has in it what the file had.
LEMMA WriteRecorded ==
    ASSUME LocalInv, NEW h \in Hands, NEW t \in Tasks, Recorded(t), Composed(h), WritePause(h)
    PROVE  Recorded(t)'
<1>1. /\ hand \in [Procs -> Hand] /\ h \in Procs /\ hand[h] \in Hand /\ hand[h].pc = "freeze"
      /\ RowOK(t) /\ file' = hand[h].st /\ hand' = [hand EXCEPT ![h] = Idle(h)]
      /\ UNCHANGED <<kept, run, ledger, orphans, unheard>>
  BY Values DEF LocalInv, TypeOK, WritePause, At, history, Rests
<1>2. /\ file' # NoFile /\ Idle(h).pc \in {"idle", "watch"}
      /\ \A q \in Procs \ {h} : hand'[q] = hand[q] /\ hand'[h] = Idle(h)
  BY <1>1, FileType DEF LocalInv, Hand, Idle
<1>3. hand'[h] = Idle(h)
  BY <1>1
<1>4. /\ file # NoFile /\ file.agents[t] # "no" => hand[h].st.agents[t] # "no"
      /\ file # NoFile /\ file.judges[t] # 0 => hand[h].st.judges[t] = file.judges[t]
  BY <1>1 DEF Composed, Composing
<1>5. \A q \in Procs : /\ q # h => At(q, "claimed")' = At(q, "claimed") /\ At(q, "stop")' = At(q, "stop")
                       /\ At(q, "say")' = At(q, "say") /\ (q # h => Dropping(q, t)' = Dropping(q, t))
                       /\ q = h => ~At(q, "claimed") /\ ~At(q, "stop") /\ ~At(q, "say")
  BY <1>1, <1>2, <1>3 DEF At, Dropping
<1>6. ASSUME NEW S, S \subseteq Procs, NEW S2, S \ {h} \subseteq S2, run[t].round # 0, OnRecord(t, S)
      PROVE  \/ file' # NoFile /\ file'.judges[t] = run'[t].round
             \/ kept' # NoFile /\ kept'.judges[t] = run'[t].round /\ \E p \in Procs : At(p, "claimed")'
             \/ \E p \in S2 : hand'[p].st.judges[t] = run'[t].round
             \/ \E p \in Procs : At(p, "stop")' /\ hand'[p].at = <<t, run'[t].round, run'[t].round>>
  <2>1. CASE file # NoFile /\ file.judges[t] = run[t].round
    BY <1>1, <1>2, <1>4, <1>6, <2>1
  <2>2. CASE kept # NoFile /\ kept.judges[t] = run[t].round /\ \E p \in Procs : At(p, "claimed")
    BY <1>1, <1>5, <2>2
  <2>3. CASE \E p \in S : hand[p].st.judges[t] = run[t].round
    BY <1>1, <1>2, <1>6, <2>3
  <2>4. CASE \E p \in Procs : At(p, "stop") /\ hand[p].at = <<t, run[t].round, run[t].round>>
    BY <1>1, <1>2, <1>5, <2>4
  <2> QED
    BY <1>6, <2>1, <2>2, <2>3, <2>4 DEF OnRecord
<1>7. JudgeOK(t)'
  <2>1. Keepers(t) \subseteq Procs /\ Keepers(t) \ {h} \subseteq Keepers(t)' /\ Keepers(t)' \subseteq Procs
    BY <1>5 DEF Keepers
  <2>2. run[t].round # 0 /\ OnRecord(t, Procs) => OnRecord(t, Procs)'
    BY <1>6 DEF OnRecord
  <2>3. ASSUME run[t].round # 0, OnRecord(t, Keepers(t)) PROVE OnRecord(t, Keepers(t))'
    <3> DEFINE S2 == Keepers(t)'
    <3>1. \/ file' # NoFile /\ file'.judges[t] = run'[t].round
          \/ kept' # NoFile /\ kept'.judges[t] = run'[t].round /\ \E p \in Procs : At(p, "claimed")'
          \/ \E p \in S2 : hand'[p].st.judges[t] = run'[t].round
          \/ \E p \in Procs : At(p, "stop")' /\ hand'[p].at = <<t, run'[t].round, run'[t].round>>
      BY <1>6, <2>1, <2>3
    <3> QED
      BY <3>1 DEF OnRecord
  <2>4. Frozen(t)' = Frozen(t) /\ (Frozen(t) => run[t].round # 0)
    BY <1>1 DEF Frozen, RowOK
  <2>5. run[t].judge = "stopped" => run[t].round # 0
    BY <1>1 DEF RowOK
  <2> QED
    BY <1>1, <2>2, <2>3, <2>4, <2>5 DEF JudgeOK, Recorded
<1>8. AgentOK(t)'
  <2>1. Noted(t) => Noted(t)'
    <3>1. CASE file # NoFile /\ file.agents[t] # "no"
      BY <1>1, <1>2, <1>4, <3>1 DEF Noted
    <3>2. CASE kept # NoFile /\ kept.agents[t] # "no" /\ \E p \in Procs : At(p, "claimed")
      BY <1>1, <1>5, <3>2 DEF Noted
    <3>3. CASE \E p \in Procs : hand[p].st.agents[t] # "no"
      BY <1>1, <1>2, <3>3 DEF Noted
    <3>4. CASE \E p \in Procs : At(p, "say") /\ <<t, run[t].window>> \in hand[p].todo
      BY <1>1, <1>2, <1>5, <3>4 DEF Noted
    <3> QED
      BY <3>1, <3>2, <3>3, <3>4 DEF Noted
  <2> QED
    BY <1>1, <2>1 DEF AgentOK, Recorded
<1> QED
  BY <1>7, <1>8 DEF Recorded

\* Every step of a pause.
LEMMA PauseRecorded ==
    ASSUME LocalInv, \A p \in Procs : Composed(p), NEW h \in Hands, NEW t \in Tasks, Recorded(t),
           PauseStep(h)
    PROVE  Recorded(t)'
<1>1. h \in Procs
  BY Values
<1> QED
  BY <1>1, ComposeQuiet, TellRecorded, FreezeRecorded, StopRecorded, WriteRecorded DEF PauseStep

-----------------------------------------------------------------------------
(* Records of a resume.                                                    *)

\* What a claim says passes to the process that reads it.
LEMMA ReadRecorded ==
    ASSUME LocalInv, NEW p \in Procs, NEW t \in Tasks, Recorded(t), ReadClaimed(p)
    PROVE  Recorded(t)'
<1>1. /\ hand \in [Procs -> Hand] /\ hand[p] \in Hand /\ hand[p].pc = "claimed" /\ RowOK(t)
      /\ UNCHANGED <<file, kept, run, ledger, orphans, unheard>>
  BY DEF LocalInv, TypeOK, ReadClaimed, At, files, history
<1>2. CASE kept = NoFile
  <2>1. hand' = [hand EXCEPT ![p] = After(p)] /\ After(p).pc \in {"start", "release"}
    BY <1>2 DEF ReadClaimed, GoesOn, After, Idle
  <2>2. hand'[p].pc \in {"start", "release"} /\ \A q \in Procs \ {p} : hand'[q] = hand[q]
    BY <1>1, <2>1
  <2> QED
    BY <1>1, <1>2, <2>2, BlankMoves DEF Composing, Thawing
<1>3. CASE kept # NoFile
  <2>1. hand'[p].pc = "thaw" /\ hand'[p].st = kept /\ \A q \in Procs \ {p} : hand'[q] = hand[q]
    BY <1>1, <1>3 DEF ReadClaimed, Hand
  <2>2. hand[p].st = Blank
    BY <1>1 DEF LocalInv, Local, PlaceOK, Composing, Thawing
  <2>3. hand[p].st.judges[t] = 0 /\ hand[p].st.agents[t] = "no"
    BY <2>2, Values
  <2>4. /\ ~Dropping(p, t)' /\ ~At(p, "stop") /\ ~At(p, "say")
        /\ \A q \in Procs \ {p} : /\ Dropping(q, t)' = Dropping(q, t) /\ At(q, "stop")' = At(q, "stop")
                                  /\ At(q, "say")' = At(q, "say")
    BY <1>1, <2>1 DEF Dropping, At
  <2>5. ASSUME run[t].round # 0 PROVE (OnRecord(t, Procs) => OnRecord(t, Procs)') /\ (OnRecord(t, Keepers(t)) => OnRecord(t, Keepers(t))')
    <3>1. Keepers(t) \subseteq Keepers(t)' /\ p \in Keepers(t)' /\ Keepers(t) \subseteq Procs
      BY <2>4 DEF Keepers
    <3>2. CASE file # NoFile /\ file.judges[t] = run[t].round
      BY <1>1, <3>2 DEF OnRecord
    <3>3. CASE kept # NoFile /\ kept.judges[t] = run[t].round
      <4>1. hand'[p].st.judges[t] = run'[t].round
        BY <1>1, <2>1, <3>3
      <4> QED
        BY <3>1, <4>1 DEF OnRecord
    <3>4. CASE \E q \in Procs : At(q, "stop") /\ hand[q].at = <<t, run[t].round, run[t].round>>
      <4>1. \E q \in Procs : At(q, "stop")' /\ hand'[q].at = <<t, run'[t].round, run'[t].round>>
        BY <1>1, <2>1, <2>4, <3>4
      <4> QED
        BY <4>1 DEF OnRecord
    <3>5. ASSUME NEW q \in Procs, hand[q].st.judges[t] = run[t].round
          PROVE  q # p /\ hand'[q].st.judges[t] = run'[t].round
      BY <1>1, <2>1, <2>3, <2>5, <3>5
    <3>6. (\E q \in Procs : hand[q].st.judges[t] = run[t].round) => OnRecord(t, Procs)'
      BY <3>5 DEF OnRecord
    <3>7. (\E q \in Keepers(t) : hand[q].st.judges[t] = run[t].round) => OnRecord(t, Keepers(t))'
      BY <3>1, <3>5 DEF OnRecord
    <3> QED
      BY <3>2, <3>3, <3>4, <3>6, <3>7 DEF OnRecord
  <2>6. Frozen(t)' = Frozen(t) /\ (Frozen(t) \/ run[t].judge = "stopped" => run[t].round # 0)
    BY <1>1 DEF Frozen, RowOK
  <2>7. JudgeOK(t)'
    BY <1>1, <2>5, <2>6 DEF Recorded, JudgeOK
  <2>8. Noted(t) => Noted(t)'
    <3>1. CASE file # NoFile /\ file.agents[t] # "no"
      BY <1>1, <3>1 DEF Noted
    <3>2. CASE kept # NoFile /\ kept.agents[t] # "no"
      BY <2>1, <3>2 DEF Noted
    <3>3. CASE \E q \in Procs : hand[q].st.agents[t] # "no"
      BY <2>1, <2>3, <3>3 DEF Noted
    <3>4. CASE \E q \in Procs : At(q, "say") /\ <<t, run[t].window>> \in hand[q].todo
      BY <1>1, <2>1, <2>4, <3>4 DEF Noted
    <3> QED
      BY <3>1, <3>2, <3>3, <3>4 DEF Noted
  <2>9. AgentOK(t)'
    BY <1>1, <2>8 DEF Recorded, AgentOK
  <2> QED
    BY <2>7, <2>9 DEF Recorded
<1> QED
  BY <1>2, <1>3

\* A resume that finds a ledger with nothing to close gives up no open freeze.
LEMMA ThawLookRecorded ==
    ASSUME LocalInv, NEW p \in Procs, NEW u \in Tasks, NEW r \in Windows, NEW t \in Tasks, Recorded(t),
           ThawLook(p, u, r)
    PROVE  Recorded(t)'
<1>1. /\ hand \in [Procs -> Hand] /\ hand[p] \in Hand /\ hand[p].pc = "thaw" /\ RowOK(t)
      /\ UNCHANGED <<file, kept, run, ledger, orphans, unheard>>
  BY DEF LocalInv, TypeOK, ThawLook, At, files, history
<1>2. /\ hand'[p].pc = "close" /\ hand'[p].at = <<u, r>> /\ hand'[p].rec = ledger[u]
      /\ hand'[p].st = hand[p].st /\ \A q \in Procs \ {p} : hand'[q] = hand[q]
  BY <1>1 DEF ThawLook, Hand
<1>3. KeepsJudge(p, t) /\ KeepsAgent(p, t)
  BY <1>1, <1>2 DEF KeepsJudge, KeepsAgent, At
<1>4. \A q \in Procs \ {p} : KeepsOn(q, t)
  BY <1>2, StillKeeps
<1>5. Dropping(p, t)' => ledger[t].last # "open"
  BY <1>2 DEF Dropping, At
<1>6. Frozen(t)' => Frozen(t) /\ ledger[t].last = "open"
  BY <1>1 DEF Frozen
<1>7. JudgeOK(t)'
  BY <1>1, <1>3, <1>4, <1>5, <1>6, JudgeQuiet DEF Recorded, KeepsOn
<1>8. AgentOK(t)'
  BY <1>1, <1>3, <1>4, AgentQuiet DEF Recorded, KeepsOn
<1> QED
  BY <1>7, <1>8 DEF Recorded

\* One that closes a freeze leaves none to give up.
LEMMA ThawRecordRecorded ==
    ASSUME LocalInv, NEW p \in Procs, NEW t \in Tasks, Recorded(t), ThawRecord(p)
    PROVE  Recorded(t)'
<1>1. /\ hand \in [Procs -> Hand] /\ hand[p] \in Hand /\ hand[p].pc = "close" /\ RowOK(t) /\ ThawOK(p)
      /\ ledger \in [Tasks -> Ledgers]
      /\ UNCHANGED <<file, kept, run, orphans, unheard>>
  BY DEF LocalInv, TypeOK, ThawRecord, At, history, Local
<1>2. PICK u \in Tasks : hand[p].at = <<u, hand[p].st.judges[u]>>
  BY <1>1 DEF ThawOK, Thawing
<1>3. /\ hand'[p].pc = "cont" /\ hand'[p].at = hand[p].at /\ hand'[p].st = hand[p].st
      /\ \A q \in Procs \ {p} : hand'[q] = hand[q]
  BY <1>1 DEF ThawRecord, Goes, Hand
<1>4. KeepsJudge(p, t) /\ KeepsAgent(p, t)
  BY <1>1, <1>3 DEF KeepsJudge, KeepsAgent, At
<1>5. \A q \in Procs \ {p} : KeepsOn(q, t)
  BY <1>3, StillKeeps
<1>6. AgentOK(t)'
  BY <1>1, <1>4, <1>5, AgentQuiet DEF Recorded, KeepsOn
<1>7. CASE t # u
  <2>1. ledger'[t] = ledger[t]
    BY <1>1, <1>2, <1>7 DEF ThawRecord
  <2>2. ~Dropping(p, t)'
    BY <1>2, <1>3, <1>7 DEF Dropping
  <2>3. Frozen(t)' = Frozen(t)
    BY <1>1, <2>1 DEF Frozen
  <2>4. JudgeOK(t)'
    BY <1>1, <1>4, <1>5, <2>2, <2>3, JudgeQuiet DEF Recorded, KeepsOn
  <2> QED
    BY <1>6, <2>4 DEF Recorded
<1>8. CASE t = u /\ hand[p].rec.last = "open"
  <2>1. ledger' = [ledger EXCEPT ![t] = Closed(hand[p].rec)]
    BY <1>2, <1>8 DEF ThawRecord
  <2>2. Closed(hand[p].rec).last = "closed"
    BY <1>1 DEF Closed, Hand, Ledgers
  <2>3. ~Frozen(t)'
    BY <1>1, <2>1, <2>2 DEF Frozen
  <2>4. JudgeOK(t)'
    BY <1>1, <1>4, <1>5, <2>3, JudgeQuiet DEF Recorded, KeepsOn
  <2> QED
    BY <1>6, <2>4 DEF Recorded
<1>9. CASE t = u /\ hand[p].rec.last # "open"
  <2>1. ledger' = ledger
    BY <1>9 DEF ThawRecord
  <2>2. Dropping(p, t)
    BY <1>1, <1>2, <1>9, Values DEF Dropping, At, Hand, Pauses
  <2>3. Frozen(t)' = Frozen(t)
    BY <1>1, <2>1 DEF Frozen
  <2>4. JudgeOK(t)'
    BY <1>1, <1>4, <1>5, <2>2, <2>3, JudgeQuiet DEF Recorded, KeepsOn
  <2> QED
    BY <1>6, <2>4 DEF Recorded
<1> QED
  BY <1>7, <1>8, <1>9

\* A judge that goes on needs no record, and its freeze was on another's.
LEMMA ThawContRecorded ==
    ASSUME LocalInv, NEW p \in Procs, NEW t \in Tasks, Recorded(t), ThawCont(p)
    PROVE  Recorded(t)'
<1>1. /\ hand \in [Procs -> Hand] /\ hand[p] \in Hand /\ hand[p].pc = "cont" /\ RowOK(t)
      /\ run \in [Tasks -> Runs]
      /\ UNCHANGED <<file, kept, ledger, orphans, unheard>>
  BY DEF LocalInv, TypeOK, ThawCont, At, files, history
<1>2. PICK u \in Tasks, new \in Hand :
              /\ hand[p].at = <<u, hand[p].st.judges[u]>> /\ (\A x \in hand[p].todo : x[1] # u)
              /\ Signalled(u, hand[p].st.judges[u], "stopped", "runs")
              /\ hand' = [hand EXCEPT ![p] = new]
              /\ new.pc = "thaw" /\ new.todo = hand[p].todo /\ new.at = <<>>
              /\ new.st.agents = hand[p].st.agents
              /\ new.st.judges = [hand[p].st.judges EXCEPT ![u] = 0]
  BY ThawContSays
<1> DEFINE r == hand[p].st.judges[u]
<1>3. hand'[p] = new /\ \A q \in Procs \ {p} : hand'[q] = hand[q]
  BY <1>1, <1>2
<1>4. r \in Windows /\ \A v \in Tasks \ {u} : new.st.judges[v] = hand[p].st.judges[v]
  BY <1>1, <1>2 DEF Hand, Pauses
<1>5. /\ run'[t].round = run[t].round /\ run'[t].judging = run[t].judging
      /\ run'[t].window = run[t].window /\ run'[t].paused = run[t].paused
      /\ run'[t].judge = "stopped" => run[t].judge = "stopped" /\ ~(t = u /\ r = run[t].round)
  BY <1>1, <1>2 DEF Signalled, Runs
<1>6. Frozen(t)' = Frozen(t)
  BY <1>1, <1>5 DEF Frozen
<1>7. ~Dropping(p, t)' /\ KeepsAgent(p, t)
  BY <1>1, <1>2, <1>3 DEF KeepsAgent, Dropping, At
<1>8. \A q \in Procs \ {p} : KeepsOn(q, t)
  BY <1>3, StillKeeps
<1>9. AgentOK(t)'
  BY <1>1, <1>5, <1>7, <1>8, AgentQuiet DEF Recorded, KeepsOn
<1>10. CASE ~(t = u /\ r = run[t].round)
  <2>1. KeepsJudge(p, t)
    BY <1>1, <1>2, <1>3, <1>4, <1>10 DEF KeepsJudge, At
  <2>2. JudgeOK(t)'
    BY <1>1, <1>5, <1>6, <1>7, <1>8, <2>1, JudgeQuiet DEF Recorded, KeepsOn
  <2> QED
    BY <1>9, <2>2 DEF Recorded
<1>11. CASE t = u /\ r = run[t].round
  <2>1. run'[t].judge # "stopped"
    BY <1>5, <1>11
  <2>2. p \notin Keepers(t)
    BY <1>1, <1>2, <1>4, <1>11 DEF Keepers, Dropping, At
  <2>3. Keepers(t) \subseteq Keepers(t)' /\ Keepers(t) \subseteq Procs \ {p}
    BY <1>7, <1>8, <2>2 DEF Keepers, KeepsOn
  <2>4. ASSUME OnRecord(t, Keepers(t)) PROVE OnRecord(t, Keepers(t))'
    <3>1. CASE file # NoFile /\ file.judges[t] = run[t].round
      BY <1>1, <1>5, <3>1 DEF OnRecord
    <3>2. CASE kept # NoFile /\ kept.judges[t] = run[t].round /\ \E q \in Procs : At(q, "claimed")
      <4>1. \E q \in Procs : At(q, "claimed")'
        BY <1>1, <1>3, <3>2 DEF At
      <4> QED
        BY <1>1, <1>5, <3>2, <4>1 DEF OnRecord
    <3>3. CASE \E q \in Keepers(t) : hand[q].st.judges[t] = run[t].round
      <4>1. \E q \in Keepers(t)' : hand'[q].st.judges[t] = run'[t].round
        BY <1>3, <1>5, <2>3, <3>3
      <4> QED
        BY <4>1 DEF OnRecord
    <3>4. CASE \E q \in Procs : At(q, "stop") /\ hand[q].at = <<t, run[t].round, run[t].round>>
      <4>1. \E q \in Procs : At(q, "stop")' /\ hand'[q].at = <<t, run'[t].round, run'[t].round>>
        BY <1>1, <1>3, <1>5, <3>4 DEF At
      <4> QED
        BY <4>1 DEF OnRecord
    <3> QED
      BY <2>4, <3>1, <3>2, <3>3, <3>4 DEF OnRecord
  <2>5. JudgeOK(t)'
    BY <1>1, <1>6, <2>1, <2>4 DEF Recorded, JudgeOK
  <2> QED
    BY <1>9, <2>5 DEF Recorded
<1> QED
  BY <1>10, <1>11

\* What a claim that another resume has yet to read says is given up with it.
LEMMA ClaimLost ==
    ASSUME LocalInv, NEW p \in Procs, NEW t \in Tasks, hand[p].pc # "claimed", kept # NoFile,
           kept.agents[t] # "no" \/ kept.judges[t] # 0, \E q \in Procs : At(q, "claimed"),
           orphans' = orphans \cup Unread(p)
    PROVE  t \in orphans'
<1>1. kept \in Pauses
  BY FileType DEF LocalInv
<1>2. t \in Names(kept)
  BY <1>1 DEF Names, Pauses
<1>3. \E q \in Procs \ {p} : At(q, "claimed")
  BY DEF At
<1> QED
  BY <1>2, <1>3 DEF Unread

\* When the claimed file goes, every judge of it was thawed and every agent is to be told.
LEMMA UnlinkRecorded ==
    ASSUME LocalInv, NEW p \in Procs, NEW t \in Tasks, Recorded(t), Unlink(p)
    PROVE  Recorded(t)'
<1>1. /\ hand \in [Procs -> Hand] /\ hand[p] \in Hand /\ hand[p].pc = "thaw" /\ hand[p].todo = {}
      /\ RowOK(t) /\ ThawOK(p) /\ kept' = NoFile /\ orphans' = orphans \cup Unread(p)
      /\ UNCHANGED <<file, run, ledger, unheard>>
  BY DEF LocalInv, TypeOK, Unlink, At, Local
<1> DEFINE todo == {<<v, run[v].window>> : v \in {u \in Active : hand[p].st.agents[u] # "no"}}
<1>2. /\ hand'[p].pc = "say" /\ hand'[p].st = Blank /\ hand'[p].todo = todo
      /\ \A q \in Procs \ {p} : hand'[q] = hand[q]
  BY <1>1 DEF Unlink, Hand
<1>3. hand[p].st.judges[t] = 0
  BY <1>1 DEF ThawOK, Thawing
<1>4. /\ ~Dropping(p, t)' /\ ~At(p, "claimed") /\ ~At(p, "stop") /\ ~At(p, "say")
      /\ \A q \in Procs \ {p} : /\ Dropping(q, t)' = Dropping(q, t) /\ At(q, "stop")' = At(q, "stop")
                                /\ At(q, "say")' = At(q, "say")
  BY <1>1, <1>2 DEF Dropping, At
<1>5. CASE t \in orphans'
  BY <1>5 DEF Recorded, JudgeOK, AgentOK
<1>6. CASE t \notin orphans'
  <2>1. /\ run[t].round # 0 =>
              ~(kept # NoFile /\ kept.judges[t] = run[t].round /\ \E q \in Procs : At(q, "claimed"))
        /\ ~(kept # NoFile /\ kept.agents[t] # "no" /\ \E q \in Procs : At(q, "claimed"))
    BY <1>1, <1>6, ClaimLost
  <2>2. Keepers(t) \subseteq Keepers(t)' /\ Keepers(t) \subseteq Procs
    BY <1>4 DEF Keepers
  <2>3. ASSUME run[t].round # 0
        PROVE  (OnRecord(t, Procs) => OnRecord(t, Procs)') /\ (OnRecord(t, Keepers(t)) => OnRecord(t, Keepers(t))')
    <3>1. CASE file # NoFile /\ file.judges[t] = run[t].round
      BY <1>1, <3>1 DEF OnRecord
    <3>2. CASE \E q \in Procs : At(q, "stop") /\ hand[q].at = <<t, run[t].round, run[t].round>>
      <4>1. \E q \in Procs : At(q, "stop")' /\ hand'[q].at = <<t, run'[t].round, run'[t].round>>
        BY <1>1, <1>2, <1>4, <3>2
      <4> QED
        BY <4>1 DEF OnRecord
    <3>3. ASSUME NEW q \in Procs, hand[q].st.judges[t] = run[t].round
          PROVE  hand'[q].st.judges[t] = run'[t].round
      BY <1>1, <1>2, <1>3, <2>3, <3>3
    <3>4. (\E q \in Procs : hand[q].st.judges[t] = run[t].round) => OnRecord(t, Procs)'
      BY <3>3 DEF OnRecord
    <3>5. (\E q \in Keepers(t) : hand[q].st.judges[t] = run[t].round) => OnRecord(t, Keepers(t))'
      BY <2>2, <3>3 DEF OnRecord
    <3> QED
      BY <2>1, <2>3, <3>1, <3>2, <3>4, <3>5 DEF OnRecord
  <2>4. Frozen(t)' = Frozen(t) /\ (Frozen(t) \/ run[t].judge = "stopped" => run[t].round # 0)
    BY <1>1 DEF Frozen, RowOK
  <2>5. t \notin orphans
    BY <1>1, <1>6
  <2>6. JudgeOK(t)'
    BY <1>1, <2>3, <2>4, <2>5 DEF Recorded, JudgeOK
  <2>7. ASSUME run[t].paused, Noted(t) PROVE Noted(t)'
    <3>1. CASE file # NoFile /\ file.agents[t] # "no"
      BY <1>1, <3>1 DEF Noted
    <3>2. CASE hand[p].st.agents[t] # "no"
      <4>1. t \in Active
        BY <1>1, <2>7 DEF RowOK, Active
      <4>2. <<t, run'[t].window>> \in hand'[p].todo /\ At(p, "say")'
        BY <1>1, <1>2, <3>2, <4>1 DEF At
      <4> QED
        BY <4>2 DEF Noted
    <3>3. CASE \E q \in Procs \ {p} : hand[q].st.agents[t] # "no"
      BY <1>2, <3>3 DEF Noted
    <3>4. CASE \E q \in Procs : At(q, "say") /\ <<t, run[t].window>> \in hand[q].todo
      <4>1. \E q \in Procs : At(q, "say")' /\ <<t, run'[t].window>> \in hand'[q].todo
        BY <1>1, <1>2, <1>4, <3>4
      <4> QED
        BY <4>1 DEF Noted
    <3> QED
      BY <2>1, <2>7, <3>1, <3>2, <3>3, <3>4 DEF Noted
  <2>8. AgentOK(t)'
    BY <1>1, <2>5, <2>7 DEF Recorded, AgentOK
  <2> QED
    BY <2>6, <2>8 DEF Recorded
<1> QED
  BY <1>5, <1>6

\* An agent that was told to go on, or whose message did not get through, is off the record.
LEMMA SayRecorded ==
    ASSUME LocalInv, NEW p \in Procs, NEW u \in Tasks, NEW w \in Windows, NEW t \in Tasks, Recorded(t),
           SayResume(p, u, w) \/ SayFails(p, u, w)
    PROVE  Recorded(t)'
<1>1. /\ hand \in [Procs -> Hand] /\ hand[p] \in Hand /\ hand[p].pc = "say" /\ RowOK(t)
      /\ run \in [Tasks -> Runs] /\ UNCHANGED <<file, kept, ledger, orphans>> /\ unheard \subseteq unheard'
      /\ hand' = [hand EXCEPT ![p].todo = @ \ {<<u, w>>}]
  BY DEF LocalInv, TypeOK, SayResume, SayFails, At, files, history
<1>2. /\ hand'[p].pc = "say" /\ hand'[p].todo = hand[p].todo \ {<<u, w>>} /\ hand'[p].st = hand[p].st
      /\ hand'[p].at = hand[p].at
      /\ \A q \in Procs \ {p} : hand'[q] = hand[q]
  BY <1>1 DEF Hand
<1>3. /\ run'[t].judge = run[t].judge /\ run'[t].round = run[t].round /\ run'[t].judging = run[t].judging
      /\ run'[t].window = run[t].window /\ (t # u => run'[t] = run[t]) /\ (run'[t].paused => run[t].paused)
  BY <1>1 DEF SayResume, SayFails, Runs
<1>4. KeepsJudge(p, t) /\ ~Dropping(p, t)'
  BY <1>1, <1>2 DEF KeepsJudge, Dropping, At
<1>5. \A q \in Procs \ {p} : KeepsOn(q, t)
  BY <1>2, StillKeeps
<1>6. Frozen(t)' = Frozen(t)
  BY <1>1, <1>3 DEF Frozen
<1>7. JudgeOK(t)'
  BY <1>1, <1>3, <1>4, <1>5, <1>6, JudgeQuiet DEF Recorded, KeepsOn
<1>8. CASE t # u \/ w # run[t].window
  <2>1. KeepsAgent(p, t)
    BY <1>1, <1>2, <1>8 DEF KeepsAgent, At
  <2>2. AgentOK(t)'
    BY <1>1, <1>3, <1>5, <2>1, AgentQuiet DEF Recorded, KeepsOn
  <2> QED
    BY <1>7, <2>2 DEF Recorded
<1>9. CASE t = u /\ w = run[t].window
  <2>1. ~run'[t].paused \/ t \in unheard'
    <3>1. CASE SayResume(p, u, w)
      BY <1>1, <1>9, <3>1 DEF SayResume
    <3>2. CASE SayFails(p, u, w)
      BY <1>1, <1>3, <1>9, <3>2 DEF SayFails, There, RowOK
    <3> QED
      BY <3>1, <3>2
  <2>2. AgentOK(t)'
    BY <2>1 DEF AgentOK
  <2> QED
    BY <1>7, <2>2 DEF Recorded
<1> QED
  BY <1>8, <1>9

\* Every step of a resume.
LEMMA ResumeRecorded ==
    ASSUME LocalInv, NEW p \in Procs, NEW t \in Tasks, Recorded(t), ResumeStep(p)
    PROVE  Recorded(t)'
<1>1. CASE Resumed(p)
  <2>1. /\ hand \in [Procs -> Hand] /\ hand[p].pc = "say" /\ hand[p].todo = {}
        /\ hand' = [hand EXCEPT ![p] = After(p)] /\ After(p).pc \in {"start", "release"}
        /\ UNCHANGED <<file, kept, run, ledger, orphans, unheard>>
    BY <1>1 DEF LocalInv, TypeOK, Resumed, At, GoesOn, After, Idle, files, history
  <2>2. hand'[p].pc \in {"start", "release"} /\ \A q \in Procs \ {p} : hand'[q] = hand[q]
    BY <2>1
  <2> QED
    BY <2>1, <2>2, BlankMoves DEF Composing, Thawing
<1> QED
  BY <1>1, ReadRecorded, ThawLookRecorded, ThawRecordRecorded, ThawContRecorded, UnlinkRecorded,
     SayRecorded DEF ResumeStep

\* What the file says passes to the claim.
LEMMA ClaimRecorded ==
    ASSUME LocalInv, NEW p \in Procs, NEW t \in Tasks, Recorded(t), Claim(p), At(p, "idle") \/ At(p, "fleet")
    PROVE  Recorded(t)'
<1>1. /\ hand \in [Procs -> Hand] /\ hand[p] \in Hand /\ hand[p].pc \in {"idle", "fleet"} /\ RowOK(t)
      /\ UNCHANGED <<run, ledger, unheard>>
  BY DEF LocalInv, TypeOK, Claim, At, files
<1>2. CASE file = NoFile
  <2>1. /\ hand' = [hand EXCEPT ![p] = After(p)] /\ After(p).pc \in {"start", "release"}
        /\ UNCHANGED <<file, kept, orphans>>
    BY <1>2 DEF Claim, GoesOn, After, Idle, files
  <2>2. hand'[p].pc \in {"start", "release"} /\ \A q \in Procs \ {p} : hand'[q] = hand[q]
    BY <1>1, <2>1
  <2> QED
    BY <1>1, <2>1, <2>2, BlankMoves DEF Composing, Thawing
<1>3. CASE file # NoFile
  <2>1. /\ kept' = file /\ file' = NoFile /\ orphans' = orphans \cup Unread(p)
        /\ hand' = [hand EXCEPT ![p].pc = "claimed"]
    BY <1>3 DEF Claim, Goes
  <2>2. /\ hand'[p].pc = "claimed" /\ hand'[p].st = hand[p].st /\ \A q \in Procs \ {p} : hand'[q] = hand[q]
    BY <1>1, <2>1 DEF Hand
  <2>3. /\ ~Dropping(p, t)' /\ At(p, "claimed")' /\ ~At(p, "stop") /\ ~At(p, "say")
        /\ \A q \in Procs \ {p} : /\ Dropping(q, t)' = Dropping(q, t) /\ At(q, "stop")' = At(q, "stop")
                                  /\ At(q, "say")' = At(q, "say")
    BY <1>1, <2>2 DEF Dropping, At
  <2>4. CASE t \in orphans'
    BY <2>4 DEF Recorded, JudgeOK, AgentOK
  <2>5. CASE t \notin orphans'
    <3>1. /\ run[t].round # 0 =>
              ~(kept # NoFile /\ kept.judges[t] = run[t].round /\ \E q \in Procs : At(q, "claimed"))
          /\ ~(kept # NoFile /\ kept.agents[t] # "no" /\ \E q \in Procs : At(q, "claimed"))
      BY <1>1, <2>1, <2>5, ClaimLost
    <3>2. Keepers(t) \subseteq Keepers(t)' /\ Keepers(t) \subseteq Procs
      BY <2>3 DEF Keepers
    <3>3. ASSUME run[t].round # 0
          PROVE  (OnRecord(t, Procs) => OnRecord(t, Procs)') /\ (OnRecord(t, Keepers(t)) => OnRecord(t, Keepers(t))')
      <4>1. CASE file # NoFile /\ file.judges[t] = run[t].round
        BY <1>1, <2>1, <2>3, <4>1 DEF OnRecord
      <4>2. CASE \E q \in Procs : At(q, "stop") /\ hand[q].at = <<t, run[t].round, run[t].round>>
        <5>1. \E q \in Procs : At(q, "stop")' /\ hand'[q].at = <<t, run'[t].round, run'[t].round>>
          BY <1>1, <2>2, <2>3, <4>2
        <5> QED
          BY <5>1 DEF OnRecord
      <4>3. \A q \in Procs : hand'[q].st = hand[q].st
        BY <2>2
      <4>4. (\E q \in Procs : hand[q].st.judges[t] = run[t].round) => OnRecord(t, Procs)'
        BY <1>1, <4>3 DEF OnRecord
      <4>5. (\E q \in Keepers(t) : hand[q].st.judges[t] = run[t].round) => OnRecord(t, Keepers(t))'
        BY <1>1, <3>2, <4>3 DEF OnRecord
      <4> QED
        BY <3>1, <3>3, <4>1, <4>2, <4>4, <4>5 DEF OnRecord
    <3>4. Frozen(t)' = Frozen(t) /\ (Frozen(t) \/ run[t].judge = "stopped" => run[t].round # 0)
      BY <1>1 DEF Frozen, RowOK
    <3>5. t \notin orphans
      BY <2>1, <2>5
    <3>6. JudgeOK(t)'
      BY <1>1, <3>3, <3>4, <3>5 DEF Recorded, JudgeOK
    <3>7. ASSUME Noted(t) PROVE Noted(t)'
      <4>1. CASE file # NoFile /\ file.agents[t] # "no"
        BY <2>1, <2>3, <4>1 DEF Noted
      <4>2. CASE \E q \in Procs : hand[q].st.agents[t] # "no"
        BY <2>2, <4>2 DEF Noted
      <4>3. CASE \E q \in Procs : At(q, "say") /\ <<t, run[t].window>> \in hand[q].todo
        <5>1. \E q \in Procs : At(q, "say")' /\ <<t, run'[t].window>> \in hand'[q].todo
          BY <1>1, <2>2, <2>3, <4>3
        <5> QED
          BY <5>1 DEF Noted
      <4> QED
        BY <3>1, <3>7, <4>1, <4>2, <4>3 DEF Noted
    <3>8. AgentOK(t)'
      BY <1>1, <3>5, <3>7 DEF Recorded, AgentOK
    <3> QED
      BY <3>6, <3>8 DEF Recorded
  <2> QED
    BY <2>4, <2>5
<1> QED
  BY <1>2, <1>3

-----------------------------------------------------------------------------
(* Records and the rows.                                                   *)

\* A step of a row that stops no judge, opens no freeze and pauses no agent.
LEMMA RowRecorded ==
    ASSUME LocalInv, NEW t \in Tasks, Recorded(t), UNCHANGED <<file, kept, orphans>>,
           \A q \in Procs : hand'[q].pc = hand[q].pc /\ hand'[q].st = hand[q].st /\ hand'[q].at = hand[q].at
                            /\ hand'[q].rec = hand[q].rec /\ (At(q, "say") => hand'[q].todo = hand[q].todo),
           t \in unheard => t \in unheard' \/ ~run'[t].paused,
           run'[t].judge = "stopped" => run[t].judge = "stopped" /\ run'[t].round = run[t].round,
           Frozen(t)' => Frozen(t) /\ run'[t].round = run[t].round,
           run'[t].paused => run[t].paused /\ run'[t].window = run[t].window
    PROVE  Recorded(t)'
<1>1. \A q \in Procs : KeepsOn(q, t)
  BY DEF KeepsOn, KeepsJudge, KeepsAgent, Dropping, At
<1>2. JudgeOK(t)'
  BY <1>1, JudgeQuiet DEF LocalInv, Recorded, KeepsOn
<1>3. AgentOK(t)'
  BY <1>1, AgentQuiet DEF Recorded, KeepsOn
<1> QED
  BY <1>2, <1>3 DEF Recorded

\* The watchdog.
LEMMA WatchRecorded ==
    ASSUME LocalInv, NEW u \in Tasks, NEW t \in Tasks, Recorded(t),
           CancelMoot(u) \/ Watchdog(u) \/ WatchdogRetries(u)
    PROVE  Recorded(t)'
<1>1. /\ run \in [Tasks -> Runs] /\ ledger \in [Tasks -> Ledgers]
      /\ UNCHANGED <<file, kept, hand, orphans, unheard>>
  BY DEF LocalInv, TypeOK, CancelMoot, Watchdog, WatchdogRetries, files, history
<1>2. CASE WatchdogRetries(u)
  <2>1. run' = run /\ ledger'[t].round = ledger[t].round /\ ledger'[t].last = ledger[t].last
    BY <1>1, <1>2 DEF WatchdogRetries, Ledgers
  <2>2. Frozen(t)' = Frozen(t)
    BY <2>1 DEF Frozen
  <2> QED
    BY <1>1, <2>1, <2>2, RowRecorded
<1>3. CASE (CancelMoot(u) \/ Watchdog(u)) /\ t = u
  <2>1. /\ ~run'[t].judging /\ run'[t].judge = "none"
        /\ run'[t].paused = run[t].paused /\ run'[t].window = run[t].window
    BY <1>1, <1>3 DEF CancelMoot, Watchdog, EndRound, Runs
  <2>2. ~Frozen(t)'
    BY <2>1 DEF Frozen
  <2> QED
    BY <1>1, <2>1, <2>2, RowRecorded
<1>4. CASE (CancelMoot(u) \/ Watchdog(u)) /\ t # u
  <2>1. run'[t] = run[t] /\ ledger'[t] = ledger[t]
    BY <1>1, <1>4 DEF CancelMoot, Watchdog, EndRound, files
  <2>2. Frozen(t)' = Frozen(t)
    BY <2>1 DEF Frozen
  <2> QED
    BY <1>1, <2>1, <2>2, RowRecorded
<1> QED
  BY <1>2, <1>3, <1>4

\* A launch is of an agent nobody paused, and a new round of one nobody froze.
LEMMA StartsRecorded ==
    ASSUME LocalInv, NEW u \in Tasks, NEW t \in Tasks, Recorded(t), Launch(u) \/ SpawnJudge(u)
    PROVE  Recorded(t)'
<1>1. /\ run \in [Tasks -> Runs] /\ hand \in [Procs -> Hand] /\ hand[Daemon].pc = "start"
      /\ hand' = [hand EXCEPT ![Daemon].todo = @ \ {<<u, 0>>}] /\ RowOK(t)
      /\ UNCHANGED <<file, kept, ledger, orphans>> /\ unheard \ {u} \subseteq unheard'
  BY DEF LocalInv, TypeOK, Launch, SpawnJudge, Starts, At, files, history
<1>2. \A q \in Procs : hand'[q].pc = hand[q].pc /\ hand'[q].st = hand[q].st /\ hand'[q].at = hand[q].at
                       /\ hand'[q].rec = hand[q].rec /\ (At(q, "say") => hand'[q].todo = hand[q].todo)
  BY <1>1 DEF Hand, At
<1>3. t # u => run'[t] = run[t]
  BY <1>1 DEF Launch, SpawnJudge
<1>4. CASE t # u
  <2>1. Frozen(t)' = Frozen(t) /\ (t \in unheard => t \in unheard')
    BY <1>1, <1>3, <1>4 DEF Frozen
  <2> QED
    BY <1>1, <1>2, <1>3, <1>4, <2>1, RowRecorded
<1>5. CASE t = u /\ Launch(u)
  <2>1. /\ run'[t].judge = run[t].judge /\ run'[t].round = run[t].round /\ run'[t].judging = run[t].judging
        /\ ~run'[t].paused
    BY <1>1, <1>5 DEF Launch, Runs
  <2>2. Frozen(t)' = Frozen(t)
    BY <1>1, <2>1 DEF Frozen
  <2> QED
    BY <1>1, <1>2, <2>1, <2>2, RowRecorded
<1>6. CASE t = u /\ SpawnJudge(u)
  <2>1. /\ run'[t].judge = "runs" /\ run'[t].round = run[t].round + 1
        /\ run'[t].paused = run[t].paused /\ run'[t].window = run[t].window /\ unheard' = unheard
    BY <1>1, <1>6 DEF SpawnJudge, Runs, history
  <2>2. run[t].round \in Nat /\ ledger[t].round \in Nat
    BY Values DEF LocalInv, TypeOK, Runs, Ledgers
  <2>3. ~Frozen(t)'
    BY <1>1, <2>1, <2>2 DEF Frozen, RowOK
  <2> QED
    BY <1>1, <1>2, <2>1, <2>3, RowRecorded
<1> QED
  BY <1>4, <1>5, <1>6

\* Time, agents, judges and reviewers stop nobody.
LEMMA WorldRecorded ==
    ASSUME LocalInv, NEW t \in Tasks, Recorded(t), World \/ UNCHANGED vars
    PROVE  Recorded(t)'
<1>1. run \in [Tasks -> Runs] /\ UNCHANGED <<file, kept, ledger, hand, orphans, unheard>>
  BY DEF LocalInv, TypeOK, World, HoldLapses, Breaks, Mends, RoundLate, HandsIn, AgentDies, Verdict, JudgeDies,
         SentBack, Merges, Moves, vars, files, history
<1>2. /\ run'[t].round = run[t].round
      /\ run'[t].judging => run[t].judging
      /\ run'[t].judge \in {run[t].judge, "none"}
      /\ run'[t].paused => run[t].paused /\ run'[t].window = run[t].window
  <2>1. CASE HoldLapses \/ Breaks \/ Mends \/ UNCHANGED vars
    BY <1>1, <2>1 DEF HoldLapses, Breaks, Mends, vars
  <2>2. ASSUME NEW u \in Tasks, u # t,
               RoundLate(u) \/ HandsIn(u) \/ AgentDies(u) \/ Verdict(u) \/ JudgeDies(u) \/ SentBack(u) \/ Merges(u)
        PROVE  run'[t] = run[t]
    BY <1>1, <2>2 DEF RoundLate, HandsIn, AgentDies, Verdict, JudgeDies, SentBack, Merges, Moves
  <2>3. CASE RoundLate(t)
    <3>1. /\ run'[t].round = run[t].round /\ run'[t].judging = run[t].judging
          /\ run'[t].judge = run[t].judge
          /\ run'[t].paused = run[t].paused /\ run'[t].window = run[t].window
      BY <1>1, <2>3 DEF RoundLate, Runs
    <3> QED
      BY <3>1
  <2>4. CASE HandsIn(t) \/ AgentDies(t) \/ Verdict(t) \/ JudgeDies(t) \/ SentBack(t) \/ Merges(t)
    <3>1. PICK row \in Runs :
            /\ Moves(t, row) /\ row.round = run[t].round
            /\ \/ row.judging = run[t].judging /\ (row.judge = run[t].judge \/ row.judge = "none")
               \/ ~row.judging /\ row.judge = "none"
            /\ \/ ~row.paused /\ row.window = 0
               \/ row.paused = run[t].paused /\ row.window = run[t].window
                  /\ (row.status = run[t].status \/ run[t].status = "review")
      BY <2>4, MovesRow
    <3>2. run'[t] = row
      BY <1>1, <3>1 DEF Moves
    <3> QED
      BY <3>1, <3>2
  <2> QED
    BY <2>1, <2>2, <2>3, <2>4 DEF World
<1>3. Frozen(t)' => Frozen(t)
  BY <1>1, <1>2 DEF Frozen
<1> QED
  BY <1>1, <1>2, <1>3, RowRecorded

\* A process that dies takes its records with it, and they are counted as lost.
LEMMA DiesRecorded ==
    ASSUME LocalInv, NEW p \in Procs, NEW t \in Tasks, Recorded(t), Dies(p)
    PROVE  Recorded(t)'
<1>1. /\ hand \in [Procs -> Hand] /\ hand[p] \in Hand /\ RowOK(t) /\ run[t] \in Runs
      /\ hand' = [hand EXCEPT ![p] = Idle(p)] /\ orphans' = orphans \cup Holds(p)
      /\ UNCHANGED <<file, kept, run, ledger, unheard>>
  BY DEF LocalInv, TypeOK, Dies, Rests, files
<1>2. hand'[p] = Idle(p) /\ \A q \in Procs \ {p} : hand'[q] = hand[q]
  BY <1>1
<1>3. CASE t \in Holds(p)
  BY <1>1, <1>3 DEF Recorded, JudgeOK, AgentOK
<1>4. CASE t \notin Holds(p)
  <2>1. hand[p].st.agents[t] = "no" /\ hand[p].st.judges[t] = 0
    BY <1>1, <1>4 DEF Holds, Names, Hand, Pauses
  <2>2. ~(At(p, "claimed") /\ kept # NoFile /\ (kept.agents[t] # "no" \/ kept.judges[t] # 0))
    <3> SUFFICES ASSUME At(p, "claimed"), kept # NoFile, kept.agents[t] # "no" \/ kept.judges[t] # 0
                 PROVE  FALSE
      OBVIOUS
    <3>1. kept \in Pauses
      BY FileType DEF LocalInv
    <3>2. t \in Names(kept)
      BY <3>1 DEF Names, Pauses
    <3> QED
      BY <1>4, <3>2 DEF Holds
  <2>3. ~(At(p, "say") /\ <<t, run[t].window>> \in hand[p].todo)
    BY <1>1, <1>4 DEF Holds, Runs
  <2>4. hand[p].at # <<t, run[t].round, run[t].round>>
    <3> SUFFICES ASSUME hand[p].at = <<t, run[t].round, run[t].round>> PROVE FALSE
      OBVIOUS
    <3>1. hand[p].at # <<>> /\ hand[p].at[1] = t
      OBVIOUS
    <3> QED
      BY <1>4, <3>1 DEF Holds
  <2>5. KeepsAgent(p, t) /\ (run[t].round # 0 => KeepsJudge(p, t)) /\ ~Dropping(p, t)'
    BY <1>2, <2>1, <2>2, <2>3, <2>4 DEF KeepsAgent, KeepsJudge, Dropping, At, Idle
  <2>6. \A q \in Procs \ {p} : KeepsOn(q, t)
    BY <1>2, StillKeeps
  <2>7. Frozen(t)' = Frozen(t)
    BY <1>1 DEF Frozen
  <2>8. JudgeOK(t)'
    BY <1>1, <2>5, <2>6, <2>7, JudgeQuiet DEF Recorded, KeepsOn
  <2>9. AgentOK(t)'
    BY <1>1, <2>5, <2>6, AgentQuiet DEF Recorded, KeepsOn
  <2> QED
    BY <2>8, <2>9 DEF Recorded
<1> QED
  BY <1>3, <1>4

\* What a hand and the tick do when they pause and resume nobody.
LEMMA IdleRecorded ==
    ASSUME LocalInv, NEW p \in Procs, NEW t \in Tasks, Recorded(t),
           \/ Take(p) \/ Release(p)
           \/ p = Daemon /\ (Watched \/ Expire \/ ReadHold \/ EndTick)
    PROVE  Recorded(t)'
<1>1. /\ hand \in [Procs -> Hand] /\ hand[p] \in Hand
      /\ UNCHANGED <<file, kept, run, ledger, orphans, unheard>>
  BY DEF LocalInv, TypeOK, Take, Release, Watched, Expire, ReadHold, EndTick, files, history
<1>2. hand[p].pc \in {"idle", "release", "watch", "expire", "read", "start"}
  BY DEF Take, Release, Watched, Begun, Expire, ReadHold, EndTick, At
<1>3. hand' = hand \/ Rests(p) \/ \E pc \in {"read", "expire", "fleet"} : Goes(p, pc)
  BY DEF Take, Release, Watched, Expire, ReadHold, EndTick
<1>4. /\ hand'[p].pc \notin {"close", "cont"} /\ \A q \in Procs \ {p} : hand'[q] = hand[q]
  <2>1. CASE hand' = hand
    BY <1>2, <2>1
  <2>2. CASE Rests(p)
    BY <1>1, <2>2 DEF Rests, Idle
  <2>3. ASSUME NEW pc \in {"read", "expire", "fleet"}, Goes(p, pc)
        PROVE  /\ hand'[p].pc \notin {"close", "cont"} /\ \A q \in Procs \ {p} : hand'[q] = hand[q]
    BY <1>1, <2>3 DEF Goes, Hand
  <2> QED
    BY <1>3, <2>1, <2>2, <2>3
<1> QED
  BY <1>1, <1>2, <1>4, BlankMoves DEF Composing, Thawing

\* Every step keeps the records.
LEMMA NextRecorded ==
    ASSUME LocalInv, \A p \in Procs : Composed(p), NEW t \in Tasks, Recorded(t), [Next]_vars
    PROVE  Recorded(t)'
<1>1. Hands \subseteq Procs /\ Daemon \in Procs
  BY Values
<1>2. ASSUME NEW h \in Hands, Take(h) \/ Resume(h) \/ HandStep(h) PROVE Recorded(t)'
  <2>1. CASE Take(h) \/ Release(h)
    BY <1>1, <2>1, IdleRecorded
  <2>2. CASE Resume(h)
    BY <1>1, <2>2, ClaimRecorded DEF Resume
  <2> QED
    BY <1>1, <1>2, <2>1, <2>2, PauseRecorded, ResumeRecorded DEF HandStep
<1>3. CASE TickStep
  <2>1. CASE FleetTick
    BY <1>1, <2>1, ClaimRecorded DEF FleetTick
  <2>2. CASE Watched \/ Expire \/ ReadHold \/ EndTick
    BY <1>1, <2>2, IdleRecorded
  <2> QED
    BY <1>1, <1>3, <2>1, <2>2, ResumeRecorded, WatchRecorded, StartsRecorded DEF TickStep
<1> QED
  BY <1>2, <1>3, WorldRecorded, DiesRecorded DEF Next

-----------------------------------------------------------------------------
(* The inductive invariant.                                                *)

\* At the start nobody is stopped or paused, and there is no pause to replace.
LEMMA InitInv == Init => Inv
<1> SUFFICES ASSUME Init PROVE Inv
  OBVIOUS
<1>1. LocalInv
  BY InitLocal
<1>2. \A p \in Procs : Composed(p)
  BY DEF Init, Composed
<1>3. \A t \in Tasks : run[t].judge = "none" /\ ~run[t].judging /\ ~run[t].paused
  BY DEF Init
<1>4. \A t \in Tasks : JudgeOK(t) /\ AgentOK(t)
  BY <1>3 DEF JudgeOK, AgentOK, Frozen
<1> QED
  BY <1>1, <1>2, <1>4 DEF Inv

\* Every step preserves it, where one hand pauses.
LEMMA NextInv == ASSUME OnePauser PROVE Inv /\ [Next]_vars => Inv'
<1> SUFFICES ASSUME Inv, [Next]_vars PROVE Inv'
  OBVIOUS
<1>1. LocalInv /\ LocalInv' /\ \A p \in Procs : Composed(p)
  BY NextLocal DEF Inv
<1>2. \A p \in Procs : Composed(p)'
  <2>1. ASSUME NEW h \in Hands, PauseStep(h) PROVE \A p \in Procs : Composed(p)'
    BY <1>1, <2>1, PauseComposed
  <2>2. ASSUME NEW q \in Procs, \/ Take(q) \/ Resume(q) \/ ResumeStep(q) \/ Release(q) \/ Dies(q)
                                \/ q = Daemon /\ TickStep
                                \/ World \/ UNCHANGED vars
        PROVE  \A p \in Procs : Composed(p)'
    BY <1>1, <2>2, OtherComposed
  <2> QED
    BY <2>1, <2>2, Values DEF Next, HandStep
<1>3. \A t \in Tasks : JudgeOK(t)' /\ AgentOK(t)'
  BY <1>1, NextRecorded DEF Inv, Recorded
<1> QED
  BY <1>1, <1>2, <1>3 DEF Inv

\* A record of the invariant is one of the files' or of a process.
LEMMA OwedByInv == Inv => StopIsOwed /\ PauseIsOwed
<1> SUFFICES ASSUME Inv, NEW t \in Tasks
             PROVE  (t \in orphans \/ JudgeOwed(t)) /\ (t \in orphans \/ t \in unheard \/ AgentOwed(t))
  BY DEF StopIsOwed, PauseIsOwed
<1>1. JudgeOK(t) /\ AgentOK(t) /\ TypeOK
  BY DEF Inv, LocalInv
<1>2. \A p \in Procs : hand[p].st # NoFile
  BY <1>1, FileType DEF TypeOK, Hand
<1>3. /\ file # NoFile => file \in Records
      /\ \A p \in Procs : hand[p].st \in Records
      /\ kept # NoFile /\ (\E p \in Procs : At(p, "claimed")) => kept \in Records
  BY <1>2 DEF Records
<1>4. Keepers(t) \subseteq Procs
  BY DEF Keepers
<1>5. OnRecord(t, Procs) \/ OnRecord(t, Keepers(t)) => JudgeOwed(t)
  BY <1>3, <1>4 DEF OnRecord, JudgeOwed
<1>6. Noted(t) => AgentOwed(t)
  BY <1>3 DEF Noted, AgentOwed
<1>7. ~(run[t].judge = "stopped" \/ Frozen(t)) => JudgeOwed(t)
  BY DEF JudgeOwed
<1>8. ~run[t].paused => AgentOwed(t)
  BY DEF AgentOwed
<1> QED
  BY <1>1, <1>5, <1>6, <1>7, <1>8 DEF JudgeOK, AgentOK

\* A judge that is stopped, or whose ledger is open, is on the record of a file or of a
\* process, unless the process that had it died or two resumes claimed one file name:
\* for any number of hands, of which one pauses.
THEOREM StopsAreOwed == ASSUME OnePauser PROVE Spec => []StopIsOwed
<1>1. Inv /\ [Next]_vars => Inv'
  BY NextInv
<1>2. Inv => StopIsOwed
  BY OwedByInv
<1> QED
  BY <1>1, <1>2, InitInv, PTL DEF Spec

\* An agent that may have stopped is on record for a "resume", unless one it was sent
\* did not get through: under the same assumption.
THEOREM PausesAreOwed == ASSUME OnePauser PROVE Spec => []PauseIsOwed
<1>1. Inv /\ [Next]_vars => Inv'
  BY NextInv
<1>2. Inv => PauseIsOwed
  BY OwedByInv
<1> QED
  BY <1>1, <1>2, InitInv, PTL DEF Spec
=============================================================================
