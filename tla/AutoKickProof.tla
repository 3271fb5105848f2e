--------------------------- MODULE AutoKickProof ----------------------------
(***************************************************************************)
(* For any number of players, slots and faults, lists and settings: the    *)
(* types of AutoKick, that a warning stays with who got it, that walks     *)
(* nest no deeper than answers come late, whom a kick is meant for, and    *)
(* whom it can hit.                                                        *)
(*                                                                         *)
(* WarningsStick is not inductive: while a walk is on, the table is ahead  *)
(* of the warnings.  They match it also while a kick for a warning waits   *)
(* and nothing has been nested in it, and such a kick is always at the     *)
(* bottom of the stack.  NestingBounded needs the answers that are still   *)
(* to come: each of them can begin a walk.                                 *)
(*                                                                         *)
(* Whom a kick is for needs that a slot has one row in the table, which    *)
(* the way an answer is counted gives, and follows the walk that waits     *)
(* for the kick (Aim).  Whom it hits needs that nothing is late: then the  *)
(* table has not been replaced since the walk began (Undisturbed).         *)
(***************************************************************************)
EXTENDS AutoKick, FiniteSetTheorems, TLAPS

WarnAtBottom == \A i \in DOMAIN walks : i > 1 => walks[i].loop # "warn"

\* A walk that has kicked nobody yet has no list left in its row.
FreshWalks == \A i \in DOMAIN walks : walks[i].at = 0 => walks[i].list = 5

\* No walk over the table has begun since the warnings were last checked.
Settled == walks = <<>> \/ (Len(walks) = 1 /\ walks[1].loop = "warn")

Matched(list) == \A w \in list : [slot |-> w.slot, player |-> w.player] \in Rows

IInv == TypeOK /\ WarnAtBottom /\ FreshWalks /\ (Settled => Matched(warned))

-----------------------------------------------------------------------------
(* Sequences.                                                              *)

\* The last walk, and those before it.
LEMMA FrontAndLast ==
  ASSUME NEW S, NEW s \in Seq(S), s # <<>>
  PROVE  /\ Len(s) \in Nat \ {0}
         /\ Front(s) \in Seq(S) /\ Len(Front(s)) = Len(s) - 1
         /\ \A i \in 1 .. Len(s) - 1 : Front(s)[i] = s[i]
         /\ Last(s) \in S /\ Last(s) = s[Len(s)]
<1>1. Len(s) \in Nat \ {0} /\ \A i \in 1 .. Len(s) : s[i] \in S
  OBVIOUS
<1>2. Front(s) = [i \in 1 .. Len(s) - 1 |-> s[i]]
  BY <1>1 DEF Front
<1>3. Front(s) \in Seq(S) /\ Len(Front(s)) = Len(s) - 1
  BY <1>1, <1>2
<1>4. Last(s) = s[Len(s)]
  BY DEF Last
<1> QED BY <1>1, <1>2, <1>3, <1>4

\* Pushing a walk.
LEMMA Pushed ==
  ASSUME NEW S, NEW s \in Seq(S), NEW x \in S
  PROVE  /\ Append(s, x) \in Seq(S) /\ Len(Append(s, x)) = Len(s) + 1
         /\ Append(s, x)[Len(s) + 1] = x
         /\ \A i \in 1 .. Len(s) : Append(s, x)[i] = s[i]
OBVIOUS

\* What a fresh walk is.
LEMMA StartTyped ==
  ASSUME NEW loop \in {"temp", "bans", "warn"}
  PROVE  /\ Start(loop) \in Walk /\ Start(loop).loop = loop
         /\ Start(loop).at = 0 /\ Start(loop).list = 5
BY AutoKickAssumption DEF Start, Walk

\* The number of rows of an answer fits the table.
LEMMA CountTyped ==
  ASSUME NEW answer PROVE NewCount(answer) \in 0 .. Slots
<1>1. /\ IsFiniteSet(1 .. Slots) /\ Cardinality(1 .. Slots) = Slots
  BY FS_Interval, AutoKickAssumption
<1>2. Taken(answer, Slots) \subseteq 1 .. Slots
  BY DEF Taken
<1>3. /\ IsFiniteSet(Taken(answer, Slots)) /\ Cardinality(Taken(answer, Slots)) <= Slots
  BY <1>1, <1>2, FS_Subset
<1>4. Cardinality(Taken(answer, Slots)) \in Nat
  BY <1>3, FS_CardinalityType
<1> QED BY <1>3, <1>4, AutoKickAssumption DEF NewCount

\* The rows of an answer are rows.
LEMMA RowsTyped ==
  ASSUME TypeOK, NEW answer \in [Slot -> Player \cup {Nobody}]
  PROVE  NewRows(answer) \in [Slot -> [slot : Slot, player : Player \cup {Nobody}]]
<1> SUFFICES ASSUME NEW i \in Slot
             PROVE  NewRows(answer)[i] \in [slot : Slot, player : Player \cup {Nobody}]
  BY DEF NewRows
<1> DEFINE here == {s \in Taken(answer, Slots) : Cardinality(Taken(answer, s)) = i}
           s0 == CHOOSE s \in here : TRUE
<1>1. NewRows(answer)[i] = IF here = {} THEN players[i] ELSE [slot |-> s0, player |-> answer[s0]]
  BY DEF NewRows
<1>2. CASE here = {}
  BY <1>1, <1>2 DEF TypeOK
<1>3. CASE here # {}
  <2>1. s0 \in here
    BY <1>3
  <2>2. s0 \in Slot
    BY <2>1 DEF Taken, Slot
  <2> QED BY <1>1, <1>3, <2>2
<1> QED BY <1>2, <1>3

-----------------------------------------------------------------------------
(* The steps of the game server and of the network.                        *)

\* What is in flight keeps its type, and the client sees nothing of it.
LEMMA OutsideSteps ==
  ASSUME IInv,
         \/ \E s \in Slot : Leave(s) \/ \E p \in Player : Join(p, s)
         \/ GameHandle \/ LoseRequest \/ LoseAnswer \/ CutAnswer
  PROVE  IInv'
<1> DEFINE Seats == [Slot -> Player \cup {Nobody}]
<1> USE DEF IInv
<1>1. /\ UNCHANGED client
      /\ seat' \in Seats /\ toGame' \in Seq(Request)
      /\ answers' \in Seq(Seats) /\ faults' \in 0 .. MaxFaults
  <2>1. CASE \E s \in Slot : Leave(s) \/ \E p \in Player : Join(p, s)
    <3>1. PICK s \in Slot : Leave(s) \/ \E p \in Player : Join(p, s)
      BY <2>1
    <3>2. UNCHANGED <<toGame, answers, client, faults>>
      BY <3>1 DEF Leave, Join
    <3>3. seat' \in Seats
      BY <3>1 DEF TypeOK, Leave, Join
    <3> QED BY <3>2, <3>3 DEF TypeOK
  <2>2. CASE GameHandle
    <3>1. Tail(toGame) \in Seq(Request) /\ Append(answers, seat) \in Seq(Seats)
      BY <2>2 DEF TypeOK, GameHandle
    <3> QED BY <2>2, <3>1 DEF TypeOK, GameHandle
  <2>3. CASE LoseRequest
    BY <2>3, AutoKickAssumption DEF TypeOK, LoseRequest, Fault
  <2>4. CASE LoseAnswer
    BY <2>4, AutoKickAssumption DEF TypeOK, LoseAnswer, Fault, game, client
  <2>5. CASE CutAnswer
    <3>1. PICK n \in Slot :
            answers' = <<[s \in Slot |-> IF s < n THEN Head(answers)[s] ELSE Nobody]>>
                         \o Tail(answers)
      BY <2>5 DEF CutAnswer
    <3>2. Head(answers) \in Seats /\ Tail(answers) \in Seq(Seats)
      BY <2>5 DEF CutAnswer, TypeOK
    <3>3. [s \in Slot |-> IF s < n THEN Head(answers)[s] ELSE Nobody] \in Seats
      BY <3>2
    <3>4. answers' \in Seq(Seats)
      BY <3>1, <3>2, <3>3
    <3> QED BY <2>5, <3>4, AutoKickAssumption DEF TypeOK, CutAnswer, Fault, game, client
  <2> QED BY <2>1, <2>2, <2>3, <2>4, <2>5
<1>2. TypeOK'
  BY <1>1 DEF TypeOK, client, table
<1>3. WarnAtBottom' /\ FreshWalks' /\ (Settled' => Matched(warned)')
  BY <1>1 DEF WarnAtBottom, FreshWalks, Settled, Matched, Rows, client, table
<1> QED BY <1>2, <1>3

-----------------------------------------------------------------------------
(* The steps of the client.                                                *)

\* A request for the status disturbs nothing.
LEMMA StatusStep ==
  ASSUME IInv, Status PROVE IInv'
<1>1. [type |-> "status", slot |-> 0] \in Request
  BY DEF Request
<1>2. toGame' \in Seq(Request) /\ waiting' = "status"
  BY <1>1 DEF IInv, TypeOK, Status, Ask
<1>3. TypeOK'
  BY <1>2 DEF IInv, TypeOK, Status, table
<1>4. WarnAtBottom' /\ FreshWalks' /\ (Settled' => Matched(warned)')
  BY DEF IInv, Status, table, WarnAtBottom, FreshWalks, Settled, Matched, Rows
<1> QED BY <1>3, <1>4 DEF IInv

\* A new table begins a walk, so that the warnings may be behind it.
LEMMA TakeStatusStep ==
  ASSUME IInv, TakeStatus PROVE IInv'
<1> DEFINE Seats == [Slot -> Player \cup {Nobody}]
<1>1. Head(answers) \in Seats /\ Tail(answers) \in Seq(Seats)
  BY DEF IInv, TypeOK, TakeStatus
<1>2. players' \in [Slot -> [slot : Slot, player : Player \cup {Nobody}]]
  BY <1>1, RowsTyped DEF IInv, TakeStatus
<1>3. count' \in 0 .. Slots
  BY CountTyped DEF TakeStatus
<1>4. /\ Start("temp") \in Walk /\ Start("temp").loop = "temp" /\ Start("temp").list = 5
  BY StartTyped
<1>5. /\ walks' \in Seq(Walk) /\ Len(walks') = Len(walks) + 1
      /\ walks'[Len(walks) + 1] = Start("temp")
      /\ \A i \in 1 .. Len(walks) : walks'[i] = walks[i]
  BY <1>4, Pushed DEF IInv, TypeOK, TakeStatus
<1>6. TypeOK'
  BY <1>1, <1>2, <1>3, <1>5 DEF IInv, TypeOK, TakeStatus, game
<1>7. WarnAtBottom' /\ FreshWalks'
  <2>1. DOMAIN walks = 1 .. Len(walks) /\ DOMAIN walks' = 1 .. Len(walks) + 1
    BY <1>5 DEF IInv, TypeOK
  <2>2. ASSUME NEW i \in DOMAIN walks'
        PROVE  (i > 1 => walks'[i].loop # "warn") /\ (walks'[i].at = 0 => walks'[i].list = 5)
    <3>1. CASE i \in 1 .. Len(walks)
      BY <1>5, <2>1, <3>1 DEF IInv, WarnAtBottom, FreshWalks
    <3>2. CASE i = Len(walks) + 1
      BY <1>4, <1>5, <3>2
    <3>3. Len(walks) \in Nat
      BY DEF IInv, TypeOK
    <3> QED BY <2>1, <3>1, <3>2, <3>3
  <2> QED BY <2>2 DEF WarnAtBottom, FreshWalks
<1>8. ~Settled'
  BY <1>4, <1>5 DEF IInv, TypeOK, Settled
<1> QED BY <1>6, <1>7, <1>8 DEF IInv

\* The end of a kick leaves the walks below it, and its own if that goes on.
LEMMA ReturnShape ==
  ASSUME NEW stack \in Seq(Walk), stack # <<>>, NEW list, Return(stack, list),
         \A i \in DOMAIN stack : i > 1 => stack[i].loop # "warn",
         \A i \in DOMAIN stack : stack[i].at = 0 => stack[i].list = 5
  PROVE  /\ warned' \subseteq list /\ walks' \in Seq(Walk) /\ Len(walks') <= Len(stack)
         /\ WarnAtBottom' /\ FreshWalks'
         /\ Settled' => Len(stack) = 1 /\ stack[1].loop = "warn"
<1>1. warned' \subseteq list
  BY DEF Return
<1>2. /\ Len(stack) \in Nat \ {0} /\ Last(stack) = stack[Len(stack)]
      /\ Front(stack) \in Seq(Walk) /\ Len(Front(stack)) = Len(stack) - 1
  BY FrontAndLast
<1>3. CASE Last(stack).loop = "warn"
  <2>1. Len(stack) = 1 /\ stack[1].loop = "warn"
    BY <1>2, <1>3
  <2>2. walks' = Front(stack) /\ Len(walks') = 0
    BY <1>2, <1>3, <2>1 DEF Return
  <2> QED BY <1>1, <1>2, <2>1, <2>2 DEF WarnAtBottom, FreshWalks
<1>4. CASE Last(stack).loop # "warn"
  <2>1. walks' = stack
    BY <1>4 DEF Return
  <2>2. ~Settled'
    BY <1>2, <1>4, <2>1 DEF Settled
  <2> QED BY <1>1, <2>1, <2>2 DEF WarnAtBottom, FreshWalks
<1> QED BY <1>3, <1>4

\* An exchange ends without an answer: a kick is done.
LEMMA TimeOutStep ==
  ASSUME IInv, TimeOut PROVE IInv'
<1>1. faults' \in 0 .. MaxFaults /\ waiting' = "no"
  BY AutoKickAssumption DEF IInv, TypeOK, TimeOut, Fault
<1>2. CASE waiting = "kick"
  <2>1. Return(walks, warned) /\ walks \in Seq(Walk) /\ walks # <<>>
    BY <1>2 DEF IInv, TypeOK, TimeOut
  <2>2. /\ warned' \subseteq warned /\ walks' \in Seq(Walk)
        /\ WarnAtBottom' /\ FreshWalks' /\ (Settled' => Settled)
    BY <2>1, ReturnShape DEF IInv, WarnAtBottom, FreshWalks, Settled
  <2>3. TypeOK'
    BY <1>1, <2>2 DEF IInv, TypeOK, TimeOut, game, table
  <2>4. Settled' => Matched(warned)'
    BY <2>2 DEF IInv, Matched, Rows, TimeOut, table
  <2> QED BY <2>2, <2>3, <2>4 DEF IInv
<1>3. CASE waiting # "kick"
  <2>1. UNCHANGED <<walks, warned>>
    BY <1>3 DEF TimeOut
  <2>2. TypeOK'
    BY <1>1, <2>1 DEF IInv, TypeOK, TimeOut, game, table
  <2>3. WarnAtBottom' /\ FreshWalks' /\ (Settled' => Matched(warned)')
    BY <2>1 DEF IInv, WarnAtBottom, FreshWalks, Settled, Matched, Rows, TimeOut, table
  <2> QED BY <2>2, <2>3 DEF IInv
<1> QED BY <1>2, <1>3

\* A walk over the table goes on: its frame is replaced by one of the same
\* kind that is no warning.
LEMMA FrameReplaced ==
  ASSUME IInv, walks # <<>>, NEW w \in Walk, w.loop # "warn", w.at = 0 => w.list = 5,
         walks' = Append(Front(walks), w)
  PROVE  /\ walks' \in Seq(Walk) /\ walks' # <<>> /\ Len(walks') = Len(walks)
         /\ WarnAtBottom' /\ FreshWalks' /\ ~Settled'
<1>1. walks \in Seq(Walk)
  BY DEF IInv, TypeOK
<1>2. /\ Len(walks) \in Nat \ {0} /\ Front(walks) \in Seq(Walk)
      /\ Len(Front(walks)) = Len(walks) - 1
      /\ \A i \in 1 .. Len(walks) - 1 : Front(walks)[i] = walks[i]
  BY <1>1, FrontAndLast
<1>3. /\ walks' \in Seq(Walk) /\ Len(walks') = Len(walks)
      /\ walks'[Len(walks)] = w
      /\ \A i \in 1 .. Len(walks) - 1 : walks'[i] = walks[i]
  BY <1>2
<1>4. walks' # <<>> /\ ~Settled'
  BY <1>2, <1>3 DEF Settled
<1>5. WarnAtBottom' /\ FreshWalks'
  BY <1>1, <1>2, <1>3 DEF IInv, WarnAtBottom, FreshWalks
<1> QED BY <1>3, <1>4, <1>5

\* The rows that a walk has still to kick are rows of the table.
LEMMA LeftTyped ==
  ASSUME IInv, walks # <<>>, NEW c \in Left
  PROVE  c[1] \in Slot /\ c[2] \in 1 .. 5
<1> DEFINE w == Last(walks)
<1>1. w \in Walk /\ (w.at = 0 => w.list = 5)
  <2>1. walks \in Seq(Walk)
    BY DEF IInv, TypeOK
  <2>2. w \in Walk /\ w = walks[Len(walks)] /\ Len(walks) \in Nat \ {0}
    BY <2>1, FrontAndLast
  <2>3. Len(walks) \in DOMAIN walks
    BY <2>1, <2>2
  <2> QED BY <2>2, <2>3 DEF IInv, FreshWalks
<1>2. DOMAIN Lists[w.loop] \subseteq 1 .. 5
  BY <1>1 DEF Walk, Lists, Bans
<1>3. CASE c \in {w.at} \X DOMAIN Lists[w.loop] /\ c[2] > w.list
  <2>1. c[1] = w.at /\ c[2] \in 1 .. 5 /\ c[2] > w.list
    BY <1>2, <1>3
  <2> QED BY <1>1, <2>1, AutoKickAssumption DEF Walk, Slot
<1>4. CASE c \in (w.at + 1 .. count) \X DOMAIN Lists[w.loop]
  <2>1. c[1] \in w.at + 1 .. count /\ c[2] \in 1 .. 5
    BY <1>2, <1>4
  <2>2. w.at \in 0 .. Slots /\ count \in 0 .. Slots
    BY <1>1 DEF Walk, IInv, TypeOK
  <2> QED BY <2>1, <2>2, AutoKickAssumption DEF Slot
<1> QED BY <1>3, <1>4 DEF Left

\* The next kick of a walk goes to a slot of the game server.
LEMMA KickNextStep ==
  ASSUME IInv, KickNext PROVE IInv'
<1> DEFINE w == Last(walks)
<1>1. walks # <<>> /\ w.loop \in {"temp", "bans"} /\ w \in Walk
  BY FrontAndLast DEF KickNext, Walking, IInv, TypeOK
<1>2. PICK c \in Left :
        /\ Ask("kick", SlotOf(c[1]))
        /\ walks' = Append(Front(walks),
             [w EXCEPT !.at = c[1], !.list = c[2], !.slot = SlotOf(c[1]),
                       !.who = IF c[1] = w.at THEN @ ELSE players[c[1]].player])
  BY DEF KickNext
<1>3. c[1] \in Slot /\ c[2] \in 1 .. 5
  BY <1>1, LeftTyped
<1>4. SlotOf(c[1]) \in Slot /\ players[c[1]].player \in Player \cup {Nobody}
  BY <1>3 DEF SlotOf, IInv, TypeOK
<1> DEFINE v == [w EXCEPT !.at = c[1], !.list = c[2], !.slot = SlotOf(c[1]),
                          !.who = IF c[1] = w.at THEN @ ELSE players[c[1]].player]
<1>5. v \in Walk /\ v.loop = w.loop /\ v.at # 0
  <2> DEFINE p == IF c[1] = w.at THEN w.who ELSE players[c[1]].player
             row == c[1]
             list == c[2]
             s == SlotOf(c[1])
  <2>1. w \in Walk /\ row \in Slot /\ list \in 0 .. 5 /\ s \in Slot
    BY <1>1, <1>3, <1>4
  <2>2. p \in Player \cup {Nobody}
    BY <1>1, <1>4 DEF Walk
  <2> DEFINE u == [w EXCEPT !.at = row, !.list = list, !.slot = s, !.who = p]
  <2>3. u \in Walk /\ u.loop = w.loop /\ u.at # 0
    <3>1. row \in 0 .. Slots /\ row # 0 /\ s \in 0 .. Slots
      BY <2>1, AutoKickAssumption DEF Slot
    <3> HIDE DEF p, w, row, list, s
    <3> QED BY <2>1, <2>2, <3>1 DEF Walk
  <2> QED BY <1>1, <2>3
<1>6. /\ walks' \in Seq(Walk) /\ walks' # <<>>
      /\ WarnAtBottom' /\ FreshWalks' /\ ~Settled'
  BY <1>1, <1>2, <1>5, FrameReplaced
<1>7. [type |-> "kick", slot |-> SlotOf(c[1])] \in Request
  BY <1>4 DEF Request
<1>8. toGame' \in Seq(Request) /\ waiting' = "kick"
  BY <1>2, <1>7 DEF Ask, IInv, TypeOK
<1>9. TypeOK'
  BY <1>6, <1>8 DEF KickNext, IInv, TypeOK, table
<1> QED BY <1>6, <1>9 DEF IInv

\* From the temporary bans to the others.
LEMMA NextLoopStep ==
  ASSUME IInv, NextLoop PROVE IInv'
<1>1. Start("bans") \in Walk /\ Start("bans").loop = "bans" /\ Start("bans").list = 5
  BY StartTyped
<1>2. walks # <<>> /\ walks' = Append(Front(walks), Start("bans"))
  BY DEF NextLoop, Walking
<1>3. /\ walks' \in Seq(Walk) /\ walks' # <<>>
      /\ WarnAtBottom' /\ FreshWalks' /\ ~Settled'
  BY <1>1, <1>2, FrameReplaced
<1>4. TypeOK'
  BY <1>3 DEF NextLoop, IInv, TypeOK, game, table
<1> QED BY <1>3, <1>4 DEF IInv

\* What is below a nested walk.
LEMMA FrontShape ==
  ASSUME IInv, walks # <<>>, Len(walks) # 1
  PROVE  /\ Front(walks) \in Seq(Walk) /\ Len(Front(walks)) = Len(walks) - 1
         /\ Front(walks) # <<>>
         /\ \A i \in DOMAIN Front(walks) : i > 1 => Front(walks)[i].loop # "warn"
         /\ \A i \in DOMAIN Front(walks) :
              Front(walks)[i].at = 0 => Front(walks)[i].list = 5
<1>1. walks \in Seq(Walk)
  BY DEF IInv, TypeOK
<1>2. /\ Len(walks) \in Nat \ {0} /\ Front(walks) \in Seq(Walk)
      /\ Len(Front(walks)) = Len(walks) - 1
      /\ \A i \in 1 .. Len(walks) - 1 : Front(walks)[i] = walks[i]
  BY <1>1, FrontAndLast
<1> QED BY <1>1, <1>2 DEF IInv, WarnAtBottom, FreshWalks

\* The end of a walk brings the warnings up to date.
LEMMA EndWalkStep ==
  ASSUME IInv, EndWalk PROVE IInv'
<1>1. walks # <<>> /\ walks \in Seq(Walk) /\ waiting = "no"
      /\ UNCHANGED <<game, answers, table, off, waiting, faults>>
  BY DEF EndWalk, Walking, IInv, TypeOK
<1>2. /\ Len(walks) \in Nat \ {0} /\ Front(walks) \in Seq(Walk)
      /\ Len(Front(walks)) = Len(walks) - 1
      /\ \A i \in 1 .. Len(walks) - 1 : Front(walks)[i] = walks[i]
  BY <1>1, FrontAndLast
<1>3. /\ warned' \subseteq Refreshed(warned) /\ walks' \in Seq(Walk)
      /\ WarnAtBottom' /\ FreshWalks'
  <2>1. CASE Len(walks) = 1
    BY <2>1 DEF EndWalk, WarnAtBottom, FreshWalks
  <2>2. CASE Len(walks) # 1
    <3>1. Return(Front(walks), Refreshed(warned))
      BY <2>2 DEF EndWalk
    <3> QED BY <1>1, <2>2, <3>1, FrontShape, ReturnShape
  <2> QED BY <2>1, <2>2
<1>4. TypeOK'
  BY <1>1, <1>3 DEF IInv, TypeOK, game, table, Refreshed
<1>5. Matched(warned)'
  BY <1>1, <1>3 DEF Matched, Rows, table, Refreshed
<1> QED BY <1>3, <1>4, <1>5 DEF IInv

\* A warning goes to who the table shows in the slot.
LEMMA WarnStep ==
  ASSUME IInv, NEW s \in Slot, Warn(s) PROVE IInv'
<1>1. walks = <<>> /\ waiting = "no" /\ Matched(warned)
  BY DEF Warn, IInv, Settled
<1>2. PICK e \in Rows :
        /\ e.slot = s
        /\ warned' = {w \in warned : w.slot # s} \cup Warnings(e)
        /\ \/ Ask("kick", s) /\ walks' = <<[Start("warn") EXCEPT !.slot = s]>>
           \/ UNCHANGED <<toGame, waiting, walks>>
  BY DEF Warn
<1>3. e \in [slot : Slot, player : Player \cup {Nobody}]
  BY AutoKickAssumption DEF Rows, Slot, IInv, TypeOK
<1>4. /\ Warnings(e) \subseteq [slot : Slot, player : Player \cup {Nobody}, times : Nat]
      /\ \A w \in Warnings(e) : [slot |-> w.slot, player |-> w.player] \in Rows
  <2>1. CASE {w \in warned : w.slot = e.slot} = {}
    <3>1. Warnings(e) = {[slot |-> e.slot, player |-> e.player, times |-> 1]}
      BY <2>1 DEF Warnings
    <3>2. [slot |-> e.slot, player |-> e.player] = e
      BY <1>3
    <3> QED BY <1>3, <3>1, <3>2
  <2>2. CASE {w \in warned : w.slot = e.slot} # {}
    <3>1. Warnings(e) = {[w EXCEPT !.times = @ + 1] : w \in {u \in warned : u.slot = e.slot}}
      BY <2>2 DEF Warnings
    <3>2. warned \subseteq [slot : Slot, player : Player \cup {Nobody}, times : Nat]
      BY DEF IInv, TypeOK
    <3>3. ASSUME NEW w \in warned
          PROVE  LET v == [w EXCEPT !.times = @ + 1]
                 IN  /\ v \in [slot : Slot, player : Player \cup {Nobody}, times : Nat]
                     /\ v.slot = w.slot /\ v.player = w.player
      BY <3>2
    <3> QED BY <1>1, <3>1, <3>3 DEF Matched
  <2> QED BY <2>1, <2>2
<1>5. Matched(warned)'
  BY <1>1, <1>2, <1>4 DEF Matched, Rows, Warn, table
<1>6. /\ Start("warn") \in Walk /\ Start("warn").at = 0 /\ Start("warn").list = 5
  BY StartTyped
<1>7. LET v == [Start("warn") EXCEPT !.slot = s]
      IN  v \in Walk /\ v.list = 5
  BY <1>6, AutoKickAssumption DEF Walk, Slot
<1>8. [type |-> "kick", slot |-> s] \in Request
  BY DEF Request
<1> DEFINE v == [Start("warn") EXCEPT !.slot = s]
<1>9. /\ toGame' \in Seq(Request) /\ walks' \in Seq(Walk)
      /\ waiting' \in {"no", "kick"} /\ (walks' = <<>> => waiting' # "kick")
      /\ WarnAtBottom' /\ FreshWalks'
  <2>1. CASE Ask("kick", s) /\ walks' = <<v>>
    <3> v \in Walk /\ v.list = 5
      BY <1>7
    <3> HIDE DEF v
    <3>1. Append(toGame, [type |-> "kick", slot |-> s]) \in Seq(Request)
      BY <1>8 DEF IInv, TypeOK
    <3>2. toGame' \in Seq(Request) /\ waiting' = "kick"
      BY <2>1, <3>1 DEF Ask
    <3>3. /\ walks' \in Seq(Walk) /\ walks' # <<>>
          /\ DOMAIN walks' = {1} /\ walks'[1].list = 5
      BY <2>1
    <3>4. WarnAtBottom' /\ FreshWalks'
      BY <3>3 DEF WarnAtBottom, FreshWalks
    <3> QED BY <3>2, <3>3, <3>4
  <2>2. CASE UNCHANGED <<toGame, waiting, walks>>
    BY <1>1, <2>2 DEF IInv, TypeOK, WarnAtBottom, FreshWalks
  <2> QED BY <1>2, <2>1, <2>2
<1>10. TypeOK'
  BY <1>2, <1>4, <1>9 DEF Warn, IInv, TypeOK, table
<1> QED BY <1>5, <1>9, <1>10 DEF IInv

\* A setting is changed between two walks, and nothing else.
LEMMA SwitchStep ==
  ASSUME NEW setting \in Switched, Switch(setting)
  PROVE  /\ walks = <<>> /\ waiting = "no"
         /\ UNCHANGED <<seat, toGame, answers, players, count, warned, walks, waiting, faults>>
         /\ IInv => IInv'
<1>1. /\ walks = <<>> /\ waiting = "no"
      /\ UNCHANGED <<seat, toGame, answers, players, count, warned, walks, waiting, faults>>
  BY DEF Switch, game, table
<1>2. ASSUME TypeOK PROVE TypeOK'
  <2>1. off' \subseteq Switched
    BY <1>2 DEF Switch, TypeOK
  <2> QED BY <1>1, <1>2, <2>1 DEF TypeOK
<1>3. ASSUME IInv PROVE WarnAtBottom' /\ FreshWalks' /\ (Settled' => Matched(warned)')
  BY <1>1, <1>3 DEF IInv, WarnAtBottom, FreshWalks, Settled, Matched, Rows
<1> QED BY <1>1, <1>2, <1>3 DEF IInv

-----------------------------------------------------------------------------
(* The theorems.                                                           *)

\* The invariant above holds in every reachable state.
THEOREM Invariance == Spec => []IInv
<1>1. Init => IInv
  <2> SUFFICES ASSUME Init PROVE IInv
    OBVIOUS
  <2>1. TypeOK
    BY AutoKickAssumption DEF Init, TypeOK, Slot
  <2>2. WarnAtBottom /\ FreshWalks /\ Matched(warned)
    BY DEF Init, WarnAtBottom, FreshWalks, Matched
  <2> QED BY <2>1, <2>2 DEF IInv
<1>2. IInv /\ [Next]_vars => IInv'
  <2> SUFFICES ASSUME IInv, [Next]_vars PROVE IInv'
    OBVIOUS
  <2>1. CASE \/ \E s \in Slot : Leave(s) \/ \E p \in Player : Join(p, s)
             \/ GameHandle \/ LoseRequest \/ LoseAnswer \/ CutAnswer
    BY <2>1, OutsideSteps
  <2>2. CASE \E s \in Slot : Warn(s)
    BY <2>2, WarnStep
  <2>3. CASE ClientStep
    BY <2>3, StatusStep, TakeStatusStep, TimeOutStep, KickNextStep, NextLoopStep, EndWalkStep
       DEF ClientStep
  <2>4. CASE \E setting \in Switched : Switch(setting)
    BY <2>4, SwitchStep
  <2>5. CASE UNCHANGED vars
    BY <2>5 DEF vars, client, table, game, IInv, TypeOK, WarnAtBottom, FreshWalks, Settled,
                Matched, Rows
  <2> QED BY <2>1, <2>2, <2>3, <2>4, <2>5 DEF Next
<1> QED BY <1>1, <1>2, PTL DEF Spec

\* Every variable keeps its type.
THEOREM TypeCorrect == Spec => []TypeOK
BY Invariance, PTL DEF IInv

\* Between two walks every warning stands with the player who got it.
THEOREM WarningsAreKept == Spec => []WarningsStick
<1>1. IInv => WarningsStick
  BY DEF IInv, Settled, Matched, WarningsStick
<1> QED BY <1>1, Invariance, PTL

-----------------------------------------------------------------------------
(* How deep walks nest.                                                    *)

StatusIn(s) == {i \in DOMAIN s : s[i].type = "status"}

\* The status requests and answers under way that no exchange waits for.
Late ==
  Cardinality(StatusIn(toGame)) + Len(answers) - (IF waiting = "status" THEN 1 ELSE 0)

Paid ==
  /\ waiting = "status" => walks = <<>>
  /\ Late + Len(walks) <= faults + (IF walks = <<>> THEN 0 ELSE 1)

\* The requests under way can be counted.
LEMMA StatusFinite ==
  ASSUME NEW s \in Seq(Request)
  PROVE  IsFiniteSet(StatusIn(s)) /\ Cardinality(StatusIn(s)) \in Nat
<1>1. Len(s) \in Nat /\ StatusIn(s) \subseteq 1 .. Len(s)
  BY DEF StatusIn
<1>2. IsFiniteSet(1 .. Len(s))
  BY <1>1, FS_Interval
<1>3. IsFiniteSet(StatusIn(s))
  BY <1>1, <1>2, FS_Subset
<1> QED BY <1>3, FS_CardinalityType

\* One more request.
LEMMA StatusAppended ==
  ASSUME NEW s \in Seq(Request), NEW r \in Request
  PROVE  Cardinality(StatusIn(Append(s, r))) =
           Cardinality(StatusIn(s)) + (IF r.type = "status" THEN 1 ELSE 0)
<1> DEFINE n == Len(s) + 1
<1>1. /\ Len(s) \in Nat /\ DOMAIN s = 1 .. Len(s)
      /\ DOMAIN Append(s, r) = 1 .. n /\ Append(s, r)[n] = r
      /\ \A i \in 1 .. Len(s) : Append(s, r)[i] = s[i]
  OBVIOUS
<1>2. n \notin StatusIn(s) /\ IsFiniteSet(StatusIn(s)) /\ Cardinality(StatusIn(s)) \in Nat
  BY <1>1, StatusFinite DEF StatusIn
<1>3. CASE r.type = "status"
  <2>1. StatusIn(Append(s, r)) = StatusIn(s) \cup {n}
    BY <1>1, <1>3 DEF StatusIn
  <2> HIDE DEF n
  <2> QED BY <1>2, <1>3, <2>1, FS_AddElement
<1>4. CASE r.type # "status"
  <2>1. StatusIn(Append(s, r)) = StatusIn(s)
    BY <1>1, <1>4 DEF StatusIn
  <2> QED BY <1>2, <1>4, <2>1
<1> QED BY <1>3, <1>4

\* One request less.
LEMMA StatusTaken ==
  ASSUME NEW s \in Seq(Request), s # <<>>
  PROVE  /\ Cardinality(StatusIn(Tail(s))) \in Nat
         /\ Cardinality(StatusIn(s)) =
              Cardinality(StatusIn(Tail(s))) + (IF Head(s).type = "status" THEN 1 ELSE 0)
<1> DEFINE rest == StatusIn(s) \ {1}
           f == [i \in StatusIn(Tail(s)) |-> i + 1]
<1>1. /\ Len(s) \in Nat \ {0} /\ DOMAIN s = 1 .. Len(s) /\ Head(s) = s[1]
      /\ Tail(s) \in Seq(Request) /\ DOMAIN Tail(s) = 1 .. Len(s) - 1
      /\ \A i \in 1 .. Len(s) - 1 : Tail(s)[i] = s[i + 1]
  OBVIOUS
<1>2. /\ IsFiniteSet(StatusIn(s)) /\ Cardinality(StatusIn(s)) \in Nat
      /\ IsFiniteSet(StatusIn(Tail(s))) /\ Cardinality(StatusIn(Tail(s))) \in Nat
  BY <1>1, StatusFinite
<1>3. f \in Bijection(StatusIn(Tail(s)), rest)
  <2>1. f \in [StatusIn(Tail(s)) -> rest]
    BY <1>1 DEF StatusIn
  <2>2. \A i, j \in StatusIn(Tail(s)) : f[i] = f[j] => i = j
    BY <1>1 DEF StatusIn
  <2>3. \A j \in rest : \E i \in StatusIn(Tail(s)) : f[i] = j
    <3>1. ASSUME NEW j \in rest PROVE j - 1 \in StatusIn(Tail(s)) /\ f[j - 1] = j
      BY <1>1 DEF StatusIn
    <3> QED BY <3>1
  <2> QED BY <2>1, <2>2, <2>3 DEF Bijection, Injection, Surjection, IsInjective
<1>4. Cardinality(rest) = Cardinality(StatusIn(Tail(s)))
  <2>1. ExistsBijection(StatusIn(Tail(s)), rest)
    BY <1>3 DEF ExistsBijection
  <2> HIDE DEF rest, f
  <2> QED BY <1>2, <2>1, FS_Bijection
<1>5. Cardinality(rest) =
        IF 1 \in StatusIn(s) THEN Cardinality(StatusIn(s)) - 1 ELSE Cardinality(StatusIn(s))
  BY <1>2, FS_RemoveElement
<1>6. 1 \in StatusIn(s) <=> Head(s).type = "status"
  BY <1>1 DEF StatusIn
<1> HIDE DEF rest
<1> QED BY <1>2, <1>4, <1>5, <1>6

\* Every step pays for the walk that it begins.
LEMMA PaidKept ==
  ASSUME IInv, Paid, [Next]_vars PROVE Paid'
<1> DEFINE R == Cardinality(StatusIn(toGame))
           A == Len(answers)
           N == Len(walks)
           waits == IF waiting = "status" THEN 1 ELSE 0
           base == IF walks = <<>> THEN 0 ELSE 1
<1>1. /\ toGame \in Seq(Request) /\ R \in Nat /\ A \in Nat /\ N \in Nat /\ faults \in Nat
      /\ walks \in Seq(Walk) /\ waiting \in {"no", "status", "kick"}
      /\ (walks = <<>> <=> N = 0)
  BY StatusFinite, AutoKickAssumption DEF IInv, TypeOK
<1>2. /\ waiting = "status" => walks = <<>>
      /\ R + A - waits + N <= faults + base
  BY DEF Paid, Late
<1>3. ASSUME toGame' = toGame, Len(answers') \in Nat, Len(answers') <= A,
             faults' \in Nat, faults' >= faults, UNCHANGED <<walks, waiting>>
      PROVE  Paid'
  BY <1>1, <1>2, <1>3 DEF Paid, Late
<1>4. CASE \E s \in Slot : Leave(s) \/ \E p \in Player : Join(p, s)
  BY <1>1, <1>3, <1>4 DEF Leave, Join, client
<1>5. CASE GameHandle
  <2>1. R = Cardinality(StatusIn(toGame')) + (IF Head(toGame).type = "status" THEN 1 ELSE 0)
    BY <1>1, <1>5, StatusTaken DEF GameHandle
  <2>2. Len(answers') = A + (IF Head(toGame).type = "status" THEN 1 ELSE 0)
    BY <1>5 DEF GameHandle, IInv, TypeOK
  <2>3. Cardinality(StatusIn(toGame')) \in Nat
    BY <1>1, <1>5, StatusTaken DEF GameHandle
  <2>4. UNCHANGED <<walks, waiting, faults>>
    BY <1>5 DEF GameHandle, client
  <2>5. Cardinality(StatusIn(toGame')) + Len(answers') = R + A
    BY <1>1, <2>1, <2>2, <2>3
  <2>6. Len(answers') \in Nat /\ toGame # <<>>
    BY <1>1, <1>5, <2>2 DEF GameHandle
  <2>7. CASE waiting = "status"
    BY <1>1, <1>2, <2>3, <2>4, <2>5, <2>6, <2>7 DEF Paid, Late
  <2>8. CASE waiting # "status"
    BY <1>1, <1>2, <2>3, <2>4, <2>5, <2>6, <2>8 DEF Paid, Late
  <2> QED BY <2>7, <2>8
<1>6. CASE LoseRequest
  <2>1. R = Cardinality(StatusIn(toGame')) + (IF Head(toGame).type = "status" THEN 1 ELSE 0)
    BY <1>1, <1>6, StatusTaken DEF LoseRequest
  <2>2. Cardinality(StatusIn(toGame')) \in Nat
    BY <1>1, <1>6, StatusTaken DEF LoseRequest
  <2> QED BY <1>1, <1>2, <1>6, <2>1, <2>2 DEF LoseRequest, Fault, client, Paid, Late
<1>7. CASE LoseAnswer
  <2>1. Len(answers') = A - 1 /\ A # 0
    BY <1>7 DEF LoseAnswer, IInv, TypeOK
  <2> QED BY <1>1, <1>3, <1>7, <2>1 DEF LoseAnswer, Fault, game, client
<1>8. CASE CutAnswer
  <2>1. Len(answers') = A
    BY <1>8 DEF CutAnswer, IInv, TypeOK
  <2> QED BY <1>1, <1>3, <1>8, <2>1 DEF CutAnswer, Fault, game, client
<1>9. CASE Status
  <2>1. [type |-> "status", slot |-> 0] \in Request
    BY DEF Request
  <2>2. Cardinality(StatusIn(toGame')) = R + 1
    BY <1>1, <1>9, <2>1, StatusAppended DEF Status, Ask
  <2> QED BY <1>1, <1>2, <1>9, <2>2 DEF Status, Ask, Paid, Late
<1>10. CASE TakeStatus
  <2>1. Len(answers') = A - 1 /\ A # 0
    BY <1>10 DEF TakeStatus, IInv, TypeOK
  <2>2. Len(walks') = N + 1 /\ walks' # <<>>
    BY <1>1, <1>10, Pushed, StartTyped DEF TakeStatus
  <2>3. toGame' = toGame /\ faults' = faults /\ waiting # "no" /\ waiting' = "no"
    BY <1>10 DEF TakeStatus, game
  <2>4. CASE waiting = "status"
    BY <1>1, <1>2, <2>1, <2>2, <2>3, <2>4 DEF Paid, Late
  <2>5. CASE waiting = "kick"
    <3>1. walks # <<>>
      BY <2>5 DEF IInv, TypeOK
    <3> QED BY <1>1, <1>2, <2>1, <2>2, <2>3, <2>5, <3>1 DEF Paid, Late
  <2> QED BY <1>1, <2>3, <2>4, <2>5
<1>11. CASE TimeOut
  <2>1. /\ toGame' = toGame /\ answers' = answers /\ A = 0 /\ waiting # "no" /\ waiting' = "no"
        /\ \/ toGame = <<>> /\ faults' = faults
           \/ faults' = faults + 1
    BY <1>11 DEF TimeOut, game, Fault
  <2>2. CASE waiting = "status"
    <3>1. walks' = walks
      BY <1>11, <2>2 DEF TimeOut
    <3>2. toGame = <<>> => R = 0
      <4>1. StatusIn(<<>>) = {}
        BY DEF StatusIn
      <4> QED BY <4>1, FS_EmptySet
    <3> QED BY <1>1, <1>2, <2>1, <2>2, <3>1, <3>2 DEF Paid, Late
  <2>3. CASE waiting = "kick"
    <3>1. walks # <<>> /\ Return(walks, warned)
      BY <1>11, <2>3 DEF TimeOut, IInv, TypeOK
    <3>2. /\ walks' \in Seq(Walk) /\ Len(walks') <= N
          /\ walks' = <<>> => N = 1
      BY <1>1, <3>1, ReturnShape DEF IInv, WarnAtBottom, FreshWalks, Settled
    <3>3. Len(walks') \in Nat /\ (walks' = <<>> <=> Len(walks') = 0)
      BY <3>2
    <3> QED BY <1>1, <1>2, <2>1, <2>3, <3>1, <3>2, <3>3 DEF Paid, Late
  <2> QED BY <1>1, <2>1, <2>2, <2>3
<1>12. CASE KickNext
  <2>1. walks # <<>> /\ waiting = "no" /\ answers' = answers /\ faults' = faults
    BY <1>12 DEF KickNext, Walking
  <2>2. PICK c \in Left : \E w : Ask("kick", SlotOf(c[1])) /\ walks' = Append(Front(walks), w)
    BY <1>12 DEF KickNext
  <2>3. SlotOf(c[1]) \in Slot
    <3>1. c[1] \in Slot
      BY <2>1, LeftTyped
    <3> QED BY <3>1 DEF SlotOf, IInv, TypeOK
  <2>4. [type |-> "kick", slot |-> SlotOf(c[1])] \in Request
    BY <2>3 DEF Request
  <2>5. Cardinality(StatusIn(toGame')) = R /\ waiting' = "kick"
    BY <1>1, <2>2, <2>4, StatusAppended DEF Ask
  <2>6. Len(walks') = N /\ walks' # <<>>
    BY <1>1, <2>1, <2>2, FrontAndLast
  <2> QED BY <1>1, <1>2, <2>1, <2>5, <2>6 DEF Paid, Late
<1>13. CASE NextLoop
  <2>1. walks # <<>> /\ waiting = "no" /\ Len(walks') = N /\ walks' # <<>>
    BY <1>1, <1>13, FrontAndLast DEF NextLoop, Walking
  <2> QED BY <1>1, <1>2, <1>13, <2>1 DEF NextLoop, game, Paid, Late
<1>14. CASE EndWalk
  <2>1. /\ walks # <<>> /\ waiting = "no" /\ UNCHANGED <<game, answers, waiting, faults>>
    BY <1>14 DEF EndWalk, Walking
  <2>2. /\ Len(walks') \in Nat /\ Len(walks') <= N - 1
        /\ (walks' = <<>> <=> Len(walks') = 0)
    <3>1. CASE N = 1
      BY <1>14, <3>1 DEF EndWalk
    <3>2. CASE N # 1
      <4>1. Return(Front(walks), Refreshed(warned))
        BY <1>14, <3>2 DEF EndWalk
      <4>2. walks' \in Seq(Walk) /\ Len(walks') <= Len(Front(walks))
        BY <2>1, <3>2, <4>1, FrontShape, ReturnShape
      <4> QED BY <1>1, <2>1, <3>2, <4>2, FrontShape
    <3> QED BY <3>1, <3>2
  <2> QED BY <1>1, <1>2, <2>1, <2>2 DEF game, Paid, Late
<1>15. CASE \E s \in Slot : Warn(s)
  <2>1. PICK s \in Slot : Warn(s)
    BY <1>15
  <2>2. walks = <<>> /\ waiting = "no" /\ answers' = answers /\ faults' = faults
    BY <2>1 DEF Warn
  <2>3. CASE UNCHANGED <<toGame, waiting, walks>>
    BY <1>1, <1>2, <2>2, <2>3 DEF Paid, Late
  <2>4. CASE Ask("kick", s) /\ walks' = <<[Start("warn") EXCEPT !.slot = s]>>
    <3>1. [type |-> "kick", slot |-> s] \in Request
      BY DEF Request
    <3>2. Cardinality(StatusIn(toGame')) = R /\ waiting' = "kick"
      BY <1>1, <2>4, <3>1, StatusAppended DEF Ask
    <3>3. Len(walks') = 1 /\ walks' # <<>>
      BY <2>4
    <3> QED BY <1>1, <1>2, <2>2, <3>2, <3>3 DEF Paid, Late
  <2> QED BY <2>1, <2>3, <2>4 DEF Warn
<1>16. CASE \E setting \in Switched : Switch(setting)
  <2>1. UNCHANGED <<toGame, answers, walks, waiting, faults>>
    BY <1>16, SwitchStep
  <2> QED BY <1>1, <1>3, <2>1
<1>17. CASE UNCHANGED vars
  BY <1>1, <1>3, <1>17 DEF vars, game, client
<1> QED BY <1>4, <1>5, <1>6, <1>7, <1>8, <1>9, <1>10, <1>11, <1>12, <1>13, <1>14, <1>15, <1>16,
           <1>17 DEF Next, ClientStep

\* At the start nothing is under way.
LEMMA NothingOwed == Init => Paid
<1>1. StatusIn(<<>>) = {}
  BY DEF StatusIn
<1> QED BY <1>1, FS_EmptySet DEF Init, Paid, Late

\* Walks nest no deeper than answers have come late.
THEOREM NestingIsBounded == Spec => []NestingBounded
<1>1. Init => Paid
  BY NothingOwed
<1>2. IInv /\ Paid /\ [Next]_vars => Paid'
  BY PaidKept
<1>3. IInv /\ Paid => NestingBounded
  <2> SUFFICES ASSUME IInv, Paid PROVE Len(walks) <= faults + 1
    BY DEF NestingBounded
  <2>1. /\ Cardinality(StatusIn(toGame)) \in Nat /\ Len(answers) \in Nat
        /\ Len(walks) \in Nat /\ faults \in Nat
    BY StatusFinite, AutoKickAssumption DEF IInv, TypeOK
  <2>2. CASE walks = <<>>
    BY <2>1, <2>2
  <2>3. CASE walks # <<>>
    BY <2>1, <2>3 DEF Paid, Late
  <2> QED BY <2>2, <2>3
<1> QED BY <1>1, <1>2, <1>3, Invariance, PTL DEF Spec
-----------------------------------------------------------------------------
(* The table of an answer.                                                 *)

\* The slots taken can be counted, and up to each there is at least one.
LEMMA TakenCounted ==
  ASSUME NEW answer, NEW s \in Nat
  PROVE  /\ IsFiniteSet(Taken(answer, s)) /\ Cardinality(Taken(answer, s)) \in Nat
         /\ s \in Taken(answer, s) => Cardinality(Taken(answer, s)) >= 1
<1>1. IsFiniteSet(1 .. s) /\ Taken(answer, s) \subseteq 1 .. s
  BY FS_Interval DEF Taken
<1>2. IsFiniteSet(Taken(answer, s)) /\ Cardinality(Taken(answer, s)) \in Nat
  BY <1>1, FS_Subset, FS_CardinalityType
<1>3. Taken(answer, s) # {} => Cardinality(Taken(answer, s)) # 0
  BY <1>2, FS_EmptySet
<1> QED BY <1>2, <1>3

\* Of two slots taken, the higher one has more of them below it.
LEMMA TakenGrows ==
  ASSUME NEW answer, NEW s \in Nat, NEW t \in Nat, s < t, t \in Taken(answer, t)
  PROVE  Cardinality(Taken(answer, s)) < Cardinality(Taken(answer, t))
<1> DEFINE below == Taken(answer, t) \ {t}
<1>1. /\ IsFiniteSet(Taken(answer, t)) /\ Cardinality(Taken(answer, t)) \in Nat
      /\ Cardinality(Taken(answer, s)) \in Nat
  BY TakenCounted
<1>2. IsFiniteSet(below) /\ Cardinality(below) = Cardinality(Taken(answer, t)) - 1
  BY <1>1, FS_RemoveElement
<1>3. Taken(answer, s) \subseteq below
  BY DEF Taken
<1>4. Cardinality(Taken(answer, s)) <= Cardinality(below)
  <2> HIDE DEF below
  <2> QED BY <1>2, <1>3, FS_Subset
<1> HIDE DEF below
<1> QED BY <1>1, <1>2, <1>4

\* Each row that counts is the row of a slot taken: none is left over from
\* an older table.  As many slots are taken as there are numbers, and no two
\* of them have the same number, so that every number is that of a slot.
LEMMA RowsComplete ==
  ASSUME NEW answer, NEW i \in 1 .. NewCount(answer)
  PROVE  /\ i \in Slot
         /\ \E s \in Taken(answer, Slots) :
              /\ Cardinality(Taken(answer, s)) = i
              /\ NewRows(answer)[i] = [slot |-> s, player |-> answer[s]]
<1> DEFINE T == Taken(answer, Slots)
           n == NewCount(answer)
           f == [s \in T |-> Cardinality(Taken(answer, s))]
<1>1. /\ IsFiniteSet(T) /\ Cardinality(T) = n /\ n \in Nat /\ n <= Slots /\ Slots \in Nat
      /\ \A s \in T : s \in Nat /\ s \in Taken(answer, s) /\ Taken(answer, s) \subseteq T
  <2>1. n \in 0 .. Slots
    BY CountTyped
  <2>2. IsFiniteSet(T) /\ Slots \in Nat
    BY TakenCounted, AutoKickAssumption
  <2>3. \A s \in T : s \in Nat /\ s \in Taken(answer, s) /\ Taken(answer, s) \subseteq T
    BY <2>2 DEF Taken
  <2> QED BY <2>1, <2>2, <2>3 DEF NewCount
<1>2. i \in Slot
  BY <1>1 DEF Slot
<1>3. f \in [T -> 1 .. n]
  <2> SUFFICES ASSUME NEW s \in T PROVE Cardinality(Taken(answer, s)) \in 1 .. n
    OBVIOUS
  <2>1. Cardinality(Taken(answer, s)) \in Nat /\ Cardinality(Taken(answer, s)) >= 1
    BY <1>1, TakenCounted
  <2>2. Cardinality(Taken(answer, s)) <= Cardinality(T)
    <3> HIDE DEF T
    <3> QED BY <1>1, FS_Subset
  <2> QED BY <1>1, <2>1, <2>2
<1>4. ASSUME NEW s \in T, NEW t \in T, f[s] = f[t] PROVE s = t
  <2>1. /\ s \in Nat /\ t \in Nat /\ s \in Taken(answer, s) /\ t \in Taken(answer, t)
        /\ Cardinality(Taken(answer, s)) \in Nat
    BY <1>1, TakenCounted
  <2>2. Cardinality(Taken(answer, s)) = Cardinality(Taken(answer, t))
    BY <1>4
  <2>3. ~(s < t) /\ ~(t < s)
    BY <2>1, <2>2, TakenGrows
  <2> QED BY <2>1, <2>3
<1>5. f \in Surjection(T, 1 .. n)
  <2>1. f \in Injection(T, 1 .. n)
    BY <1>3, <1>4 DEF Injection, IsInjective
  <2>2. IsFiniteSet(1 .. n) /\ Cardinality(1 .. n) = n
    BY <1>1, FS_Interval
  <2> HIDE DEF T, n, f
  <2> QED BY <1>1, <2>1, <2>2, FS_Injection
<1>6. PICK s \in T : f[s] = i
  BY <1>5 DEF Surjection
<1>7. Cardinality(Taken(answer, s)) = i
  BY <1>6
<1> DEFINE here == {u \in Taken(answer, Slots) : Cardinality(Taken(answer, u)) = i}
           s0 == CHOOSE u \in here : TRUE
<1>8. s \in here /\ s0 \in here
  BY <1>7
<1>9. NewRows(answer)[i] = [slot |-> s0, player |-> answer[s0]]
  BY <1>2, <1>8 DEF NewRows
<1>10. s0 \in Taken(answer, Slots) /\ Cardinality(Taken(answer, s0)) = i
  BY <1>8
<1> QED BY <1>2, <1>9, <1>10

\* No slot has two rows that count.
SlotsUnique ==
  \A i, j \in 1 .. count : players[i].slot = players[j].slot => i = j

\* A row in the set of rows has its slot to itself.
LEMMA OneRowForASlot ==
  ASSUME SlotsUnique, NEW d \in Rows, NEW e \in Rows, d.slot = e.slot
  PROVE  d = e
BY DEF SlotsUnique, Rows

-----------------------------------------------------------------------------
(* Whom a kick is for.                                                     *)

\* A walk over the bans has found nobody protected in the row it stands at.
Unprotected ==
  \A i \in DOMAIN walks :
    walks[i].loop = "bans" /\ walks[i].at # 0 => walks[i].who \notin Protected

\* A kick of a walk over the table is for the row where the walk stands.
KickHasRow == waiting = "kick" /\ Last(walks).loop # "warn" => Last(walks).at # 0

Aim == SlotsUnique /\ Unprotected /\ KickHasRow /\ KickIsEarned

\* The end of a kick takes at most the last walk off the stack.
LEMMA ReturnFrames ==
  ASSUME NEW stack \in Seq(Walk), stack # <<>>, NEW list, Return(stack, list),
         NEW j \in DOMAIN walks'
  PROVE  j \in DOMAIN stack /\ walks'[j] = stack[j]
<1>1. /\ Len(stack) \in Nat \ {0} /\ DOMAIN stack = 1 .. Len(stack)
      /\ Front(stack) \in Seq(Walk) /\ Len(Front(stack)) = Len(stack) - 1
      /\ DOMAIN Front(stack) = 1 .. Len(stack) - 1
      /\ \A i \in 1 .. Len(stack) - 1 : Front(stack)[i] = stack[i]
  BY FrontAndLast
<1>2. CASE walks' = stack
  BY <1>2
<1>3. CASE walks' = Front(stack)
  BY <1>1, <1>3
<1> QED BY <1>2, <1>3 DEF Return

\* Another last element.
LEMMA LastReplaced ==
  ASSUME NEW S, NEW s \in Seq(S), s # <<>>, NEW w
  PROVE  LET t == Append(Front(s), w)
         IN  /\ Len(s) \in Nat \ {0} /\ DOMAIN t = 1 .. Len(s)
             /\ Last(t) = w /\ t[Len(s)] = w
             /\ \A i \in 1 .. Len(s) - 1 : t[i] = s[i]
<1> DEFINE f == Front(s)
           t == Append(f, w)
<1>1. /\ Len(s) \in Nat \ {0} /\ f \in Seq(S) /\ Len(f) = Len(s) - 1
      /\ \A i \in 1 .. Len(s) - 1 : f[i] = s[i]
  BY FrontAndLast
<1> HIDE DEF f
<1>2. /\ Len(t) = Len(f) + 1 /\ DOMAIN t = 1 .. Len(f) + 1
      /\ t[Len(f) + 1] = w /\ \A i \in 1 .. Len(f) : t[i] = f[i]
  BY <1>1
<1> HIDE DEF t
<1>3. Len(t) = Len(s) /\ Len(f) + 1 = Len(s)
  BY <1>1, <1>2
<1>4. DOMAIN t = 1 .. Len(s) /\ t[Len(s)] = w
  BY <1>2, <1>3
<1>5. \A i \in 1 .. Len(s) - 1 : t[i] = s[i]
  BY <1>1, <1>2
<1>6. Last(t) = w
  BY <1>3, <1>4 DEF Last
<1> QED BY <1>1, <1>4, <1>5, <1>6 DEF t, f

\* A walk on the stack stays what it was, is a new one that stands at no row
\* yet, or is the one that has just kicked.
LEMMA FramesStay ==
  ASSUME IInv, [Next]_vars, NEW j \in DOMAIN walks'
  PROVE  \/ j \in DOMAIN walks /\ walks'[j] = walks[j]
         \/ walks'[j].at = 0
         \/ KickNext /\ walks'[j] = Last(walks')
<1>1. /\ walks \in Seq(Walk) /\ Len(walks) \in Nat /\ DOMAIN walks = 1 .. Len(walks)
  BY DEF IInv, TypeOK
<1>2. CASE UNCHANGED walks
  BY <1>2
<1>3. CASE TakeStatus
  <2>1. Start("temp") \in Walk /\ Start("temp").at = 0
    BY StartTyped
  <2>2. walks' = Append(walks, Start("temp"))
    BY <1>3 DEF TakeStatus
  <2> QED BY <1>1, <2>1, <2>2, Pushed
<1>4. CASE TimeOut /\ ~UNCHANGED walks
  <2>1. Return(walks, warned) /\ walks # <<>>
    BY <1>4 DEF TimeOut, IInv, TypeOK
  <2> QED BY <1>1, <2>1, ReturnFrames
<1>5. ASSUME walks # <<>>, NEW w, walks' = Append(Front(walks), w)
      PROVE  \/ j \in DOMAIN walks /\ walks'[j] = walks[j]
             \/ walks'[j] = w /\ w = Last(walks')
  <2>1. /\ Len(walks) # 0 /\ DOMAIN walks' = 1 .. Len(walks)
        /\ Last(walks') = w /\ walks'[Len(walks)] = w
        /\ \A i \in 1 .. Len(walks) - 1 : walks'[i] = walks[i]
    <3> DEFINE t == Append(Front(walks), w)
    <3>1. walks \in Seq(Walk) /\ walks # <<>> /\ walks' = t
      BY <1>1, <1>5
    <3>2. /\ Len(walks) \in Nat \ {0} /\ DOMAIN t = 1 .. Len(walks)
          /\ Last(t) = w /\ t[Len(walks)] = w
          /\ \A i \in 1 .. Len(walks) - 1 : t[i] = walks[i]
      BY <3>1, LastReplaced
    <3> HIDE DEF t
    <3> QED BY <3>1, <3>2
  <2>2. CASE j = Len(walks)
    BY <2>1, <2>2
  <2>3. CASE j # Len(walks)
    <3>1. j \in 1 .. Len(walks) - 1
      BY <1>1, <2>1, <2>3
    <3> QED BY <1>1, <2>1, <3>1
  <2> QED BY <2>2, <2>3
<1>6. CASE KickNext
  <2>1. walks # <<>> /\ \E w : walks' = Append(Front(walks), w)
    BY <1>6 DEF KickNext, Walking
  <2> QED BY <1>5, <1>6, <2>1
<1>7. CASE NextLoop
  <2>1. Start("bans") \in Walk /\ Start("bans").at = 0
    BY StartTyped
  <2>2. walks # <<>> /\ walks' = Append(Front(walks), Start("bans"))
    BY <1>7 DEF NextLoop, Walking
  <2> QED BY <1>5, <2>1, <2>2
<1>8. CASE EndWalk
  <2>1. walks # <<>>
    BY <1>8 DEF EndWalk, Walking
  <2>2. CASE Len(walks) = 1
    BY <1>8, <2>2 DEF EndWalk
  <2>3. CASE Len(walks) # 1
    <3>1. Return(Front(walks), Refreshed(warned))
      BY <1>8, <2>3 DEF EndWalk
    <3>2. Front(walks) \in Seq(Walk) /\ Front(walks) # <<>> /\ Len(Front(walks)) = Len(walks) - 1
      BY <2>1, <2>3, FrontShape
    <3>3. j \in DOMAIN Front(walks) /\ walks'[j] = Front(walks)[j]
      BY <3>1, <3>2, ReturnFrames
    <3> QED BY <1>1, <2>1, <3>2, <3>3, FrontAndLast
  <2> QED BY <2>2, <2>3
<1>9. ASSUME NEW s \in Slot, Warn(s), ~UNCHANGED walks PROVE walks'[j].at = 0
  <2>1. walks' = <<[Start("warn") EXCEPT !.slot = s]>>
    BY <1>9 DEF Warn
  <2> QED BY <2>1 DEF Start
<1>10. CASE \E s \in Slot : Warn(s)
  BY <1>2, <1>9, <1>10
<1>11. CASE \/ \E s \in Slot : Leave(s) \/ \E p \in Player : Join(p, s)
            \/ GameHandle \/ LoseRequest \/ LoseAnswer \/ CutAnswer \/ Status
            \/ UNCHANGED vars
  BY <1>2, <1>11 DEF Leave, Join, GameHandle, LoseRequest, LoseAnswer, CutAnswer, Status,
                     vars, client
<1>12. CASE \E setting \in Switched : Switch(setting)
  BY <1>2, <1>12, SwitchStep
<1> QED BY <1>2, <1>3, <1>4, <1>6, <1>7, <1>8, <1>10, <1>11, <1>12 DEF Next, ClientStep

\* What a kick of a walk does to the walk: it is for a row that the walk has
\* still to kick.
LEMMA KickNextDoes ==
  ASSUME IInv, KickNext
  PROVE  /\ walks # <<>> /\ waiting = "no"
         /\ Last(walks) \in Walk /\ Last(walks).loop \in {"temp", "bans"}
         /\ waiting' = "kick" /\ UNCHANGED <<seat, answers, players, count, off, warned, faults>>
         /\ \E c \in Left :
              LET w == Last(walks)
                  v == Last(walks')
              IN  /\ c[1] \in Slot
                  /\ toGame' = Append(toGame, [type |-> "kick", slot |-> v.slot])
                  /\ v.loop = w.loop /\ v.at = c[1] /\ v.slot = players[c[1]].slot
                  /\ v.who = IF c[1] = w.at THEN w.who ELSE players[c[1]].player
<1> DEFINE w == Last(walks)
<1>1. walks # <<>> /\ waiting = "no" /\ w.loop \in {"temp", "bans"} /\ w \in Walk
  BY FrontAndLast DEF KickNext, Walking, IInv, TypeOK
<1>2. PICK c \in Left :
        /\ Ask("kick", SlotOf(c[1]))
        /\ walks' = Append(Front(walks),
             [w EXCEPT !.at = c[1], !.list = c[2], !.slot = SlotOf(c[1]),
                       !.who = IF c[1] = w.at THEN @ ELSE players[c[1]].player])
  BY DEF KickNext
<1>3. c[1] \in Slot
  BY <1>1, LeftTyped
<1> DEFINE v == [w EXCEPT !.at = c[1], !.list = c[2], !.slot = SlotOf(c[1]),
                          !.who = IF c[1] = w.at THEN @ ELSE players[c[1]].player]
<1>4. Last(walks') = v
  <2>1. walks' = Append(Front(walks), v)
    BY <1>2
  <2> HIDE DEF v
  <2> QED BY <1>1, <2>1, LastReplaced DEF IInv, TypeOK
<1>5. /\ v.loop = w.loop /\ v.at = c[1] /\ v.slot = players[c[1]].slot
      /\ v.who = IF c[1] = w.at THEN w.who ELSE players[c[1]].player
  BY <1>1 DEF Walk, SlotOf
<1>6. toGame' = Append(toGame, [type |-> "kick", slot |-> v.slot]) /\ waiting' = "kick"
  BY <1>2, <1>5 DEF Ask, SlotOf
<1>7. UNCHANGED <<seat, answers, players, count, off, warned, faults>>
  BY DEF KickNext, table
<1> HIDE DEF v
<1> QED BY <1>1, <1>3, <1>4, <1>5, <1>6, <1>7

\* Whom a walk has still to kick: a list names who is in the row and nobody
\* protects him, or somebody else was there when the walk came to the row.
LEMMA LeftEarned ==
  ASSUME IInv, Unprotected, walks # <<>>, Last(walks).loop \in {"temp", "bans"}, NEW c \in Left
  PROVE  LET w   == Last(walks)
             p   == players[c[1]].player
             who == IF c[1] = w.at THEN w.who ELSE p
         IN  /\ w.loop = "bans" => who \notin Protected
             /\ p \in Wanted \/ (w.loop = "bans" /\ p # who)
<1> DEFINE w     == Last(walks)
           p     == players[c[1]].player
           lists == Lists[w.loop]
<1>1. /\ w \in Walk /\ c[1] \in Slot /\ c[2] \in 1 .. 5
      /\ w.at = 0 => w.list = 5
      /\ w.loop = "bans" /\ w.at # 0 => w.who \notin Protected
  <2>1. walks \in Seq(Walk)
    BY DEF IInv, TypeOK
  <2>2. w \in Walk /\ w = walks[Len(walks)] /\ Len(walks) \in DOMAIN walks
    BY <2>1, FrontAndLast
  <2>3. c[1] \in Slot /\ c[2] \in 1 .. 5
    BY LeftTyped
  <2> QED BY <2>2, <2>3 DEF IInv, FreshWalks, Unprotected
<1>2. ASSUME NEW l \in DOMAIN lists
      PROVE  /\ w.loop = "temp" => l = 1 /\ lists[l] \in ToSet(Lists.temp)
             /\ w.loop = "bans" => lists[l] \in ToSet(Bans)
  <2>1. CASE w.loop = "temp"
    <3>1. lists = Lists.temp /\ lists = <<Unless("messages", TempBanned)>>
      BY <2>1 DEF Lists
    <3> QED BY <2>1, <3>1 DEF ToSet
  <2>2. CASE w.loop = "bans"
    <3>1. lists = Bans
      BY <2>2 DEF Lists
    <3> QED BY <2>2, <3>1 DEF ToSet
  <2> QED BY <2>1, <2>2
<1>3. ASSUME NEW l \in DOMAIN lists, NEW q \in lists[l]
      PROVE  /\ w.loop = "temp" => q \in Wanted
             /\ w.loop = "bans" /\ q \notin Protected => q \in Wanted
  BY <1>2, <1>3 DEF Wanted
<1>4. CASE /\ c \in {w.at} \X DOMAIN lists /\ c[2] > w.list
           /\ (IF c[2] = 2 THEN w.who ELSE players[w.at].player) \in lists[c[2]]
  <2>1. c[1] = w.at /\ c[2] \in DOMAIN lists /\ w.at # 0
    BY <1>1, <1>4
  <2>2. CASE w.loop = "temp"
    <3>1. c[2] = 1
      BY <1>2, <2>1, <2>2
    <3>2. p \in lists[c[2]]
      BY <1>4, <2>1, <3>1
    <3> QED BY <1>3, <2>1, <2>2, <3>2
  <2>3. CASE w.loop = "bans"
    <3>1. w.who \notin Protected
      BY <1>1, <2>1, <2>3
    <3>2. p = w.who => p \in lists[c[2]]
      BY <1>4, <2>1
    <3> QED BY <1>3, <2>1, <2>3, <3>1, <3>2
  <2> QED BY <2>2, <2>3
<1>5. CASE /\ c \in (w.at + 1 .. count) \X DOMAIN lists
           /\ p \in lists[c[2]] /\ ~Passed(w.loop, p)
  <2>1. c[1] # w.at /\ c[2] \in DOMAIN lists
    BY <1>1, <1>5 DEF Walk, IInv, TypeOK
  <2>2. w.loop = "bans" => p \notin Protected
    BY <1>5 DEF Passed
  <2> QED BY <1>3, <1>5, <2>1, <2>2
<1> QED BY <1>4, <1>5 DEF Left

\* The first warning makes a kick only if the limit is one; a kick for a
\* warning is for who is in the row, whom nobody protects.
LEMMA WarnEarned ==
  ASSUME IInv, SlotsUnique, NEW s \in Slot, Warn(s), waiting' = "kick"
  PROVE  /\ Last(walks').loop = "warn" /\ Last(walks').slot = s
         /\ toGame' = Append(toGame, [type |-> "kick", slot |-> s])
         /\ \E e \in Rows' : e.slot = s /\ Earned(e.player, s)'
<1>1. walks = <<>> /\ waiting = "no" /\ Matched(warned) /\ UNCHANGED <<players, count>>
  BY DEF Warn, IInv, Settled, table
<1>2. PICK e \in Rows :
        /\ e.slot = s /\ e.player \notin Protected
        /\ warned' = {w \in warned : w.slot # s} \cup Warnings(e)
        /\ IF \E w \in Warnings(e) : w.times >= Limit
             THEN /\ Ask("kick", s)
                  /\ walks' = <<[Start("warn") EXCEPT !.slot = s]>>
             ELSE UNCHANGED <<toGame, waiting, walks>>
  BY DEF Warn
<1>3. PICK w \in Warnings(e) : w.times >= Limit
  BY <1>1, <1>2
<1>4. Ask("kick", s) /\ walks' = <<[Start("warn") EXCEPT !.slot = s]>>
  BY <1>2, <1>3
<1>5. Last(walks').loop = "warn" /\ Last(walks').slot = s
  BY <1>4 DEF Last, Start
<1>6. w.slot = s /\ w.player = e.player
  <2>1. CASE {u \in warned : u.slot = e.slot} = {}
    <3>1. w = [slot |-> e.slot, player |-> e.player, times |-> 1]
      BY <2>1 DEF Warnings
    <3> QED BY <1>2, <3>1
  <2>2. CASE {u \in warned : u.slot = e.slot} # {}
    <3>1. PICK u \in warned : u.slot = e.slot /\ w = [u EXCEPT !.times = @ + 1]
      BY <2>2 DEF Warnings
    <3>2. u \in [slot : Slot, player : Player \cup {Nobody}, times : Nat]
      BY DEF IInv, TypeOK
    <3>3. w.slot = u.slot /\ w.player = u.player
      BY <3>1, <3>2
    <3>4. [slot |-> u.slot, player |-> u.player] \in Rows
      BY <1>1 DEF Matched
    <3>5. [slot |-> u.slot, player |-> u.player] = e
      BY <3>1, <3>4, OneRowForASlot
    <3>6. e.player = u.player
      BY <3>5
    <3> QED BY <1>2, <3>1, <3>3, <3>6
  <2> QED BY <2>1, <2>2
<1>7. w \in warned' /\ Rows' = Rows
  BY <1>1, <1>2 DEF Rows
<1> QED BY <1>2, <1>3, <1>4, <1>5, <1>6, <1>7 DEF Ask, Earned

\* Slots stay unique: a new table has one row for each slot taken.
LEMMA SlotsStayUnique ==
  ASSUME SlotsUnique, [Next]_vars
  PROVE  SlotsUnique'
<1>1. CASE UNCHANGED <<players, count>>
  BY <1>1 DEF SlotsUnique
<1>2. CASE TakeStatus
  <2> DEFINE answer == Head(answers)
  <2>1. players' = NewRows(answer) /\ count' = NewCount(answer)
    BY <1>2 DEF TakeStatus
  <2> SUFFICES ASSUME NEW i \in 1 .. NewCount(answer), NEW j \in 1 .. NewCount(answer),
                      NewRows(answer)[i].slot = NewRows(answer)[j].slot
               PROVE  i = j
    BY <2>1 DEF SlotsUnique
  <2>2. PICK s : /\ Cardinality(Taken(answer, s)) = i
                 /\ NewRows(answer)[i] = [slot |-> s, player |-> answer[s]]
    BY RowsComplete
  <2>3. PICK t : /\ Cardinality(Taken(answer, t)) = j
                 /\ NewRows(answer)[j] = [slot |-> t, player |-> answer[t]]
    BY RowsComplete
  <2>4. s = t
    BY <2>2, <2>3
  <2> QED BY <2>2, <2>3, <2>4
<1>3. [Next]_vars => UNCHANGED <<players, count>> \/ TakeStatus
  BY DEF Next, ClientStep, vars, client, table, Leave, Warn, Join, GameHandle, LoseRequest,
         LoseAnswer, CutAnswer, Status, TimeOut, KickNext, NextLoop, EndWalk, Switch
<1> QED BY <1>1, <1>2, <1>3

\* The client waits for a kick because it did so before, or has just sent it.
LEMMA KickComesFrom ==
  ASSUME [Next]_vars, waiting' = "kick"
  PROVE  \/ waiting = "kick" /\ UNCHANGED <<players, count, off, warned, walks>>
         \/ KickNext
         \/ \E s \in Slot : Warn(s)
<1>1. CASE \/ \E s \in Slot : Leave(s) \/ \E p \in Player : Join(p, s)
           \/ GameHandle \/ LoseRequest \/ LoseAnswer \/ CutAnswer \/ UNCHANGED vars
  BY <1>1 DEF Leave, Join, GameHandle, LoseRequest, LoseAnswer, CutAnswer, vars, client, table
<1>2. ~ (Status \/ TakeStatus \/ TimeOut \/ NextLoop \/ EndWalk)
  BY DEF Status, Ask, TakeStatus, TimeOut, NextLoop, EndWalk, Walking
<1>3. ~ \E setting \in Switched : Switch(setting)
  BY SwitchStep
<1> QED BY <1>1, <1>2, <1>3 DEF Next, ClientStep

\* Every step keeps the aim.
LEMMA AimKept ==
  ASSUME IInv, Aim, [Next]_vars
  PROVE  Aim'
<1>1. SlotsUnique'
  BY SlotsStayUnique DEF Aim
<1>2. Unprotected'
  <2> SUFFICES ASSUME NEW j \in DOMAIN walks',
                      walks'[j].loop = "bans", walks'[j].at # 0
               PROVE  walks'[j].who \notin Protected
    BY DEF Unprotected
  <2>1. CASE j \in DOMAIN walks /\ walks'[j] = walks[j]
    BY <2>1 DEF Aim, Unprotected
  <2>2. CASE KickNext /\ walks'[j] = Last(walks')
    <3>1. PICK c \in Left :
            /\ Last(walks').loop = Last(walks).loop
            /\ Last(walks').who = IF c[1] = Last(walks).at THEN Last(walks).who
                                  ELSE players[c[1]].player
      BY <2>2, KickNextDoes
    <3>2. walks # <<>> /\ Last(walks).loop \in {"temp", "bans"}
      BY <2>2, KickNextDoes
    <3> QED BY <2>2, <3>1, <3>2, LeftEarned DEF Aim
  <2> QED BY <2>1, <2>2, FramesStay
<1>3. KickHasRow' /\ KickIsEarned'
  <2> SUFFICES ASSUME waiting' = "kick" PROVE KickHasRow' /\ KickIsEarned'
    BY DEF KickHasRow, KickIsEarned
  <2>1. CASE waiting = "kick" /\ UNCHANGED <<players, count, off, warned, walks>>
    BY <2>1 DEF Aim, KickHasRow, KickIsEarned, Earned, Rows, Wanted, Lists, Bans, Unless
  <2>2. CASE KickNext
    <3> DEFINE w == Last(walks)
               v == Last(walks')
    <3>1. /\ walks # <<>> /\ w.loop \in {"temp", "bans"}
          /\ UNCHANGED <<players, count, off, warned>>
      BY <2>2, KickNextDoes
    <3>2. PICK c \in Left :
            /\ c[1] \in Slot
            /\ v.loop = w.loop /\ v.at = c[1] /\ v.slot = players[c[1]].slot
            /\ v.who = IF c[1] = w.at THEN w.who ELSE players[c[1]].player
      BY <2>2, KickNextDoes
    <3>3. \/ players[c[1]].player \in Wanted
          \/ w.loop = "bans" /\ players[c[1]].player # v.who
      BY <3>1, <3>2, LeftEarned DEF Aim
    <3>4. v.loop # "warn" /\ v.at # 0
      BY <3>1, <3>2 DEF Slot
    <3>5. players' = players /\ players[v.at].slot = v.slot
      BY <3>1, <3>2
    <3>6. \/ Earned(players[Last(walks).at].player, Last(walks).slot)'
          \/ v.loop = "bans" /\ players[v.at].player # v.who
      BY <3>1, <3>2, <3>3 DEF Earned, Wanted, Lists, Bans, Unless
    <3> HIDE DEF w
    <3> QED BY <3>4, <3>5, <3>6 DEF KickHasRow, KickIsEarned
  <2>3. CASE \E s \in Slot : Warn(s)
    <3>1. PICK s \in Slot : Warn(s)
      BY <2>3
    <3>2. /\ Last(walks').loop = "warn" /\ Last(walks').slot = s
          /\ \E e \in Rows' : e.slot = s /\ Earned(e.player, s)'
      BY <3>1, WarnEarned DEF Aim
    <3> QED BY <3>2 DEF KickHasRow, KickIsEarned
  <2> QED BY <2>1, <2>2, <2>3, KickComesFrom
<1> QED BY <1>1, <1>2, <1>3 DEF Aim

\* The aim holds from the start on.
THEOREM KicksAreEarned == Spec => []KickIsEarned
<1>1. Init => Aim
  <2> SUFFICES ASSUME Init PROVE Aim
    OBVIOUS
  <2>1. SlotsUnique
    BY DEF Init, SlotsUnique
  <2>2. Unprotected /\ KickHasRow /\ KickIsEarned
    BY DEF Init, Unprotected, KickHasRow, KickIsEarned
  <2> QED BY <2>1, <2>2 DEF Aim
<1>2. IInv /\ Aim /\ [Next]_vars => Aim'
  BY AimKept
<1>3. Aim => KickIsEarned
  BY DEF Aim
<1> QED BY <1>1, <1>2, <1>3, Invariance, PTL DEF Spec

-----------------------------------------------------------------------------
(* Whom a kick hits.                                                       *)

\* As long as no datagram is late or lost, the client waits for every kick
\* under way, and every walk knows who is in the row where it stands.
Undisturbed ==
  faults = 0 =>
    /\ \A i \in DOMAIN toGame :
         toGame[i].type = "kick" => waiting = "kick" /\ toGame[i].slot = Last(walks).slot
    /\ \A i \in DOMAIN walks :
         walks[i].loop # "warn" /\ walks[i].at # 0 =>
           /\ walks[i].at \in 1 .. count
           /\ walks[i].who = players[walks[i].at].player

\* Then no status can come while a walk is on.
LEMMA NoneLate ==
  ASSUME IInv, Paid, faults = 0, walks # <<>>
  PROVE  answers = <<>>
<1> DEFINE R == Cardinality(StatusIn(toGame))
<1>1. R \in Nat /\ Len(answers) \in Nat /\ Len(walks) \in Nat \ {0} /\ waiting # "status"
  BY StatusFinite DEF IInv, TypeOK, Paid
<1>2. R + Len(answers) + Len(walks) <= 1
  BY <1>1 DEF Paid, Late
<1>3. Len(answers) = 0
  BY <1>1, <1>2
<1> QED BY <1>3 DEF IInv, TypeOK

\* What is under way to the game server after a step, if nothing was lost.
LEMMA RequestsUnderWay ==
  ASSUME IInv, [Next]_vars, faults' = 0, NEW i \in DOMAIN toGame', toGame'[i].type = "kick"
  PROVE  \/ \E j \in DOMAIN toGame : toGame'[i] = toGame[j]
         \/ KickNext /\ toGame'[i] = [type |-> "kick", slot |-> Last(walks').slot]
         \/ \E s \in Slot : /\ Warn(s) /\ waiting' = "kick"
                            /\ toGame'[i] = [type |-> "kick", slot |-> s]
<1>1. /\ toGame \in Seq(Request) /\ DOMAIN toGame = 1 .. Len(toGame) /\ Len(toGame) \in Nat
      /\ faults \in Nat
  BY AutoKickAssumption DEF IInv, TypeOK
<1>2. ASSUME NEW r, toGame' = Append(toGame, r)
      PROVE  toGame'[i] = r \/ \E j \in DOMAIN toGame : toGame'[i] = toGame[j]
  <2>1. /\ DOMAIN toGame' = 1 .. Len(toGame) + 1 /\ toGame'[Len(toGame) + 1] = r
        /\ \A j \in 1 .. Len(toGame) : toGame'[j] = toGame[j]
    BY <1>1, <1>2
  <2> QED BY <1>1, <2>1
<1>3. CASE UNCHANGED toGame
  BY <1>3
<1>4. CASE GameHandle
  <2>1. toGame # <<>> /\ toGame' = Tail(toGame)
    BY <1>4 DEF GameHandle
  <2>2. i + 1 \in DOMAIN toGame /\ toGame'[i] = toGame[i + 1]
    BY <1>1, <2>1
  <2> QED BY <2>2
<1>5. ~ LoseRequest
  BY <1>1 DEF LoseRequest, Fault
<1>6. CASE Status
  <2>1. toGame' = Append(toGame, [type |-> "status", slot |-> 0])
    BY <1>6 DEF Status, Ask
  <2> QED BY <1>2, <2>1
<1>7. CASE KickNext
  <2>1. toGame' = Append(toGame, [type |-> "kick", slot |-> Last(walks').slot])
    BY <1>7, KickNextDoes
  <2> QED BY <1>2, <1>7, <2>1
<1>8. ASSUME NEW s \in Slot, Warn(s), ~UNCHANGED toGame
      PROVE  waiting' = "kick" /\ toGame' = Append(toGame, [type |-> "kick", slot |-> s])
  BY <1>8 DEF Warn, Ask
<1>9. CASE \E s \in Slot : Warn(s)
  BY <1>2, <1>3, <1>8, <1>9
<1>10. CASE \/ \E s \in Slot : Leave(s) \/ \E p \in Player : Join(p, s)
            \/ LoseAnswer \/ CutAnswer \/ TakeStatus \/ TimeOut \/ NextLoop \/ EndWalk
            \/ UNCHANGED vars
  BY <1>3, <1>10 DEF Leave, Join, LoseAnswer, CutAnswer, TakeStatus, TimeOut, NextLoop,
                     EndWalk, vars, game
<1>11. CASE \E setting \in Switched : Switch(setting)
  BY <1>3, <1>11, SwitchStep
<1> QED BY <1>4, <1>5, <1>6, <1>7, <1>9, <1>10, <1>11 DEF Next, ClientStep

\* A step that is no fault disturbs nothing.
LEMMA UndisturbedKept ==
  ASSUME IInv, SlotsUnique, Paid, Undisturbed, [Next]_vars
  PROVE  Undisturbed'
<1> SUFFICES ASSUME faults' = 0
             PROVE  /\ \A i \in DOMAIN toGame' :
                         toGame'[i].type = "kick" =>
                           waiting' = "kick" /\ toGame'[i].slot = Last(walks').slot
                    /\ \A i \in DOMAIN walks' :
                         walks'[i].loop # "warn" /\ walks'[i].at # 0 =>
                           /\ walks'[i].at \in 1 .. count'
                           /\ walks'[i].who = players'[walks'[i].at].player
  BY DEF Undisturbed
<1>1. faults = 0
  <2>1. faults \in Nat
    BY AutoKickAssumption DEF IInv, TypeOK
  <2>2. faults' \in {faults, faults + 1}
    BY DEF Next, ClientStep, vars, Leave, Warn, Join, GameHandle, LoseRequest, LoseAnswer,
           CutAnswer, Status, TakeStatus, TimeOut, KickNext, NextLoop, EndWalk, Switch, Fault
  <2> QED BY <2>1, <2>2
<1>2. ~ (LoseRequest \/ LoseAnswer \/ CutAnswer)
  BY <1>1 DEF LoseRequest, LoseAnswer, CutAnswer, Fault
<1>3. ASSUME NEW i \in DOMAIN toGame', toGame'[i].type = "kick"
      PROVE  waiting' = "kick" /\ toGame'[i].slot = Last(walks').slot
  <2>1. ASSUME NEW j \in DOMAIN toGame, toGame'[i] = toGame[j]
        PROVE  waiting' = "kick" /\ toGame'[i].slot = Last(walks').slot
    <3>1. waiting = "kick" /\ toGame[j].slot = Last(walks).slot /\ toGame # <<>>
      BY <1>1, <1>3, <2>1 DEF Undisturbed
    <3>2. walks # <<>>
      BY <3>1 DEF IInv, TypeOK
    <3>3. ~ (TakeStatus \/ TimeOut)
      <4>1. ~ TakeStatus
        BY <1>1, <3>2, NoneLate DEF TakeStatus
      <4>2. ~ TimeOut
        BY <1>1, <3>1 DEF TimeOut, Fault
      <4> QED BY <4>1, <4>2
    <3>4. ~ (Status \/ KickNext \/ NextLoop \/ EndWalk \/ \E s \in Slot : Warn(s))
      BY <3>1 DEF Status, KickNext, NextLoop, EndWalk, Warn, Walking
    <3>5. UNCHANGED <<waiting, walks>>
      BY <1>2, <3>3, <3>4 DEF Next, ClientStep, vars, client, Leave, Join, GameHandle,
                                  Switch
    <3> QED BY <2>1, <3>1, <3>5
  <2>2. CASE KickNext /\ toGame'[i] = [type |-> "kick", slot |-> Last(walks').slot]
    <3>1. waiting' = "kick"
      BY <2>2, KickNextDoes
    <3> QED BY <2>2, <3>1
  <2>3. ASSUME NEW s \in Slot, Warn(s), waiting' = "kick",
               toGame'[i] = [type |-> "kick", slot |-> s]
        PROVE  waiting' = "kick" /\ toGame'[i].slot = Last(walks').slot
    BY <2>3, WarnEarned
  <2> QED BY <1>3, <2>1, <2>2, <2>3, RequestsUnderWay
<1>4. ASSUME NEW i \in DOMAIN walks', walks'[i].loop # "warn", walks'[i].at # 0
      PROVE  /\ walks'[i].at \in 1 .. count'
             /\ walks'[i].who = players'[walks'[i].at].player
  <2>1. CASE i \in DOMAIN walks /\ walks'[i] = walks[i]
    <3>1. walks # <<>>
      BY <2>1
    <3>2. ~ TakeStatus
      BY <1>1, <3>1, NoneLate DEF TakeStatus
    <3>3. UNCHANGED <<players, count>>
      BY <3>2 DEF Next, ClientStep, vars, client, table, Leave, Warn, Join, GameHandle,
                  LoseRequest, LoseAnswer, CutAnswer, Status, TimeOut, KickNext, NextLoop,
                  EndWalk, Switch
    <3> QED BY <1>1, <1>4, <2>1, <3>3 DEF Undisturbed
  <2>2. CASE KickNext /\ walks'[i] = Last(walks')
    <3> DEFINE w == Last(walks)
               v == Last(walks')
    <3>1. /\ walks # <<>> /\ w \in Walk /\ w.loop \in {"temp", "bans"}
          /\ UNCHANGED <<players, count>>
      BY <2>2, KickNextDoes
    <3>2. PICK c \in Left :
            /\ c[1] \in Slot /\ v.at = c[1]
            /\ v.who = IF c[1] = w.at THEN w.who ELSE players[c[1]].player
      BY <2>2, KickNextDoes
    <3>3. w.at # 0 => w.at \in 1 .. count /\ w.who = players[w.at].player
      <4>1. w = walks[Len(walks)] /\ Len(walks) \in DOMAIN walks
        BY <3>1, FrontAndLast DEF IInv, TypeOK
      <4> QED BY <1>1, <3>1, <4>1 DEF Undisturbed
    <3>4. c[1] \in 1 .. count
      <4>1. c[1] = w.at \/ c[1] \in w.at + 1 .. count
        BY DEF Left
      <4>2. w.at \in Nat /\ count \in Nat /\ c[1] # 0 /\ c[1] \in Nat
        <5>1. w.at \in 0 .. Slots /\ count \in 0 .. Slots
          BY <3>1 DEF Walk, IInv, TypeOK
        <5>2. c[1] \in 1 .. Slots
          BY <3>2 DEF Slot
        <5> QED BY <5>1, <5>2, AutoKickAssumption
      <4>3. CASE c[1] = w.at
        BY <3>3, <4>2, <4>3
      <4>4. CASE c[1] \in w.at + 1 .. count
        BY <4>2, <4>4
      <4> QED BY <4>1, <4>3, <4>4
    <3>5. v.who = players[c[1]].player
      BY <3>2, <3>3, <3>4
    <3> QED BY <2>2, <3>1, <3>2, <3>4, <3>5
  <2> QED BY <1>4, <2>1, <2>2, FramesStay
<1> QED BY <1>3, <1>4

\* A kick that arrives finds in its slot whom the client waits to be kicked,
\* or somebody who is not in the table there.
LEMMA HitIsEarned ==
  ASSUME IInv, Aim, Undisturbed, faults = 0, NEW s \in Slot, toGame # <<>>,
         Head(toGame) = [type |-> "kick", slot |-> s],
         NEW p, [slot |-> s, player |-> p] \in Rows
  PROVE  Earned(p, s)
<1> DEFINE w == Last(walks)
<1>1. waiting = "kick" /\ w.slot = s
  <2>1. 1 \in DOMAIN toGame /\ toGame[1] = Head(toGame)
    BY DEF IInv, TypeOK
  <2>2. toGame[1].type = "kick" /\ toGame[1].slot = s
    BY <2>1
  <2> QED BY <2>1, <2>2 DEF Undisturbed
<1>2. walks # <<>> /\ w = walks[Len(walks)] /\ Len(walks) \in DOMAIN walks
  <2>1. walks \in Seq(Walk) /\ walks # <<>>
    BY <1>1 DEF IInv, TypeOK
  <2>2. Len(walks) \in Nat \ {0} /\ w = walks[Len(walks)]
    BY <2>1, FrontAndLast
  <2> QED BY <2>1, <2>2
<1>3. CASE w.loop = "warn"
  <2>1. PICK e \in Rows : e.slot = s /\ Earned(e.player, s)
    BY <1>1, <1>3 DEF Aim, KickIsEarned
  <2>2. e = [slot |-> s, player |-> p]
    BY <2>1, OneRowForASlot DEF Aim
  <2> QED BY <2>1, <2>2
<1>4. CASE w.loop # "warn"
  <2>1. w.at # 0
    BY <1>1, <1>4 DEF Aim, KickHasRow
  <2>2. w.at \in 1 .. count /\ w.who = players[w.at].player
    BY <1>2, <1>4, <2>1 DEF Undisturbed
  <2>3. players[w.at].slot = s /\ Earned(players[w.at].player, s)
    BY <1>1, <1>4, <2>2 DEF Aim, KickIsEarned
  <2>4. players[w.at] \in Rows
    BY <2>2 DEF Rows
  <2>5. players[w.at] = [slot |-> s, player |-> p]
    BY <2>3, <2>4, OneRowForASlot DEF Aim
  <2> QED BY <2>3, <2>5
<1> QED BY <1>3, <1>4

\* As long as no datagram is late or lost, no kick throws out a player whom
\* the client sees in that slot unless he has earned it.
THEOREM NobodyElseIsHit == Spec => NoOneElseIsHit
<1> DEFINE All == IInv /\ Paid /\ Aim /\ Undisturbed
<1>1. Init => Paid /\ Aim /\ Undisturbed
  <2> SUFFICES ASSUME Init PROVE Paid /\ Aim /\ Undisturbed
    OBVIOUS
  <2>1. SlotsUnique
    BY DEF Init, SlotsUnique
  <2>2. Paid
    BY NothingOwed
  <2>3. Aim
    BY <2>1 DEF Init, Aim, Unprotected, KickHasRow, KickIsEarned
  <2>4. Undisturbed
    BY DEF Init, Undisturbed
  <2> QED BY <2>2, <2>3, <2>4
<1>2. IInv /\ Paid /\ Aim /\ Undisturbed /\ [Next]_vars => (Paid /\ Aim /\ Undisturbed)'
  BY PaidKept, AimKept, UndisturbedKept DEF Aim
<1>3. IInv /\ Paid /\ Aim /\ Undisturbed /\ [Next]_vars =>
        [\A s \in Slot :
           /\ GameHandle /\ Head(toGame) = [type |-> "kick", slot |-> s]
           /\ faults = 0 /\ [slot |-> s, player |-> seat[s]] \in Rows
           => Earned(seat[s], s)]_vars
  BY HitIsEarned DEF GameHandle
<1> QED BY <1>1, <1>2, <1>3, Invariance, PTL DEF Spec, NoOneElseIsHit

=============================================================================
