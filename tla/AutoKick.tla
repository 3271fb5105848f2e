------------------------------ MODULE AutoKick ------------------------------
(***************************************************************************)
(* How a client throws players off the game server.  The client asks for   *)
(* the status of the game server again and again.  The answer, a list of   *)
(* slots and the players in them, becomes its table of players; then it    *)
(* walks over the table twice (temporary bans, the other bans) and sends a *)
(* clientkick with the slot of each player that a list names.              *)
(*                                                                         *)
(* The game server is asked over UDP.  An exchange sends a request and     *)
(* then takes whatever comes until an answer is complete or nothing comes  *)
(* for 0.7 s; nothing ties an answer to its request.  So a status that is  *)
(* late is taken by the next exchange, the one of a kick for instance: it  *)
(* replaces the table in the middle of a walk, and is walked over itself   *)
(* before the kick goes on; what the walk has read from the row before the *)
(* kick is then about somebody else.  Besides, a slot that is free can be  *)
(* taken by somebody else before the kick arrives, a player whom two lists *)
(* name is kicked twice, and other administrators kick as well, which to   *)
(* this client are players who leave.                                      *)
(*                                                                         *)
(* Warnings are kept under the slot of the player; the second one kicks.   *)
(* All of this happens on the command thread of the client.  The lists do  *)
(* not change here (BanSync, TempBanExpiry), and neither does the map; the *)
(* settings that decide which of the lists are in force do.                *)
(***************************************************************************)
EXTENDS Integers, FiniteSets, Sequences, SequencesExt

CONSTANTS
  Player, Nobody,
  TempBanned, Protected,           \* what the lists of the client say of them
  BannedAddress, BannedRange, BannedCity, BannedCountry, BannedName,
  Switched,                        \* the settings that the administrator changes
  Slots,                           \* the game server has slots 1 .. Slots
  Limit,                           \* warnings that make a kick
  MaxFaults                        \* bound on late, lost and cut datagrams

ASSUME AutoKickAssumption ==
  /\ Nobody \notin Player
  /\ TempBanned \cup Protected \subseteq Player
  /\ BannedAddress \cup BannedRange \cup BannedCity \cup BannedCountry \cup BannedName
       \subseteq Player
  /\ Switched \subseteq {"messages", "city", "country"}
  /\ Slots \in Nat /\ Limit \in Nat /\ MaxFaults \in Nat

VARIABLES
  seat,      \* the player in each slot of the game server, or Nobody
  toGame,    \* requests on their way to it, oldest first
  answers,   \* status answers on their way back, or in the client's socket
  players,   \* the rows of the client's table of players, old ones included
  count,     \* how many of them count
  off,       \* the settings that are off: kick messages, city and country kicks
  warned,    \* the warnings, one entry for a slot
  walks,     \* the walks over the table: the last is nested in those before
  waiting,   \* what the client waits for, if it waits
  faults     \* how much of MaxFaults is used

game   == <<seat, toGame>>
table  == <<players, count>>
client == <<table, off, warned, walks, waiting>>
vars   == <<seat, toGame, answers, table, off, warned, walks, waiting, faults>>

Slot    == 1 .. Slots
Request == [type : {"status"}, slot : {0}] \cup [type : {"kick"}, slot : Slot]

\* A list that a setting can put out of force.
Unless(setting, list) == IF setting \in off THEN {} ELSE list

\* What bans can name a player, in the order in which a walk looks: his
\* address, the range of his address, his city, his country, his name.
Bans == <<BannedAddress, BannedRange, Unless("city", BannedCity),
          Unless("country", BannedCountry), BannedName>>

\* While the kick messages are turned off, the walk over the temporary bans
\* does not kick either; the other walk only leaves out its messages.
Lists == [temp |-> <<Unless("messages", TempBanned)>>, bans |-> Bans, warn |-> <<>>]

\* A walk that kicks stands at a row and at a list, and who was in the row
\* when it came there; slot is the one it kicks.  "warn" is a kick that
\* comes from a warning.
Walk == [loop : {"temp", "bans", "warn"}, at : 0 .. Slots, list : 0 .. 5,
         who : Player \cup {Nobody}, slot : 0 .. Slots]

Start(loop) == [loop |-> loop, at |-> 0, list |-> 5, who |-> Nobody, slot |-> 0]

TypeOK ==
  /\ seat \in [Slot -> Player \cup {Nobody}]
  /\ toGame \in Seq(Request)
  /\ answers \in Seq([Slot -> Player \cup {Nobody}])
  /\ players \in [Slot -> [slot : Slot, player : Player \cup {Nobody}]]
  /\ count \in 0 .. Slots /\ off \subseteq Switched
  /\ warned \subseteq [slot : Slot, player : Player \cup {Nobody}, times : Nat]
  /\ walks \in Seq(Walk)
  /\ waiting \in {"no", "status", "kick"}
  /\ walks = <<>> => waiting # "kick"
  /\ faults \in 0 .. MaxFaults

Init ==
  /\ seat = [s \in Slot |-> Nobody]
  /\ toGame = <<>> /\ answers = <<>>
  /\ players = [i \in Slot |-> [slot |-> i, player |-> Nobody]] /\ count = 0
  /\ off \in SUBSET Switched
  /\ warned = {} /\ walks = <<>> /\ waiting = "no"
  /\ faults = 0

Fault == faults < MaxFaults /\ faults' = faults + 1

-----------------------------------------------------------------------------
(* The game server.                                                        *)

Join(p, s) ==
  /\ seat[s] = Nobody /\ \A t \in Slot : seat[t] # p
  /\ seat' = [seat EXCEPT ![s] = p]
  /\ UNCHANGED <<toGame, answers, client, faults>>

Leave(s) ==
  /\ seat[s] # Nobody
  /\ seat' = [seat EXCEPT ![s] = Nobody]
  /\ UNCHANGED <<toGame, answers, client, faults>>

\* The answer to a kick is not a status and changes nothing at the client.
GameHandle ==
  /\ toGame # <<>>
  /\ toGame' = Tail(toGame)
  /\ \/ /\ Head(toGame).type = "status"
        /\ answers' = Append(answers, seat)
        /\ UNCHANGED seat
     \/ /\ Head(toGame).type = "kick"
        /\ seat' = [seat EXCEPT ![Head(toGame).slot] = Nobody]
        /\ UNCHANGED answers
  /\ UNCHANGED <<client, faults>>

LoseRequest ==
  /\ toGame # <<>> /\ Fault
  /\ toGame' = Tail(toGame)
  /\ UNCHANGED <<seat, answers, client>>

LoseAnswer ==
  /\ answers # <<>> /\ Fault
  /\ answers' = Tail(answers)
  /\ UNCHANGED <<game, client>>

\* The answer is several datagrams, and those after the first are lost.
CutAnswer ==
  /\ answers # <<>> /\ Fault
  /\ \E n \in Slot :
       answers' = <<[s \in Slot |-> IF s < n THEN Head(answers)[s] ELSE Nobody]>>
                    \o Tail(answers)
  /\ UNCHANGED <<game, client>>

-----------------------------------------------------------------------------
(* Exchanges.                                                              *)

AskTwice(type, s) ==                                                   \* mutant
  /\ toGame' = toGame \o [i \in 1 .. 2 |-> [type |-> type, slot |-> s]]
  /\ waiting' = type

Ask(type, s) ==
  /\ toGame' = Append(toGame, [type |-> type, slot |-> s])
  /\ waiting' = type

Status ==
  /\ walks = <<>> /\ waiting = "no"
  /\ Ask("status", 0)
  /\ UNCHANGED <<seat, answers, table, off, warned, walks, faults>>

\* The slots up to s that the answer shows as taken.
Taken(answer, s) == {u \in 1 .. s : answer[u] # Nobody}

LongerCount(answer) ==                                                 \* mutant
  IF Cardinality(Taken(answer, Slots)) > count THEN Cardinality(Taken(answer, Slots)) ELSE count
NewCount(answer) == Cardinality(Taken(answer, Slots))

\* One row for each slot taken, in their order.  The rows after the last new
\* one stay what they were.
NewRows(answer) ==
  [i \in Slot |->
     LET here == {s \in Taken(answer, Slots) : Cardinality(Taken(answer, s)) = i}
     IN  IF here = {} THEN players[i]
         ELSE LET s == CHOOSE s \in here : TRUE IN [slot |-> s, player |-> answer[s]]]

\* A status is there, whatever the client has asked for: its table is
\* replaced, and a walk begins.
TakeStatus ==
  /\ waiting # "no" /\ answers # <<>>
  /\ players' = NewRows(Head(answers))
  /\ count' = NewCount(Head(answers))
  /\ answers' = Tail(answers)
  /\ waiting' = "no"
  /\ walks' = Append(walks, Start("temp"))
  /\ UNCHANGED <<game, off, warned, faults>>

\* kick_player returns to the last of these walks, with these warnings: it
\* has forgotten those of the slot it has kicked.
Return(stack, list) ==
  /\ warned' = {w \in list : w.slot # Last(stack).slot}
  /\ walks' = IF Last(stack).loop = "warn" THEN Front(stack) ELSE stack

\* Nothing comes in time.  An answer that will still come is a fault.
TimeOut ==
  /\ waiting # "no" /\ answers = <<>>
  /\ \/ toGame = <<>> /\ UNCHANGED faults
     \/ toGame # <<>> /\ Fault
  /\ waiting' = "no"
  /\ IF waiting = "kick" THEN Return(walks, warned) ELSE UNCHANGED <<walks, warned>>
  /\ UNCHANGED <<game, answers, table, off>>

-----------------------------------------------------------------------------
(* The walks over the table.                                               *)

\* Only the walk over the bans asks who is protected, once for each row.
PassedNobody(loop, p) == FALSE                                         \* mutant
Passed(loop, p) == loop = "bans" /\ p \in Protected

\* The kicks that the last walk has still to make: <<row, list>>.  In the row
\* where it stands it goes on with the next list.  There it does not ask
\* again who is protected, and it still has the range of the address from
\* before the kick; the rest it reads from the row.
Left ==
  LET w == Last(walks)
      lists == Lists[w.loop]
      Here(l) == IF l = 2 THEN w.who ELSE players[w.at].player
  IN  {c \in {w.at} \X DOMAIN lists : c[2] > w.list /\ Here(c[2]) \in lists[c[2]]}
      \cup
      {c \in (w.at + 1 .. count) \X DOMAIN lists :
         LET p == players[c[1]].player IN p \in lists[c[2]] /\ ~Passed(w.loop, p)}

Walking(loop) == walks # <<>> /\ waiting = "no" /\ Last(walks).loop = loop

SlotFromZero(i) == players[i].slot - 1                                 \* mutant
SlotByIndex(i) == i                                                    \* mutant
SlotOf(i) == players[i].slot

Before(c, d) == c[1] < d[1] \/ (c[1] = d[1] /\ c[2] <= d[2])

\* The table does not change between two kicks, so that a walk goes at once
\* to the next one.
KickNext ==
  /\ Walking("temp") \/ Walking("bans")
  /\ LET w    == Last(walks)
         left == Left
     IN  \E c \in left :
           /\ \A d \in left : Before(c, d)
           /\ Ask("kick", SlotOf(c[1]))
           /\ walks' = Append(Front(walks),
                [w EXCEPT !.at = c[1], !.list = c[2], !.slot = SlotOf(c[1]),
                          !.who = IF c[1] = w.at THEN @ ELSE players[c[1]].player])
  /\ UNCHANGED <<seat, answers, table, off, warned, faults>>

NextLoop ==
  /\ Walking("temp") /\ Left = {}
  /\ walks' = Append(Front(walks), Start("bans"))
  /\ UNCHANGED <<game, answers, table, off, warned, waiting, faults>>

Rows == {players[i] : i \in 1 .. count}

RefreshedBySlot(list) ==                                            \* mutant
  {w \in list : \E e \in Rows : e.slot = w.slot}

\* check_for_warned_players: only who is still in his slot stays warned.
Refreshed(list) ==
  {w \in list : [slot |-> w.slot, player |-> w.player] \in Rows}

\* The end of a walk.  One that was nested in a kick ends that kick.
EndWalk ==
  /\ Walking("bans") /\ Left = {}
  /\ IF Len(walks) = 1
       THEN walks' = <<>> /\ warned' = Refreshed(warned)
       ELSE Return(Front(walks), Refreshed(warned))
  /\ UNCHANGED <<game, answers, table, off, waiting, faults>>

-----------------------------------------------------------------------------
(* What the administrator types, between two walks: !w with a slot, and    *)
(* the settings.                                                           *)

Warnings(e) ==
  LET old == {w \in warned : w.slot = e.slot} IN
  IF old = {} THEN {[slot |-> e.slot, player |-> e.player, times |-> 1]}
              ELSE {[w EXCEPT !.times = @ + 1] : w \in old}

Warn(s) ==
  /\ walks = <<>> /\ waiting = "no"
  /\ \E e \in Rows :
       /\ e.slot = s /\ e.player \notin Protected
       /\ warned' = {w \in warned : w.slot # s} \cup Warnings(e)
       /\ IF \E w \in Warnings(e) : w.times >= Limit
            THEN /\ Ask("kick", s)
                 /\ walks' = <<[Start("warn") EXCEPT !.slot = s]>>
            ELSE UNCHANGED <<toGame, waiting, walks>>
  /\ UNCHANGED <<seat, answers, table, off, faults>>

\* !messages, !egb and !dgb, !ecb and !dcb: a setting is turned off or on.
Switch(setting) ==
  /\ walks = <<>> /\ waiting = "no"
  /\ off' \in {off \cup {setting}, off \ {setting}}
  /\ UNCHANGED <<game, answers, table, warned, walks, waiting, faults>>

-----------------------------------------------------------------------------
ClientStep == Status \/ TakeStatus \/ TimeOut \/ KickNext \/ NextLoop \/ EndWalk

Next ==
  \/ \E s \in Slot : Leave(s) \/ Warn(s) \/ \E p \in Player : Join(p, s)
  \/ \E setting \in Switched : Switch(setting)
  \/ GameHandle \/ LoseRequest \/ LoseAnswer \/ CutAnswer
  \/ ClientStep

Spec == Init /\ [][Next]_vars

\* The game server answers what it gets, and the client's command thread goes
\* on.  Its timer sets the flag for the next status again and again; the
\* thread comes to it when no command is left, so the strong fairness says
\* that the administrator does not type without a pause for ever.
Fairness == WF_vars(GameHandle) /\ WF_vars(ClientStep) /\ SF_vars(Status)

FairSpec == Spec /\ Fairness

-----------------------------------------------------------------------------
(* The properties.                                                         *)

\* Between two walks every warning stands under the slot where the client
\* sees the player who got it: whoever takes a slot over does not inherit
\* the warnings, even when a late status has been walked over in between.
WarningsStick ==
  walks = <<>> =>
    \A w \in warned : [slot |-> w.slot, player |-> w.player] \in Rows

\* A walk that begins inside a kick is paid for by an answer that came late:
\* on the stack of the command thread there are never more walks than that,
\* and one, whatever order the answers come in.
NestingBounded == Len(walks) <= faults + 1

\* Whom the lists in force want to be kicked.
Wanted == (UNION ToSet(Lists.temp)) \cup ((UNION ToSet(Bans)) \ Protected)

\* The player p is kicked from slot s with reason: a list names him, or he
\* has all his warnings there and is not protected.
Earned(p, s) ==
  \/ p \in Wanted
  \/ /\ p \notin Protected
     /\ \E w \in warned : w.slot = s /\ w.player = p /\ w.times >= Limit

\* The kick that the client waits for goes to the slot of a row whose player
\* has earned it.  The one exception is a walk over the bans in the middle of
\* a row: a late status has put somebody else there than the walk has found.
KickIsEarned ==
  waiting = "kick" =>
    LET w == Last(walks) IN
    IF w.loop = "warn"
      THEN \E e \in Rows : e.slot = w.slot /\ Earned(e.player, e.slot)
      ELSE /\ players[w.at].slot = w.slot
           /\ \/ Earned(players[w.at].player, w.slot)
              \/ w.loop = "bans" /\ players[w.at].player # w.who

\* As long as no datagram is late or lost, no kick throws out a player whom
\* the client sees in that slot unless he has earned it: whoever is thrown
\* out without a reason took the slot after the last status.
NoOneElseIsHit ==
  [][\A s \in Slot :
       /\ GameHandle /\ Head(toGame) = [type |-> "kick", slot |-> s]
       /\ faults = 0 /\ [slot |-> s, player |-> seat[s]] \in Rows
       => Earned(seat[s], s)]_vars

Sits(p) == \E s \in Slot : seat[s] = p

\* Whoever a list in force names does not stay on the game server, whatever
\* is lost or late, and although kicks go by slots that are out of date.  Who
\* is only banned for a time stays while the kick messages are turned off.
BannedLeave == \A p \in Player : []<>(p \in Wanted => ~Sits(p))

\* Once nobody named by a list comes any more and nobody is warned, the
\* kicks end: no late answer and no old table keeps them going.
KicksCease ==
  (<>[](\A p \in Wanted : ~Sits(p)) /\ <>[](warned = {})) =>
    <>[](\A r \in ToSet(toGame) : r.type # "kick")

\* The rows that the game server would show now.
Seated == {[slot |-> s, player |-> seat[s]] : s \in Taken(seat, Slots)}

\* When nobody joins or leaves any more, the client's table becomes what the
\* game server has, although answers may be one or more rounds behind.
TableCatchesUp == <>[][FALSE]_seat => <>[](Rows = Seated)
=============================================================================
