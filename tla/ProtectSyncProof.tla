-------------------------- MODULE ProtectSyncProof ---------------------------
(***************************************************************************)
(* For any number of clients and keys: the types of ProtectSync; that a    *)
(* client ends up with what the server has, for the kinds whose datagrams  *)
(* are forwarded as they came; and that what an administrator commands     *)
(* stands, for every kind.                                                 *)
(*                                                                         *)
(* Neither is inductive.  A broadcast would not reach a listener whose     *)
(* address the server has forgotten, and a command of his that is still on *)
(* its way would be forwarded to everybody but him: Listening says that    *)
(* neither can be.  A command would not stand if an answer or somebody     *)
(* else's command for the entry were on its way: Leading says that none    *)
(* is.  What is in flight is folded into the set of whoever handles it;    *)
(* FoldLemmas says what one more datagram, and one that has been handled,  *)
(* do to such a fold, in either direction.                                 *)
(***************************************************************************)
EXTENDS ProtectSync, TLAPS

Commands == {"protect", "unprotect"}

ToServerMsg == [type : {"heartbeat", "request"}, keys : {{}}]
                 \cup [type : Commands, keys : {{k} : k \in Key}]
ToClientMsg == [type : {"receive", "protect", "unprotect"}, keys : SUBSET Key]

Types ==
  /\ prot \subseteq Key /\ known \subseteq up /\ up \subseteq Client
  /\ mine \in [Client -> SUBSET Key]
  /\ c2s \in [Client -> Seq(ToServerMsg)] /\ s2c \in [Client -> Seq(ToClientMsg)]
  /\ late \in [Client -> Nat]
  /\ sees \in [Client -> SUBSET Key] /\ leads \in [Client -> SUBSET Key]
  /\ spent \in [commands : 0 .. MaxCommands, faults : 0 .. MaxFaults,
                logins : 0 .. MaxLogins]

\* The datagrams of closed sockets are the oldest ones, and a client that has
\* stopped has sent no others: handling one of them never makes it known.
LateOnes ==
  \A c \in Client : /\ late[c] <= Len(c2s[c])
                    /\ c \notin up => late[c] = Len(c2s[c])

TInv == Types /\ LateOnes

\* Handling datagrams one after the other, at the client and at the server.
Handling == INSTANCE FoldLemmas WITH Step <- Received
Ordering == INSTANCE FoldLemmas WITH Step <- Ordered

\* The set of a client, and that of the server, once they have handled what
\* is in flight to the one from the other.
View(c) == Handling!Fold(mine[c], s2c[c])
Will(c) == Ordering!Fold(prot, c2s[c])

\* A broadcast reaches a listener, and no command of his own for the key is
\* on its way.
Listening ==
  \A c \in Client : \A k \in sees[c] :
    /\ c \in known
    /\ k \notin Touched(c2s[c])
    /\ k \in View(c) <=> k \in prot

\* Nothing is on its way that would change what a client has commanded.
Leading ==
  \A c \in Client : \A k \in leads[c] :
    /\ c \in up
    /\ Clear(c, k)
    /\ k \in mine[c] <=> k \in Will(c)

-----------------------------------------------------------------------------
(* Sequences of datagrams.                                                 *)

\* What one more datagram adds to those in flight.
LEMMA SetOfAppend ==
  ASSUME NEW S, NEW s \in Seq(S), NEW x \in S
  PROVE  /\ Append(s, x) \in Seq(S) /\ Len(Append(s, x)) = Len(s) + 1
         /\ ToSet(Append(s, x)) = ToSet(s) \cup {x}
<1> DEFINE t == Append(s, x)
<1>1. t \in Seq(S) /\ Len(t) = Len(s) + 1 /\ t[Len(t)] = x
  OBVIOUS
<1>2. \A i \in DOMAIN s : i \in DOMAIN t /\ t[i] = s[i]
  OBVIOUS
<1>3. \A i \in DOMAIN t : i \in DOMAIN s \/ i = Len(t)
  OBVIOUS
<1>4. Len(t) \in DOMAIN t
  OBVIOUS
<1> QED
  BY <1>1, <1>2, <1>3, <1>4 DEF ToSet

\* Handling or losing the first datagram adds none.
LEMMA SetOfTail ==
  ASSUME NEW S, NEW s \in Seq(S), s # <<>>
  PROVE  /\ Tail(s) \in Seq(S) /\ Len(s) = Len(Tail(s)) + 1
         /\ ToSet(Tail(s)) \subseteq ToSet(s)
         /\ Head(s) \in S /\ Head(s) \in ToSet(s)
BY DEF ToSet

\* Nothing in flight.
LEMMA SetOfNothing == ToSet(<<>>) = {} /\ Len(<<>>) = 0 /\ \A S : <<>> \in Seq(S)
BY DEF ToSet

\* A datagram to the server: those that are no commands are about no key.
LEMMA ToServerMsgIs ==
  /\ \A m \in ToServerMsg :
       /\ m.type \in Commands \cup {"heartbeat", "request"} /\ m.keys \in SUBSET Key
       /\ m.type \in Commands => \E k \in Key : m.keys = {k}
       /\ m.type \notin Commands => m.keys = {}
  /\ Msg("request", {}) \in ToServerMsg /\ Msg("heartbeat", {}) \in ToServerMsg
  /\ \A type \in Commands, k \in Key : Msg(type, {k}) \in ToServerMsg
BY DEF Msg, ToServerMsg, Commands

\* What the datagrams of a longer and of a shorter queue are about.
LEMMA TouchedIs ==
  ASSUME NEW S, NEW s \in Seq(S)
  PROVE  /\ \A x \in S : Touched(Append(s, x)) = Touched(s) \cup x.keys
         /\ s # <<>> => Touched(Tail(s)) \subseteq Touched(s) /\ Head(s).keys \subseteq Touched(s)
<1>1. \A x \in S : ToSet(Append(s, x)) = ToSet(s) \cup {x}
  BY SetOfAppend
<1>2. s # <<>> => ToSet(Tail(s)) \subseteq ToSet(s) /\ Head(s) \in ToSet(s)
  BY SetOfTail
<1> QED
  BY <1>1, <1>2 DEF Touched

-----------------------------------------------------------------------------
(* Types.                                                                  *)

\* What is sent to the server is well typed, and leaves the old ones oldest.
LEMMA ToServerIs ==
  ASSUME TInv, NEW c \in Client, NEW m \in ToServerMsg, ToServer(c, m),
         c \in up', up \subseteq up', late' = late
  PROVE  c2s' \in [Client -> Seq(ToServerMsg)] /\ LateOnes'
<1>1. Append(c2s[c], m) \in Seq(ToServerMsg) /\ Len(Append(c2s[c], m)) = Len(c2s[c]) + 1
  BY SetOfAppend DEF TInv, Types
<1>2. /\ c2s' \in [Client -> Seq(ToServerMsg)] /\ c2s'[c] = Append(c2s[c], m)
      /\ \A d \in Client \ {c} : c2s'[d] = c2s[d]
  BY <1>1 DEF ToServer, TInv, Types
<1>3. Len(c2s[c]) \in Nat /\ late[c] \in Nat
  BY DEF TInv, Types
<1>4. ASSUME NEW d \in Client
      PROVE  late'[d] <= Len(c2s'[d]) /\ (d \notin up' => late'[d] = Len(c2s'[d]))
  <2>1. CASE d = c
    BY <1>1, <1>2, <1>3, <2>1 DEF TInv, LateOnes
  <2>2. CASE d # c
    BY <1>2, <2>2 DEF TInv, LateOnes
  <2> QED
    BY <2>1, <2>2
<1> QED
  BY <1>2, <1>4 DEF LateOnes

\* One datagram less, and one late one less if there are any.
LEMMA FromServerQueue ==
  ASSUME TInv, NEW c \in Client, c2s[c] # <<>>, up' = up,
         c2s' = [c2s EXCEPT ![c] = Tail(@)],
         late' = [late EXCEPT ![c] = IF @ > 0 THEN @ - 1 ELSE 0]
  PROVE  /\ c2s' \in [Client -> Seq(ToServerMsg)] /\ late' \in [Client -> Nat] /\ LateOnes'
         /\ \A d \in Client : ToSet(c2s'[d]) \subseteq ToSet(c2s[d])
<1>1. Tail(c2s[c]) \in Seq(ToServerMsg) /\ Len(c2s[c]) = Len(Tail(c2s[c])) + 1
  BY SetOfTail DEF TInv, Types
<1>2. /\ c2s' \in [Client -> Seq(ToServerMsg)] /\ c2s'[c] = Tail(c2s[c])
      /\ \A d \in Client \ {c} : c2s'[d] = c2s[d]
  BY <1>1 DEF TInv, Types
<1>3. Len(Tail(c2s[c])) \in Nat /\ late[c] \in Nat
  BY <1>1 DEF TInv, Types
<1>4. /\ late' \in [Client -> Nat] /\ late'[c] = IF late[c] > 0 THEN late[c] - 1 ELSE 0
      /\ \A d \in Client \ {c} : late'[d] = late[d]
  BY <1>3 DEF TInv, Types
<1>5. LateOnes'
  BY <1>1, <1>2, <1>3, <1>4 DEF TInv, LateOnes
<1>6. ToSet(Tail(c2s[c])) \subseteq ToSet(c2s[c])
  BY SetOfTail DEF TInv, Types
<1> QED
  BY <1>2, <1>4, <1>5, <1>6

\* What every handler of the server does first.
LEMMA HeardIs ==
  ASSUME TInv, NEW c \in Client, NEW type, Heard(c, type), up' = up
  PROVE  /\ c2s' \in [Client -> Seq(ToServerMsg)] /\ late' \in [Client -> Nat] /\ LateOnes'
         /\ \A d \in Client : ToSet(c2s'[d]) \subseteq ToSet(c2s[d])
         /\ Head(c2s[c]) \in ToServerMsg /\ Head(c2s[c]) \in ToSet(c2s[c])
         /\ Head(c2s[c]).type = type /\ Head(c2s[c]).keys \subseteq Key
         /\ c2s[c] # <<>> /\ c2s' = [c2s EXCEPT ![c] = Tail(@)]
         /\ known \subseteq known' /\ known' \subseteq up
<1>1. late[c] \in Nat /\ late \in [Client -> Nat]
  BY DEF TInv, Types
<1>2. late' = [late EXCEPT ![c] = IF @ > 0 THEN @ - 1 ELSE 0]
  BY <1>1 DEF Heard
<1>3. /\ Head(c2s[c]) \in ToServerMsg /\ Head(c2s[c]) \in ToSet(c2s[c])
      /\ Len(c2s[c]) = Len(Tail(c2s[c])) + 1 /\ Tail(c2s[c]) \in Seq(ToServerMsg)
  BY SetOfTail DEF Heard, TInv, Types
<1>4. Len(c2s[c]) > 0
  BY <1>3
<1>5. known \subseteq known' /\ known' \subseteq up
  BY <1>1, <1>4 DEF Heard, TInv, Types, LateOnes
<1> QED
  BY <1>2, <1>3, <1>5, FromServerQueue, ToServerMsgIs DEF Heard

\* A broadcast is well typed, and adds its datagram or nothing.
LEMMA BroadcastIs ==
  ASSUME TInv, NEW c \in Client, NEW m \in ToClientMsg, Broadcast(c, m)
  PROVE  /\ s2c' \in [Client -> Seq(ToClientMsg)]
         /\ \A d \in known \ {c} : s2c'[d] = Append(s2c[d], m)
<1>1. \A d \in Client : Append(s2c[d], m) \in Seq(ToClientMsg)
  BY SetOfAppend DEF TInv, Types
<1>2. known \subseteq Client
  BY DEF TInv, Types
<1> QED
  BY <1>1, <1>2 DEF Broadcast, TInv, Types

\* Spending stays within the bounds.
LEMMA SpendIs ==
  ASSUME TInv,
         \/ Spend("commands", MaxCommands)
         \/ Spend("faults", MaxFaults)
         \/ Spend("logins", MaxLogins)
  PROVE  spent' \in [commands : 0 .. MaxCommands, faults : 0 .. MaxFaults,
                     logins : 0 .. MaxLogins]
<1> DEFINE Bounds == [commands : 0 .. MaxCommands, faults : 0 .. MaxFaults, logins : 0 .. MaxLogins]
<1>1. MaxCommands \in Nat /\ MaxFaults \in Nat /\ MaxLogins \in Nat /\ spent \in Bounds
  BY ProtectSyncAssumption DEF TInv, Types
<1>2. CASE Spend("commands", MaxCommands)
  BY <1>1, <1>2 DEF Spend
<1>3. CASE Spend("faults", MaxFaults)
  BY <1>1, <1>3 DEF Spend
<1>4. CASE Spend("logins", MaxLogins)
  BY <1>1, <1>4 DEF Spend
<1> QED
  BY <1>2, <1>3, <1>4

\* At the start nothing is in flight.
LEMMA TypesInit == Init => TInv
<1> SUFFICES ASSUME Init PROVE TInv
  OBVIOUS
<1>1. Types
  BY SetOfNothing, ProtectSyncAssumption DEF Init, Types
<1>2. LateOnes
  BY SetOfNothing DEF Init, LateOnes
<1> QED
  BY <1>1, <1>2 DEF TInv

\* Every action keeps the types, and leaves as late what a closed socket sent.
LEMMA TypesStep == TInv /\ [Next]_vars => TInv'
<1> SUFFICES ASSUME TInv, [Next]_vars PROVE TInv'
  OBVIOUS
<1> USE DEF TInv
<1>1. ASSUME NEW c \in Client, Login(c) PROVE TInv'
  <2>1. Msg("request", {}) \in ToServerMsg
    BY ToServerMsgIs
  <2>2. c2s' \in [Client -> Seq(ToServerMsg)] /\ LateOnes'
    BY <1>1, <2>1, ToServerIs DEF Login
  <2>3. Types'
    BY <1>1, <2>2, SpendIs DEF Login, Types
  <2> QED
    BY <2>2, <2>3
<1>2. ASSUME NEW c \in Client, Heartbeat(c) PROVE TInv'
  <2>1. Msg("heartbeat", {}) \in ToServerMsg
    BY ToServerMsgIs
  <2>2. c2s' \in [Client -> Seq(ToServerMsg)] /\ LateOnes'
    BY <1>2, <2>1, ToServerIs DEF Heartbeat
  <2>3. Types'
    BY <1>2, <2>2 DEF Heartbeat, Types
  <2> QED
    BY <2>2, <2>3
<1>3. ASSUME NEW c \in Client, NEW type \in Commands, NEW k \in Key, Command(c, type, k)
      PROVE  TInv'
  <2>1. Msg(type, {k}) \in ToServerMsg
    BY ToServerMsgIs
  <2>2. c2s' \in [Client -> Seq(ToServerMsg)] /\ LateOnes'
    BY <1>3, <2>1, ToServerIs DEF Command
  <2>3. mine' \in [Client -> SUBSET Key]
    <3>1. mine[c] \cup {k} \in SUBSET Key /\ mine[c] \ {k} \in SUBSET Key
      BY DEF Types
    <3> QED
      BY <1>3, <3>1 DEF Command, Types
  <2>4. /\ sees' \in [Client -> SUBSET Key] /\ leads' \in [Client -> SUBSET Key]
        /\ UNCHANGED <<prot, known, up, s2c, late>>
    <3>1. sees[c] \ {k} \in SUBSET Key
      BY DEF Types
    <3>2. \A d \in Client : leads[d] \cup {k} \in SUBSET Key /\ leads[d] \ {k} \in SUBSET Key
      BY DEF Types
    <3> QED
      BY <1>3, <3>1, <3>2 DEF Command, Types
  <2>5. spent' \in [commands : 0 .. MaxCommands, faults : 0 .. MaxFaults, logins : 0 .. MaxLogins]
    BY <1>3, SpendIs DEF Command
  <2> QED
    BY <2>2, <2>3, <2>4, <2>5 DEF Types
<1>4. ASSUME NEW c \in Client, ClientHandle(c) PROVE TInv'
  <2>1. Head(s2c[c]) \in ToClientMsg /\ Tail(s2c[c]) \in Seq(ToClientMsg)
    BY <1>4, SetOfTail DEF ClientHandle, Types
  <2>2. Received(mine[c], Head(s2c[c])) \subseteq Key
    BY <2>1 DEF Received, ToClientMsg, Types
  <2>3. mine' \in [Client -> SUBSET Key] /\ s2c' \in [Client -> Seq(ToClientMsg)]
    BY <1>4, <2>1, <2>2 DEF ClientHandle, Types
  <2> QED
    BY <1>4, <2>3 DEF ClientHandle, Types, LateOnes
<1>5. ASSUME NEW c \in Client, Quit(c) PROVE TInv'
  <2>1. Len(c2s[c]) \in Nat
    BY DEF Types
  <2>2. /\ late' \in [Client -> Nat] /\ late'[c] = Len(c2s[c])
        /\ \A d \in Client \ {c} : late'[d] = late[d]
    BY <1>5, <2>1 DEF Quit, Types
  <2>3. LateOnes'
    BY <1>5, <2>1, <2>2 DEF Quit, LateOnes
  <2>4. Types'
    BY <1>5, <2>2, SetOfNothing DEF Quit, Types
  <2> QED
    BY <2>3, <2>4
<1>6. ASSUME NEW c \in Client, HandleHeartbeat(c) PROVE TInv'
  BY <1>6, HeardIs DEF HandleHeartbeat, Types
<1>7. ASSUME NEW c \in Client, HandleRequest(c) PROVE TInv'
  <2>1. Msg("receive", prot) \in ToClientMsg
    BY DEF Msg, ToClientMsg, Types
  <2>2. Append(s2c[c], Msg("receive", prot)) \in Seq(ToClientMsg)
    BY <2>1, SetOfAppend DEF Types
  <2>3. s2c' \in [Client -> Seq(ToClientMsg)] /\ sees' \in [Client -> SUBSET Key]
    BY <1>7, <2>2 DEF HandleRequest, Types
  <2> QED
    BY <1>7, <2>3, HeardIs DEF HandleRequest, Types
<1>8. ASSUME NEW c \in Client, HandleProtect(c) PROVE TInv'
  <2>1. Head(c2s[c]).keys \subseteq Key
    BY <1>8, HeardIs DEF HandleProtect
  <2>2. Msg(Forwarded("protect"), Head(c2s[c]).keys) \in ToClientMsg
    BY <2>1 DEF Msg, ToClientMsg, Forwarded
  <2>3. s2c' \in [Client -> Seq(ToClientMsg)] /\ prot' \subseteq Key
    BY <1>8, <2>1, <2>2, BroadcastIs DEF HandleProtect, Types
  <2>4. sees' \in [Client -> SUBSET Key]
    BY <1>8 DEF HandleProtect, Follows, Types
  <2> QED
    BY <1>8, <2>3, <2>4, HeardIs DEF HandleProtect, Types
<1>9. ASSUME NEW c \in Client, HandleUnprotect(c) PROVE TInv'
  <2>1. Head(c2s[c]).keys \subseteq Key
    BY <1>9, HeardIs DEF HandleUnprotect
  <2>2. Msg(Forwarded("unprotect"), Head(c2s[c]).keys) \in ToClientMsg
    BY <2>1 DEF Msg, ToClientMsg, Forwarded
  <2>3. s2c' \in [Client -> Seq(ToClientMsg)] /\ prot' \subseteq Key
    BY <1>9, <2>1, <2>2, BroadcastIs DEF HandleUnprotect, Types
  <2>4. sees' \in [Client -> SUBSET Key]
    BY <1>9 DEF HandleUnprotect, Follows, Types
  <2> QED
    BY <1>9, <2>3, <2>4, HeardIs DEF HandleUnprotect, Types
<1>10. CASE ServerRestart
  BY <1>10, SpendIs DEF ServerRestart, Types, LateOnes
<1>11. ASSUME NEW c \in Client, LoseToServer(c) PROVE TInv'
  <2>1. leads' \in [Client -> SUBSET Key]
    BY <1>11 DEF LoseToServer, Types
  <2> QED
    BY <1>11, <2>1, FromServerQueue, SpendIs DEF LoseToServer, Types
<1>12. ASSUME NEW c \in Client, LoseToClient(c) PROVE TInv'
  <2>1. Tail(s2c[c]) \in Seq(ToClientMsg)
    BY <1>12, SetOfTail DEF LoseToClient, Types
  <2>2. sees' \in [Client -> SUBSET Key]
    BY <1>12 DEF LoseToClient, Types
  <2> QED
    BY <1>12, <2>1, <2>2, SpendIs DEF LoseToClient, Types, LateOnes
<1>13. CASE UNCHANGED vars
  BY <1>13 DEF vars, Types, LateOnes
<1> QED
  BY <1>1, <1>2, <1>3, <1>4, <1>5, <1>6, <1>7, <1>8, <1>9, <1>10, <1>11, <1>12, <1>13
     DEF Next, ClientStep, ServerStep, Commands

\* The types: what the checks of TypeOK say holds of any number of clients.
THEOREM ProtectTypes == Spec => []TypeOK
<1>1. TInv => TypeOK
  <2> SUFFICES ASSUME TInv PROVE TypeOK
    OBVIOUS
  <2>1. \A c \in Client : late[c] \in 0 .. Len(c2s[c])
    <3> SUFFICES ASSUME NEW c \in Client PROVE late[c] \in 0 .. Len(c2s[c])
      OBVIOUS
    <3>1. late[c] \in Nat /\ Len(c2s[c]) \in Nat
      BY DEF TInv, Types
    <3> QED
      BY <3>1 DEF TInv, LateOnes
  <2>2. \A c \in Client :
          \A m \in ToSet(c2s[c]) \cup ToSet(s2c[c]) : m.type \in MsgType /\ m.keys \subseteq Key
    <3>1. \A c \in Client : ToSet(c2s[c]) \subseteq ToServerMsg /\ ToSet(s2c[c]) \subseteq ToClientMsg
      BY DEF ToSet, TInv, Types
    <3> QED
      BY <3>1, ToServerMsgIs DEF ToClientMsg, MsgType, Commands
  <2> QED
    BY <2>1, <2>2 DEF TypeOK, TInv, Types
<1> QED
  BY <1>1, TypesInit, TypesStep, PTL DEF Spec

-----------------------------------------------------------------------------
(* The folds, one key at a time.                                           *)

\* Two sets that agree on a key still do after the same datagrams.
LEMMA FoldsAlike ==
  ASSUME NEW k, NEW x \in SUBSET Key, NEW y \in SUBSET Key, k \in x <=> k \in y
  PROVE  /\ \A s \in Seq(ToClientMsg) : k \in Handling!Fold(x, s) <=> k \in Handling!Fold(y, s)
         /\ \A s \in Seq(ToServerMsg) : k \in Ordering!Fold(x, s) <=> k \in Ordering!Fold(y, s)
<1> DEFINE R == {p \in (SUBSET Key) \X (SUBSET Key) : k \in p[1] <=> k \in p[2]}
<1>1. <<x, y>> \in R
  OBVIOUS
<1>2. ASSUME NEW u, NEW v, NEW m \in ToClientMsg, <<u, v>> \in R
      PROVE  <<Received(u, m), Received(v, m)>> \in R
  <2>1. u \in SUBSET Key /\ v \in SUBSET Key /\ (k \in u <=> k \in v)
    BY <1>2
  <2>2. m.type \in {"receive", "protect", "unprotect"} /\ m.keys \in SUBSET Key
    BY DEF ToClientMsg
  <2>3. Received(u, m) \in SUBSET Key /\ Received(v, m) \in SUBSET Key
    BY <2>1, <2>2 DEF Received
  <2>4. k \in Received(u, m) <=> k \in Received(v, m)
    BY <2>1, <2>2 DEF Received
  <2> QED BY <2>3, <2>4
<1>3. ASSUME NEW u, NEW v, NEW m \in ToServerMsg, <<u, v>> \in R
      PROVE  <<Ordered(u, m), Ordered(v, m)>> \in R
  <2>1. u \in SUBSET Key /\ v \in SUBSET Key /\ (k \in u <=> k \in v) /\ m.keys \in SUBSET Key
    BY <1>3, ToServerMsgIs
  <2>2. Ordered(u, m) \in SUBSET Key /\ Ordered(v, m) \in SUBSET Key
    BY <2>1 DEF Ordered
  <2>3. k \in Ordered(u, m) <=> k \in Ordered(v, m)
    BY <2>1 DEF Ordered
  <2> QED BY <2>2, <2>3
<1>4. \A s \in Seq(ToClientMsg) : <<Handling!Fold(x, s), Handling!Fold(y, s)>> \in R
  <2> HIDE DEF R
  <2> QED BY <1>1, <1>2, Handling!FoldsRelate
<1>5. \A s \in Seq(ToServerMsg) : <<Ordering!Fold(x, s), Ordering!Fold(y, s)>> \in R
  <2> HIDE DEF R
  <2> QED BY <1>1, <1>3, Ordering!FoldsRelate
<1>6. ASSUME NEW u, NEW v, <<u, v>> \in R PROVE k \in u <=> k \in v
  BY <1>6
<1> HIDE DEF R
<1> QED BY <1>4, <1>5, <1>6

\* Datagrams about other keys leave a key alone.
LEMMA FoldsLeave ==
  ASSUME NEW k, NEW x \in SUBSET Key
  PROVE  /\ \A s \in Seq(ToClientMsg) :
              (\A m \in ToSet(s) : m.type # "receive" /\ k \notin m.keys) =>
                (k \in Handling!Fold(x, s) <=> k \in x)
         /\ \A s \in Seq(ToServerMsg) :
              k \notin Touched(s) => (k \in Ordering!Fold(x, s) <=> k \in x)
<1> DEFINE S == {y \in SUBSET Key : k \in y <=> k \in x}
           M == {m \in ToClientMsg : m.type # "receive" /\ k \notin m.keys}
           N == {m \in ToServerMsg : k \notin m.keys}
<1>1. x \in S
  OBVIOUS
<1>2. ASSUME NEW y \in S, NEW m \in M PROVE Received(y, m) \in S
  <2>1. m.type \in {"protect", "unprotect"} /\ m.keys \in SUBSET Key
    BY DEF ToClientMsg
  <2> QED BY <2>1 DEF Received
<1>3. ASSUME NEW y \in S, NEW m \in N PROVE Ordered(y, m) \in S
  <2>1. m.keys \in SUBSET Key
    BY ToServerMsgIs
  <2> QED BY <2>1 DEF Ordered
<1>4. ASSUME NEW s \in Seq(ToClientMsg), \A m \in ToSet(s) : m.type # "receive" /\ k \notin m.keys
      PROVE  k \in Handling!Fold(x, s) <=> k \in x
  <2>1. s \in Seq(M)
    BY <1>4 DEF ToSet
  <2>2. Handling!Fold(x, s) \in S
    <3> HIDE DEF S, M
    <3> QED BY <1>1, <1>2, <2>1, Handling!FoldStays
  <2> QED BY <2>2
<1>5. ASSUME NEW s \in Seq(ToServerMsg), k \notin Touched(s)
      PROVE  k \in Ordering!Fold(x, s) <=> k \in x
  <2>1. s \in Seq(N)
    BY <1>5 DEF ToSet, Touched
  <2>2. Ordering!Fold(x, s) \in S
    <3> HIDE DEF S, N
    <3> QED BY <1>1, <1>3, <2>1, Ordering!FoldStays
  <2> QED BY <2>2
<1> QED BY <1>4, <1>5

-----------------------------------------------------------------------------
(* Commands stand.                                                         *)

\* What a client leads in, it leads in after a step that has put nothing new
\* in its way and has changed the key at neither end.
LEMMA LeadKept ==
  ASSUME Leading, NEW c \in Client, NEW k \in leads[c],
         c \in up',
         \A m \in ToSet(c2s'[c]) : m \in ToSet(c2s[c]) \/ m.type # "request",
         \A m \in ToSet(s2c'[c]) : m \in ToSet(s2c[c]) \/ (m.type # "receive" /\ k \notin m.keys),
         \A d \in Client \ {c} : k \in Touched(c2s'[d]) => k \in Touched(c2s[d]),
         k \in mine'[c] <=> k \in mine[c],
         k \in Will(c)' <=> k \in Will(c)
  PROVE  /\ c \in up' /\ Clear(c, k)'
         /\ k \in mine'[c] <=> k \in Will(c)'
BY DEF Leading, Clear

\* A datagram that is no command is sent to the server.
LEMMA LeadCalm ==
  ASSUME TInv, Leading, NEW c \in Client, NEW m \in ToServerMsg, ToServer(c, m),
         m.type = "heartbeat" \/ c \notin up, m.type \notin Commands,
         up \subseteq up', UNCHANGED <<prot, mine, s2c, leads>>
  PROVE  Leading'
<1> SUFFICES ASSUME NEW d \in Client, NEW k \in leads[d]
             PROVE  /\ d \in up' /\ Clear(d, k)'
                    /\ k \in mine'[d] <=> k \in Will(d)'
  BY DEF Leading
<1>1. d \in up /\ d \in up'
  BY DEF Leading
<1>2. c2s[c] \in Seq(ToServerMsg) /\ m.keys = {}
  BY ToServerMsgIs DEF TInv, Types
<1>3. c2s'[c] = Append(c2s[c], m) /\ \A e \in Client \ {c} : c2s'[e] = c2s[e]
  BY DEF ToServer, TInv, Types
<1>4. \A e \in Client : Touched(c2s'[e]) = Touched(c2s[e])
  <2>1. Touched(Append(c2s[c], m)) = Touched(c2s[c]) \cup m.keys
    BY <1>2, TouchedIs
  <2>2. Touched(c2s'[c]) = Touched(c2s[c])
    BY <1>2, <1>3, <2>1
  <2> QED BY <1>3, <2>2
<1>5. \A x \in ToSet(c2s'[d]) : x \in ToSet(c2s[d]) \/ x.type # "request"
  <2>1. ToSet(Append(c2s[c], m)) = ToSet(c2s[c]) \cup {m}
    BY <1>2, SetOfAppend
  <2>2. CASE d = c
    BY <1>1, <1>3, <2>1, <2>2
  <2>3. CASE d # c
    BY <1>3, <2>3
  <2> QED BY <2>2, <2>3
<1>6. k \in Will(d)' <=> k \in Will(d)
  <2>1. CASE d = c
    <3>1. Ordering!Fold(prot, c2s'[c]) = Ordered(Will(c), m)
      BY <1>2, <1>3, Ordering!FoldOfAppend DEF Will
    <3>2. Will(c)' = Ordered(Will(c), m)
      BY <3>1 DEF Will
    <3> QED BY <1>2, <2>1, <3>2 DEF Ordered, Commands
  <2>2. CASE d # c
    BY <1>3, <2>2 DEF Will
  <2> QED BY <2>1, <2>2
<1> QED BY <1>1, <1>4, <1>5, <1>6, LeadKept

\* The first datagram of a client leaves its queue, and the server's set has
\* become what the datagram makes of it.
LEMMA LeadTaken ==
  ASSUME TInv, Leading, NEW c \in Client, c2s[c] # <<>>, c2s' = [c2s EXCEPT ![c] = Tail(@)],
         prot' \subseteq Key, UNCHANGED <<up, mine>>, NEW d \in Client, NEW k \in leads[d],
         k \in prot' <=> k \in Ordered(prot, Head(c2s[c])),
         \A m \in ToSet(s2c'[d]) : m \in ToSet(s2c[d]) \/ (m.type # "receive" /\ k \notin m.keys)
  PROVE  /\ d \in up' /\ Clear(d, k)'
         /\ k \in mine'[d] <=> k \in Will(d)'
<1>1. /\ c2s[c] \in Seq(ToServerMsg) /\ c2s[d] \in Seq(ToServerMsg) /\ prot \subseteq Key
      /\ Tail(c2s[c]) \in Seq(ToServerMsg) /\ Head(c2s[c]) \in ToServerMsg
  BY SetOfTail DEF TInv, Types
<1>2. c2s'[c] = Tail(c2s[c]) /\ \A e \in Client \ {c} : c2s'[e] = c2s[e]
  BY DEF TInv, Types
<1>3. \A e \in Client : /\ ToSet(c2s'[e]) \subseteq ToSet(c2s[e])
                        /\ Touched(c2s'[e]) \subseteq Touched(c2s[e])
  BY <1>1, <1>2, SetOfTail, TouchedIs
<1>4. k \in Will(d)' <=> k \in Will(d)
  <2>1. CASE d = c
    <3>1. Will(c) = Ordering!Fold(Ordered(prot, Head(c2s[c])), Tail(c2s[c]))
      BY <1>1, Ordering!FoldOfTail DEF Will
    <3>2. Will(c)' = Ordering!Fold(prot', Tail(c2s[c]))
      BY <1>2 DEF Will
    <3>3. Ordered(prot, Head(c2s[c])) \in SUBSET Key
      <4>1. Head(c2s[c]).keys \in SUBSET Key
        BY <1>1, ToServerMsgIs
      <4> QED BY <1>1, <4>1 DEF Ordered
    <3>4. \A q \in Seq(ToServerMsg) :
            k \in Ordering!Fold(prot', q) <=> k \in Ordering!Fold(Ordered(prot, Head(c2s[c])), q)
      BY <3>3, FoldsAlike
    <3> QED BY <1>1, <2>1, <3>1, <3>2, <3>4
  <2>2. CASE d # c
    <3>1. k \notin Touched(c2s[c])
      BY <2>2 DEF Leading, Clear
    <3>2. k \notin Head(c2s[c]).keys
      BY <1>1, <3>1, TouchedIs
    <3>3. k \in prot' <=> k \in prot
      BY <3>2 DEF Ordered
    <3>4. Will(d)' = Ordering!Fold(prot', c2s[d])
      BY <1>2, <2>2 DEF Will
    <3> QED BY <1>1, <3>3, <3>4, FoldsAlike DEF Will
  <2> QED BY <2>1, <2>2
<1>5. d \in up'
  BY DEF Leading
<1> QED BY <1>3, <1>4, <1>5, LeadKept

\* A command is handled: at most what it says is forwarded to the others.
LEMMA LeadHandled ==
  ASSUME TInv, Leading, NEW c \in Client, NEW type \in Commands, Heard(c, type),
         prot' = Ordered(prot, Head(c2s[c])),
         NEW m \in ToClientMsg, m.type # "receive", m.keys = Head(c2s[c]).keys,
         UNCHANGED s2c \/ Broadcast(c, m),
         UNCHANGED <<up, mine, leads>>
  PROVE  Leading'
<1> SUFFICES ASSUME NEW d \in Client, NEW k \in leads[d]
             PROVE  /\ d \in up' /\ Clear(d, k)'
                    /\ k \in mine'[d] <=> k \in Will(d)'
  BY DEF Leading
<1>1. /\ c2s[c] # <<>> /\ c2s' = [c2s EXCEPT ![c] = Tail(@)] /\ Head(c2s[c]) \in ToSet(c2s[c])
      /\ Head(c2s[c]).keys \subseteq Key
  BY HeardIs
<1>2. prot' \subseteq Key
  BY <1>1 DEF Ordered, TInv, Types
<1>3. ASSUME NEW x \in ToSet(s2c'[d])
      PROVE  x \in ToSet(s2c[d]) \/ (x.type # "receive" /\ k \notin x.keys)
  <2>1. CASE s2c'[d] = s2c[d]
    BY <1>3, <2>1
  <2>2. CASE s2c'[d] # s2c[d]
    <3>1. s2c'[d] = Append(s2c[d], m) /\ d # c
      BY <2>2 DEF Broadcast
    <3>2. ToSet(s2c'[d]) = ToSet(s2c[d]) \cup {m}
      BY <3>1, SetOfAppend DEF TInv, Types
    <3>3. k \notin m.keys
      BY <1>1, <3>1 DEF Leading, Clear, Touched
    <3> QED BY <1>3, <3>2, <3>3
  <2> QED BY <2>1, <2>2
<1> QED BY <1>1, <1>2, <1>3, LeadTaken

\* What a command makes of the server's set, whether it changes it or not.
LEMMA OrderedIs ==
  ASSUME TInv, NEW c \in Client, HandleProtect(c) \/ HandleUnprotect(c)
  PROVE  /\ prot' = Ordered(prot, Head(c2s[c]))
         /\ \E type \in Commands :
              /\ Heard(c, type)
              /\ Msg(Forwarded(type), Head(c2s[c]).keys) \in ToClientMsg
              /\ \/ UNCHANGED <<prot, s2c>>
                 \/ Broadcast(c, Msg(Forwarded(type), Head(c2s[c]).keys))
<1> DEFINE m == Head(c2s[c])
<1>1. /\ m \in ToServerMsg /\ m.type \in Commands
      /\ HandleProtect(c) => Heard(c, "protect") /\ m.type = "protect"
      /\ HandleUnprotect(c) => Heard(c, "unprotect") /\ m.type = "unprotect"
  BY SetOfTail DEF HandleProtect, HandleUnprotect, Heard, Commands, TInv, Types
<1>2. PICK k \in Key : m.keys = {k}
  BY <1>1, ToServerMsgIs
<1>3. /\ Msg(Forwarded("protect"), m.keys) \in ToClientMsg
      /\ Msg(Forwarded("unprotect"), m.keys) \in ToClientMsg
  BY <1>2 DEF Msg, Forwarded, ToClientMsg
<1>4. CASE HandleProtect(c)
  <2>1. prot' = prot \cup m.keys
    BY <1>4 DEF HandleProtect
  <2>2. UNCHANGED <<prot, s2c>> \/ Broadcast(c, Msg(Forwarded("protect"), m.keys))
    BY <1>4 DEF HandleProtect
  <2> HIDE DEF m
  <2> QED BY <1>1, <1>3, <1>4, <2>1, <2>2 DEF Ordered, Commands, m
<1>5. CASE HandleUnprotect(c)
  <2>1. prot' = prot \ m.keys
    BY <1>2, <1>5 DEF HandleUnprotect
  <2>2. UNCHANGED <<prot, s2c>> \/ Broadcast(c, Msg(Forwarded("unprotect"), m.keys))
    BY <1>5 DEF HandleUnprotect
  <2> HIDE DEF m
  <2> QED BY <1>1, <1>3, <1>5, <2>1, <2>2 DEF Ordered, Commands, m
<1> QED BY <1>4, <1>5

\* Whoever gives a command takes the lead in its key, or has it already.
LEMMA LeadTakenOver ==
  ASSUME TInv, Leading, NEW c \in Client, NEW type \in Commands, NEW k \in Key,
         Command(c, type, k)
  PROVE  Leading'
<1> DEFINE m == Msg(type, {k})
<1> SUFFICES ASSUME NEW d \in Client, NEW j \in leads'[d]
             PROVE  /\ d \in up' /\ Clear(d, j)'
                    /\ j \in mine'[d] <=> j \in Will(d)'
  BY DEF Leading
<1>1. /\ c \in up /\ UNCHANGED <<prot, up, s2c>>
      /\ m \in ToServerMsg /\ m.type = type /\ m.keys = {k}
      /\ c2s[c] \in Seq(ToServerMsg)
  BY ToServerMsgIs DEF Command, Msg, TInv, Types
<1>2. c2s'[c] = Append(c2s[c], m) /\ \A e \in Client \ {c} : c2s'[e] = c2s[e]
  BY DEF Command, ToServer, TInv, Types
<1>3. /\ mine'[c] = IF type = "protect" THEN mine[c] \cup {k} ELSE mine[c] \ {k}
      /\ \A e \in Client \ {c} : mine'[e] = mine[e]
  BY DEF Command, Commands, TInv, Types
<1>4. leads'[d] = IF d = c /\ (k \in leads[c] \/ Clear(c, k)) THEN leads[d] \cup {k}
                                                              ELSE leads[d] \ {k}
  BY DEF Command
<1> HIDE DEF m
<1>5. /\ Touched(c2s'[c]) = Touched(c2s[c]) \cup {k}
      /\ ToSet(c2s'[c]) = ToSet(c2s[c]) \cup {m}
      /\ m.type # "request"
  BY <1>1, <1>2, TouchedIs, SetOfAppend DEF Commands
<1>6. Will(c)' = Ordered(Will(c), m)
  <2>1. Ordering!Fold(prot, c2s'[c]) = Ordered(Will(c), m)
    BY <1>1, <1>2, Ordering!FoldOfAppend DEF Will
  <2> QED BY <1>1, <2>1 DEF Will
<1>7. CASE j = k
  <2>1. d = c /\ Clear(c, k)
    BY <1>4, <1>7 DEF Leading
  <2>2. Clear(c, k)'
    BY <1>1, <1>2, <1>5, <2>1 DEF Clear
  <2>3. k \in Will(c)' <=> type = "protect"
    BY <1>1, <1>6 DEF Ordered
  <2> QED BY <1>1, <1>3, <1>7, <2>1, <2>2, <2>3
<1>8. CASE j # k
  <2>1. j \in leads[d]
    BY <1>4, <1>8
  <2>2. j \in mine'[d] <=> j \in mine[d]
    BY <1>3, <1>8
  <2>3. j \in Will(d)' <=> j \in Will(d)
    <3>1. CASE d = c
      BY <1>1, <1>6, <1>8, <3>1 DEF Ordered
    <3>2. CASE d # c
      BY <1>1, <1>2, <3>2 DEF Will
    <3> QED BY <3>1, <3>2
  <2>4. \A e \in Client : j \in Touched(c2s'[e]) => j \in Touched(c2s[e])
    BY <1>2, <1>5, <1>8
  <2>5. \A x \in ToSet(c2s'[d]) : x \in ToSet(c2s[d]) \/ x.type # "request"
    BY <1>2, <1>5
  <2>6. d \in up'
    BY <1>1, <2>1 DEF Leading
  <2> QED BY <1>1, <2>1, <2>2, <2>3, <2>4, <2>5, <2>6, LeadKept
<1> QED BY <1>7, <1>8

\* Every step keeps it.
LEMMA LeadingStep == TInv /\ Leading /\ [Next]_vars => Leading'
<1> SUFFICES ASSUME TInv, Leading, [Next]_vars PROVE Leading'
  OBVIOUS
<1>1. ASSUME NEW c \in Client, Login(c) \/ Heartbeat(c) PROVE Leading'
  <2>1. PICK m \in {Msg("request", {}), Msg("heartbeat", {})} :
          /\ ToServer(c, m)
          /\ m.type = "heartbeat" \/ c \notin up
    BY <1>1 DEF Login, Heartbeat, Msg
  <2>2. m \in ToServerMsg /\ m.type \notin Commands
    BY ToServerMsgIs DEF Msg, Commands
  <2>3. up \subseteq up' /\ UNCHANGED <<prot, mine, s2c, leads>>
    BY <1>1 DEF Login, Heartbeat
  <2> QED BY <2>1, <2>2, <2>3, LeadCalm
<1>2. ASSUME NEW c \in Client, ClientHandle(c) PROVE Leading'
  <2> SUFFICES ASSUME NEW d \in Client, NEW k \in leads[d]
               PROVE  /\ d \in up' /\ Clear(d, k)'
                      /\ k \in mine'[d] <=> k \in Will(d)'
    BY <1>2 DEF Leading, ClientHandle
  <2>1. /\ s2c[c] # <<>> /\ s2c'[c] = Tail(s2c[c]) /\ mine'[c] = Received(mine[c], Head(s2c[c]))
        /\ \A e \in Client \ {c} : s2c'[e] = s2c[e] /\ mine'[e] = mine[e]
        /\ UNCHANGED <<prot, up, c2s>>
    BY <1>2 DEF ClientHandle, TInv, Types
  <2>2. /\ ToSet(s2c'[d]) \subseteq ToSet(s2c[d])
        /\ Head(s2c[c]) \in ToSet(s2c[c]) /\ Head(s2c[c]) \in ToClientMsg
    BY <2>1, SetOfTail DEF TInv, Types
  <2>3. k \in mine'[d] <=> k \in mine[d]
    <3>1. CASE d = c
      <4>1. /\ Head(s2c[c]).type \in {"protect", "unprotect"}
            /\ k \notin Head(s2c[c]).keys
        BY <2>2, <3>1 DEF Leading, Clear, ToClientMsg
      <4> QED BY <2>1, <3>1, <4>1 DEF Received
    <3>2. CASE d # c
      BY <2>1, <3>2
    <3> QED BY <3>1, <3>2
  <2>4. d \in up' /\ Will(d)' = Will(d)
    BY <2>1 DEF Leading, Will
  <2> QED BY <2>1, <2>2, <2>3, <2>4, LeadKept
<1>3. ASSUME NEW c \in Client, Quit(c) PROVE Leading'
  <2>1. leads'[c] = {} /\ \A d \in Client \ {c} : leads'[d] = leads[d] /\ s2c'[d] = s2c[d]
    BY <1>3 DEF Quit, TInv, Types
  <2>2. \A d \in Client \ {c} : d \in up => d \in up'
    BY <1>3 DEF Quit
  <2> QED BY <1>3, <2>1, <2>2 DEF Quit, Leading, Clear, Will
<1>4. ASSUME NEW c \in Client, HandleHeartbeat(c) \/ HandleRequest(c) PROVE Leading'
  <2>1. /\ c2s[c] # <<>> /\ c2s' = [c2s EXCEPT ![c] = Tail(@)]
        /\ Head(c2s[c]) \in ToServerMsg /\ Head(c2s[c]) \in ToSet(c2s[c])
        /\ Head(c2s[c]).type \in {"heartbeat", "request"}
        /\ UNCHANGED <<prot, up, mine, leads>>
    BY <1>4, HeardIs DEF HandleHeartbeat, HandleRequest
  <2>2. prot = Ordered(prot, Head(c2s[c]))
    BY <2>1, ToServerMsgIs DEF Ordered, Commands
  <2>3. ASSUME NEW d \in Client, NEW k \in leads[d] PROVE s2c'[d] = s2c[d]
    <3>1. CASE d = c
      <4>1. Head(c2s[c]).type # "request"
        BY <2>1, <3>1 DEF Leading, Clear
      <4> QED BY <1>4, <4>1 DEF HandleHeartbeat, HandleRequest, Heard
    <3>2. CASE d # c
      BY <1>4, <3>2 DEF HandleHeartbeat, HandleRequest, TInv, Types
    <3> QED BY <3>1, <3>2
  <2>4. ASSUME NEW d \in Client, NEW k \in leads[d]
        PROVE  /\ d \in up' /\ Clear(d, k)'
               /\ k \in mine'[d] <=> k \in Will(d)'
    BY <2>1, <2>2, <2>3, LeadTaken DEF TInv, Types
  <2> QED BY <2>1, <2>4 DEF Leading
<1>5. ASSUME NEW c \in Client, HandleProtect(c) \/ HandleUnprotect(c) PROVE Leading'
  <2> DEFINE m(type) == Msg(Forwarded(type), Head(c2s[c]).keys)
  <2>1. PICK type \in Commands :
          /\ Heard(c, type)
          /\ m(type) \in ToClientMsg
          /\ UNCHANGED <<prot, s2c>> \/ Broadcast(c, m(type))
    BY <1>5, OrderedIs
  <2>2. m(type).type # "receive" /\ m(type).keys = Head(c2s[c]).keys
    BY DEF Msg, Forwarded, Commands
  <2>3. prot' = Ordered(prot, Head(c2s[c])) /\ UNCHANGED <<up, mine, leads>>
    BY <1>5, OrderedIs DEF HandleProtect, HandleUnprotect
  <2> HIDE DEF m
  <2> QED BY <2>1, <2>2, <2>3, LeadHandled
<1>6. CASE ServerRestart
  BY <1>6 DEF ServerRestart, Leading, Clear, Will
<1>7. ASSUME NEW c \in Client, LoseToServer(c) PROVE Leading'
  <2>1. /\ c2s[c] # <<>> /\ c2s' = [c2s EXCEPT ![c] = Tail(@)]
        /\ UNCHANGED <<prot, up, mine, s2c>> /\ prot' \subseteq Key
    BY <1>7 DEF LoseToServer, TInv, Types
  <2>2. ASSUME NEW d \in Client, NEW k \in leads'[d]
        PROVE  k \in leads[d] /\ k \notin Head(c2s[c]).keys
    <3>1. CASE d = c
      BY <1>7, <2>2, <3>1 DEF LoseToServer, TInv, Types
    <3>2. CASE d # c
      <4>1. k \in leads[d]
        BY <1>7, <2>2, <3>2 DEF LoseToServer, TInv, Types
      <4>2. k \notin Touched(c2s[c])
        BY <3>2, <4>1 DEF Leading, Clear
      <4> QED BY <2>1, <4>1, <4>2, TouchedIs DEF TInv, Types
    <3> QED BY <3>1, <3>2
  <2>3. ASSUME NEW d \in Client, NEW k \in leads'[d]
        PROVE  /\ d \in up' /\ Clear(d, k)'
               /\ k \in mine'[d] <=> k \in Will(d)'
    <3>1. k \in leads[d] /\ (k \in prot' <=> k \in Ordered(prot, Head(c2s[c])))
      BY <2>1, <2>2, <2>3 DEF Ordered
    <3> QED BY <2>1, <3>1, LeadTaken
  <2> QED BY <2>3 DEF Leading
<1>8. ASSUME NEW c \in Client, LoseToClient(c) PROVE Leading'
  <2>1. \A d \in Client : ToSet(s2c'[d]) \subseteq ToSet(s2c[d])
    BY <1>8, SetOfTail DEF LoseToClient, TInv, Types
  <2>2. UNCHANGED <<prot, up, mine, c2s, leads>>
    BY <1>8 DEF LoseToClient
  <2> QED BY <2>1, <2>2 DEF Leading, Clear, Will
<1>9. CASE UNCHANGED vars
  BY <1>9 DEF vars, Leading, Clear, Will
<1> QED
  BY <1>1, <1>2, <1>3, <1>4, <1>5, <1>6, <1>7, <1>8, <1>9, LeadTakenOver
     DEF Next, ClientStep, ServerStep, Commands

\* What an administrator has commanded for an entry is what the server ends up
\* with, and nothing takes it back at his client in the meantime: unless an
\* answer to him or somebody else's command for the entry was on its way, or his
\* command is lost.  This holds of IP ranges as well.
THEOREM ProtectCommandsStand == Spec => []CommandsStand
<1>1. Init => TInv /\ Leading
  BY TypesInit DEF Init, Leading
<1>2. TInv /\ Leading /\ [Next]_vars => TInv' /\ Leading'
  BY TypesStep, LeadingStep
<1>3. TInv /\ Leading => CommandsStand
  <2>1. \A c \in Client : Will(c) = FoldLeft(Ordered, prot, c2s[c])
    BY DEF Will, Ordering!Fold, FoldLeft, MapThenFoldSet, Max,
           Ordering!FoldLeft, Ordering!MapThenFoldSet, Ordering!Max
  <2> QED BY <2>1 DEF Leading, CommandsStand
<1> QED BY <1>1, <1>2, <1>3, PTL DEF Spec

-----------------------------------------------------------------------------
(* Listeners.                                                              *)

IInv == TInv /\ Leading /\ Listening

\* A datagram that is no command, and so is about no key, is sent to the server.
LEMMA CalmStays ==
  ASSUME IInv, NEW c \in Client, NEW m \in ToServerMsg, ToServer(c, m),
         m.type \notin Commands,
         UNCHANGED <<prot, known, mine, s2c, sees>>
  PROVE  Listening'
<1>1. Touched(Append(c2s[c], m)) = Touched(c2s[c]) \cup m.keys /\ m.keys = {}
  BY TouchedIs, ToServerMsgIs DEF IInv, TInv, Types
<1>2. c2s'[c] = Append(c2s[c], m) /\ \A d \in Client \ {c} : c2s'[d] = c2s[d]
  BY DEF ToServer, IInv, TInv, Types
<1>3. \A d \in Client : Touched(c2s'[d]) = Touched(c2s[d])
  BY <1>1, <1>2
<1> QED BY <1>3 DEF IInv, Listening, View

\* The queue of a client towards the server only gets shorter.
LEMMA ShorterQueues ==
  ASSUME TInv, NEW c \in Client, c2s[c] # <<>>, c2s' = [c2s EXCEPT ![c] = Tail(@)]
  PROVE  /\ \A d \in Client : Touched(c2s'[d]) \subseteq Touched(c2s[d])
         /\ c2s'[c] = Tail(c2s[c]) /\ Tail(c2s[c]) \in Seq(ToServerMsg)
         /\ Head(c2s[c]).keys \subseteq Touched(c2s[c])
<1>1. c2s'[c] = Tail(c2s[c]) /\ \A d \in Client \ {c} : c2s'[d] = c2s[d]
  BY DEF TInv, Types
<1>2. /\ Touched(Tail(c2s[c])) \subseteq Touched(c2s[c]) /\ Head(c2s[c]).keys \subseteq Touched(c2s[c])
      /\ Tail(c2s[c]) \in Seq(ToServerMsg)
  BY TouchedIs, SetOfTail DEF TInv, Types
<1> QED BY <1>1, <1>2

\* A broadcast does to the view of a listener what the handler has done to
\* the server's set.
LEMMA BroadcastFollowed ==
  ASSUME IInv, NEW c \in Client, NEW m \in ToClientMsg, Broadcast(c, m),
         prot' = Received(prot, m), UNCHANGED mine,
         NEW d \in Client \ {c}, NEW k \in sees[d]
  PROVE  k \in View(d)' <=> k \in prot'
<1>1. d \in known /\ s2c[d] \in Seq(ToClientMsg) /\ (k \in View(d) <=> k \in prot)
  BY DEF IInv, TInv, Types, Listening
<1>2. s2c'[d] = Append(s2c[d], m)
  BY <1>1, BroadcastIs DEF IInv
<1>3. Handling!Fold(mine[d], s2c'[d]) = Received(View(d), m)
  BY <1>1, <1>2, Handling!FoldOfAppend DEF View
<1>4. k \in Received(View(d), m) <=> k \in Received(prot, m)
  BY <1>1 DEF Received, ToClientMsg
<1> QED BY <1>3, <1>4 DEF View

\* Whoever leads in a key has the server's entry when his last command for it
\* has been handled.
LEMMA LeaderFollows ==
  ASSUME IInv, NEW c \in Client, c2s[c] # <<>>, prot' = Ordered(prot, Head(c2s[c])),
         prot' \subseteq Key, UNCHANGED mine, s2c'[c] = s2c[c],
         NEW k \in leads[c], k \notin Touched(Tail(c2s[c]))
  PROVE  k \in View(c)' <=> k \in prot'
<1>1. /\ s2c[c] \in Seq(ToClientMsg) /\ mine[c] \in SUBSET Key
      /\ c2s[c] \in Seq(ToServerMsg) /\ Tail(c2s[c]) \in Seq(ToServerMsg)
  BY SetOfTail DEF IInv, TInv, Types
<1>2. Clear(c, k) /\ (k \in mine[c] <=> k \in Will(c))
  BY DEF IInv, Leading
<1>3. k \in View(c) <=> k \in mine[c]
  <2>1. \A m \in ToSet(s2c[c]) : m.type # "receive" /\ k \notin m.keys
    BY <1>2 DEF Clear
  <2> QED BY <1>1, <2>1, FoldsLeave DEF View
<1>4. Will(c) = Ordering!Fold(prot', Tail(c2s[c]))
  BY <1>1, Ordering!FoldOfTail DEF Will
<1>5. k \in Ordering!Fold(prot', Tail(c2s[c])) <=> k \in prot'
  <2>1. prot' \in SUBSET Key
    OBVIOUS
  <2> QED BY <1>1, <2>1, FoldsLeave
<1>6. View(c)' = View(c)
  BY DEF View
<1> QED BY <1>2, <1>3, <1>4, <1>5, <1>6

\* A handler whose datagrams are forwarded as they came keeps every listener
\* up to date, and its sender, who gets nothing, as well.
LEMMA CommandHandled ==
  ASSUME IInv, NEW c \in Client, NEW type \in Commands, Heard(c, type),
         prot' = Ordered(prot, Head(c2s[c])),
         NEW m \in ToClientMsg,
         \/ UNCHANGED <<prot, s2c>>
         \/ prot' = Received(prot, m) /\ Broadcast(c, m),
         Follows(c), UNCHANGED <<up, mine, leads>>
  PROVE  Listening'
<1> SUFFICES ASSUME NEW d \in Client, NEW k \in sees'[d]
             PROVE  /\ d \in known'
                    /\ k \notin Touched(c2s'[d])
                    /\ k \in View(d)' <=> k \in prot'
  BY DEF Listening
<1>1. /\ c2s[c] # <<>> /\ c2s' = [c2s EXCEPT ![c] = Tail(@)] /\ known \subseteq known'
      /\ Head(c2s[c]).keys \subseteq Key
  BY HeardIs DEF IInv
<1>2. /\ Touched(c2s'[d]) \subseteq Touched(c2s[d]) /\ c2s'[c] = Tail(c2s[c])
      /\ Head(c2s[c]).keys \subseteq Touched(c2s[c])
  BY <1>1, ShorterQueues DEF IInv
<1>3. s2c'[c] = s2c[c]
  BY DEF Broadcast, IInv, TInv, Types
<1>4. CASE k \in sees[d]
  <2>1. d \in known /\ k \notin Touched(c2s[d]) /\ (k \in View(d) <=> k \in prot)
    BY <1>4 DEF IInv, Listening
  <2>2. CASE UNCHANGED <<prot, s2c>>
    BY <1>1, <1>2, <2>1, <2>2 DEF View
  <2>3. CASE d = c
    <3>1. k \in prot' <=> k \in prot
      BY <1>2, <2>1, <2>3 DEF Ordered
    <3>2. View(d)' = View(d)
      BY <1>3, <2>3 DEF View
    <3> QED BY <1>1, <1>2, <2>1, <3>1, <3>2
  <2>4. CASE d # c /\ prot' = Received(prot, m) /\ Broadcast(c, m)
    BY <1>1, <1>2, <1>4, <2>1, <2>4, BroadcastFollowed
  <2> QED BY <2>2, <2>3, <2>4
<1>5. CASE k \notin sees[d]
  <2>1. d = c /\ c \in known' /\ k \in leads[c] /\ k \notin Touched(c2s'[c])
    BY <1>5 DEF Follows, IInv, TInv, Types
  <2>2. prot' \subseteq Key
    BY <1>1 DEF Ordered, IInv, TInv, Types
  <2> QED BY <1>1, <1>2, <1>3, <2>1, <2>2, LeaderFollows
<1> QED BY <1>4, <1>5

\* A client is answered, and listens to all keys it has not commanded since.
LEMMA RequestAnswered ==
  ASSUME IInv, NEW c \in Client, HandleRequest(c)
  PROVE  Listening'
<1> SUFFICES ASSUME NEW d \in Client, NEW k \in sees'[d]
             PROVE  /\ d \in known'
                    /\ k \notin Touched(c2s'[d])
                    /\ k \in View(d)' <=> k \in prot'
  BY DEF Listening
<1>1. /\ c2s[c] # <<>> /\ c2s' = [c2s EXCEPT ![c] = Tail(@)] /\ known \subseteq known'
      /\ UNCHANGED <<prot, mine>>
  BY HeardIs DEF HandleRequest, IInv
<1>2. CASE d = c
  <2>1. c \in known' /\ k \notin Touched(c2s'[c])
    BY <1>2 DEF HandleRequest, IInv, TInv, Types
  <2>2. Msg("receive", prot) \in ToClientMsg
    BY DEF Msg, ToClientMsg, IInv, TInv, Types
  <2>3. s2c'[c] = Append(s2c[c], Msg("receive", prot)) /\ s2c[c] \in Seq(ToClientMsg)
    BY <2>1 DEF HandleRequest, IInv, TInv, Types
  <2>4. Handling!Fold(mine[c], s2c'[c]) = Received(View(c), Msg("receive", prot))
    BY <2>2, <2>3, Handling!FoldOfAppend DEF View
  <2>5. Received(View(c), Msg("receive", prot)) = prot
    BY DEF Received, Msg
  <2>6. View(c)' = prot
    BY <1>1, <2>4, <2>5 DEF View
  <2> QED BY <1>1, <1>2, <2>1, <2>6
<1>3. CASE d # c
  <2>1. k \in sees[d] /\ s2c'[d] = s2c[d]
    BY <1>3 DEF HandleRequest, IInv, TInv, Types
  <2>2. Touched(c2s'[d]) \subseteq Touched(c2s[d])
    BY <1>1, ShorterQueues DEF IInv
  <2> QED BY <1>1, <2>1, <2>2 DEF IInv, Listening, View
<1> QED BY <1>2, <1>3

\* A client gives a command: it has followed the server in the other keys.
LEMMA CommandGiven ==
  ASSUME IInv, NEW c \in Client, NEW type \in Commands, NEW j \in Key, Command(c, type, j)
  PROVE  Listening'
<1> SUFFICES ASSUME NEW d \in Client, NEW k \in sees'[d]
             PROVE  /\ d \in known'
                    /\ k \notin Touched(c2s'[d])
                    /\ k \in View(d)' <=> k \in prot'
  BY DEF Listening
<1>1. UNCHANGED <<prot, known, s2c>>
  BY DEF Command
<1>2. k \in sees[d] /\ (d = c => k # j)
  BY DEF Command, IInv, TInv, Types
<1>3. d \in known /\ k \notin Touched(c2s[d]) /\ (k \in View(d) <=> k \in prot)
  BY <1>2 DEF IInv, Listening
<1>4. CASE d = c
  <2>1. Msg(type, {j}) \in ToServerMsg /\ Msg(type, {j}).keys = {j}
    BY ToServerMsgIs DEF Msg
  <2>2. c2s'[c] = Append(c2s[c], Msg(type, {j})) /\ c2s[c] \in Seq(ToServerMsg)
    BY DEF Command, ToServer, IInv, TInv, Types
  <2>3. Touched(c2s'[c]) = Touched(c2s[c]) \cup {j}
    <3> DEFINE m == Msg(type, {j})
    <3> HIDE DEF m
    <3>1. Touched(Append(c2s[c], m)) = Touched(c2s[c]) \cup m.keys
      BY <2>1, <2>2, TouchedIs DEF m
    <3> QED BY <2>1, <2>2, <3>1 DEF m
  <2>4. /\ mine'[c] \in SUBSET Key /\ mine[c] \in SUBSET Key /\ (k \in mine'[c] <=> k \in mine[c])
        /\ s2c[c] \in Seq(ToClientMsg)
    BY <1>2, <1>4 DEF Command, IInv, TInv, Types
  <2>5. k \in Handling!Fold(mine'[c], s2c[c]) <=> k \in Handling!Fold(mine[c], s2c[c])
    BY <2>4, FoldsAlike
  <2>6. View(c)' = Handling!Fold(mine'[c], s2c[c])
    BY <1>1 DEF View
  <2> QED BY <1>1, <1>2, <1>3, <1>4, <2>3, <2>5, <2>6 DEF View
<1>5. CASE d # c
  <2>1. c2s'[d] = c2s[d] /\ mine'[d] = mine[d]
    BY <1>5 DEF Command, ToServer, IInv, TInv, Types
  <2> QED BY <1>1, <1>3, <2>1 DEF View
<1> QED BY <1>4, <1>5

\* A datagram to a client is lost: it goes on following in the other keys.
LEMMA LossFollowed ==
  ASSUME IInv, NEW c \in Client, LoseToClient(c)
  PROVE  Listening'
<1> SUFFICES ASSUME NEW d \in Client, NEW k \in sees'[d]
             PROVE  /\ d \in known'
                    /\ k \notin Touched(c2s'[d])
                    /\ k \in View(d)' <=> k \in prot'
  BY DEF Listening
<1>1. UNCHANGED <<prot, known, mine, c2s>>
  BY DEF LoseToClient
<1>2. /\ k \in sees[d]
      /\ d = c => Head(s2c[c]).type # "receive" /\ k \notin Head(s2c[c]).keys
  BY DEF LoseToClient, IInv, TInv, Types
<1>3. d \in known /\ k \notin Touched(c2s[d]) /\ (k \in View(d) <=> k \in prot)
  BY <1>2 DEF IInv, Listening
<1>4. k \in View(d)' <=> k \in View(d)
  <2>1. CASE d = c
    <3>1. /\ s2c[c] # <<>> /\ s2c[c] \in Seq(ToClientMsg) /\ s2c'[c] = Tail(s2c[c])
          /\ Tail(s2c[c]) \in Seq(ToClientMsg) /\ Head(s2c[c]) \in ToClientMsg
          /\ mine[c] \in SUBSET Key
      BY SetOfTail DEF LoseToClient, IInv, TInv, Types
    <3>2. View(c) = Handling!Fold(Received(mine[c], Head(s2c[c])), Tail(s2c[c]))
      BY <3>1, Handling!FoldOfTail DEF View
    <3>3. /\ Received(mine[c], Head(s2c[c])) \in SUBSET Key
          /\ k \in Received(mine[c], Head(s2c[c])) <=> k \in mine[c]
      BY <1>2, <2>1, <3>1 DEF Received, ToClientMsg
    <3>4. k \in Handling!Fold(mine[c], Tail(s2c[c])) <=> k \in View(c)
      <4> DEFINE x == Received(mine[c], Head(s2c[c]))
      <4> HIDE DEF x
      <4>1. x \in SUBSET Key /\ (k \in x <=> k \in mine[c])
        BY <3>3 DEF x
      <4>2. k \in Handling!Fold(mine[c], Tail(s2c[c])) <=> k \in Handling!Fold(x, Tail(s2c[c]))
        BY <3>1, <4>1, FoldsAlike
      <4> QED BY <3>2, <4>2 DEF x
    <3>5. View(c)' = Handling!Fold(mine[c], Tail(s2c[c]))
      BY <1>1, <3>1 DEF View
    <3> QED BY <2>1, <3>4, <3>5
  <2>2. CASE d # c
    <3>1. s2c'[d] = s2c[d]
      BY <2>2 DEF LoseToClient, IInv, TInv, Types
    <3> QED BY <1>1, <3>1 DEF View
  <2> QED BY <2>1, <2>2
<1> QED BY <1>1, <1>3, <1>4

\* Every step keeps it.
LEMMA ListeningStep ==
  ASSUME Kind # "iprange"
  PROVE  IInv /\ [Next]_vars => Listening'
<1> SUFFICES ASSUME IInv, [Next]_vars PROVE Listening'
  OBVIOUS
<1>1. ASSUME NEW c \in Client, Login(c) \/ Heartbeat(c) PROVE Listening'
  <2>1. PICK m \in {Msg("request", {}), Msg("heartbeat", {})} : ToServer(c, m)
    BY <1>1 DEF Login, Heartbeat
  <2>2. m \in ToServerMsg /\ m.type \notin Commands
    BY ToServerMsgIs DEF Msg, Commands
  <2> QED BY <1>1, <2>1, <2>2, CalmStays DEF Login, Heartbeat
<1>2. ASSUME NEW c \in Client, ClientHandle(c) PROVE Listening'
  <2>1. /\ mine'[c] = Received(mine[c], Head(s2c[c])) /\ s2c'[c] = Tail(s2c[c])
        /\ \A d \in Client \ {c} : s2c'[d] = s2c[d] /\ mine'[d] = mine[d]
        /\ s2c[c] \in Seq(ToClientMsg) /\ s2c[c] # <<>>
    BY <1>2 DEF ClientHandle, IInv, TInv, Types
  <2>2. View(c)' = View(c)
    BY <2>1, Handling!FoldOfTail DEF View
  <2>3. \A d \in Client : View(d)' = View(d)
    BY <2>1, <2>2 DEF View
  <2> QED BY <1>2, <2>3 DEF ClientHandle, IInv, Listening
<1>3. ASSUME NEW c \in Client, Quit(c) PROVE Listening'
  <2>1. sees'[c] = {} /\ \A d \in Client \ {c} : sees'[d] = sees[d]
    BY <1>3 DEF Quit, IInv, TInv, Types
  <2>2. \A d \in Client \ {c} : s2c'[d] = s2c[d] /\ (d \in known => d \in known')
    BY <1>3 DEF Quit, IInv, TInv, Types
  <2> QED BY <1>3, <2>1, <2>2 DEF Quit, IInv, Listening, View
<1>4. ASSUME NEW c \in Client, HandleHeartbeat(c) PROVE Listening'
  <2>1. c2s[c] # <<>> /\ c2s' = [c2s EXCEPT ![c] = Tail(@)] /\ known \subseteq known'
    BY <1>4, HeardIs DEF HandleHeartbeat, IInv
  <2>2. \A d \in Client : Touched(c2s'[d]) \subseteq Touched(c2s[d])
    BY <2>1, ShorterQueues DEF IInv
  <2> QED BY <1>4, <2>1, <2>2 DEF HandleHeartbeat, IInv, Listening, View
<1>5. ASSUME NEW c \in Client, HandleProtect(c) \/ HandleUnprotect(c) PROVE Listening'
  <2> DEFINE h == Head(c2s[c])
             m(type) == Msg(type, h.keys)
  <2>1. PICK type \in Commands :
          /\ Heard(c, type)
          /\ Msg(Forwarded(type), h.keys) \in ToClientMsg
          /\ UNCHANGED <<prot, s2c>> \/ Broadcast(c, Msg(Forwarded(type), h.keys))
    BY <1>5, OrderedIs DEF IInv
  <2>2. Forwarded(type) = type
    BY DEF Forwarded
  <2>3. prot' = Ordered(prot, h)
    BY <1>5, OrderedIs DEF IInv
  <2>4. Received(prot, m(type)) = Ordered(prot, h)
    BY <2>1 DEF Received, Ordered, Msg, Heard, Commands
  <2>5. Follows(c) /\ UNCHANGED <<up, mine, leads>>
    BY <1>5 DEF HandleProtect, HandleUnprotect
  <2>6. m(type) \in ToClientMsg /\ (UNCHANGED <<prot, s2c>> \/ Broadcast(c, m(type)))
    BY <2>1, <2>2
  <2> HIDE DEF m
  <2> QED BY <2>1, <2>3, <2>4, <2>5, <2>6, CommandHandled
<1>6. CASE ServerRestart
  BY <1>6 DEF ServerRestart, Listening
<1>7. ASSUME NEW c \in Client, LoseToServer(c) PROVE Listening'
  <2>1. \A d \in Client : Touched(c2s'[d]) \subseteq Touched(c2s[d])
    BY <1>7, ShorterQueues DEF LoseToServer, IInv
  <2> QED BY <1>7, <2>1 DEF LoseToServer, IInv, Listening, View
<1>8. CASE UNCHANGED vars
  BY <1>8 DEF vars, IInv, Listening, View
<1> QED
  BY <1>1, <1>2, <1>3, <1>4, <1>5, <1>6, <1>7, <1>8,
     CommandGiven, RequestAnswered, LossFollowed
     DEF Next, ClientStep, ServerStep, Commands

\* A client that was given the set and is known to the server holds, once it has
\* handled what is in flight, what the server holds for every entry, but those
\* for which a datagram to it was lost and those it has commanded itself, until
\* that has been handled: for IP addresses, cities and countries.  For IP ranges
\* it is false (the handler forwards the opposite command).
THEOREM ProtectListeners ==
  ASSUME Kind # "iprange"
  PROVE  Spec => []ListenersMatch
<1>1. Init => IInv
  BY TypesInit DEF Init, IInv, Leading, Listening
<1>2. IInv /\ [Next]_vars => IInv'
  BY TypesStep, LeadingStep, ListeningStep DEF IInv
<1>3. IInv => ListenersMatch
  <2>1. \A c \in Client : View(c) = FoldLeft(Received, mine[c], s2c[c])
    BY DEF View, Handling!Fold, FoldLeft, MapThenFoldSet, Max,
           Handling!FoldLeft, Handling!MapThenFoldSet, Handling!Max
  <2> QED BY <2>1 DEF IInv, Listening, ListenersMatch
<1> QED
  BY <1>1, <1>2, <1>3, PTL DEF Spec
=============================================================================
