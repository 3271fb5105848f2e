---------------------------- MODULE BanSyncProof -----------------------------
(***************************************************************************)
(* For any number of clients, keys, commands and faults: the types of      *)
(* BanSync, that a client that only listens does not go on enforcing a ban *)
(* that the server has dropped, and that all complete clients agree on a   *)
(* key that a single administrator has changed.                            *)
(*                                                                         *)
(* OwnedKeysAgree speaks of a network at rest, and its invariant has to    *)
(* say what is on its way.  The owner of a key is ahead of the server: the *)
(* last of his commands that is on its way says what the server will have, *)
(* and no list that he will be given says anything else (Leads).  Every    *)
(* other client is behind it: when he has handled what is in flight to him *)
(* he has what the server has, and no list in flight surprises him, so it  *)
(* does not matter if it is lost (Follows).                                *)
(***************************************************************************)
EXTENDS BanSync, TLAPS

Message(types) ==
  [type : {"add", "remove"}, keys : {{k} : k \in Key}] \cup [type : types, keys : SUBSET Key]
ToServerMsg == Message({"login", "heartbeat", "upload", "request"})
ToClientMsg == Message({"bans", "receive"})

Types ==
  /\ srv \subseteq Key /\ tomb \subseteq Key
  /\ known \subseteq up /\ up \subseteq Client
  /\ list \in [Client -> SUBSET Key]
  /\ synced \in [Client -> {"no", "partly", "fully"}]
  /\ snap \in [Client -> SUBSET SUBSET Key]
  /\ uploads \in [Client -> 0 .. 2]
  /\ c2s \in [Client -> Seq(ToServerMsg)] /\ s2c \in [Client -> Seq(ToClientMsg)]
  /\ late \in [Client -> Nat]
  /\ sees \in [Client -> BOOLEAN]
  /\ owner \in [Key -> Client \cup {Nobody, Many}]

\* The datagrams of closed sockets are the oldest ones, and a client that has
\* stopped has sent no others: handling one of them never makes it known.
LateOnes ==
  \A c \in Client : /\ late[c] <= Len(c2s[c])
                    /\ c \notin up => late[c] = Len(c2s[c])

TInv == Types /\ LateOnes

IsCommand(m) == m.type \in {"add", "remove"}

\* Handling datagrams one after the other.
Handling == INSTANCE FoldLemmas WITH Step <- Received

\* A broadcast reaches a listener, and none of his own commands is on its way.
Listening ==
  \A c \in Client : sees[c] =>
    /\ c \in known
    /\ \A m \in ToSet(c2s[c]) : ~ IsCommand(m)
    /\ Handling!Fold(list[c], s2c[c]) \subseteq srv

LInv == TInv /\ Listening

-----------------------------------------------------------------------------
(* The keys that one administrator has changed, or nobody.                 *)

Concerns(m, k) == IsCommand(m) /\ k \in m.keys
IsList(m)      == m.type \in {"bans", "receive"}

At(k, keys) == IF k \in keys THEN "in" ELSE "out"

\* What a client makes of a datagram: a list that differs from what he has on
\* a key, when he is complete, is wrong.
Moved(k, at, m) ==
  CASE at = "wrong"                        -> "wrong"
    [] at # "wrong" /\ IsList(m)           ->
         IF at = At(k, m.keys) \/ (at = "unknown" /\ m.type = "bans") THEN At(k, m.keys)
         ELSE IF at = "unknown" THEN "unknown" ELSE "wrong"
    [] at # "wrong" /\ ~ IsList(m)         ->
         IF at = "unknown" \/ k \notin m.keys THEN at
         ELSE IF m.type = "add" THEN "in" ELSE "out"

Follow(x, m) == [key |-> x.key, at |-> Moved(x.key, x.at, m)]
Following    == INSTANCE FoldLemmas WITH Step <- Follow

\* What a client has of a key, when he is complete, and what he will have.
Has(k, c)      == [key |-> k, at |-> IF synced[c] = "fully" THEN At(k, list[c]) ELSE "unknown"]
WillHave(k, c) == Following!Fold(Has(k, c), s2c[c]).at

Follows(k, c) ==
  /\ WillHave(k, c) \in {"unknown", At(k, srv)}
  /\ WillHave(k, c) # "unknown" => c \in known

\* No command of the client on the key is on its way.
Quiet(k, c) == \A m \in ToSet(c2s[c]) : ~ Concerns(m, k)

\* Nothing that the client has been sent, or is sent, names the key.
Clear(k, c) ==
  /\ \A m \in ToSet(s2c[c]) : k \notin m.keys
  /\ synced[c] = "fully" => k \notin list[c]

Untouched(k) ==
  /\ k \notin srv
  /\ \A c \in Client : Quiet(k, c) /\ Clear(k, c) /\ Follows(k, c)

\* The last command on its way says what the owner has; when there is none,
\* the server has what he has.
LastCommand(k, c) ==
  /\ \A i \in DOMAIN c2s[c] :
       /\ Concerns(c2s[c][i], k)
       /\ \A j \in DOMAIN c2s[c] : Concerns(c2s[c][j], k) => j <= i
       => c2s[c][i].type = (IF k \in list[c] THEN "add" ELSE "remove")
  /\ Quiet(k, c) => (k \in srv <=> k \in list[c])

\* Every list that he uploads or will be given says what he has, and was
\* asked for after his commands.
ListsAgree(k, c) ==
  /\ \A file \in snap[c] : k \in file <=> k \in list[c]
  /\ \A m \in ToSet(c2s[c]) : m.type = "upload" => (k \in m.keys <=> k \in list[c])
  /\ \A m \in ToSet(s2c[c]) : IF IsList(m) THEN (k \in m.keys <=> k \in list[c])
                                           ELSE k \notin m.keys
ListsLate(k, c) ==
  /\ \A i, j \in DOMAIN c2s[c] :
       c2s[c][i].type \in {"upload", "request"} /\ Concerns(c2s[c][j], k) => j < i
  /\ (\E m \in ToSet(s2c[c]) : IsList(m)) => Quiet(k, c)

Leads(k, c) == LastCommand(k, c) /\ ListsAgree(k, c) /\ ListsLate(k, c)

Owned(k, o) == Leads(k, o) /\ \A c \in Client \ {o} : Quiet(k, c) /\ Follows(k, c)

OwnedKey(k) == /\ owner[k] = Nobody => Untouched(k)
               /\ \A o \in Client : owner[k] = o => Owned(k, o)

OwnedKeys == \A k \in Key : OwnedKey(k)

OInv == TInv /\ OwnedKeys

-----------------------------------------------------------------------------
(* Sequences of datagrams.                                                 *)

\* What one more datagram adds to those in flight.
LEMMA SetOfAppend ==
  ASSUME NEW S, NEW s \in Seq(S), NEW x \in S
  PROVE  /\ Append(s, x) \in Seq(S) /\ Len(Append(s, x)) = Len(s) + 1
         /\ ToSet(Append(s, x)) = ToSet(s) \cup {x}
<1> DEFINE t == Append(s, x)
<1>1. t \in Seq(S) /\ Len(t) = Len(s) + 1 /\ t[Len(t)] = x
  OBVIOUS
<1>2. \A i \in DOMAIN s : i \in DOMAIN t /\ t[i] = s[i]
  OBVIOUS
<1>3. \A i \in DOMAIN t : i \in DOMAIN s \/ i = Len(t)
  OBVIOUS
<1>4. Len(t) \in DOMAIN t
  OBVIOUS
<1> QED
  BY <1>1, <1>2, <1>3, <1>4 DEF ToSet

\* Handling or losing the first datagram adds none.
LEMMA SetOfTail ==
  ASSUME NEW S, NEW s \in Seq(S), s # <<>>
  PROVE  /\ Tail(s) \in Seq(S) /\ Len(s) = Len(Tail(s)) + 1
         /\ ToSet(Tail(s)) \subseteq ToSet(s)
         /\ Head(s) \in S /\ Head(s) \in ToSet(s)
BY DEF ToSet

\* Nothing in flight.
LEMMA SetOfNothing == ToSet(<<>>) = {} /\ Len(<<>>) = 0 /\ \A S : <<>> \in Seq(S)
BY DEF ToSet

\* Handling the only one leaves none.
LEMMA NoneLeft ==
  ASSUME NEW S, NEW s \in Seq(S), Len(s) = 1
  PROVE  ToSet(Tail(s)) = {}
<1>1. DOMAIN Tail(s) = 1 .. 0
  OBVIOUS
<1> QED
  BY <1>1 DEF ToSet

-----------------------------------------------------------------------------
(* Datagrams.                                                              *)

\* A datagram to the server: a command names one key.
LEMMA ToServerMsgIs ==
  /\ \A m \in ToServerMsg :
       /\ m.type \in {"add", "remove", "login", "heartbeat", "upload", "request"}
       /\ m.keys \subseteq Key
       /\ IsCommand(m) => /\ m \in ToClientMsg
                          /\ \E k \in Key : m.keys = {k}
  /\ \A S \in SUBSET Key, t \in {"login", "heartbeat", "upload", "request"} :
       Msg(t, S) \in ToServerMsg
  /\ \A k \in Key, t \in {"add", "remove"} : Msg(t, {k}) \in ToServerMsg
BY DEF ToServerMsg, ToClientMsg, Message, Msg, IsCommand

\* A datagram to a client: a command, or a list.
LEMMA ToClientMsgIs ==
  /\ \A m \in ToClientMsg :
       /\ m.type \in {"add", "remove", "bans", "receive"} /\ m.keys \subseteq Key
       /\ IsList(m) <=> ~ IsCommand(m)
       /\ IsCommand(m) => \E k \in Key : m.keys = {k}
  /\ \A S \in SUBSET Key, t \in {"bans", "receive"} : Msg(t, S) \in ToClientMsg
BY DEF ToClientMsg, Message, Msg, IsCommand, IsList

\* What is in a queue.
LEMMA QueuesAre ==
  ASSUME TInv, NEW c \in Client
  PROVE  ToSet(c2s[c]) \subseteq ToServerMsg /\ ToSet(s2c[c]) \subseteq ToClientMsg
BY DEF ToSet, TInv, Types

-----------------------------------------------------------------------------
(* Types.                                                                  *)

\* What is sent to the server is well typed, and leaves the old ones oldest.
LEMMA ToServerIs ==
  ASSUME TInv, NEW c \in Client, NEW m \in ToServerMsg, ToServer(c, m)
  PROVE  /\ c2s' \in [Client -> Seq(ToServerMsg)] /\ c2s'[c] = Append(c2s[c], m)
         /\ ToSet(c2s'[c]) = ToSet(c2s[c]) \cup {m}
         /\ \A d \in Client \ {c} : c2s'[d] = c2s[d]
         /\ c \in up' /\ up \subseteq up' /\ late' = late => LateOnes'
<1>1. /\ Append(c2s[c], m) \in Seq(ToServerMsg) /\ Len(Append(c2s[c], m)) = Len(c2s[c]) + 1
      /\ ToSet(Append(c2s[c], m)) = ToSet(c2s[c]) \cup {m}
  BY SetOfAppend DEF TInv, Types
<1>2. /\ c2s' \in [Client -> Seq(ToServerMsg)] /\ c2s'[c] = Append(c2s[c], m)
      /\ \A d \in Client \ {c} : c2s'[d] = c2s[d]
  BY <1>1 DEF ToServer, TInv, Types
<1>3. Len(c2s[c]) \in Nat /\ late[c] \in Nat
  BY DEF TInv, Types
<1>4. ASSUME c \in up', up \subseteq up', late' = late, NEW d \in Client
      PROVE  late'[d] <= Len(c2s'[d]) /\ (d \notin up' => late'[d] = Len(c2s'[d]))
  <2>1. CASE d = c
    BY <1>1, <1>2, <1>3, <1>4, <2>1 DEF TInv, LateOnes
  <2>2. CASE d # c
    BY <1>2, <1>4, <2>2 DEF TInv, LateOnes
  <2> QED
    BY <2>1, <2>2
<1> QED
  BY <1>1, <1>2, <1>4 DEF LateOnes

\* One datagram less, and one late one less if there are any.
LEMMA FromServerQueue ==
  ASSUME TInv, NEW c \in Client, c2s[c] # <<>>, up' = up,
         c2s' = [c2s EXCEPT ![c] = Tail(@)],
         late' = [late EXCEPT ![c] = IF @ > 0 THEN @ - 1 ELSE 0]
  PROVE  /\ c2s' \in [Client -> Seq(ToServerMsg)] /\ c2s'[c] = Tail(c2s[c])
         /\ \A d \in Client \ {c} : c2s'[d] = c2s[d]
         /\ \A d \in Client : ToSet(c2s'[d]) \subseteq ToSet(c2s[d])
         /\ late' \in [Client -> Nat] /\ LateOnes'
<1>1. Tail(c2s[c]) \in Seq(ToServerMsg) /\ Len(c2s[c]) = Len(Tail(c2s[c])) + 1
  BY SetOfTail DEF TInv, Types
<1>2. /\ c2s' \in [Client -> Seq(ToServerMsg)] /\ c2s'[c] = Tail(c2s[c])
      /\ \A d \in Client \ {c} : c2s'[d] = c2s[d]
  BY <1>1 DEF TInv, Types
<1>3. Len(Tail(c2s[c])) \in Nat /\ late[c] \in Nat
  BY <1>1 DEF TInv, Types
<1>4. /\ late' \in [Client -> Nat] /\ late'[c] = IF late[c] > 0 THEN late[c] - 1 ELSE 0
      /\ \A d \in Client \ {c} : late'[d] = late[d]
  BY <1>3 DEF TInv, Types
<1>5. LateOnes'
  BY <1>1, <1>2, <1>3, <1>4 DEF TInv, LateOnes
<1>6. ToSet(Tail(c2s[c])) \subseteq ToSet(c2s[c])
  BY SetOfTail DEF TInv, Types
<1> QED
  BY <1>2, <1>4, <1>5, <1>6

\* What every handler of the server does first.
LEMMA HeardIs ==
  ASSUME TInv, NEW c \in Client, Heard(c), up' = up
  PROVE  /\ c2s' \in [Client -> Seq(ToServerMsg)] /\ c2s'[c] = Tail(c2s[c])
         /\ \A d \in Client \ {c} : c2s'[d] = c2s[d]
         /\ \A d \in Client : ToSet(c2s'[d]) \subseteq ToSet(c2s[d])
         /\ late' \in [Client -> Nat] /\ LateOnes'
         /\ c2s[c] # <<>> /\ Head(c2s[c]) \in ToServerMsg /\ Head(c2s[c]) \in ToSet(c2s[c])
         /\ known \subseteq known' /\ known' \subseteq up
<1>1. late[c] \in Nat /\ late \in [Client -> Nat]
  BY DEF TInv, Types
<1>2. late' = [late EXCEPT ![c] = IF @ > 0 THEN @ - 1 ELSE 0]
  BY <1>1 DEF Heard
<1>3. /\ Head(c2s[c]) \in ToServerMsg /\ Head(c2s[c]) \in ToSet(c2s[c])
      /\ Len(c2s[c]) = Len(Tail(c2s[c])) + 1 /\ Tail(c2s[c]) \in Seq(ToServerMsg)
  BY SetOfTail DEF Heard, TInv, Types
<1>4. Len(c2s[c]) > 0
  BY <1>3
<1>5. known \subseteq known' /\ known' \subseteq up
  BY <1>1, <1>4 DEF Heard, TInv, Types, LateOnes
<1> QED
  BY <1>2, <1>3, <1>5, FromServerQueue DEF Heard

\* A broadcast is well typed, and reaches the clients that are known.
LEMMA BroadcastIs ==
  ASSUME TInv, NEW c \in Client, NEW m \in ToClientMsg, Broadcast(c, m)
  PROVE  /\ s2c' \in [Client -> Seq(ToClientMsg)]
         /\ \A d \in Client : s2c'[d] = IF d \in known \ {c} THEN Append(s2c[d], m) ELSE s2c[d]
<1>1. \A d \in Client : Append(s2c[d], m) \in Seq(ToClientMsg)
  BY SetOfAppend DEF TInv, Types
<1> QED
  BY <1>1 DEF Broadcast, TInv, Types

\* So is an answer, and it reaches its client if he is known.
LEMMA ReplyIs ==
  ASSUME TInv, NEW c \in Client, NEW m \in ToClientMsg, Reply(c, m)
  PROVE  /\ s2c' \in [Client -> Seq(ToClientMsg)]
         /\ s2c'[c] = IF c \in known' THEN Append(s2c[c], m) ELSE s2c[c]
         /\ \A d \in Client \ {c} : s2c'[d] = s2c[d]
<1>1. Append(s2c[c], m) \in Seq(ToClientMsg)
  BY SetOfAppend DEF TInv, Types
<1> QED
  BY <1>1 DEF Reply, TInv, Types

\* At the start nothing is in flight.
LEMMA TypesInit == Init => TInv
<1> SUFFICES ASSUME Init PROVE TInv
  OBVIOUS
<1>1. Types
  BY SetOfNothing DEF Init, Types
<1>2. LateOnes
  BY SetOfNothing DEF Init, LateOnes
<1> QED
  BY <1>1, <1>2 DEF TInv

\* Every action keeps the types, and leaves as late what a closed socket sent.
LEMMA TypesStep == TInv /\ [Next]_vars => TInv'
<1> SUFFICES ASSUME TInv, [Next]_vars PROVE TInv'
  OBVIOUS
<1> USE DEF TInv, server, clients, ghosts
<1>1. ASSUME NEW c \in Client, Login(c) PROVE TInv'
  <2>1. Msg("login", {}) \in ToServerMsg
    BY ToServerMsgIs
  <2>2. c2s' \in [Client -> Seq(ToServerMsg)] /\ LateOnes'
    BY <1>1, <2>1, ToServerIs DEF Login
  <2>3. Types'
    BY <1>1, <2>2 DEF Login, Types
  <2> QED
    BY <2>2, <2>3
<1>2. ASSUME NEW c \in Client, TakeSnapshot(c) PROVE TInv'
  <2>1. snap' \in [Client -> SUBSET SUBSET Key]
    BY <1>2 DEF TakeSnapshot, Types
  <2>2. uploads[c] \in 0 .. 2 /\ uploads[c] < 2
    BY <1>2 DEF TakeSnapshot, Types
  <2>3. uploads[c] + 1 \in 0 .. 2
    BY <2>2
  <2>4. uploads' \in [Client -> 0 .. 2]
    BY <1>2, <2>3 DEF TakeSnapshot, Types
  <2> QED
    BY <1>2, <2>1, <2>4 DEF TakeSnapshot, Types, LateOnes
<1>3. ASSUME NEW c \in Client, Announce(c) PROVE TInv'
  <2>1. PICK file \in snap[c] : ToServer(c, Msg("upload", file))
    BY <1>3 DEF Announce
  <2>2. Msg("upload", file) \in ToServerMsg
    BY ToServerMsgIs DEF Types
  <2>3. c2s' \in [Client -> Seq(ToServerMsg)] /\ LateOnes'
    BY <1>3, <2>1, <2>2, ToServerIs DEF Announce
  <2>4. snap' \in [Client -> SUBSET SUBSET Key]
    BY <1>3 DEF Announce, Types
  <2> QED
    BY <1>3, <2>3, <2>4 DEF Announce, Types
<1>4. ASSUME NEW c \in Client, Request(c) \/ Heartbeat(c) PROVE TInv'
  <2>1. PICK m \in ToServerMsg : ToServer(c, m)
    BY <1>4, ToServerMsgIs DEF Request, Heartbeat
  <2>2. c2s' \in [Client -> Seq(ToServerMsg)] /\ LateOnes'
    BY <1>4, <2>1, ToServerIs DEF Request, Heartbeat
  <2> QED
    BY <1>4, <2>2 DEF Request, Heartbeat, Types
<1>5. ASSUME NEW c \in Client, NEW k \in Key, Ban(c, k) \/ Unban(c, k) PROVE TInv'
  <2>1. PICK m \in ToServerMsg : ToServer(c, m)
    BY <1>5, ToServerMsgIs DEF Ban, Unban
  <2>2. c2s' \in [Client -> Seq(ToServerMsg)] /\ LateOnes'
    BY <1>5, <2>1, ToServerIs DEF Ban, Unban
  <2>3. list[c] \cup {k} \in SUBSET Key /\ list[c] \ {k} \in SUBSET Key
    BY DEF Types
  <2>4. PICK S \in SUBSET Key : list' = [list EXCEPT ![c] = S]
    BY <1>5, <2>3 DEF Ban, Unban
  <2>5. PICK o \in Client \cup {Nobody, Many} : owner' = [owner EXCEPT ![k] = o]
    <3>1. Claim(c, k)
      BY <1>5 DEF Ban, Unban
    <3>2. \/ owner' = [owner EXCEPT ![k] = c]
          \/ owner' = [owner EXCEPT ![k] = Many]
      BY <3>1 DEF Claim
    <3> QED
      BY <3>2
  <2>6. /\ list' \in [Client -> SUBSET Key] /\ sees' \in [Client -> BOOLEAN]
        /\ owner' \in [Key -> Client \cup {Nobody, Many}]
    BY <1>5, <2>4, <2>5 DEF Ban, Unban, Types
  <2> QED
    BY <1>5, <2>2, <2>6 DEF Ban, Unban, Types
<1>6. ASSUME NEW c \in Client, ClientHandle(c) PROVE TInv'
  <2>1. Head(s2c[c]) \in ToClientMsg /\ Tail(s2c[c]) \in Seq(ToClientMsg)
    BY <1>6, SetOfTail DEF ClientHandle, Types
  <2>2. Received(list[c], Head(s2c[c])) \in SUBSET Key
    BY <2>1, ToClientMsgIs DEF Received, Types
  <2>3. list' \in [Client -> SUBSET Key] /\ s2c' \in [Client -> Seq(ToClientMsg)]
    BY <1>6, <2>1, <2>2 DEF ClientHandle, Types
  <2>4. synced' \in [Client -> {"no", "partly", "fully"}]
    BY <1>6 DEF ClientHandle, Types
  <2> QED
    BY <1>6, <2>3, <2>4 DEF ClientHandle, Types, LateOnes
<1>7. ASSUME NEW c \in Client, Quit(c) PROVE TInv'
  <2>1. Len(c2s[c]) \in Nat
    BY DEF Types
  <2>2. /\ late' \in [Client -> Nat] /\ late'[c] = Len(c2s[c])
        /\ \A d \in Client \ {c} : late'[d] = late[d]
    BY <1>7, <2>1 DEF Quit, Types
  <2>3. LateOnes'
    BY <1>7, <2>1, <2>2 DEF Quit, LateOnes
  <2>4. synced' \in [Client -> {"no", "partly", "fully"}] /\ uploads' \in [Client -> 0 .. 2]
    BY <1>7 DEF Quit, Types
  <2>5. snap' \in [Client -> SUBSET SUBSET Key] /\ s2c' \in [Client -> Seq(ToClientMsg)]
    BY <1>7, SetOfNothing DEF Quit, Types
  <2>6. Types'
    BY <1>7, <2>2, <2>4, <2>5 DEF Quit, Types
  <2> QED
    BY <2>3, <2>6
<1>8. ASSUME NEW c \in Client, HandleHello(c) PROVE TInv'
  BY <1>8, HeardIs DEF HandleHello, Handles, Types
<1>9. ASSUME NEW c \in Client, HandleAdd(c) \/ HandleRemove(c) PROVE TInv'
  <2> DEFINE m == Head(c2s[c])
  <2>1. m \in ToClientMsg /\ m.keys \subseteq Key
    BY <1>9, HeardIs, ToServerMsgIs DEF HandleAdd, HandleRemove, Handles, IsCommand
  <2>2. /\ s2c' \in [Client -> Seq(ToClientMsg)]
        /\ srv' \subseteq Key /\ tomb' \subseteq Key
    BY <1>9, <2>1, BroadcastIs DEF HandleAdd, HandleRemove, Types
  <2> QED
    BY <1>9, <2>2, HeardIs DEF HandleAdd, HandleRemove, Handles, Types
<1>10. ASSUME NEW c \in Client, HandleUpload(c) PROVE TInv'
  <2>1. Head(c2s[c]).keys \subseteq Key
    BY <1>10, HeardIs, ToServerMsgIs DEF HandleUpload, Handles
  <2>2. srv' \subseteq Key
    BY <1>10, <2>1 DEF HandleUpload, New, Types
  <2>3. Msg("bans", srv') \in ToClientMsg
    BY <2>2, ToClientMsgIs
  <2>4. s2c' \in [Client -> Seq(ToClientMsg)]
    BY <1>10, <2>3, ReplyIs DEF HandleUpload
  <2>5. owner' \in [Key -> Client \cup {Nobody, Many}] /\ sees' \in [Client -> BOOLEAN]
    BY <1>10 DEF HandleUpload, Types
  <2> QED
    BY <1>10, <2>2, <2>4, <2>5, HeardIs DEF HandleUpload, Handles, Types
<1>11. ASSUME NEW c \in Client, HandleRequest(c) PROVE TInv'
  <2>1. Msg("receive", srv) \in ToClientMsg
    BY ToClientMsgIs DEF Types
  <2>2. s2c' \in [Client -> Seq(ToClientMsg)]
    BY <1>11, <2>1, ReplyIs DEF HandleRequest, Types
  <2> QED
    BY <1>11, <2>2, HeardIs DEF HandleRequest, Handles, Types
<1>12. CASE ServerRestart
  BY <1>12 DEF ServerRestart, Types, LateOnes
<1>13. ASSUME NEW c \in Client, LoseToServer(c) PROVE TInv'
  <2>1. owner' \in [Key -> Client \cup {Nobody, Many}]
    BY <1>13 DEF LoseToServer, Disown, Types
  <2> QED
    BY <1>13, <2>1, FromServerQueue DEF LoseToServer, Types
<1>14. ASSUME NEW c \in Client, LoseToClient(c) PROVE TInv'
  <2>1. Tail(s2c[c]) \in Seq(ToClientMsg)
    BY <1>14, SetOfTail DEF LoseToClient, Types
  <2>2. owner' \in [Key -> Client \cup {Nobody, Many}]
    BY <1>14 DEF LoseToClient, Disown, Types
  <2> QED
    BY <1>14, <2>1, <2>2 DEF LoseToClient, Types, LateOnes
<1>15. CASE UNCHANGED vars
  BY <1>15 DEF vars, Types, LateOnes
<1> QED
  BY <1>1, <1>2, <1>3, <1>4, <1>5, <1>6, <1>7, <1>8, <1>9, <1>10, <1>11, <1>12, <1>13,
     <1>14, <1>15 DEF Next, ClientStep, ServerStep, NetworkStep

\* The types: what the checks of TypeOK say holds of any number of clients.
THEOREM BanTypes == Spec => []TypeOK
<1>1. TInv => TypeOK
  <2> SUFFICES ASSUME TInv PROVE TypeOK
    OBVIOUS
  <2>1. \A c \in Client : late[c] \in 0 .. Len(c2s[c])
    <3> SUFFICES ASSUME NEW c \in Client PROVE late[c] \in 0 .. Len(c2s[c])
      OBVIOUS
    <3>1. late[c] \in Nat /\ Len(c2s[c]) \in Nat
      BY DEF TInv, Types
    <3> QED
      BY <3>1 DEF TInv, LateOnes
  <2>2. \A c \in Client :
          \A m \in ToSet(c2s[c]) \cup ToSet(s2c[c]) : m.type \in MsgType /\ m.keys \subseteq Key
    BY QueuesAre, ToServerMsgIs, ToClientMsgIs DEF MsgType
  <2> QED
    BY <2>1, <2>2 DEF TypeOK, TInv, Types
<1> QED
  BY <1>1, TypesInit, TypesStep, PTL DEF Spec

-----------------------------------------------------------------------------
(* Listeners.                                                              *)

\* What is broadcast, or answered, does to the view of a listener what the
\* server has done to its list, or less.
LEMMA OneMoreFollowed ==
  ASSUME LInv, NEW c \in Client, sees[c], NEW m \in ToClientMsg,
         \A S \in SUBSET srv : Received(S, m) \subseteq srv'
  PROVE  Handling!Fold(list[c], Append(s2c[c], m)) \subseteq srv'
<1>1. s2c[c] \in Seq(ToClientMsg)
  BY DEF LInv, TInv, Types
<1>2. Handling!Fold(list[c], s2c[c]) \subseteq srv
  BY DEF LInv, Listening
<1>3. Handling!Fold(list[c], Append(s2c[c], m)) = Received(Handling!Fold(list[c], s2c[c]), m)
  BY <1>1, Handling!FoldOfAppend
<1> QED
  BY <1>2, <1>3

\* A step that adds no command to those on their way, forgets no client, and
\* changes neither what a listener has nor what he is sent.
LEMMA NothingNew ==
  ASSUME LInv, known \subseteq known', srv \subseteq srv', UNCHANGED sees,
         \A d \in Client : sees[d] =>
           /\ list'[d] = list[d] /\ s2c'[d] = s2c[d]
           /\ \A m \in ToSet(c2s'[d]) : IsCommand(m) => m \in ToSet(c2s[d])
  PROVE  Listening'
<1> SUFFICES ASSUME NEW d \in Client, sees[d]
             PROVE  /\ d \in known' /\ \A m \in ToSet(c2s'[d]) : ~ IsCommand(m)
                    /\ Handling!Fold(list'[d], s2c'[d]) \subseteq srv'
  BY DEF Listening
<1> QED
  BY DEF LInv, Listening

\* The sender of a command is no listener.
LEMMA SenderHeard ==
  ASSUME LInv, NEW c \in Client, Heard(c), up' = up, IsCommand(Head(c2s[c]))
  PROVE  ~ sees[c]
BY HeardIs DEF LInv, Listening

\* Handling a command keeps every listener up to date.
LEMMA CommandFollowed ==
  ASSUME LInv, NEW c \in Client, HandleAdd(c) \/ HandleRemove(c)
  PROVE  Listening'
<1> DEFINE m == Head(c2s[c])
<1>1. /\ Heard(c) /\ up' = up /\ m.type \in {"add", "remove"}
      /\ UNCHANGED <<list, sees>>
  BY DEF HandleAdd, HandleRemove, Handles, clients, ghosts
<1>2. m \in ToClientMsg /\ IsCommand(m)
  BY <1>1, HeardIs, ToServerMsgIs DEF LInv, IsCommand
<1>3. ~ sees[c]
  BY <1>1, <1>2, SenderHeard
<1>4. /\ known \subseteq known' /\ \A d \in Client : ToSet(c2s'[d]) \subseteq ToSet(c2s[d])
  BY <1>1, HeardIs DEF LInv
<1>5. \/ UNCHANGED <<srv, s2c>>
      \/ Broadcast(c, m) /\ srv' = Received(srv, m)
  BY <1>1 DEF HandleAdd, HandleRemove, Handles, Received
<1>6. \A S \in SUBSET srv : Received(S, m) \subseteq Received(srv, m)
  BY <1>1 DEF Received
<1> SUFFICES ASSUME NEW d \in Client, sees[d]
             PROVE  /\ d \in known' /\ \A x \in ToSet(c2s'[d]) : ~ IsCommand(x)
                    /\ Handling!Fold(list'[d], s2c'[d]) \subseteq srv'
  BY <1>1 DEF Listening
<1>7. /\ d \in known /\ \A x \in ToSet(c2s[d]) : ~ IsCommand(x)
      /\ Handling!Fold(list[d], s2c[d]) \subseteq srv
  BY DEF LInv, Listening
<1>8. CASE UNCHANGED <<srv, s2c>>
  BY <1>1, <1>4, <1>7, <1>8
<1>9. CASE Broadcast(c, m) /\ srv' = Received(srv, m)
  <2>1. s2c'[d] = Append(s2c[d], m)
    BY <1>2, <1>3, <1>7, <1>9, BroadcastIs DEF LInv
  <2> HIDE DEF m
  <2>2. Handling!Fold(list[d], Append(s2c[d], m)) \subseteq srv'
    BY <1>2, <1>6, <1>9, OneMoreFollowed
  <2> QED
    BY <1>1, <1>4, <1>7, <2>1, <2>2
<1> QED
  BY <1>5, <1>8, <1>9

\* Every step keeps the listeners up to date.
LEMMA ListeningStep == LInv /\ [Next]_vars => Listening'
<1> SUFFICES ASSUME LInv, [Next]_vars PROVE Listening'
  OBVIOUS
<1> USE DEF server, clients, ghosts
<1>1. ASSUME NEW c \in Client, Login(c) \/ Request(c) \/ Heartbeat(c) \/ Announce(c)
      PROVE  Listening'
  <2>1. PICK m \in ToServerMsg : ToServer(c, m) /\ ~ IsCommand(m)
    <3>1. \A S \in SUBSET Key, t \in {"login", "request", "heartbeat", "upload"} :
            Msg(t, S) \in ToServerMsg /\ ~ IsCommand(Msg(t, S))
      BY ToServerMsgIs DEF Msg, IsCommand
    <3>2. {} \in SUBSET Key /\ snap[c] \subseteq SUBSET Key
      BY DEF LInv, TInv, Types
    <3> QED
      BY <1>1, <3>1, <3>2 DEF Login, Request, Heartbeat, Announce
  <2>2. \A d \in Client : \A x \in ToSet(c2s'[d]) : IsCommand(x) => x \in ToSet(c2s[d])
    BY <2>1, ToServerIs DEF LInv
  <2> QED
    BY <1>1, <2>2, NothingNew DEF Login, Request, Heartbeat, Announce
<1>2. ASSUME NEW c \in Client, TakeSnapshot(c) PROVE Listening'
  BY <1>2, NothingNew DEF TakeSnapshot
<1>3. ASSUME NEW c \in Client, NEW k \in Key, Ban(c, k) \/ Unban(c, k) PROVE Listening'
  <2>1. /\ ~ sees'[c] /\ \A d \in Client \ {c} : sees'[d] = sees[d] /\ list'[d] = list[d]
        /\ \A d \in Client \ {c} : c2s'[d] = c2s[d]
    BY <1>3 DEF Ban, Unban, ToServer, LInv, TInv, Types
  <2> QED
    BY <1>3, <2>1 DEF Ban, Unban, LInv, Listening
<1>4. ASSUME NEW c \in Client, ClientHandle(c) PROVE Listening'
  <2>1. /\ list'[c] = Received(list[c], Head(s2c[c])) /\ s2c'[c] = Tail(s2c[c])
        /\ \A d \in Client \ {c} : s2c'[d] = s2c[d] /\ list'[d] = list[d]
    BY <1>4 DEF ClientHandle, LInv, TInv, Types
  <2>2. s2c[c] \in Seq(ToClientMsg) /\ s2c[c] # <<>>
    BY <1>4 DEF ClientHandle, LInv, TInv, Types
  <2>3. Handling!Fold(list'[c], s2c'[c]) = Handling!Fold(list[c], s2c[c])
    BY <2>1, <2>2, Handling!FoldOfTail
  <2>4. \A d \in Client : Handling!Fold(list'[d], s2c'[d]) = Handling!Fold(list[d], s2c[d])
    BY <2>1, <2>3
  <2> QED
    BY <1>4, <2>4 DEF ClientHandle, LInv, Listening
<1>5. ASSUME NEW c \in Client, Quit(c) \/ LoseToClient(c) PROVE Listening'
  <2>1. ~ sees'[c] /\ \A d \in Client \ {c} : sees'[d] = sees[d]
    BY <1>5 DEF Quit, LoseToClient, LInv, TInv, Types
  <2>2. \A d \in Client \ {c} : s2c'[d] = s2c[d] /\ (d \in known => d \in known')
    BY <1>5 DEF Quit, LoseToClient, LInv, TInv, Types
  <2> QED
    BY <1>5, <2>1, <2>2 DEF Quit, LoseToClient, LInv, Listening
<1>6. ASSUME NEW c \in Client, HandleHello(c) PROVE Listening'
  <2>1. known \subseteq known' /\ \A d \in Client : ToSet(c2s'[d]) \subseteq ToSet(c2s[d])
    BY <1>6, HeardIs DEF HandleHello, Handles, LInv
  <2> QED
    BY <1>6, <2>1, NothingNew DEF HandleHello
<1>7. ASSUME NEW c \in Client, HandleAdd(c) \/ HandleRemove(c) PROVE Listening'
  BY <1>7, CommandFollowed
<1>8. ASSUME NEW c \in Client, HandleUpload(c) PROVE Listening'
  <2> DEFINE m == Msg("bans", srv')
  <2>1. /\ known \subseteq known' /\ c2s'[c] = Tail(c2s[c]) /\ c2s[c] # <<>>
        /\ \A d \in Client : ToSet(c2s'[d]) \subseteq ToSet(c2s[d])
    BY <1>8, HeardIs DEF HandleUpload, Handles, LInv
  <2>2. /\ srv \subseteq srv' /\ UNCHANGED list
        /\ \A d \in Client \ {c} : sees'[d] = sees[d]
    BY <1>8 DEF HandleUpload, LInv, TInv, Types
  <2>3. m \in ToClientMsg
    BY TypesStep, ToClientMsgIs DEF LInv, TInv, Types
  <2>4. /\ s2c'[c] = IF c \in known' THEN Append(s2c[c], m) ELSE s2c[c]
        /\ \A d \in Client \ {c} : s2c'[d] = s2c[d]
    BY <1>8, <2>3, ReplyIs DEF HandleUpload, LInv
  <2>5. ASSUME sees'[c]
        PROVE  /\ c \in known' /\ \A x \in ToSet(c2s'[c]) : ~ IsCommand(x)
               /\ Handling!Fold(list'[c], s2c'[c]) \subseteq srv'
    <3>1. c \in known' /\ Commands(c2s'[c]) = {}
      BY <1>8, <2>1, <2>5 DEF HandleUpload, LInv, TInv, Types
    <3>2. \A x \in ToSet(c2s'[c]) : ~ IsCommand(x)
      BY <3>1 DEF Commands, ToSet, IsCommand
    <3>3. s2c[c] \in Seq(ToClientMsg)
      BY DEF LInv, TInv, Types
    <3>4. \A S : Received(S, m) = srv'
      BY DEF Received, Msg
    <3> HIDE DEF m
    <3>5. Handling!Fold(list[c], Append(s2c[c], m)) = srv'
      BY <2>3, <3>3, <3>4, Handling!FoldOfAppend
    <3> QED
      BY <2>2, <2>4, <3>1, <3>2, <3>5
  <2>6. ASSUME NEW d \in Client \ {c}, sees'[d]
        PROVE  /\ d \in known' /\ \A x \in ToSet(c2s'[d]) : ~ IsCommand(x)
               /\ Handling!Fold(list'[d], s2c'[d]) \subseteq srv'
    BY <2>1, <2>2, <2>4, <2>6 DEF LInv, Listening
  <2> QED
    BY <2>5, <2>6 DEF Listening
<1>9. ASSUME NEW c \in Client, HandleRequest(c) PROVE Listening'
  <2> DEFINE m == Msg("receive", srv)
  <2>1. known \subseteq known' /\ \A d \in Client : ToSet(c2s'[d]) \subseteq ToSet(c2s[d])
    BY <1>9, HeardIs DEF HandleRequest, Handles, LInv
  <2>2. m \in ToClientMsg
    BY ToClientMsgIs DEF LInv, TInv, Types
  <2>3. /\ s2c'[c] = s2c[c] \/ s2c'[c] = Append(s2c[c], m)
        /\ \A d \in Client \ {c} : s2c'[d] = s2c[d]
    BY <1>9, <2>2, ReplyIs DEF HandleRequest, LInv
  <2>4. \A S \in SUBSET srv : Received(S, m) \subseteq srv'
    BY <1>9 DEF HandleRequest, Received, Msg
  <2> HIDE DEF m
  <2>5. ASSUME NEW d \in Client, sees[d]
        PROVE  /\ d \in known' /\ \A x \in ToSet(c2s'[d]) : ~ IsCommand(x)
               /\ Handling!Fold(list[d], s2c'[d]) \subseteq srv'
    <3>1. /\ d \in known /\ \A x \in ToSet(c2s[d]) : ~ IsCommand(x)
          /\ Handling!Fold(list[d], s2c[d]) \subseteq srv
      BY <2>5 DEF LInv, Listening
    <3>2. Handling!Fold(list[d], Append(s2c[d], m)) \subseteq srv'
      BY <2>2, <2>4, <2>5, OneMoreFollowed
    <3> QED
      BY <1>9, <2>1, <2>3, <3>1, <3>2 DEF HandleRequest
  <2> QED
    BY <1>9, <2>5 DEF HandleRequest, Listening
<1>10. CASE ServerRestart
  BY <1>10 DEF ServerRestart, Listening
<1>11. ASSUME NEW c \in Client, LoseToServer(c) PROVE Listening'
  <2>1. \A d \in Client : ToSet(c2s'[d]) \subseteq ToSet(c2s[d])
    BY <1>11, FromServerQueue DEF LoseToServer, LInv
  <2> QED
    BY <1>11, <2>1, NothingNew DEF LoseToServer
<1>12. CASE UNCHANGED vars
  BY <1>12, NothingNew DEF vars
<1> QED
  BY <1>1, <1>2, <1>3, <1>4, <1>5, <1>6, <1>7, <1>8, <1>9, <1>10, <1>11, <1>12
     DEF Next, ClientStep, ServerStep, NetworkStep

\* A client that has missed no datagram and issued no command since the server
\* last wrote out a list for it will hold no ban that the server has not: the
\* upload at login repairs what was lost before, the broadcasts keep it right.
THEOREM BanListeners == Spec => []ListenersFollow
<1>1. Init => LInv
  BY TypesInit DEF Init, LInv, Listening
<1>2. LInv /\ [Next]_vars => LInv'
  BY TypesStep, ListeningStep DEF LInv
<1>3. LInv => ListenersFollow
  <2>1. \A c \in Client : Handling!Fold(list[c], s2c[c]) = View(c)
    BY DEF View, Handling!Fold, FoldLeft, MapThenFoldSet, Max,
           Handling!FoldLeft, Handling!MapThenFoldSet, Handling!Max
  <2> QED
    BY <2>1 DEF LInv, Listening, ListenersFollow
<1> QED
  BY <1>1, <1>2, <1>3, PTL DEF Spec


-----------------------------------------------------------------------------
(* What a client will have of a key.                                       *)

Ats      == {"unknown", "in", "out", "wrong"}
Place(k) == [key : {k}, at : Ats]

\* What a client makes of one datagram, by cases.
LEMMA MovedIs ==
  ASSUME NEW k, NEW at \in Ats, NEW m \in ToClientMsg
  PROVE  /\ Moved(k, at, m) \in Ats
         /\ at = "wrong" => Moved(k, at, m) = "wrong"
         /\ IsCommand(m) /\ (k \notin m.keys \/ at = "unknown") => Moved(k, at, m) = at
         /\ IsCommand(m) /\ k \in m.keys /\ at \in {"in", "out"}
              => Moved(k, at, m) = IF m.type = "add" THEN "in" ELSE "out"
         /\ IsList(m) /\ at = At(k, m.keys) => Moved(k, at, m) = at
         /\ m.type = "bans" /\ at = "unknown" => Moved(k, at, m) = At(k, m.keys)
         /\ m.type = "receive" /\ at = "unknown" => Moved(k, at, m) = at
         /\ IsList(m) /\ at \in {"in", "out"} /\ at # At(k, m.keys)
              => Moved(k, at, m) = "wrong"
<1>1. m.type \in {"add", "remove", "bans", "receive"} /\ (IsList(m) <=> ~ IsCommand(m))
  BY ToClientMsgIs
<1>2. At(k, m.keys) \in {"in", "out"}
  BY DEF At
<1>3. CASE at = "wrong"
  BY <1>3, <1>2 DEF Moved, Ats
<1>4. CASE at # "wrong" /\ IsList(m)
  BY <1>1, <1>2, <1>4 DEF Moved, Ats, IsList
<1>5. CASE at # "wrong" /\ ~ IsList(m)
  BY <1>1, <1>2, <1>5 DEF Moved, Ats, IsCommand
<1> QED
  BY <1>3, <1>4, <1>5

\* Following keeps to one key.
LEMMA FollowIs ==
  ASSUME NEW k, NEW x \in Place(k), NEW m \in ToClientMsg
  PROVE  Follow(x, m) \in Place(k) /\ Follow(x, m).at = Moved(k, x.at, m)
<1>1. x.key = k /\ x.at \in Ats
  BY DEF Place
<1>2. Moved(k, x.at, m) \in Ats
  BY <1>1, MovedIs
<1> QED
  BY <1>1, <1>2 DEF Follow, Place

\* What a client has and will have of a key is one of the four places.
LEMMA PlacesAre ==
  ASSUME TInv, NEW k \in Key, NEW c \in Client
  PROVE  /\ Has(k, c) \in Place(k) /\ s2c[c] \in Seq(ToClientMsg)
         /\ Following!Fold(Has(k, c), s2c[c]) \in Place(k)
         /\ WillHave(k, c) \in Ats
<1>1. Has(k, c) \in Place(k) /\ s2c[c] \in Seq(ToClientMsg)
  BY DEF Has, At, Place, Ats, TInv, Types
<1>2. Following!Fold(Has(k, c), s2c[c]) \in Place(k)
  BY <1>1, FollowIs, Following!FoldStays
<1> QED
  BY <1>1, <1>2 DEF WillHave, Place

\* One more datagram.
LEMMA WillHaveAppended ==
  ASSUME TInv, NEW k \in Key, NEW c \in Client, NEW m \in ToClientMsg,
         Has(k, c)' = Has(k, c), s2c'[c] = Append(s2c[c], m)
  PROVE  WillHave(k, c)' = Moved(k, WillHave(k, c), m)
<1>1. /\ s2c[c] \in Seq(ToClientMsg)
      /\ Following!Fold(Has(k, c), s2c[c]) \in Place(k)
  BY PlacesAre
<1>2. Following!Fold(Has(k, c), Append(s2c[c], m))
        = Follow(Following!Fold(Has(k, c), s2c[c]), m)
  BY <1>1, Following!FoldOfAppend
<1> QED
  BY <1>1, <1>2, FollowIs DEF WillHave

\* The first datagram is already in what he will have.
LEMMA WillHaveOfTail ==
  ASSUME TInv, NEW k \in Key, NEW c \in Client, s2c[c] # <<>>
  PROVE  /\ Head(s2c[c]) \in ToClientMsg /\ Tail(s2c[c]) \in Seq(ToClientMsg)
         /\ Follow(Has(k, c), Head(s2c[c])) \in Place(k)
         /\ Follow(Has(k, c), Head(s2c[c])).at = Moved(k, Has(k, c).at, Head(s2c[c]))
         /\ WillHave(k, c) = Following!Fold(Follow(Has(k, c), Head(s2c[c])), Tail(s2c[c])).at
<1>1. Has(k, c) \in Place(k) /\ s2c[c] \in Seq(ToClientMsg)
  BY PlacesAre
<1>2. Head(s2c[c]) \in ToClientMsg /\ Tail(s2c[c]) \in Seq(ToClientMsg)
  BY <1>1, SetOfTail
<1>3. Following!Fold(Has(k, c), s2c[c])
        = Following!Fold(Follow(Has(k, c), Head(s2c[c])), Tail(s2c[c]))
  BY <1>1, Following!FoldOfTail
<1> QED
  BY <1>1, <1>2, <1>3, FollowIs DEF WillHave

\* A client who has been surprised stays so.
LEMMA NoSurpriseYet ==
  ASSUME TInv, NEW k \in Key, NEW c \in Client, s2c[c] # <<>>,
         WillHave(k, c) # "wrong"
  PROVE  Moved(k, Has(k, c).at, Head(s2c[c])) # "wrong"
<1> DEFINE x == Follow(Has(k, c), Head(s2c[c]))
           S == [key : {k}, at : {"wrong"}]
<1>1. /\ x \in Place(k) /\ x.at = Moved(k, Has(k, c).at, Head(s2c[c]))
      /\ Tail(s2c[c]) \in Seq(ToClientMsg)
      /\ WillHave(k, c) = Following!Fold(x, Tail(s2c[c])).at
  BY WillHaveOfTail
<1>2. \A y \in S : \A m \in ToClientMsg : Follow(y, m) \in S
  BY FollowIs, MovedIs DEF Follow, Ats
<1> HIDE DEF x
<1>3. ASSUME x.at = "wrong" PROVE FALSE
  <2>1. x \in S
    BY <1>1, <1>3 DEF Place
  <2>2. Following!Fold(x, Tail(s2c[c])) \in S
    <3> HIDE DEF S
    <3> QED
      BY <1>1, <1>2, <2>1, Following!FoldStays
  <2> QED
    BY <1>1, <2>2
<1> QED
  BY <1>1, <1>3

\* Nothing is on its way to a client that has stopped.
LEMMA NothingToCome ==
  ASSUME NEW k \in Key, NEW c \in Client, s2c[c] = <<>>
  PROVE  WillHave(k, c) = Has(k, c).at
BY Following!FoldOfNothing DEF WillHave

-----------------------------------------------------------------------------
(* What the steps have in common.                                          *)

\* Nothing that is said of the key and the client has changed.
Same(k, c) ==
  /\ k \in list'[c] <=> k \in list[c]
  /\ synced'[c] = synced[c] /\ snap'[c] = snap[c]
  /\ c2s'[c] = c2s[c] /\ s2c'[c] = s2c[c]
  /\ c \in known => c \in known'

\* He has the same, so he follows as before.
LEMMA StillFollows ==
  ASSUME NEW k \in Key, NEW c \in Client, Follows(k, c), k \in srv' <=> k \in srv,
         WillHave(k, c)' = WillHave(k, c), c \in known => c \in known'
  PROVE  Follows(k, c)'
BY DEF Follows, At

\* A client whose list and queue stay will have what it would have had.
LEMMA SameWill ==
  ASSUME NEW k \in Key, NEW c \in Client, k \in list'[c] <=> k \in list[c],
         synced'[c] = synced[c], s2c'[c] = s2c[c]
  PROVE  Has(k, c)' = Has(k, c) /\ WillHave(k, c)' = WillHave(k, c)
BY DEF WillHave, Has, At

\* Whoever a step does not concern goes on as before, if the server does.
LEMMA SameFollows ==
  ASSUME NEW k \in Key, NEW c \in Client, Same(k, c), k \in srv' <=> k \in srv
  PROVE  /\ Quiet(k, c) => Quiet(k, c)'
         /\ Clear(k, c) => Clear(k, c)'
         /\ Follows(k, c) => Follows(k, c)'
<1>1. Follows(k, c) => Follows(k, c)'
  BY SameWill, StillFollows DEF Same
<1> QED
  BY <1>1 DEF Same, Quiet, Clear

\* The same for an owner.
LEMMA SameLeads ==
  ASSUME NEW k \in Key, NEW c \in Client, Leads(k, c), Same(k, c), k \in srv' <=> k \in srv
  PROVE  Leads(k, c)'
BY DEF Same, Leads, LastCommand, ListsAgree, ListsLate, Quiet

\* A step of one client, or of the server with one client: what is left to
\* show is about that client.
LEMMA OneClient ==
  ASSUME NEW k \in Key, OwnedKey(k), NEW c \in Client, owner'[k] = owner[k],
         k \in srv' <=> k \in srv, \A d \in Client \ {c} : Same(k, d),
         Quiet(k, c) => Quiet(k, c)',
         k \notin srv /\ Quiet(k, c) /\ Clear(k, c) /\ Follows(k, c) => Clear(k, c)',
         Quiet(k, c) /\ Follows(k, c) => Follows(k, c)',
         Leads(k, c) => Leads(k, c)'
  PROVE  OwnedKey(k)'
<1>1. \A d \in Client \ {c} : /\ Quiet(k, d) => Quiet(k, d)'
                              /\ Clear(k, d) => Clear(k, d)'
                              /\ Follows(k, d) => Follows(k, d)'
                              /\ Leads(k, d) => Leads(k, d)'
  BY SameFollows, SameLeads
<1>2. ASSUME Untouched(k) PROVE Untouched(k)'
  BY <1>1, <1>2 DEF Untouched
<1>3. ASSUME NEW o \in Client, Owned(k, o) PROVE Owned(k, o)'
  BY <1>1, <1>3 DEF Owned
<1>4. ASSUME NEW o \in Client, owner'[k] = o PROVE Owned(k, o)'
  BY <1>3, <1>4 DEF OwnedKey
<1>5. owner'[k] = Nobody => Untouched(k)'
  BY <1>2 DEF OwnedKey
<1> QED
  BY <1>4, <1>5 DEF OwnedKey

\* A key changed by many is no one's.
LEMMA NoOnes ==
  ASSUME NEW k \in Key, owner'[k] = Many
  PROVE  OwnedKey(k)'
BY BanSyncAssumption DEF OwnedKey, Nobody, Many

\* One more datagram to the server, that does not concern the key.
LEMMA LeadsAppended ==
  ASSUME TInv, NEW k \in Key, NEW c \in Client, Leads(k, c), NEW m \in ToServerMsg,
         c2s'[c] = Append(c2s[c], m), ~ Concerns(m, k),
         m.type = "upload" => (k \in m.keys <=> k \in list[c]),
         k \in list'[c] <=> k \in list[c], k \in srv' <=> k \in srv,
         snap'[c] \subseteq snap[c] \cup {list'[c]}, s2c'[c] = s2c[c]
  PROVE  Leads(k, c)'
<1> DEFINE n == Len(c2s[c])
<1>1. /\ n \in Nat /\ DOMAIN c2s[c] = 1 .. n /\ DOMAIN c2s'[c] = 1 .. n + 1
      /\ \A i \in 1 .. n : c2s'[c][i] = c2s[c][i]
      /\ c2s'[c][n + 1] = m
  BY DEF TInv, Types
<1>2. /\ ToSet(c2s'[c]) = ToSet(c2s[c]) \cup {m}
  BY SetOfAppend DEF TInv, Types
<1> HIDE DEF n
<1>3. Quiet(k, c)' <=> Quiet(k, c)
  BY <1>2 DEF Quiet
<1>4. LastCommand(k, c)'
  <2>1. ASSUME NEW i \in DOMAIN c2s'[c], Concerns(c2s'[c][i], k),
               \A j \in DOMAIN c2s'[c] : Concerns(c2s'[c][j], k) => j <= i
        PROVE  c2s'[c][i].type = (IF k \in list'[c] THEN "add" ELSE "remove")
    <3>1. i \in DOMAIN c2s[c] /\ c2s'[c][i] = c2s[c][i]
      BY <1>1, <2>1
    <3>2. \A j \in DOMAIN c2s[c] : Concerns(c2s[c][j], k) => j <= i
      BY <1>1, <2>1
    <3> QED
      BY <2>1, <3>1, <3>2 DEF Leads, LastCommand
  <2> QED
    BY <1>3, <2>1 DEF Leads, LastCommand
<1>5. ListsAgree(k, c)'
  BY <1>2 DEF Leads, ListsAgree
<1>6. ListsLate(k, c)'
  BY <1>1, <1>3 DEF Leads, ListsLate
<1> QED
  BY <1>4, <1>5, <1>6 DEF Leads

\* One datagram to the server less: what the server has now must agree.
LEMMA LeadsOfTail ==
  ASSUME TInv, NEW k \in Key, NEW c \in Client, Leads(k, c), c2s[c] # <<>>,
         c2s'[c] = Tail(c2s[c]), k \in list'[c] <=> k \in list[c],
         Quiet(k, c)' => (k \in srv' <=> k \in list[c]),
         snap'[c] = snap[c],
         \A m \in ToSet(s2c'[c]) :
           IF IsList(m) THEN /\ k \in m.keys <=> k \in list[c]
                             /\ Quiet(k, c) \/ \E x \in ToSet(s2c[c]) : IsList(x)
                        ELSE k \notin m.keys
  PROVE  Leads(k, c)'
<1> DEFINE n == Len(c2s[c])
<1>1. /\ n \in Nat \ {0} /\ DOMAIN c2s[c] = 1 .. n /\ DOMAIN c2s'[c] = 1 .. n - 1
      /\ \A i \in 1 .. n - 1 : c2s'[c][i] = c2s[c][i + 1]
  BY DEF TInv, Types
<1>2. ToSet(c2s'[c]) \subseteq ToSet(c2s[c])
  BY SetOfTail DEF TInv, Types
<1> HIDE DEF n
<1>3. LastCommand(k, c)'
  <2>1. ASSUME NEW i \in DOMAIN c2s'[c], Concerns(c2s'[c][i], k),
               \A j \in DOMAIN c2s'[c] : Concerns(c2s'[c][j], k) => j <= i
        PROVE  c2s'[c][i].type = (IF k \in list'[c] THEN "add" ELSE "remove")
    <3>1. i + 1 \in DOMAIN c2s[c] /\ c2s'[c][i] = c2s[c][i + 1]
      BY <1>1, <2>1
    <3>2. ASSUME NEW j \in DOMAIN c2s[c], Concerns(c2s[c][j], k) PROVE j <= i + 1
      <4>1. CASE j = 1
        BY <1>1, <4>1
      <4>2. CASE j # 1
        <5>1. j - 1 \in DOMAIN c2s'[c] /\ c2s'[c][j - 1] = c2s[c][j]
          BY <1>1, <4>2
        <5> QED
          BY <1>1, <2>1, <3>2, <5>1
      <4> QED
        BY <4>1, <4>2
    <3> QED
      BY <2>1, <3>1, <3>2 DEF Leads, LastCommand
  <2> QED
    BY <2>1 DEF LastCommand
<1>4. ListsAgree(k, c)'
  BY <1>2 DEF Leads, ListsAgree
<1>5. ListsLate(k, c)'
  <2>1. ASSUME NEW i \in DOMAIN c2s'[c], NEW j \in DOMAIN c2s'[c],
               c2s'[c][i].type \in {"upload", "request"}, Concerns(c2s'[c][j], k)
        PROVE  j < i
    <3>1. /\ i + 1 \in DOMAIN c2s[c] /\ c2s'[c][i] = c2s[c][i + 1]
          /\ j + 1 \in DOMAIN c2s[c] /\ c2s'[c][j] = c2s[c][j + 1]
      BY <1>1
    <3>2. j + 1 < i + 1
      BY <2>1, <3>1 DEF Leads, ListsLate
    <3> QED
      BY <1>1, <3>2
  <2>2. (\E m \in ToSet(s2c'[c]) : IsList(m)) => Quiet(k, c)
    BY DEF Leads, ListsLate
  <2>3. Quiet(k, c) => Quiet(k, c)'
    BY <1>2 DEF Quiet
  <2> QED
    BY <2>1, <2>2, <2>3 DEF ListsLate
<1> QED
  BY <1>3, <1>4, <1>5 DEF Leads

\* The first datagram does not concern the key: no news of it.
LEMMA QuietOfTail ==
  ASSUME TInv, NEW k \in Key, NEW c \in Client, c2s[c] # <<>>, c2s'[c] = Tail(c2s[c])
  PROVE  /\ Quiet(k, c) => Quiet(k, c)'
         /\ ~ Concerns(Head(c2s[c]), k) => (Quiet(k, c)' => Quiet(k, c))
<1>1. /\ DOMAIN c2s[c] = 1 .. Len(c2s[c]) /\ Len(c2s[c]) \in Nat \ {0}
      /\ c2s[c][1] = Head(c2s[c])
      /\ DOMAIN c2s'[c] = 1 .. Len(c2s[c]) - 1
      /\ \A i \in 1 .. Len(c2s[c]) - 1 : c2s'[c][i] = c2s[c][i + 1]
  BY DEF TInv, Types
<1>2. \A x \in ToSet(c2s'[c]) : x \in ToSet(c2s[c])
  BY SetOfTail DEF TInv, Types
<1>3. ASSUME NEW x \in ToSet(c2s[c]) PROVE x = Head(c2s[c]) \/ x \in ToSet(c2s'[c])
  <2>1. PICK i \in DOMAIN c2s[c] : x = c2s[c][i]
    BY DEF ToSet
  <2>2. CASE i = 1
    BY <1>1, <2>1, <2>2
  <2>3. CASE i # 1
    <3>1. i - 1 \in DOMAIN c2s'[c] /\ c2s'[c][i - 1] = c2s[c][i]
      BY <1>1, <2>3
    <3> QED
      BY <2>1, <3>1 DEF ToSet
  <2> QED
    BY <2>2, <2>3
<1> QED
  BY <1>2, <1>3 DEF Quiet

\* A list in flight to the owner agrees with him, and was asked for late.
LEMMA LeaderIsSent ==
  ASSUME NEW k \in Key, NEW c \in Client, Leads(k, c), NEW m \in ToSet(s2c[c])
  PROVE  IF IsList(m) THEN /\ k \in m.keys <=> k \in list[c]
                           /\ Quiet(k, c) \/ \E x \in ToSet(s2c[c]) : IsList(x)
                      ELSE k \notin m.keys
BY DEF Leads, ListsAgree

-----------------------------------------------------------------------------
(* The steps of the clients.                                               *)

\* A datagram that does not concern the key, or the file of the list, is on
\* its way to the server.
LEMMA SendsOfOthers ==
  ASSUME TInv, NEW k \in Key, OwnedKey(k), NEW c \in Client, NEW m \in ToServerMsg,
         ToServer(c, m), ~ Concerns(m, k),
         m.type = "upload" => m.keys \in snap[c],
         \A d \in Client : k \in list'[d] <=> k \in list[d],
         snap' = snap \/ snap' = [snap EXCEPT ![c] = {}],
         owner'[k] = owner[k], UNCHANGED <<srv, known, synced, s2c>>
  PROVE  OwnedKey(k)'
<1>1. /\ c2s'[c] = Append(c2s[c], m) /\ ToSet(c2s'[c]) = ToSet(c2s[c]) \cup {m}
      /\ \A d \in Client \ {c} : c2s'[d] = c2s[d]
  BY ToServerIs
<1>2. snap'[c] \subseteq snap[c] /\ \A d \in Client \ {c} : snap'[d] = snap[d]
  BY DEF TInv, Types
<1>3. \A d \in Client \ {c} : Same(k, d)
  BY <1>1, <1>2 DEF Same
<1>4. Quiet(k, c) => Quiet(k, c)'
  BY <1>1 DEF Quiet
<1>5. Clear(k, c) => Clear(k, c)'
  BY DEF Clear
<1>6. Follows(k, c) => Follows(k, c)'
  BY SameWill, StillFollows
<1>7. ASSUME Leads(k, c) PROVE Leads(k, c)'
  <2>1. m.type = "upload" => (k \in m.keys <=> k \in list[c])
    BY <1>7 DEF Leads, ListsAgree
  <2> QED
    BY <1>1, <1>2, <1>7, <2>1, LeadsAppended
<1> QED
  BY <1>3, <1>4, <1>5, <1>6, <1>7, OneClient

\* A login, a request, a heartbeat or an upload is no command.
LEMMA OwnedSends ==
  ASSUME OInv, NEW c \in Client, NEW k \in Key,
         Login(c) \/ Request(c) \/ Heartbeat(c) \/ Announce(c)
  PROVE  OwnedKey(k)'
<1> USE DEF server, clients, ghosts
<1>1. TInv /\ OwnedKey(k)
  BY DEF OInv, OwnedKeys
<1>2. PICK m \in ToServerMsg : /\ ToServer(c, m) /\ ~ IsCommand(m)
                               /\ m.type = "upload" => m.keys \in snap[c]
  <2>1. \A S \in SUBSET Key, t \in {"login", "request", "heartbeat", "upload"} :
          /\ Msg(t, S) \in ToServerMsg /\ ~ IsCommand(Msg(t, S))
          /\ Msg(t, S).type = t /\ Msg(t, S).keys = S
    BY ToServerMsgIs DEF Msg, IsCommand
  <2>2. {} \in SUBSET Key /\ snap[c] \subseteq SUBSET Key
    BY <1>1 DEF TInv, Types
  <2>3. CASE Announce(c)
    <3>1. PICK file \in snap[c] : ToServer(c, Msg("upload", file))
      BY <2>3 DEF Announce
    <3>2. file \in SUBSET Key
      BY <2>2
    <3> QED
      BY <2>1, <3>1, <3>2
  <2>4. CASE Login(c) \/ Request(c) \/ Heartbeat(c)
    <3>1. PICK t \in {"login", "request", "heartbeat"} : ToServer(c, Msg(t, {}))
      BY <2>4 DEF Login, Request, Heartbeat
    <3> QED
      BY <2>1, <2>2, <3>1
  <2> QED
    BY <2>3, <2>4
<1>3. ~ Concerns(m, k)
  BY <1>2 DEF Concerns
<1>4. /\ snap' = snap \/ snap' = [snap EXCEPT ![c] = {}]
      /\ UNCHANGED <<list, owner, srv, known, synced, s2c>>
  BY DEF Login, Request, Heartbeat, Announce
<1> QED
  BY <1>1, <1>2, <1>3, <1>4, SendsOfOthers

\* The file for an upload has the list as it is.
LEMMA OwnedSnapshot ==
  ASSUME OInv, NEW c \in Client, NEW k \in Key, TakeSnapshot(c)
  PROVE  OwnedKey(k)'
<1> USE DEF server, clients, ghosts
<1>1. TInv /\ OwnedKey(k)
  BY DEF OInv, OwnedKeys
<1>2. /\ snap'[c] = {list[c]} /\ \A d \in Client \ {c} : snap'[d] = snap[d]
      /\ UNCHANGED <<list, owner, srv, known, synced, s2c, c2s>>
  BY <1>1 DEF TakeSnapshot, TInv, Types
<1>3. \A d \in Client \ {c} : Same(k, d)
  BY <1>2 DEF Same
<1>4. Quiet(k, c) => Quiet(k, c)'
  BY <1>2 DEF Quiet
<1>5. Clear(k, c) => Clear(k, c)'
  BY <1>2 DEF Clear
<1>6. Follows(k, c) => Follows(k, c)'
  BY <1>2, SameWill, StillFollows
<1>7. Leads(k, c) => Leads(k, c)'
  BY <1>2 DEF Leads, LastCommand, ListsAgree, ListsLate, Quiet
<1> QED
  BY <1>1, <1>2, <1>3, <1>4, <1>5, <1>6, <1>7, OneClient

\* Whoever claims a key leads the server: his command is the last, and no list
\* is on its way to him.
LEMMA Claimed ==
  ASSUME TInv, NEW k \in Key, OwnedKey(k), NEW c \in Client, NEW m \in ToServerMsg,
         ToServer(c, m), m.keys = {k},
         m.type = (IF k \in list'[c] THEN "add" ELSE "remove"),
         \A d \in Client \ {c} : list'[d] = list[d],
         ~ Refreshing(c), owner[k] \in {Nobody, c}, owner'[k] = c,
         UNCHANGED <<srv, known, synced, snap, s2c>>
  PROVE  OwnedKey(k)'
<1>1. /\ c2s'[c] = Append(c2s[c], m) /\ ToSet(c2s'[c]) = ToSet(c2s[c]) \cup {m}
      /\ \A d \in Client \ {c} : c2s'[d] = c2s[d]
  BY ToServerIs
<1>2. \A d \in Client \ {c} : Quiet(k, d) /\ Follows(k, d)
  BY DEF OwnedKey, Owned, Untouched
<1>3. \A d \in Client \ {c} : Same(k, d)
  BY <1>1 DEF Same
<1>4. \A d \in Client \ {c} : Quiet(k, d)' /\ Follows(k, d)'
  BY <1>2, <1>3, SameFollows
<1> DEFINE n == Len(c2s[c])
<1>5. /\ n \in Nat /\ DOMAIN c2s[c] = 1 .. n /\ DOMAIN c2s'[c] = 1 .. n + 1
      /\ \A i \in 1 .. n : c2s'[c][i] = c2s[c][i]
      /\ c2s'[c][n + 1] = m
  BY <1>1 DEF TInv, Types
<1> HIDE DEF n
<1>6. Concerns(m, k) /\ m.type \in {"add", "remove"}
  BY DEF Concerns, IsCommand
<1>7. LastCommand(k, c)'
  <2>1. ~ Quiet(k, c)'
    BY <1>1, <1>6 DEF Quiet
  <2>2. ASSUME NEW i \in DOMAIN c2s'[c],
               \A j \in DOMAIN c2s'[c] : Concerns(c2s'[c][j], k) => j <= i
        PROVE  i = n + 1
    <3>1. n + 1 <= i
      BY <1>5, <1>6, <2>2
    <3> QED
      BY <1>5, <3>1
  <2> QED
    BY <1>5, <2>1, <2>2 DEF LastCommand
<1>8. /\ snap'[c] = {} /\ \A x \in ToSet(c2s'[c]) : x.type \notin {"upload", "request"}
      /\ \A x \in ToSet(s2c[c]) : ~ IsList(x)
  BY <1>1, <1>6 DEF Refreshing, IsList
<1>9. \A x \in ToSet(s2c[c]) : ~ IsList(x) => k \notin x.keys
  BY DEF OwnedKey, Owned, Untouched, Clear, Leads, ListsAgree
<1>10. ListsAgree(k, c)'
  BY <1>8, <1>9 DEF ListsAgree
<1>11. ListsLate(k, c)'
  <2>1. \A i \in DOMAIN c2s'[c] : c2s'[c][i].type \notin {"upload", "request"}
    BY <1>8 DEF ToSet
  <2> QED
    BY <1>8, <2>1 DEF ListsLate
<1>12. Owned(k, c)'
  BY <1>4, <1>7, <1>10, <1>11 DEF Owned, Leads
<1>13. c # Nobody
  BY BanSyncAssumption
<1> QED
  BY <1>12, <1>13 DEF OwnedKey

\* A command makes its sender the owner of the key, or it has several from then on.
LEMMA OwnedCommands ==
  ASSUME OInv, NEW c \in Client, NEW k \in Key, NEW b \in Key, Ban(c, b) \/ Unban(c, b)
  PROVE  OwnedKey(k)'
<1> USE DEF server, clients, ghosts
<1>1. TInv /\ OwnedKey(k)
  BY DEF OInv, OwnedKeys
<1> DEFINE m == IF Ban(c, b) THEN Msg("add", {b}) ELSE Msg("remove", {b})
<1>2. /\ ToServer(c, m) /\ m.keys = {b}
      /\ m.type = (IF b \in list'[c] THEN "add" ELSE "remove")
      /\ \A d \in Client \ {c} : list'[d] = list[d]
      /\ \A x \in Key \ {b} : x \in list'[c] <=> x \in list[c]
      /\ Claim(c, b) /\ UNCHANGED <<srv, known, synced, snap, s2c>>
  <2>1. CASE Ban(c, b)
    BY <1>1, <2>1 DEF Ban, Msg, TInv, Types
  <2>2. CASE ~ Ban(c, b)
    BY <1>1, <2>2 DEF Unban, Msg, TInv, Types
  <2> QED
    BY <2>1, <2>2
<1>3. m \in ToServerMsg
  BY ToServerMsgIs
<1> HIDE DEF m
<1>4. CASE k = b
  <2>1. \/ owner'[k] = Many
        \/ ~ Refreshing(c) /\ owner[k] \in {Nobody, c} /\ owner'[k] = c
    BY <1>1, <1>2, <1>4 DEF Claim, TInv, Types
  <2> QED
    BY <1>1, <1>2, <1>3, <1>4, <2>1, NoOnes, Claimed
<1>5. CASE k # b
  <2>1. owner'[k] = owner[k]
    BY <1>1, <1>2, <1>5 DEF Claim, TInv, Types
  <2>2. ~ Concerns(m, k) /\ m.type # "upload"
    BY <1>2, <1>5 DEF Concerns
  <2>3. \A d \in Client : k \in list'[d] <=> k \in list[d]
    BY <1>2, <1>5
  <2> QED
    BY <1>1, <1>2, <1>3, <2>1, <2>2, <2>3, SendsOfOthers
<1> QED
  BY <1>4, <1>5

\* A client takes what it was going to have.
LEMMA OwnedHandle ==
  ASSUME OInv, NEW c \in Client, NEW k \in Key, ClientHandle(c)
  PROVE  OwnedKey(k)'
<1> USE DEF server, clients, ghosts
<1> DEFINE m == Head(s2c[c])
<1>1. TInv /\ OwnedKey(k)
  BY DEF OInv, OwnedKeys
<1>2. /\ s2c[c] # <<>> /\ m \in ToClientMsg /\ m \in ToSet(s2c[c])
      /\ s2c'[c] = Tail(s2c[c]) /\ ToSet(s2c'[c]) \subseteq ToSet(s2c[c])
      /\ \A d \in Client \ {c} : s2c'[d] = s2c[d]
  BY <1>1, SetOfTail DEF ClientHandle, TInv, Types
<1>3. /\ list'[c] = Received(list[c], m)
      /\ synced'[c] = IF m.type = "bans" THEN "fully"
                      ELSE IF m.type = "receive" /\ synced[c] = "no" THEN "partly" ELSE synced[c]
      /\ \A d \in Client \ {c} : list'[d] = list[d] /\ synced'[d] = synced[d]
      /\ UNCHANGED <<srv, known, snap, c2s, owner>>
  BY <1>1 DEF ClientHandle, TInv, Types
<1>4. m.type \in {"add", "remove", "bans", "receive"} /\ (IsList(m) <=> ~ IsCommand(m))
  BY <1>2, ToClientMsgIs
<1> HIDE DEF m
<1>5. \A d \in Client \ {c} : Same(k, d)
  BY <1>2, <1>3 DEF Same
<1>6. Quiet(k, c) => Quiet(k, c)'
  BY <1>3 DEF Quiet
<1>7. Clear(k, c) => Clear(k, c)'
  BY <1>2, <1>3, <1>4 DEF Clear, Received
<1>8. ASSUME Follows(k, c) PROVE Follows(k, c)'
  <2> DEFINE at == Has(k, c).at
  <2>1. WillHave(k, c) # "wrong"
    BY <1>8 DEF Follows, At
  <2>2. Moved(k, at, m) # "wrong"
    BY <1>1, <1>2, <2>1, NoSurpriseYet DEF m
  <2>3. /\ Has(k, c) \in Place(k) /\ at \in Ats /\ at # "wrong"
        /\ at = IF synced[c] = "fully" THEN At(k, list[c]) ELSE "unknown"
    BY <1>1, PlacesAre DEF Has, At, Place
  <2>4. Has(k, c)' = [key |-> k, at |-> IF synced'[c] = "fully" THEN At(k, list'[c])
                                       ELSE "unknown"]
    BY DEF Has, At
  <2> HIDE DEF at
  <2>5. (IF synced'[c] = "fully" THEN At(k, list'[c]) ELSE "unknown") = Moved(k, at, m)
    <3>1. CASE m.type = "bans"
      <4>1. list'[c] = m.keys /\ synced'[c] = "fully" /\ IsList(m)
        BY <1>3, <3>1 DEF Received, IsList
      <4>2. at = "unknown" => Moved(k, at, m) = At(k, m.keys)
        BY <1>2, <2>3, <3>1, MovedIs
      <4>3. at # "unknown" => at = At(k, m.keys) /\ Moved(k, at, m) = at
        <5>1. at # "unknown" => at \in {"in", "out"}
          BY <2>3 DEF Ats
        <5> QED
          BY <1>2, <2>2, <2>3, <4>1, <5>1, MovedIs
      <4> QED
        BY <4>1, <4>2, <4>3
    <3>2. CASE m.type = "receive"
      <4>1. list'[c] = list[c] \cup m.keys /\ IsList(m) /\ synced'[c] = "fully" <=> synced[c] = "fully"
        BY <1>3, <3>2 DEF Received, IsList
      <4>2. CASE synced[c] = "fully"
        <5>1. at = At(k, list[c]) /\ at \in {"in", "out"}
          BY <2>3, <4>2 DEF At
        <5>2. at = At(k, m.keys) /\ Moved(k, at, m) = at
          BY <1>2, <2>2, <2>3, <4>1, <5>1, MovedIs
        <5> QED
          BY <1>3, <3>2, <4>1, <4>2, <5>1, <5>2 DEF At, Received
      <4>3. CASE synced[c] # "fully"
        BY <1>2, <1>3, <2>3, <3>2, <4>3, MovedIs
      <4> QED
        BY <4>2, <4>3
    <3>3. CASE IsCommand(m)
      <4>1. m.type \in {"add", "remove"} /\ synced'[c] = synced[c]
        BY <1>3, <3>3 DEF IsCommand
      <4>2. CASE synced[c] = "fully" /\ k \in m.keys
        <5>1. at \in {"in", "out"}
          BY <2>3, <4>2 DEF At
        <5>2. Moved(k, at, m) = IF m.type = "add" THEN "in" ELSE "out"
          BY <1>2, <2>3, <3>3, <4>2, <5>1, MovedIs
        <5> QED
          BY <1>3, <4>1, <4>2, <5>2 DEF At, Received
      <4>3. CASE synced[c] = "fully" /\ k \notin m.keys
        <5>1. Moved(k, at, m) = at
          BY <1>2, <2>3, <3>3, <4>3, MovedIs
        <5> QED
          BY <1>3, <2>3, <4>1, <4>3, <5>1 DEF At, Received
      <4>4. CASE synced[c] # "fully"
        BY <1>2, <2>3, <3>3, <4>1, <4>4, MovedIs
      <4> QED
        BY <4>2, <4>3, <4>4
    <3> QED
      BY <1>4, <3>1, <3>2, <3>3 DEF IsCommand
  <2>6. Has(k, c)' = Follow(Has(k, c), m)
    BY <2>3, <2>4, <2>5 DEF at, Follow, Place
  <2>7. WillHave(k, c)' = WillHave(k, c)
    BY <1>1, <1>2, <2>6, WillHaveOfTail DEF WillHave, m
  <2> QED
    BY <1>3, <1>8, <2>7, StillFollows
<1>9. ASSUME Leads(k, c) PROVE Leads(k, c)'
  <2>1. IF IsList(m) THEN k \in m.keys <=> k \in list[c] ELSE k \notin m.keys
    BY <1>2, <1>9 DEF Leads, ListsAgree
  <2>2. k \in list'[c] <=> k \in list[c]
    BY <1>3, <1>4, <2>1 DEF Received, IsList
  <2> QED
    BY <1>2, <1>3, <1>9, <2>2 DEF Leads, LastCommand, ListsAgree, ListsLate, Quiet
<1> QED
  BY <1>1, <1>3, <1>5, <1>6, <1>7, <1>8, <1>9, OneClient

\* A client that stops has nothing to come, and no list that counts.
LEMMA OwnedQuit ==
  ASSUME OInv, NEW c \in Client, NEW k \in Key, Quit(c)
  PROVE  OwnedKey(k)'
<1>1. TInv /\ OwnedKey(k)
  BY DEF OInv, OwnedKeys
<1>2. /\ s2c'[c] = <<>> /\ synced'[c] = "no" /\ snap'[c] = {}
      /\ \A d \in Client \ {c} : /\ s2c'[d] = s2c[d] /\ synced'[d] = synced[d]
                                 /\ snap'[d] = snap[d]
                                 /\ (d \in known => d \in known')
      /\ UNCHANGED <<srv, list, c2s, owner>>
  BY <1>1 DEF Quit, TInv, Types
<1>3. \A d \in Client \ {c} : Same(k, d)
  BY <1>2 DEF Same
<1>4. Quiet(k, c) => Quiet(k, c)'
  BY <1>2 DEF Quiet
<1>5. Clear(k, c)'
  BY <1>2, SetOfNothing DEF Clear
<1>6. Follows(k, c)'
  <2>1. Has(k, c)'.at = "unknown"
    BY <1>2 DEF Has
  <2>2. WillHave(k, c)' = "unknown"
    BY <1>2, <2>1, Following!FoldOfNothing DEF WillHave
  <2> QED
    BY <2>2 DEF Follows
<1>7. Leads(k, c) => Leads(k, c)'
  BY <1>2, SetOfNothing DEF Leads, LastCommand, ListsAgree, ListsLate, Quiet
<1> QED
  BY <1>1, <1>2, <1>3, <1>4, <1>5, <1>6, <1>7, OneClient

-----------------------------------------------------------------------------
(* The steps of the server and of the network.                             *)

\* The first datagram of a client, that does not concern the key, is taken
\* from its queue, and changes nothing else.
LEMMA TakenOfOthers ==
  ASSUME TInv, NEW k \in Key, OwnedKey(k), NEW c \in Client, c2s[c] # <<>>,
         c2s'[c] = Tail(c2s[c]), \A d \in Client \ {c} : c2s'[d] = c2s[d],
         ~ Concerns(Head(c2s[c]), k), known \subseteq known',
         owner'[k] = owner[k], UNCHANGED <<srv, list, synced, snap, s2c>>
  PROVE  OwnedKey(k)'
<1>1. \A d \in Client \ {c} : Same(k, d)
  BY DEF Same
<1>2. Quiet(k, c) <=> Quiet(k, c)'
  BY QuietOfTail
<1>3. Clear(k, c) => Clear(k, c)'
  BY DEF Clear
<1>4. Follows(k, c) => Follows(k, c)'
  BY SameWill, StillFollows
<1>5. ASSUME Leads(k, c) PROVE Leads(k, c)'
  <2>1. Quiet(k, c)' => (k \in srv' <=> k \in list[c])
    BY <1>2, <1>5 DEF Leads, LastCommand
  <2>2. \A m \in ToSet(s2c'[c]) :
          IF IsList(m) THEN /\ k \in m.keys <=> k \in list[c]
                            /\ Quiet(k, c) \/ \E x \in ToSet(s2c[c]) : IsList(x)
                       ELSE k \notin m.keys
    BY <1>5, LeaderIsSent
  <2> QED
    BY <1>5, <2>1, <2>2, LeadsOfTail
<1> QED
  BY <1>1, <1>2, <1>3, <1>4, <1>5, OneClient

\* A login or a heartbeat only makes the client known.
LEMMA OwnedHello ==
  ASSUME OInv, NEW c \in Client, NEW k \in Key, HandleHello(c)
  PROVE  OwnedKey(k)'
<1> USE DEF server, clients, ghosts
<1>1. TInv /\ OwnedKey(k)
  BY DEF OInv, OwnedKeys
<1>2. /\ c2s[c] # <<>> /\ c2s'[c] = Tail(c2s[c]) /\ \A d \in Client \ {c} : c2s'[d] = c2s[d]
      /\ known \subseteq known'
  BY <1>1, HeardIs DEF HandleHello, Handles
<1>3. ~ Concerns(Head(c2s[c]), k)
  BY DEF HandleHello, Handles, Concerns, IsCommand
<1> QED
  BY <1>1, <1>2, <1>3, TakenOfOthers DEF HandleHello

\* A lost datagram that names a key takes it from its owner; any other says nothing
\* about the key.
LEMMA OwnedLostToServer ==
  ASSUME OInv, NEW c \in Client, NEW k \in Key, LoseToServer(c)
  PROVE  OwnedKey(k)'
<1> USE DEF server, clients, ghosts
<1>1. TInv /\ OwnedKey(k)
  BY DEF OInv, OwnedKeys
<1>2. /\ c2s[c] # <<>> /\ c2s'[c] = Tail(c2s[c]) /\ \A d \in Client \ {c} : c2s'[d] = c2s[d]
  BY <1>1, FromServerQueue DEF LoseToServer
<1>3. owner'[k] = IF k \in Head(c2s[c]).keys THEN Many ELSE owner[k]
  BY DEF LoseToServer, Disown
<1>4. CASE k \in Head(c2s[c]).keys
  BY <1>3, <1>4, NoOnes
<1>5. CASE k \notin Head(c2s[c]).keys
  <2>1. ~ Concerns(Head(c2s[c]), k)
    BY <1>5 DEF Concerns
  <2> QED
    BY <1>1, <1>2, <1>3, <1>5, <2>1, TakenOfOthers DEF LoseToServer
<1> QED
  BY <1>4, <1>5

\* What a client would have had with a datagram that does not name the key,
\* he will have without it; but he may now be without the list.
LEMMA OwnedLostToClient ==
  ASSUME OInv, NEW c \in Client, NEW k \in Key, LoseToClient(c)
  PROVE  OwnedKey(k)'
<1> USE DEF server, clients, ghosts
<1> DEFINE m == Head(s2c[c])
<1>1. TInv /\ OwnedKey(k)
  BY DEF OInv, OwnedKeys
<1>2. /\ s2c[c] # <<>> /\ m \in ToClientMsg /\ s2c[c] \in Seq(ToClientMsg)
      /\ s2c'[c] = Tail(s2c[c]) /\ ToSet(s2c'[c]) \subseteq ToSet(s2c[c])
      /\ \A d \in Client \ {c} : s2c'[d] = s2c[d]
  BY <1>1, SetOfTail DEF LoseToClient, TInv, Types
<1>3. owner'[k] = IF k \in m.keys THEN Many ELSE owner[k]
  BY DEF LoseToClient, Disown
<1>4. UNCHANGED <<srv, known, list, synced, snap, c2s>>
  BY DEF LoseToClient
<1>5. m.type \in {"add", "remove", "bans", "receive"} /\ (IsList(m) <=> ~ IsCommand(m))
  BY <1>2, ToClientMsgIs
<1> HIDE DEF m
<1>6. CASE k \in m.keys
  BY <1>3, <1>6, NoOnes
<1>7. CASE k \notin m.keys
  <2>1. \A d \in Client \ {c} : Same(k, d)
    BY <1>2, <1>4 DEF Same
  <2>2. Quiet(k, c) => Quiet(k, c)'
    BY <1>4 DEF Quiet
  <2>3. Clear(k, c) => Clear(k, c)'
    BY <1>2, <1>4 DEF Clear
  <2>4. ASSUME Follows(k, c) PROVE Follows(k, c)'
    <3> DEFINE P == Place(k) \X Place(k)
               R == {p \in P : p[2].at = "wrong" \/ p[1].at = p[2].at \/ p[1].at = "unknown"}
               x == Has(k, c)
               y == Follow(x, m)
    <3>1. /\ x \in Place(k) /\ y \in Place(k) /\ y.at = Moved(k, x.at, m)
          /\ Tail(s2c[c]) \in Seq(ToClientMsg)
          /\ WillHave(k, c) = Following!Fold(y, Tail(s2c[c])).at
      BY <1>1, <1>2, PlacesAre, WillHaveOfTail DEF m
    <3>2. WillHave(k, c)' = Following!Fold(x, Tail(s2c[c])).at
      <4>1. Has(k, c)' = Has(k, c)
        BY <1>4 DEF Has
      <4> QED
        BY <1>2, <4>1 DEF WillHave
    <3>3. y.at # "wrong"
      <4>1. WillHave(k, c) # "wrong"
        BY <2>4 DEF Follows, At
      <4> QED
        BY <1>1, <1>2, <3>1, <4>1, NoSurpriseYet DEF m
    <3>4. x.at = y.at \/ x.at = "unknown"
      <4>1. x.at \in {"unknown", "in", "out", "wrong"}
        BY <3>1 DEF Place, Ats
      <4> HIDE DEF x, y
      <4>2. x.at # "wrong"
        BY <1>2, <3>1, <3>3, <4>1, MovedIs DEF Ats
      <4>3. CASE IsCommand(m)
        BY <1>2, <1>7, <3>1, <4>1, <4>3, MovedIs DEF Ats
      <4>4. CASE IsList(m) /\ x.at \in {"in", "out"}
        <5>1. x.at \in Ats
          BY <3>1 DEF Place
        <5>2. x.at = At(k, m.keys)
          BY <1>2, <3>1, <3>3, <4>4, <5>1, MovedIs
        <5> QED
          BY <1>2, <3>1, <4>4, <5>1, <5>2, MovedIs
      <4> QED
        BY <1>5, <4>1, <4>2, <4>3, <4>4
    <3>5. \A u, v \in Place(k) : \A n \in ToClientMsg :
            v.at = "wrong" \/ u.at = v.at \/ u.at = "unknown"
            => \/ Follow(v, n).at = "wrong" \/ Follow(u, n).at = Follow(v, n).at
               \/ Follow(u, n).at = "unknown"
      <4> SUFFICES ASSUME NEW u \in Place(k), NEW v \in Place(k), NEW n \in ToClientMsg,
                          v.at = "wrong" \/ u.at = v.at \/ u.at = "unknown"
                   PROVE  \/ Follow(v, n).at = "wrong" \/ Follow(u, n).at = Follow(v, n).at
                          \/ Follow(u, n).at = "unknown"
        OBVIOUS
      <4>1. /\ u.at \in Ats /\ v.at \in Ats
            /\ Follow(u, n).at = Moved(k, u.at, n) /\ Follow(v, n).at = Moved(k, v.at, n)
        BY FollowIs DEF Place
      <4>2. n.type \in {"add", "remove", "bans", "receive"} /\ (IsList(n) <=> ~ IsCommand(n))
        BY ToClientMsgIs
      <4>3. CASE v.at = "wrong"
        BY <4>1, <4>3, MovedIs
      <4>4. CASE u.at = v.at
        BY <4>1, <4>4
      <4>5. CASE u.at = "unknown" /\ v.at \in {"in", "out"}
        <5>1. CASE n.type = "bans"
          <6>1. Moved(k, u.at, n) = At(k, n.keys) /\ IsList(n)
            BY <4>1, <4>5, <5>1, MovedIs DEF IsList
          <6>2. Moved(k, v.at, n) = "wrong" \/ Moved(k, v.at, n) = At(k, n.keys)
            BY <4>1, <4>5, <6>1, MovedIs
          <6> QED
            BY <4>1, <6>1, <6>2
        <5>2. CASE n.type # "bans"
          <6>1. Moved(k, u.at, n) = "unknown"
            BY <4>1, <4>2, <4>5, <5>2, MovedIs DEF IsList
          <6> QED
            BY <4>1, <6>1
        <5> QED
          BY <5>1, <5>2
      <4> QED
        BY <4>1, <4>3, <4>4, <4>5 DEF Ats
    <3>6. \A u, v : \A n \in ToClientMsg : <<u, v>> \in R => <<Follow(u, n), Follow(v, n)>> \in R
      <4> SUFFICES ASSUME NEW u, NEW v, NEW n \in ToClientMsg, <<u, v>> \in R
                   PROVE  <<Follow(u, n), Follow(v, n)>> \in R
        OBVIOUS
      <4>1. /\ u \in Place(k) /\ v \in Place(k)
            /\ v.at = "wrong" \/ u.at = v.at \/ u.at = "unknown"
        OBVIOUS
      <4>2. Follow(u, n) \in Place(k) /\ Follow(v, n) \in Place(k)
        BY <4>1, FollowIs
      <4> QED
        BY <3>5, <4>1, <4>2
    <3>7. <<x, y>> \in R
      <4> HIDE DEF x, y
      <4> QED
        BY <3>1, <3>4
    <3>8. <<Following!Fold(x, Tail(s2c[c])), Following!Fold(y, Tail(s2c[c]))>> \in R
      <4> HIDE DEF x, y, R
      <4> QED
        BY <3>1, <3>6, <3>7, Following!FoldsRelate
    <3>9. \/ WillHave(k, c) = "wrong" \/ WillHave(k, c)' = WillHave(k, c)
          \/ WillHave(k, c)' = "unknown"
      <4> HIDE DEF x, y
      <4> QED
        BY <3>1, <3>2, <3>8
    <3> QED
      BY <1>4, <2>4, <3>9 DEF Follows, At
  <2>5. Leads(k, c) => Leads(k, c)'
    BY <1>2, <1>4 DEF Leads, LastCommand, ListsAgree, ListsLate, Quiet
  <2> QED
    BY <1>1, <1>3, <1>4, <1>7, <2>1, <2>2, <2>3, <2>4, <2>5, OneClient
<1> QED
  BY <1>6, <1>7

\* One more datagram to a client, or none.
LEMMA SentAtMost ==
  ASSUME TInv, NEW c \in Client, NEW m \in ToClientMsg,
         s2c'[c] = s2c[c] \/ s2c'[c] = Append(s2c[c], m)
  PROVE  ToSet(s2c'[c]) \subseteq ToSet(s2c[c]) \cup {m}
<1>1. s2c[c] \in Seq(ToClientMsg)
  BY DEF TInv, Types
<1>2. ToSet(Append(s2c[c], m)) = ToSet(s2c[c]) \cup {m}
  BY <1>1, SetOfAppend
<1> QED
  BY <1>2

\* A command on another key is broadcast, or not.
LEMMA OwnedOtherCommand ==
  ASSUME TInv, NEW c \in Client, NEW k \in Key, OwnedKey(k),
         NEW m \in ToClientMsg, m = Head(c2s[c]), IsCommand(m), k \notin m.keys,
         c2s[c] # <<>>, c2s'[c] = Tail(c2s[c]), \A d \in Client \ {c} : c2s'[d] = c2s[d],
         \A d \in Client : s2c'[d] = s2c[d] \/ s2c'[d] = Append(s2c[d], m),
         s2c'[c] = s2c[c], known \subseteq known',
         k \in srv' <=> k \in srv, UNCHANGED <<list, synced, snap, owner>>
  PROVE  OwnedKey(k)'
<1>1. ASSUME NEW d \in Client
      PROVE  /\ Quiet(k, d) => Quiet(k, d)'
             /\ Clear(k, d) => Clear(k, d)'
             /\ Follows(k, d) => Follows(k, d)'
  <2>1. ToSet(c2s'[d]) \subseteq ToSet(c2s[d])
    BY SetOfTail DEF TInv, Types
  <2>2. ToSet(s2c'[d]) \subseteq ToSet(s2c[d]) \cup {m}
    BY SentAtMost
  <2>3. Has(k, d)' = Has(k, d)
    BY DEF Has
  <2>4. WillHave(k, d) \in Ats
    BY PlacesAre
  <2>5. WillHave(k, d)' = WillHave(k, d)
    BY <2>3, <2>4, WillHaveAppended, MovedIs DEF WillHave
  <2>6. Follows(k, d) => Follows(k, d)'
    BY <2>5, StillFollows
  <2> QED
    BY <2>1, <2>2, <2>6 DEF Quiet, Clear
<1>2. Leads(k, c) => Leads(k, c)'
  <2> SUFFICES ASSUME Leads(k, c) PROVE Leads(k, c)'
    OBVIOUS
  <2>1. ~ Concerns(m, k)
    BY DEF Concerns
  <2>2. Quiet(k, c)' => (k \in srv' <=> k \in list[c])
    BY <2>1, QuietOfTail DEF Leads, LastCommand
  <2>3. \A x \in ToSet(s2c'[c]) :
          IF IsList(x) THEN /\ k \in x.keys <=> k \in list[c]
                            /\ Quiet(k, c) \/ \E z \in ToSet(s2c[c]) : IsList(z)
                       ELSE k \notin x.keys
    BY LeaderIsSent
  <2> QED
    BY <2>2, <2>3, LeadsOfTail
<1>3. ASSUME NEW d \in Client \ {c}, Leads(k, d) PROVE Leads(k, d)'
  <2>1. ToSet(s2c'[d]) \subseteq ToSet(s2c[d]) \cup {m} /\ c2s'[d] = c2s[d]
    BY SentAtMost
  <2>2. ~ IsList(m)
    BY ToClientMsgIs
  <2>3. ListsAgree(k, d)'
    BY <1>3, <2>1, <2>2 DEF Leads, ListsAgree
  <2>4. LastCommand(k, d)' /\ ListsLate(k, d)'
    BY <1>3, <2>1, <2>2 DEF Leads, LastCommand, ListsLate, Quiet
  <2> QED
    BY <2>3, <2>4 DEF Leads
<1>4. Untouched(k) => Untouched(k)'
  BY <1>1 DEF Untouched
<1>5. ASSUME NEW o \in Client, Owned(k, o) PROVE Owned(k, o)'
  BY <1>1, <1>2, <1>3, <1>5 DEF Owned
<1> QED
  BY <1>4, <1>5 DEF OwnedKey

\* A command of the owner on his key: the server is where he was when he gave
\* it, and those it has heard of are told, if that was news.
LEMMA OwnedCommand ==
  ASSUME TInv, NEW c \in Client, NEW k \in Key, OwnedKey(k),
         NEW m \in ToClientMsg, m = Head(c2s[c]), IsCommand(m), k \in m.keys,
         c2s[c] # <<>>, c2s'[c] = Tail(c2s[c]), \A d \in Client \ {c} : c2s'[d] = c2s[d],
         s2c'[c] = s2c[c], known \subseteq known',
         k \in srv' <=> m.type = "add",
         \/ (k \in srv' <=> k \in srv) /\ s2c' = s2c
         \/ \A d \in Client \ {c} : s2c'[d] = IF d \in known THEN Append(s2c[d], m) ELSE s2c[d],
         UNCHANGED <<list, synced, snap, owner>>
  PROVE  OwnedKey(k)'
<1>1. m \in ToSet(c2s[c]) /\ Concerns(m, k)
  BY SetOfTail DEF Concerns, TInv, Types
<1>2. ~ Quiet(k, c)
  BY <1>1 DEF Quiet
<1>3. owner[k] # Nobody /\ \A o \in Client : owner[k] = o => o = c
  BY <1>2 DEF OwnedKey, Untouched, Owned
<1>4. ASSUME Owned(k, c) PROVE Owned(k, c)'
  <2>1. ASSUME NEW d \in Client \ {c} PROVE Quiet(k, d)' /\ Follows(k, d)'
    <3>1. Quiet(k, d) /\ Follows(k, d) /\ WillHave(k, d) \in Ats
      BY <1>4, PlacesAre DEF Owned
    <3>2. Has(k, d)' = Has(k, d)
      BY DEF Has
    <3>3. CASE s2c'[d] = s2c[d] /\ (d \notin known \/ (k \in srv' <=> k \in srv))
      <4>1. WillHave(k, d)' = WillHave(k, d)
        BY <3>2, <3>3 DEF WillHave
      <4> QED
        BY <3>1, <3>3, <4>1 DEF Follows, Quiet, At
    <3>4. CASE s2c'[d] = Append(s2c[d], m) /\ d \in known
      <4>1. WillHave(k, d)' = Moved(k, WillHave(k, d), m)
        BY <3>2, <3>4, WillHaveAppended
      <4>2. WillHave(k, d) \in {"unknown", "in", "out"}
        BY <3>1 DEF Follows, At
      <4>3. WillHave(k, d)' \in {"unknown", IF m.type = "add" THEN "in" ELSE "out"}
        BY <3>1, <4>1, <4>2, MovedIs
      <4> QED
        BY <3>1, <3>4, <4>3 DEF Follows, Quiet, At
    <3> QED
      BY <3>3, <3>4
  <2>2. Leads(k, c)
    BY <1>4 DEF Owned
  <2>3. Quiet(k, c)' => (k \in srv' <=> k \in list[c])
    <3> SUFFICES ASSUME Quiet(k, c)' PROVE k \in srv' <=> k \in list[c]
      OBVIOUS
    <3> DEFINE n == Len(c2s[c])
    <3>1. /\ n \in Nat \ {0} /\ DOMAIN c2s[c] = 1 .. n /\ DOMAIN c2s'[c] = 1 .. n - 1
          /\ \A i \in 1 .. n - 1 : c2s'[c][i] = c2s[c][i + 1]
          /\ c2s[c][1] = m
      BY DEF TInv, Types
    <3> HIDE DEF n
    <3>2. ASSUME NEW j \in DOMAIN c2s[c], Concerns(c2s[c][j], k) PROVE j <= 1
      <4> SUFFICES ASSUME j # 1 PROVE FALSE
        BY <3>1
      <4>1. j - 1 \in DOMAIN c2s'[c] /\ c2s'[c][j - 1] = c2s[c][j]
        BY <3>1
      <4>2. c2s'[c][j - 1] \in ToSet(c2s'[c])
        BY <4>1 DEF ToSet
      <4> QED
        BY <3>2, <4>1, <4>2 DEF Quiet
    <3>3. 1 \in DOMAIN c2s[c]
      BY <3>1
    <3>4. m.type = (IF k \in list[c] THEN "add" ELSE "remove")
      BY <1>1, <2>2, <3>1, <3>2, <3>3 DEF Leads, LastCommand
    <3> QED
      BY <3>4
  <2>4. \A x \in ToSet(s2c'[c]) :
          IF IsList(x) THEN /\ k \in x.keys <=> k \in list[c]
                            /\ Quiet(k, c) \/ \E z \in ToSet(s2c[c]) : IsList(z)
                       ELSE k \notin x.keys
    BY <2>2, LeaderIsSent
  <2>5. Leads(k, c)'
    BY <2>2, <2>3, <2>4, LeadsOfTail
  <2> QED
    BY <2>1, <2>5 DEF Owned
<1> QED
  BY <1>3, <1>4 DEF OwnedKey

\* A command that is handled is forwarded to those who follow.
LEMMA OwnedForwarded ==
  ASSUME OInv, NEW c \in Client, NEW k \in Key, HandleAdd(c) \/ HandleRemove(c)
  PROVE  OwnedKey(k)'
<1> USE DEF server, clients, ghosts
<1> DEFINE m == Head(c2s[c])
<1>1. TInv /\ OwnedKey(k)
  BY DEF OInv, OwnedKeys
<1>2. Heard(c) /\ up' = up /\ m.type \in {"add", "remove"}
  BY DEF HandleAdd, HandleRemove, Handles
<1>3. /\ c2s[c] # <<>> /\ c2s'[c] = Tail(c2s[c]) /\ \A d \in Client \ {c} : c2s'[d] = c2s[d]
      /\ known \subseteq known' /\ m \in ToServerMsg
  BY <1>1, <1>2, HeardIs
<1>4. /\ m \in ToClientMsg /\ IsCommand(m) /\ \E x \in Key : m.keys = {x}
  BY <1>2, <1>3, ToServerMsgIs DEF IsCommand
<1>5. UNCHANGED <<list, synced, snap, owner>>
  BY DEF HandleAdd, HandleRemove
<1>6. \/ srv' = srv /\ s2c' = s2c /\ (m.type = "add" <=> m.keys \subseteq srv)
      \/ /\ srv' = IF m.type = "add" THEN srv \cup m.keys ELSE srv \ m.keys
         /\ Broadcast(c, m)
  BY <1>2 DEF HandleAdd, HandleRemove, Handles
<1> HIDE DEF m
<1>7. \/ s2c' = s2c
      \/ \A d \in Client : s2c'[d] = IF d \in known \ {c} THEN Append(s2c[d], m) ELSE s2c[d]
  BY <1>1, <1>4, <1>6, BroadcastIs
<1>8. CASE k \notin m.keys
  <2>1. k \in srv' <=> k \in srv
    BY <1>6, <1>8
  <2>2. s2c'[c] = s2c[c] /\ \A d \in Client : s2c'[d] = s2c[d] \/ s2c'[d] = Append(s2c[d], m)
    BY <1>7
  <2> QED
    BY <1>1, <1>3, <1>4, <1>5, <1>8, <2>1, <2>2, OwnedOtherCommand DEF m
<1>9. CASE k \in m.keys
  <2>1. m.keys = {k}
    BY <1>4, <1>9
  <2>2. k \in srv' <=> m.type = "add"
    BY <1>6, <2>1
  <2>3. \/ (k \in srv' <=> k \in srv) /\ s2c' = s2c
        \/ \A d \in Client \ {c} : s2c'[d] = IF d \in known THEN Append(s2c[d], m) ELSE s2c[d]
    BY <1>4, <1>6, <1>7, BroadcastIs, <1>1
  <2>4. s2c'[c] = s2c[c]
    BY <1>7
  <2> QED
    BY <1>1, <1>3, <1>4, <1>5, <1>9, <2>2, <2>3, <2>4, OwnedCommand DEF m
<1> QED
  BY <1>8, <1>9

\* A list that the server sends out, for an upload or a request.
LEMMA OwnedAnswer ==
  ASSUME TInv, NEW c \in Client, NEW k \in Key, OwnedKey(k),
         c2s[c] # <<>>, c2s'[c] = Tail(c2s[c]), \A d \in Client \ {c} : c2s'[d] = c2s[d],
         Head(c2s[c]).type \in {"upload", "request"},
         NEW m \in ToClientMsg, IsList(m), k \in m.keys <=> k \in srv,
         s2c'[c] = s2c[c] \/ (c \in known' /\ s2c'[c] = Append(s2c[c], m)),
         \A d \in Client \ {c} : s2c'[d] = s2c[d], known \subseteq known',
         k \in srv' <=> k \in srv, UNCHANGED <<list, synced, snap>>, owner'[k] = owner[k]
  PROVE  OwnedKey(k)'
<1>1. \A d \in Client \ {c} : Same(k, d)
  BY DEF Same
<1>2. ~ Concerns(Head(c2s[c]), k)
  BY DEF Concerns, IsCommand
<1>3. Quiet(k, c) <=> Quiet(k, c)'
  BY <1>2, QuietOfTail
<1>4. ToSet(s2c'[c]) \subseteq ToSet(s2c[c]) \cup {m}
  BY SentAtMost
<1>5. k \notin srv /\ Clear(k, c) => Clear(k, c)'
  BY <1>4 DEF Clear
<1>6. ASSUME Follows(k, c) PROVE Follows(k, c)'
  <2>1. Has(k, c)' = Has(k, c) /\ WillHave(k, c) \in Ats
    BY PlacesAre DEF Has
  <2>2. CASE s2c'[c] = s2c[c]
    BY <1>6, <2>2, SameWill, StillFollows
  <2>3. CASE c \in known' /\ s2c'[c] = Append(s2c[c], m)
    <3>1. WillHave(k, c)' = Moved(k, WillHave(k, c), m)
      BY <2>1, <2>3, WillHaveAppended
    <3>2. At(k, m.keys) = At(k, srv) /\ At(k, srv)' = At(k, srv)
      BY DEF At
    <3>3. WillHave(k, c) \in {"unknown", At(k, m.keys)} /\ m.type \in {"bans", "receive"}
      BY <1>6, <3>2, ToClientMsgIs DEF Follows, IsList
    <3>4. Moved(k, WillHave(k, c), m) \in {"unknown", At(k, m.keys)}
      BY <2>1, <3>3, MovedIs
    <3> QED
      BY <2>3, <3>1, <3>2, <3>4 DEF Follows
  <2> QED
    BY <2>2, <2>3
<1>7. ASSUME Leads(k, c) PROVE Leads(k, c)'
  <2>1. Quiet(k, c)
    <3> DEFINE n == Len(c2s[c])
    <3>1. n \in Nat \ {0} /\ DOMAIN c2s[c] = 1 .. n /\ c2s[c][1] = Head(c2s[c])
      BY DEF TInv, Types
    <3> HIDE DEF n
    <3>2. 1 \in DOMAIN c2s[c]
      BY <3>1
    <3>3. \A j \in DOMAIN c2s[c] : Concerns(c2s[c][j], k) => j < 1
      BY <1>7, <3>1, <3>2 DEF Leads, ListsLate
    <3>4. \A j \in DOMAIN c2s[c] : ~ Concerns(c2s[c][j], k)
      BY <3>1, <3>3
    <3> QED
      BY <3>4 DEF Quiet, ToSet
  <2>2. k \in srv <=> k \in list[c]
    BY <1>7, <2>1 DEF Leads, LastCommand
  <2>3. \A x \in ToSet(s2c'[c]) :
          IF IsList(x) THEN /\ k \in x.keys <=> k \in list[c]
                            /\ Quiet(k, c) \/ \E z \in ToSet(s2c[c]) : IsList(z)
                       ELSE k \notin x.keys
    <3> SUFFICES ASSUME NEW x \in ToSet(s2c'[c])
                 PROVE  IF IsList(x) THEN k \in x.keys <=> k \in list[c] ELSE k \notin x.keys
      BY <2>1
    <3>1. CASE x = m
      BY <2>2, <3>1
    <3>2. CASE x \in ToSet(s2c[c])
      BY <1>7, <3>2, LeaderIsSent
    <3> QED
      BY <1>4, <3>1, <3>2
  <2> QED
    BY <1>7, <2>2, <2>3, LeadsOfTail
<1> QED
  BY <1>1, <1>3, <1>5, <1>6, <1>7, OneClient

\* A key that an upload adds is nobody's any more; the others stay as they are.
LEMMA OwnedUpload ==
  ASSUME OInv, NEW c \in Client, NEW k \in Key, HandleUpload(c), srv' \subseteq Key
  PROVE  OwnedKey(k)'
<1> USE DEF server, clients, ghosts
<1> DEFINE m == Msg("bans", srv')
           file == Head(c2s[c]).keys
<1>1. TInv /\ OwnedKey(k)
  BY DEF OInv, OwnedKeys
<1>2. Heard(c) /\ up' = up /\ Head(c2s[c]).type = "upload"
  BY DEF HandleUpload, Handles
<1>3. /\ c2s[c] # <<>> /\ c2s'[c] = Tail(c2s[c]) /\ \A d \in Client \ {c} : c2s'[d] = c2s[d]
      /\ known \subseteq known'
  BY <1>1, <1>2, HeardIs
<1>4. m \in ToClientMsg /\ IsList(m) /\ m.keys = srv'
  BY ToClientMsgIs DEF Msg, IsList
<1>5. /\ srv' = srv \cup New(file) /\ Reply(c, m)
      /\ owner'[k] = IF k \in New(file) THEN Many ELSE owner[k]
      /\ UNCHANGED <<list, synced, snap>>
  BY DEF HandleUpload
<1> HIDE DEF m, file
<1>6. /\ s2c'[c] = IF c \in known' THEN Append(s2c[c], m) ELSE s2c[c]
      /\ \A d \in Client \ {c} : s2c'[d] = s2c[d]
  BY <1>1, <1>4, <1>5, ReplyIs
<1>7. CASE k \in New(file)
  BY <1>5, <1>7, NoOnes
<1>8. CASE k \notin New(file)
  BY <1>1, <1>2, <1>3, <1>4, <1>5, <1>6, <1>8, OwnedAnswer
<1> QED
  BY <1>7, <1>8

\* A request is answered with what the server has.
LEMMA OwnedRequest ==
  ASSUME OInv, NEW c \in Client, NEW k \in Key, HandleRequest(c)
  PROVE  OwnedKey(k)'
<1> USE DEF server, clients, ghosts
<1> DEFINE m == Msg("receive", srv)
<1>1. TInv /\ OwnedKey(k)
  BY DEF OInv, OwnedKeys
<1>2. Heard(c) /\ up' = up /\ Head(c2s[c]).type = "request"
  BY DEF HandleRequest, Handles
<1>3. /\ c2s[c] # <<>> /\ c2s'[c] = Tail(c2s[c]) /\ \A d \in Client \ {c} : c2s'[d] = c2s[d]
      /\ known \subseteq known'
  BY <1>1, <1>2, HeardIs
<1>4. m \in ToClientMsg /\ IsList(m) /\ m.keys = srv
  BY <1>1, ToClientMsgIs DEF Msg, IsList, TInv, Types
<1>5. (UNCHANGED s2c \/ Reply(c, m)) /\ UNCHANGED <<srv, list, synced, snap, owner>>
  BY DEF HandleRequest
<1> HIDE DEF m
<1>6. /\ s2c'[c] = s2c[c] \/ (c \in known' /\ s2c'[c] = Append(s2c[c], m))
      /\ \A d \in Client \ {c} : s2c'[d] = s2c[d]
  BY <1>1, <1>4, <1>5, ReplyIs
<1> QED
  BY <1>1, <1>2, <1>3, <1>4, <1>5, <1>6, OwnedAnswer

\* A stutter changes nothing.
LEMMA OwnedStays ==
  ASSUME OInv, NEW k \in Key, UNCHANGED vars
  PROVE  OwnedKey(k)'
<1> USE DEF server, clients, ghosts
<1>1. OwnedKey(k)
  BY DEF OInv, OwnedKeys
<1>2. \A c \in Client : Same(k, c)
  BY DEF vars, Same
<1>3. srv' = srv /\ owner' = owner
  BY DEF vars
<1>4. \A c \in Client : /\ Quiet(k, c) => Quiet(k, c)'
                        /\ Clear(k, c) => Clear(k, c)'
                        /\ Follows(k, c) => Follows(k, c)'
                        /\ Leads(k, c) => Leads(k, c)'
  BY <1>2, <1>3, SameFollows, SameLeads
<1> QED
  BY <1>1, <1>3, <1>4 DEF OwnedKey, Owned, Untouched

-----------------------------------------------------------------------------
\* At the start nobody has changed a key, and no client is complete.
LEMMA OwnedInit == Init => OwnedKeys
<1> SUFFICES ASSUME Init, NEW k \in Key PROVE OwnedKey(k)
  BY DEF OwnedKeys
<1>1. k \notin srv /\ owner[k] = Nobody
  BY DEF Init
<1>2. ASSUME NEW c \in Client PROVE Quiet(k, c) /\ Clear(k, c) /\ Follows(k, c)
  <2>1. c2s[c] = <<>> /\ s2c[c] = <<>> /\ synced[c] = "no"
    BY DEF Init
  <2>2. Has(k, c).at = "unknown"
    BY <2>1 DEF Has
  <2>3. WillHave(k, c) = "unknown"
    BY <2>1, <2>2, NothingToCome
  <2> QED
    BY <2>1, <2>3, SetOfNothing DEF Quiet, Clear, Follows
<1>3. Nobody \notin Client
  BY BanSyncAssumption
<1> QED
  BY <1>1, <1>2, <1>3 DEF OwnedKey, Untouched

\* Every action keeps each key, whoever has changed it.
LEMMA OwnedStep == OInv /\ [Next]_vars => OwnedKeys'
<1> SUFFICES ASSUME OInv, [Next]_vars, NEW k \in Key PROVE OwnedKey(k)'
  BY DEF OwnedKeys
<1>1. srv' \subseteq Key
  BY TypesStep DEF OInv, TInv, Types
<1>2. ASSUME NEW c \in Client, ClientStep(c) PROVE OwnedKey(k)'
  BY <1>2, OwnedSends, OwnedSnapshot, OwnedCommands, OwnedHandle, OwnedQuit DEF ClientStep
<1>3. ASSUME NEW c \in Client, ServerStep(c) PROVE OwnedKey(k)'
  BY <1>1, <1>3, OwnedHello, OwnedForwarded, OwnedUpload, OwnedRequest DEF ServerStep
<1>4. ASSUME NEW c \in Client, NetworkStep(c) PROVE OwnedKey(k)'
  BY <1>4, OwnedLostToServer, OwnedLostToClient DEF NetworkStep
<1>5. CASE ServerRestart
  <2>1. owner'[k] = Many
    BY <1>5 DEF ServerRestart
  <2> QED
    BY <2>1, NoOnes
<1>6. CASE UNCHANGED vars
  BY <1>6, OwnedStays
<1> QED
  BY <1>2, <1>3, <1>4, <1>5, <1>6 DEF Next

\* A key that only one administrator has changed, each time with his list
\* complete: when nothing is on its way any more, his list, the server's and
\* those of all other complete clients agree on it, for any number of clients,
\* commands and logins, and whatever datagrams on other keys were lost.
THEOREM BanOwnedKeys == Spec => []OwnedKeysAgree
<1>1. Init => OInv
  BY TypesInit, OwnedInit DEF OInv
<1>2. OInv /\ [Next]_vars => OInv'
  BY TypesStep, OwnedStep DEF OInv
<1>3. OInv => OwnedKeysAgree
  <2> SUFFICES ASSUME OInv, AtRest, NEW k \in Key, owner[k] \in Client,
                      NEW c \in up, synced[c] = "fully"
               PROVE  k \in list[c] <=> k \in srv
    BY DEF OwnedKeysAgree
  <2>1. Owned(k, owner[k]) /\ c \in Client
    BY DEF OInv, OwnedKeys, OwnedKey, TInv, Types
  <2>2. CASE c = owner[k]
    <3>1. Quiet(k, c)
      BY <2>1, SetOfNothing DEF AtRest, Quiet
    <3> QED
      BY <2>1, <2>2, <3>1 DEF Owned, Leads, LastCommand
  <2>3. CASE c # owner[k]
    <3>1. Follows(k, c) /\ s2c[c] = <<>>
      BY <2>1, <2>3 DEF Owned, AtRest
    <3>2. WillHave(k, c) = At(k, list[c])
      BY <2>1, <3>1, NothingToCome DEF Has
    <3> QED
      BY <3>1, <3>2 DEF Follows, At
  <2> QED
    BY <2>2, <2>3
<1> QED
  BY <1>1, <1>2, <1>3, PTL DEF Spec
=============================================================================
