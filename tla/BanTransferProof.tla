-------------------------- MODULE BanTransferProof ---------------------------
(***************************************************************************)
(* For any number of lists, entries, faults and bans: the types of         *)
(* BanTransfer, that no transfer makes both sides forget a ban, and that   *)
(* the client has what it counts as received.                              *)
(*                                                                         *)
(* OwnBansSurvive is not inductive: an answer in flight will replace the   *)
(* client's list, and a file on its way is all that the server has seen of *)
(* it.  The invariant says what each of them is good for: whatever the     *)
(* client held at the start is in every file on its way to the server, or  *)
(* no longer needs it; and once an answer is on its way, it needs no file  *)
(* and no list of the client at all.                                       *)
(*                                                                         *)
(* Delivered looks at queues that hold nothing of the list, so its         *)
(* invariant has to say what they hold until then.  A client that claims a *)
(* list, or is sent a piece of it, is sent the rest in datagrams that add; *)
(* an answer, which replaces the list, is followed by whatever it lacks.   *)
(* A ban of the client itself that its upload brings to the server comes   *)
(* after no such answer: it would have been safe before.                   *)
(***************************************************************************)
EXTENDS BanTransfer, FiniteSetTheorems, TLAPS

Uploads  == {"upload-bans-compressed", "upload-bans"}
Receipts == {"receive-bans-compressed", "receive-bans"}

\* What the client may forget: the server has it, or it is lost already.
Safe(l) == srv[l] \cup cut[l] \cup Protected

FilesComplete ==
  \A m \in ToSet(c2s) : m.type \in Uploads =>
    \A l \in DOMAIN m.lists : own[l] \subseteq m.lists[l] \cup Safe(l)

AnswersSafe ==
  \A m \in ToSet(s2c) : m.type \in Receipts =>
    \A l \in DOMAIN m.lists : own[l] \subseteq Safe(l)

\* An archive has all lists in it.
ArchivesWhole ==
  /\ \A m \in ToSet(c2s) : m.type = "upload-bans-compressed" =>
       m.lists = Nothing \/ DOMAIN m.lists = List
  /\ \A m \in ToSet(s2c) : m.type = "receive-bans-compressed" => DOMAIN m.lists = List

IInv == TypeOK /\ OwnBansSurvive /\ FilesComplete /\ AnswersSafe /\ ArchivesWhole

ToServerMsg == [type : ToServerType, lists : Part]
ToClientMsg == [type : ToClientType, lists : Part]

-----------------------------------------------------------------------------
(* Sequences of datagrams, and the parts that they carry.                  *)

\* A function from 1 .. n is a sequence.
LEMMA FunctionIsSeq ==
  ASSUME NEW S, NEW n \in Nat, NEW f \in [1 .. n -> S]
  PROVE  f \in Seq(S)
OBVIOUS

\* What one more datagram adds to those in flight.
LEMMA SetOfAppend ==
  ASSUME NEW S, NEW s \in Seq(S), NEW x \in S
  PROVE  Append(s, x) \in Seq(S) /\ ToSet(Append(s, x)) = ToSet(s) \cup {x}
<1> DEFINE t == Append(s, x)
<1>1. t \in Seq(S) /\ Len(t) = Len(s) + 1 /\ t[Len(t)] = x
  OBVIOUS
<1>2. \A i \in DOMAIN s : i \in DOMAIN t /\ t[i] = s[i]
  OBVIOUS
<1>3. \A i \in DOMAIN t : i \in DOMAIN s \/ i = Len(t)
  OBVIOUS
<1>4. Len(t) \in DOMAIN t
  OBVIOUS
<1> QED
  BY <1>1, <1>2, <1>3, <1>4 DEF ToSet

\* Handling or losing the first datagram adds none.
LEMMA SetOfTail ==
  ASSUME NEW S, NEW s \in Seq(S), s # <<>>
  PROVE  /\ Tail(s) \in Seq(S) /\ ToSet(Tail(s)) \subseteq ToSet(s)
         /\ Head(s) \in S /\ Head(s) \in ToSet(s)
BY DEF ToSet

\* What several datagrams add.
LEMMA SetOfConcat ==
  ASSUME NEW S, NEW s \in Seq(S), NEW t \in Seq(S)
  PROVE  s \o t \in Seq(S) /\ ToSet(s \o t) = ToSet(s) \cup ToSet(t)
<1>1. s \o t \in Seq(S)
  OBVIOUS
<1>2. ToSet(s \o t) \subseteq ToSet(s) \cup ToSet(t)
  BY DEF ToSet
<1>3. ASSUME NEW x \in ToSet(s) PROVE x \in ToSet(s \o t)
  <2>1. PICK i \in DOMAIN s : x = s[i]
    BY DEF ToSet
  <2>2. i \in DOMAIN (s \o t) /\ (s \o t)[i] = s[i]
    BY <2>1
  <2> QED
    BY <2>1, <2>2 DEF ToSet
<1>4. ASSUME NEW x \in ToSet(t) PROVE x \in ToSet(s \o t)
  <2>1. PICK i \in DOMAIN t : x = t[i]
    BY DEF ToSet
  <2>2. Len(s) + i \in DOMAIN (s \o t) /\ (s \o t)[Len(s) + i] = t[i]
    BY <2>1
  <2> QED
    BY <2>1, <2>2 DEF ToSet
<1> QED
  BY <1>1, <1>2, <1>3, <1>4

\* The lists in a datagram.
LEMMA PartIs ==
  /\ \A g \in Part : /\ DOMAIN g \subseteq List
                     /\ \A l \in DOMAIN g : g[l] \subseteq Entry
  /\ \A some \in SUBSET List : [some -> SUBSET Entry] \subseteq Part
  /\ Nothing \in Part /\ DOMAIN Nothing = {}
BY DEF Part, Nothing

\* Merging a part into the lists keeps what they have.
LEMMA WithIs ==
  ASSUME NEW f \in [List -> SUBSET Entry], NEW g \in Part
  PROVE  /\ With(f, g) \in [List -> SUBSET Entry]
         /\ \A l \in List : f[l] \subseteq With(f, g)[l]
         /\ \A l \in DOMAIN g : With(f, g)[l] = f[l] \cup g[l]
BY PartIs DEF With

\* Entries that are protected are left out, the lists are the same.
LEMMA AcceptedIs ==
  ASSUME NEW g \in Part
  PROVE  Accepted(g) \in Part /\ DOMAIN Accepted(g) = DOMAIN g
<1>1. DOMAIN g \subseteq List /\ Accepted(g) \in [DOMAIN g -> SUBSET Entry]
  BY PartIs DEF Accepted
<1> QED
  BY <1>1, PartIs DEF Accepted

\* A part with one list.
LEMMA OnlyIs ==
  ASSUME NEW l \in List, NEW S \in SUBSET Entry
  PROVE  Only(l, S) \in Part /\ DOMAIN Only(l, S) = {l} /\ Only(l, S)[l] = S
<1>1. Only(l, S) \in [{l} -> SUBSET Entry] /\ {l} \in SUBSET List
  BY DEF Only
<1> QED
  BY <1>1, PartIs DEF Only

\* The answer to a request is a sequence of datagrams that all say "receive".
LEMMA AnswersAre ==
  ASSUME NEW l \in List, srv \in [List -> SUBSET Entry]
  PROVE  /\ Answers(l) \in Seq(ToClientMsg)
         /\ \A m \in ToSet(Answers(l)) : m.type = "receive"
<1> DEFINE S == Latest(srv[l], Window[l])
           n == (Cardinality(S) + Piece - 1) \div Piece
<1>1. S \in SUBSET Entry /\ MaxEntry \in Nat /\ Piece \in Nat \ {0}
  BY BanTransferAssumption DEF Latest
<1>2. IsFiniteSet(S)
  <2>1. IsFiniteSet(Entry)
    BY <1>1, FS_Interval, 1 \in Int, MaxEntry \in Int DEF Entry
  <2> HIDE DEF S
  <2> QED
    BY <1>1, <2>1, FS_Subset
<1>3. Cardinality(S) \in Nat
  BY <1>2, FS_CardinalityType
<1>4. n \in Nat
  BY <1>1, <1>3
<1>5. Pieces(S) \in [1 .. n -> SUBSET Entry]
  BY <1>1 DEF Pieces
<1>6. \A i \in 1 .. n : Only(l, Pieces(S)[i]) \in Part
  BY <1>5, OnlyIs
<1>7. DOMAIN Answers(l) = 1 .. n
  BY <1>5 DEF Answers
<1>8. \A i \in 1 .. n : Answers(l)[i] = [type |-> "receive", lists |-> Only(l, Pieces(S)[i])]
  BY <1>5 DEF Answers, Msg
<1>9. Answers(l) \in [1 .. n -> ToClientMsg]
  <2>1. \A i \in 1 .. n : Answers(l)[i] \in ToClientMsg
    <3> TAKE i \in 1 .. n
    <3> DEFINE p == Only(l, Pieces(S)[i])
    <3>1. p \in Part /\ Answers(l)[i] = [type |-> "receive", lists |-> p]
      BY <1>6, <1>8
    <3> HIDE DEF n, S, p
    <3> QED
      BY <3>1 DEF ToClientMsg, ToClientType
  <2>2. Answers(l) = [i \in 1 .. n |-> Answers(l)[i]]
    BY <1>5 DEF Answers
  <2> QED
    BY <2>1, <2>2
<1>10. Answers(l) \in Seq(ToClientMsg)
  <2> HIDE DEF n
  <2> QED
    BY <1>4, <1>9, FunctionIsSeq
<1>11. \A m \in ToSet(Answers(l)) : m.type = "receive"
  <2> HIDE DEF n
  <2> QED
    BY <1>7, <1>8 DEF ToSet
<1> QED
  BY <1>10, <1>11

-----------------------------------------------------------------------------
(* The invariant.                                                          *)

\* At the start nothing is in flight, and nothing is forgotten.
LEMMA InitIInv == Init => IInv
<1> SUFFICES ASSUME Init PROVE IInv
  OBVIOUS
<1>1. TypeOK
  <2>1. c2s \in Seq(ToServerMsg) /\ s2c \in Seq(ToClientMsg)
    BY DEF Init
  <2>2. srv \in [List -> SUBSET Entry] /\ list \in [List -> SUBSET Entry]
    BY BanTransferAssumption DEF Init
  <2>3. bans \in 0 .. MaxBans /\ faults \in 0 .. MaxFaults
    BY BanTransferAssumption DEF Init
  <2> QED
    BY <2>1, <2>2, <2>3 DEF Init, TypeOK, ToServerMsg, ToClientMsg
<1>2. OwnBansSurvive
  BY DEF Init, OwnBansSurvive
<1>3. ToSet(c2s) = {} /\ ToSet(s2c) = {}
  BY DEF Init, ToSet
<1> QED
  BY <1>1, <1>2, <1>3 DEF IInv, FilesComplete, AnswersSafe, ArchivesWhole

\* Datagrams of the client, and of the server.
LEMMA MsgIs ==
  ASSUME NEW g \in Part
  PROVE  /\ \A type \in ToServerType : Msg(type, g) \in ToServerMsg
         /\ \A type \in ToClientType : Msg(type, g) \in ToClientMsg
         /\ \A type \in ToServerType \cup ToClientType :
              Msg(type, g).type = type /\ Msg(type, g).lists = g
BY DEF Msg, ToServerMsg, ToClientMsg

\* The parts of the type invariant, one per line of the state.
SrvOK  == srv \in [List -> SUBSET Entry] /\ known \in BOOLEAN
CliOK  == /\ list \in [List -> SUBSET Entry]
          /\ flag \in [List -> BOOLEAN] /\ synced \in BOOLEAN
          /\ due \subseteq {"archive", "single"}
C2SOK  == c2s \in Seq(ToServerMsg)
S2COK  == s2c \in Seq(ToClientMsg)
GhostOK == {own, cut, missed} \subseteq [List -> SUBSET Entry] /\ duped \subseteq List
SpentOK == bans \in 0 .. MaxBans /\ faults \in 0 .. MaxFaults

\* Together they are TypeOK.
LEMMA TypeParts ==
  /\ TypeOK <=> SrvOK /\ CliOK /\ C2SOK /\ S2COK /\ GhostOK /\ SpentOK
  /\ TypeOK' <=> SrvOK' /\ CliOK' /\ C2SOK' /\ S2COK' /\ GhostOK' /\ SpentOK'
BY DEF TypeOK, SrvOK, CliOK, C2SOK, S2COK, GhostOK, SpentOK, ToServerMsg, ToClientMsg

\* A fault, or none, is within the bound.
LEMMA FaultIs ==
  /\ SpentOK /\ Fault => SpentOK'
  /\ \A ok \in BOOLEAN : SpentOK /\ Transfer(ok) => SpentOK'
  /\ SpentOK /\ UNCHANGED spent => SpentOK'
<1>1. SpentOK /\ Fault => SpentOK'
  BY BanTransferAssumption DEF SpentOK, Fault
<1>2. SpentOK /\ UNCHANGED spent => SpentOK'
  BY DEF SpentOK, spent
<1> QED
  BY <1>1, <1>2 DEF Transfer

\* A received datagram leaves the types of what its handler does not set.
LEMMA ReceivesIs ==
  ASSUME TypeOK, NEW type, Receives(type)
  PROVE  /\ SrvOK' /\ C2SOK' /\ S2COK' /\ due' \subseteq {"archive", "single"}
         /\ own' = own /\ cut' = cut /\ missed' = missed
         /\ Head(s2c) \in ToClientMsg /\ Head(s2c) \in ToSet(s2c)
         /\ Head(s2c).type = type /\ Head(s2c).lists \in Part
         /\ ToSet(s2c') \subseteq ToSet(s2c) /\ c2s' = c2s /\ srv' = srv
<1>1. SrvOK /\ CliOK /\ C2SOK /\ s2c \in Seq(ToClientMsg)
  BY TypeParts DEF S2COK
<1>2. s2c # <<>> /\ s2c' = Tail(s2c) /\ Head(s2c).type = type
  BY DEF Receives
<1>3. /\ Tail(s2c) \in Seq(ToClientMsg) /\ ToSet(Tail(s2c)) \subseteq ToSet(s2c)
      /\ Head(s2c) \in ToClientMsg /\ Head(s2c) \in ToSet(s2c)
  BY <1>1, <1>2, SetOfTail
<1>4. Head(s2c).lists \in Part
  BY <1>3 DEF ToClientMsg
<1>5. srv' = srv /\ known' = known /\ c2s' = c2s /\ due' = due
      /\ own' = own /\ cut' = cut /\ missed' = missed
  BY DEF Receives, server
<1> QED
  BY <1>1, <1>2, <1>3, <1>4, <1>5 DEF SrvOK, CliOK, C2SOK, S2COK

\* The same for the server.
LEMMA HandlesIs ==
  ASSUME TypeOK, NEW type, Handles(type)
  PROVE  /\ CliOK' /\ C2SOK' /\ GhostOK' /\ SpentOK' /\ known' \in BOOLEAN
         /\ own' = own /\ cut' = cut /\ list' = list
         /\ Head(c2s) \in ToServerMsg /\ Head(c2s) \in ToSet(c2s)
         /\ Head(c2s).type = type /\ Head(c2s).lists \in Part
         /\ ToSet(c2s') \subseteq ToSet(c2s)
<1>1. CliOK /\ GhostOK /\ SpentOK /\ c2s \in Seq(ToServerMsg)
  BY TypeParts DEF C2SOK
<1>2. c2s # <<>> /\ c2s' = Tail(c2s) /\ Head(c2s).type = type
  BY DEF Handles
<1>3. /\ Tail(c2s) \in Seq(ToServerMsg) /\ ToSet(Tail(c2s)) \subseteq ToSet(c2s)
      /\ Head(c2s) \in ToServerMsg /\ Head(c2s) \in ToSet(c2s)
  BY <1>1, <1>2, SetOfTail
<1>4. Head(c2s).lists \in Part
  BY <1>3 DEF ToServerMsg
<1>5. CliOK' /\ GhostOK' /\ SpentOK' /\ known' \in BOOLEAN
      /\ own' = own /\ cut' = cut /\ list' = list
  BY <1>1 DEF Handles, client, ghosts, spent, CliOK, GhostOK, SpentOK
<1> QED
  BY <1>2, <1>3, <1>4, <1>5 DEF C2SOK

\* A flag more.
LEMMA CompletedIs ==
  ASSUME TypeOK, NEW l \in List, Completed(l)
  PROVE  flag' \in [List -> BOOLEAN] /\ synced' \in BOOLEAN
<1>1. flag \in [List -> BOOLEAN] /\ synced \in BOOLEAN
  BY DEF TypeOK
<1> QED
  BY <1>1 DEF Completed

\* What the datagrams in flight have to satisfy, one by one.
FileGood(m) ==
  /\ m.type \in Uploads => \A l \in DOMAIN m.lists : own[l] \subseteq m.lists[l] \cup Safe(l)
  /\ m.type = "upload-bans-compressed" => m.lists = Nothing \/ DOMAIN m.lists = List
AnswerGood(m) ==
  /\ m.type \in Receipts => \A l \in DOMAIN m.lists : own[l] \subseteq Safe(l)
  /\ m.type = "receive-bans-compressed" => DOMAIN m.lists = List

\* Together they are the parts of the invariant about datagrams.
LEMMA InvParts ==
  /\ FilesComplete /\ AnswersSafe /\ ArchivesWhole <=>
       /\ \A m \in ToSet(c2s) : FileGood(m)
       /\ \A m \in ToSet(s2c) : AnswerGood(m)
  /\ FilesComplete' /\ AnswersSafe' /\ ArchivesWhole' <=>
       /\ \A m \in ToSet(c2s') : FileGood(m)'
       /\ \A m \in ToSet(s2c') : AnswerGood(m)'
BY DEF FilesComplete, AnswersSafe, ArchivesWhole, FileGood, AnswerGood

\* The server and the losses only grow, so that only what is new has to be
\* looked at: new datagrams, and what the client's lists lose.
LEMMA OnlyTheNew ==
  ASSUME IInv, TypeOK', own' = own,
         \A l \in List : Safe(l) \subseteq Safe(l)',
         \A m \in ToSet(c2s') : m \in ToSet(c2s) \/ FileGood(m)',
         \A m \in ToSet(s2c') : m \in ToSet(s2c) \/ AnswerGood(m)',
         \A l \in List : own[l] \cap list[l] \subseteq list'[l] \cup Safe(l)'
  PROVE  IInv'
<1>1. /\ OwnBansSurvive /\ C2SOK /\ S2COK
      /\ \A m \in ToSet(c2s) : FileGood(m)
      /\ \A m \in ToSet(s2c) : AnswerGood(m)
  BY TypeParts, InvParts DEF IInv
<1>2. \A m \in ToSet(c2s) \cup ToSet(s2c) : DOMAIN m.lists \subseteq List
  <2>1. \A m \in ToServerMsg \cup ToClientMsg : DOMAIN m.lists \subseteq List
    BY PartIs DEF ToServerMsg, ToClientMsg
  <2> QED
    BY <1>1, <2>1 DEF C2SOK, S2COK, ToSet
<1>3. OwnBansSurvive'
  BY <1>1 DEF OwnBansSurvive, Safe
<1>4. ASSUME NEW m \in ToSet(c2s') PROVE FileGood(m)'
  <2>1. CASE FileGood(m)'
    BY <2>1
  <2>2. CASE m \in ToSet(c2s)
    <3>1. FileGood(m) /\ DOMAIN m.lists \subseteq List
      BY <1>1, <1>2, <2>2
    <3> QED
      BY <3>1 DEF FileGood
  <2> QED
    BY <2>1, <2>2
<1>5. ASSUME NEW m \in ToSet(s2c') PROVE AnswerGood(m)'
  <2>1. CASE AnswerGood(m)'
    BY <2>1
  <2>2. CASE m \in ToSet(s2c)
    <3>1. AnswerGood(m) /\ DOMAIN m.lists \subseteq List
      BY <1>1, <1>2, <2>2
    <3> QED
      BY <3>1 DEF AnswerGood
  <2> QED
    BY <2>1, <2>2
<1> QED
  BY <1>3, <1>4, <1>5, InvParts DEF IInv

\* A file of one list, what is missing of it being in rest.
Cut(m, rest) ==
  /\ m.type = "upload-bans"
  /\ \A l \in DOMAIN m.lists :
       l \in List /\ m.lists[l] \subseteq list[l] /\ list[l] \subseteq m.lists[l] \cup rest[l]

\* What the client does when it uploads each list.
LEMMA SingleIs ==
  ASSUME TypeOK, UploadSingle
  PROVE  /\ TypeOK' /\ srv' = srv /\ list' = list /\ flag' = flag /\ synced' = synced
         /\ s2c' = s2c /\ own' = own /\ missed' = missed /\ duped' = duped
         /\ \A l \in List : cut[l] \subseteq cut'[l]
         /\ \A m \in ToSet(c2s') : m \in ToSet(c2s) \/ Cut(m, cut')
<1>0. SrvOK /\ CliOK /\ C2SOK /\ S2COK /\ GhostOK /\ SpentOK
  BY TypeParts
<1>1. PICK stored \in SUBSET List, upTo \in [List -> 0 .. MaxEntry] :
        LET file == [l \in stored |-> list[l] \cap (1 .. upTo[l])]
            named(l) == IF l \in stored THEN Only(l, file[l]) ELSE Nothing
        IN  /\ c2s' = c2s \o [i \in DOMAIN Lists |-> Msg("upload-bans", named(Lists[i]))]
            /\ cut' = With(cut, [l \in stored |-> list[l] \ file[l]])
            /\ Transfer(stored = List /\ cut' = cut)
  BY DEF UploadSingle
<1> DEFINE file == [l \in stored |-> list[l] \cap (1 .. upTo[l])]
           named(l) == IF l \in stored THEN Only(l, file[l]) ELSE Nothing
           sent == [i \in DOMAIN Lists |-> Msg("upload-bans", named(Lists[i]))]
           rest == [l \in stored |-> list[l] \ file[l]]
<1>2. /\ c2s' = c2s \o sent /\ cut' = With(cut, rest)
      /\ Transfer(stored = List /\ cut' = cut)
  BY <1>1
<1>3. file \in [stored -> SUBSET Entry] /\ rest \in Part
  <2>1. list \in [List -> SUBSET Entry] /\ stored \in SUBSET List
    BY <1>0 DEF CliOK
  <2>2. file \in [stored -> SUBSET Entry] /\ rest \in [stored -> SUBSET Entry]
    BY <2>1
  <2> HIDE DEF rest, file
  <2> QED
    BY <2>1, <2>2, PartIs
<1>4. \A l \in List : named(l) \in Part
  <2> HIDE DEF file
  <2> QED
    BY <1>3, PartIs, OnlyIs
<1>5. sent \in Seq(ToServerMsg)
  <2>1. Lists \in Seq(List)
    BY BanTransferAssumption
  <2>2. \A i \in DOMAIN Lists : Msg("upload-bans", named(Lists[i])) \in ToServerMsg
    <3> HIDE DEF named, file
    <3> QED
      BY <1>4, <2>1, MsgIs DEF ToServerType
  <2>3. sent \in [1 .. Len(Lists) -> ToServerMsg]
    <3> HIDE DEF named
    <3> QED
      BY <2>1, <2>2
  <2>4. Len(Lists) \in Nat
    BY <2>1
  <2> HIDE DEF sent
  <2> QED
    BY <2>3, <2>4, FunctionIsSeq
<1>6. C2SOK'
  <2> HIDE DEF sent
  <2> QED
    BY <1>0, <1>2, <1>5, SetOfConcat DEF C2SOK
<1>7. GhostOK'
  <2>1. cut' \in [List -> SUBSET Entry]
    <3> HIDE DEF rest
    <3> QED
      BY <1>0, <1>2, <1>3, WithIs DEF GhostOK
  <2> QED
    BY <1>0, <2>1 DEF UploadSingle, GhostOK
<1>8. SpentOK'
  <2> HIDE DEF sent, rest
  <2> QED
    BY <1>0, <1>2, FaultIs
<1>9. SrvOK' /\ CliOK' /\ S2COK'
  BY <1>0 DEF UploadSingle, server, SrvOK, CliOK, S2COK
<1>10. TypeOK'
  BY <1>6, <1>7, <1>8, <1>9, TypeParts
<1>11. /\ srv' = srv /\ list' = list /\ flag' = flag /\ synced' = synced
       /\ s2c' = s2c /\ own' = own /\ missed' = missed /\ duped' = duped
  BY DEF UploadSingle, server
<1>12. /\ \A l \in List : cut[l] \subseteq cut'[l]
       /\ \A l \in stored : cut'[l] = cut[l] \cup (list[l] \ file[l])
  <2>1. DOMAIN rest = stored /\ \A l \in stored : rest[l] = list[l] \ file[l]
    OBVIOUS
  <2> HIDE DEF rest, file
  <2> QED
    BY <1>0, <1>2, <1>3, <2>1, WithIs DEF GhostOK
<1>13. \A m \in ToSet(c2s') : m \in ToSet(c2s) \/ Cut(m, cut')
  <2>1. ToSet(c2s') = ToSet(c2s) \cup ToSet(sent)
    <3> HIDE DEF sent
    <3> QED
      BY <1>0, <1>2, <1>5, SetOfConcat DEF C2SOK
  <2>2. ASSUME NEW m \in ToSet(sent) PROVE Cut(m, cut')
    <3>1. PICK i \in DOMAIN Lists : m = Msg("upload-bans", named(Lists[i]))
      BY DEF ToSet
    <3>2. Lists[i] \in List
      BY BanTransferAssumption
    <3> DEFINE l == Lists[i]
    <3>3. /\ m.type = "upload-bans" /\ m.lists = named(l)
      <4> HIDE DEF named
      <4> QED
        BY <1>4, <3>1, <3>2, MsgIs DEF ToServerType
    <3>4. CASE l \in stored
      <4>1. named(l) = Only(l, file[l])
        BY <3>4
      <4>2. DOMAIN m.lists = {l} /\ m.lists[l] = file[l]
        <5>1. l \in List /\ file[l] \in SUBSET Entry
          <6> HIDE DEF file
          <6> QED
            BY <1>3, <3>2, <3>4
        <5> HIDE DEF named, file, l
        <5>2. DOMAIN Only(l, file[l]) = {l} /\ Only(l, file[l])[l] = file[l]
          BY <5>1, OnlyIs
        <5>3. m.lists = Only(l, file[l])
          BY <3>3, <4>1 DEF l
        <5> QED
          BY <5>2, <5>3
      <4>3. file[l] \subseteq list[l] /\ list[l] \subseteq file[l] \cup cut'[l]
        <5>1. file[l] = list[l] \cap (1 .. upTo[l])
          BY <3>4
        <5> HIDE DEF named, file
        <5> QED
          BY <1>12, <3>4, <5>1
      <4> HIDE DEF named, file
      <4> QED
        BY <3>2, <3>3, <4>2, <4>3 DEF Cut
    <3>5. CASE l \notin stored
      <4>1. named(l) = Nothing
        BY <3>5
      <4> HIDE DEF named
      <4> QED
        BY <3>3, <4>1, PartIs DEF Cut
    <3> QED
      BY <3>4, <3>5
  <2> HIDE DEF sent
  <2> QED
    BY <2>1, <2>2
<1> QED
  BY <1>10, <1>11, <1>12, <1>13

\* A file on its way to the server has all that the client still vouches for,
\* but for what has broken off.
LEMMA UploadsKeep == IInv /\ (UploadArchive \/ SkipArchive \/ UploadSingle) => IInv'
<1> SUFFICES ASSUME IInv PROVE UploadArchive \/ SkipArchive \/ UploadSingle => IInv'
  OBVIOUS
<1>1. /\ SrvOK /\ CliOK /\ C2SOK /\ S2COK /\ GhostOK /\ SpentOK
      /\ \A l \in List : own[l] \subseteq list[l] \cup Safe(l)
  BY TypeParts DEF IInv, OwnBansSurvive, Safe
<1>2. ASSUME UploadArchive PROVE IInv'
  <2>1. PICK stored \in {list, Nothing} :
          /\ c2s' = Append(c2s, Msg("upload-bans-compressed", stored))
          /\ Transfer(stored = list)
    BY <1>2 DEF UploadArchive
  <2>2. stored \in Part
    BY <1>1, <2>1, PartIs DEF CliOK
  <2>3. C2SOK'
    BY <1>1, <2>1, <2>2, MsgIs, SetOfAppend DEF C2SOK, ToServerType
  <2>4. SpentOK'
    BY <1>1, <2>1, FaultIs
  <2>5. SrvOK' /\ CliOK' /\ S2COK' /\ GhostOK'
    BY <1>1, <1>2 DEF UploadArchive, server, ghosts, SrvOK, CliOK, S2COK, GhostOK
  <2>6. TypeOK'
    BY <2>3, <2>4, <2>5, TypeParts
  <2>7. own' = own /\ list' = list /\ s2c' = s2c /\ \A l \in List : Safe(l)' = Safe(l)
    BY <1>2 DEF UploadArchive, server, ghosts, Safe
  <2>8. \A m \in ToSet(c2s') : m \in ToSet(c2s) \/ FileGood(m)'
    <3>1. ToSet(c2s') = ToSet(c2s) \cup {Msg("upload-bans-compressed", stored)}
      BY <1>1, <2>1, <2>2, MsgIs, SetOfAppend DEF C2SOK, ToServerType
    <3>2. FileGood(Msg("upload-bans-compressed", stored))'
      <4>1. CASE stored = list
        BY <1>1, <2>2, <2>7, <4>1, MsgIs DEF FileGood, CliOK, ToServerType
      <4>2. CASE stored = Nothing
        BY <2>2, <4>2, MsgIs, PartIs DEF FileGood, ToServerType
      <4> QED
        BY <4>1, <4>2
    <3> QED
      BY <3>1, <3>2
  <2> QED
    BY <2>6, <2>7, <2>8, OnlyTheNew
<1>3. ASSUME SkipArchive PROVE IInv'
  <2>1. SrvOK' /\ CliOK' /\ S2COK' /\ GhostOK' /\ C2SOK' /\ SpentOK'
    BY <1>1, <1>3 DEF SkipArchive, server, ghosts, spent,
         SrvOK, CliOK, S2COK, GhostOK, C2SOK, SpentOK
  <2>2. own' = own /\ list' = list /\ c2s' = c2s /\ s2c' = s2c
        /\ \A l \in List : Safe(l)' = Safe(l)
    BY <1>3 DEF SkipArchive, server, ghosts, Safe
  <2> QED
    BY <2>1, <2>2, TypeParts, OnlyTheNew
<1>4. ASSUME UploadSingle PROVE IInv'
  <2>1. /\ TypeOK' /\ own' = own /\ list' = list /\ s2c' = s2c /\ srv' = srv
        /\ \A l \in List : cut[l] \subseteq cut'[l]
        /\ \A m \in ToSet(c2s') : m \in ToSet(c2s) \/ Cut(m, cut')
    BY <1>4, SingleIs DEF IInv
  <2>2. \A m \in ToSet(c2s') : m \in ToSet(c2s) \/ FileGood(m)'
    BY <1>1, <2>1 DEF Cut, FileGood, Safe
  <2>3. \A l \in List : Safe(l) \subseteq Safe(l)'
    BY <2>1 DEF Safe
  <2> QED
    BY <2>1, <2>2, <2>3, OnlyTheNew
<1> QED
  BY <1>2, <1>3, <1>4

\* Requests and heartbeats concern no file.
LEMMA AsksKeep == IInv /\ (Request \/ Heartbeat) => IInv'
<1> SUFFICES ASSUME IInv PROVE Request \/ Heartbeat => IInv'
  OBVIOUS
<1>1. SrvOK /\ CliOK /\ C2SOK /\ S2COK /\ GhostOK /\ SpentOK
  BY TypeParts DEF IInv
<1>2. ASSUME Request \/ Heartbeat
      PROVE  /\ SrvOK' /\ CliOK' /\ S2COK' /\ GhostOK' /\ SpentOK'
             /\ own' = own /\ list' = list /\ s2c' = s2c
             /\ \A l \in List : Safe(l)' = Safe(l)
  BY <1>1, <1>2 DEF Request, Heartbeat, server, client, ghosts, spent,
       SrvOK, CliOK, S2COK, GhostOK, SpentOK, Safe
<1>3. ASSUME Request PROVE IInv'
  <2>1. c2s' = [i \in DOMAIN Lists |-> Msg("request", Only(Lists[i], {}))]
    BY <1>3 DEF Request
  <2>2. Lists \in Seq(List) /\ Len(Lists) \in Nat
    BY BanTransferAssumption
  <2>3. ASSUME NEW i \in DOMAIN Lists
        PROVE  /\ Msg("request", Only(Lists[i], {})) \in ToServerMsg
               /\ Msg("request", Only(Lists[i], {})).type = "request"
    <3>1. Lists[i] \in List /\ {} \in SUBSET Entry
      BY <2>2
    <3>2. Only(Lists[i], {}) \in Part
      BY <3>1, OnlyIs
    <3> QED
      BY <3>2, MsgIs DEF ToServerType
  <2>4. c2s' \in [1 .. Len(Lists) -> ToServerMsg]
    BY <2>1, <2>2, <2>3
  <2>5. C2SOK'
    BY <2>2, <2>4, FunctionIsSeq DEF C2SOK
  <2>6. \A m \in ToSet(c2s') : m.type = "request"
    BY <2>1, <2>3 DEF ToSet
  <2>7. \A m \in ToSet(c2s') : FileGood(m)'
    BY <2>6 DEF FileGood, Uploads
  <2>8. TypeOK'
    BY <1>2, <1>3, <2>5, TypeParts
  <2> QED
    BY <1>2, <1>3, <2>7, <2>8, OnlyTheNew
<1>4. ASSUME Heartbeat PROVE IInv'
  <2>1. c2s' = <<Msg("heartbeat", Nothing)>>
    BY <1>4 DEF Heartbeat
  <2>2. /\ Msg("heartbeat", Nothing) \in ToServerMsg
        /\ Msg("heartbeat", Nothing).type = "heartbeat"
    BY PartIs, MsgIs DEF ToServerType
  <2>3. C2SOK'
    BY <2>1, <2>2 DEF C2SOK
  <2>4. \A m \in ToSet(c2s') : m.type = "heartbeat"
    BY <2>1, <2>2 DEF ToSet
  <2>5. \A m \in ToSet(c2s') : FileGood(m)'
    BY <2>4 DEF FileGood, Uploads
  <2>6. TypeOK'
    BY <1>2, <1>4, <2>3, TypeParts
  <2> QED
    BY <1>2, <1>4, <2>5, <2>6, OnlyTheNew
<1> QED
  BY <1>3, <1>4

\* The client takes up what the server sent: an answer replaces its list, but
\* then the server has all that it needs.
LEMMA ReceivesKeep == IInv /\ ClientReceives => IInv'
<1> SUFFICES ASSUME IInv PROVE ClientReceives => IInv'
  OBVIOUS
<1>1. /\ TypeOK /\ SrvOK /\ CliOK /\ C2SOK /\ S2COK /\ GhostOK /\ SpentOK
      /\ \A m \in ToSet(s2c) : AnswerGood(m)
  BY TypeParts, InvParts DEF IInv
<1> DEFINE m == Head(s2c)
\* What is left to show of a handler, given ReceivesIs.
<1>2. ASSUME NEW type, Receives(type),
             list' \in [List -> SUBSET Entry],
             flag' \in [List -> BOOLEAN], synced' \in BOOLEAN,
             duped' \subseteq List, SpentOK',
             \A l \in List : own[l] \cap list[l] \subseteq list'[l] \cup Safe(l)
      PROVE  IInv'
  <2>1. /\ SrvOK' /\ C2SOK' /\ S2COK' /\ due' \subseteq {"archive", "single"}
        /\ own' = own /\ cut' = cut /\ missed' = missed /\ srv' = srv
        /\ ToSet(s2c') \subseteq ToSet(s2c) /\ c2s' = c2s
    BY <1>1, <1>2, ReceivesIs
  <2>2. CliOK' /\ GhostOK'
    BY <1>1, <1>2, <2>1 DEF CliOK, GhostOK
  <2>3. TypeOK'
    BY <1>2, <2>1, <2>2, TypeParts
  <2>4. \A l \in List : Safe(l)' = Safe(l)
    BY <2>1 DEF Safe
  <2> QED
    BY <1>2, <2>1, <2>3, <2>4, OnlyTheNew
<1>3. ASSUME HandleArchive PROVE IInv'
  <2>1. Receives("receive-bans-compressed") /\ flag' = flag /\ duped' = duped
    BY <1>3 DEF HandleArchive
  <2>2. m \in ToSet(s2c) /\ m.type = "receive-bans-compressed" /\ m.lists \in Part
    BY <1>1, <2>1, ReceivesIs
  <2>3. CASE list' = Accepted(m.lists) /\ synced' = TRUE /\ Transfer(TRUE)
    <3>1. DOMAIN m.lists = List /\ \A l \in List : own[l] \subseteq Safe(l)
      BY <1>1, <2>2 DEF AnswerGood, Receipts
    <3>2. list' \in [List -> SUBSET Entry]
      BY <2>2, <2>3, <3>1, PartIs DEF Accepted
    <3>3. SpentOK'
      BY <1>1, <2>3, FaultIs
    <3> QED
      BY <1>1, <1>2, <2>1, <2>3, <3>1, <3>2, <3>3 DEF CliOK, GhostOK
  <2>4. CASE UNCHANGED <<list, synced>> /\ Transfer(FALSE)
    <3>1. SpentOK'
      BY <1>1, <2>4, FaultIs
    <3> QED
      BY <1>1, <1>2, <2>1, <2>4, <3>1 DEF CliOK, GhostOK
  <2> QED
    BY <1>3, <2>3, <2>4 DEF HandleArchive
<1>4. ASSUME HandleFile PROVE IInv'
  <2>1. Receives("receive-bans")
    BY <1>4 DEF HandleFile
  <2>2. m \in ToSet(s2c) /\ m.type = "receive-bans" /\ m.lists \in Part
    BY <1>1, <2>1, ReceivesIs
  <2>3. PICK l \in DOMAIN m.lists :
          \/ /\ list' = [list EXCEPT ![l] = m.lists[l] \ Protected]
             /\ Completed(l) /\ Transfer(TRUE) /\ UNCHANGED duped
          \/ UNCHANGED <<list, flag, synced, duped>> /\ Transfer(FALSE)
          \/ /\ \E left \in {list[l]} \cup BrokenOff(m.lists[l]) :
                  list' = [list EXCEPT ![l] = left \ Protected]
             /\ Completed(l) /\ duped' = duped \cup {l} /\ Transfer(FALSE)
    BY <1>4 DEF HandleFile
  <2>4. l \in List /\ m.lists[l] \subseteq Entry /\ own[l] \subseteq Safe(l)
    BY <1>1, <2>2, <2>3, PartIs DEF AnswerGood, Receipts
  <2>5. SpentOK'
    BY <1>1, <2>3, FaultIs
  <2>6. ASSUME Completed(l), NEW S \in SUBSET Entry, list' = [list EXCEPT ![l] = S],
               duped' \subseteq List
        PROVE  IInv'
    <3>1. flag' \in [List -> BOOLEAN] /\ synced' \in BOOLEAN
      BY <1>1, <2>4, <2>6, CompletedIs
    <3>2. list' \in [List -> SUBSET Entry]
      BY <1>1, <2>6 DEF CliOK
    <3>3. \A x \in List : own[x] \cap list[x] \subseteq list'[x] \cup Safe(x)
      BY <1>1, <2>4, <2>6 DEF CliOK
    <3> QED
      BY <1>2, <2>1, <2>5, <2>6, <3>1, <3>2, <3>3
  <2>7. CASE /\ list' = [list EXCEPT ![l] = m.lists[l] \ Protected]
             /\ Completed(l) /\ Transfer(TRUE) /\ UNCHANGED duped
    <3>1. m.lists[l] \ Protected \in SUBSET Entry /\ duped' \subseteq List
      BY <1>1, <2>4, <2>7 DEF GhostOK
    <3> QED
      BY <2>6, <2>7, <3>1
  <2>8. CASE UNCHANGED <<list, flag, synced, duped>> /\ Transfer(FALSE)
    BY <1>1, <1>2, <2>1, <2>5, <2>8 DEF CliOK, GhostOK
  <2>9. CASE /\ \E left \in {list[l]} \cup BrokenOff(m.lists[l]) :
                  list' = [list EXCEPT ![l] = left \ Protected]
             /\ Completed(l) /\ duped' = duped \cup {l} /\ Transfer(FALSE)
    <3>1. PICK left \in {list[l]} \cup BrokenOff(m.lists[l]) :
            list' = [list EXCEPT ![l] = left \ Protected]
      BY <2>9
    <3>2. list[l] \subseteq Entry /\ \A S \in BrokenOff(m.lists[l]) : S \subseteq Entry
      BY <1>1, <2>4 DEF CliOK, BrokenOff
    <3>3. left \ Protected \in SUBSET Entry /\ duped' \subseteq List
      BY <1>1, <2>4, <2>9, <3>1, <3>2 DEF GhostOK
    <3> QED
      BY <2>6, <2>9, <3>1, <3>3
  <2> QED
    BY <2>3, <2>7, <2>8, <2>9
<1>5. ASSUME HandlePiece PROVE IInv'
  <2>1. Receives("receive") /\ list' = With(list, Accepted(m.lists))
        /\ duped' = duped /\ spent' = spent
    BY <1>5 DEF HandlePiece
  <2>2. m.lists \in Part
    BY <1>1, <2>1, ReceivesIs
  <2>3. list' \in [List -> SUBSET Entry] /\ \A l \in List : list[l] \subseteq list'[l]
    BY <1>1, <2>1, <2>2, AcceptedIs, WithIs DEF CliOK
  <2>4. flag' \in [List -> BOOLEAN] /\ synced' \in BOOLEAN
    BY <1>1, <1>5, <2>2, PartIs, CompletedIs DEF HandlePiece
  <2>5. SpentOK' /\ duped' \subseteq List
    BY <1>1, <2>1, FaultIs DEF GhostOK
  <2> QED
    BY <1>2, <2>1, <2>3, <2>4, <2>5
<1>6. ASSUME HandleAdd PROVE IInv'
  <2>1. /\ Receives("add") /\ list' = With(list, m.lists)
        /\ flag' = flag /\ synced' = synced /\ duped' = duped /\ spent' = spent
    BY <1>6 DEF HandleAdd, spent
  <2>2. m.lists \in Part
    BY <1>1, <2>1, ReceivesIs
  <2>3. list' \in [List -> SUBSET Entry] /\ \A l \in List : list[l] \subseteq list'[l]
    BY <1>1, <2>1, <2>2, WithIs DEF CliOK
  <2>4. flag' \in [List -> BOOLEAN] /\ synced' \in BOOLEAN /\ duped' \subseteq List
    BY <1>1, <2>1 DEF CliOK, GhostOK
  <2>5. SpentOK'
    BY <1>1, <2>1, FaultIs
  <2> QED
    BY <1>2, <2>1, <2>3, <2>4, <2>5
<1> QED
  BY <1>3, <1>4, <1>5, <1>6 DEF ClientReceives

\* The server merges before it answers: a file that it has seen needs no more
\* to be vouched for.
LEMMA ServerKeeps == IInv /\ ServerReceives => IInv'
<1> SUFFICES ASSUME IInv PROVE ServerReceives => IInv'
  OBVIOUS
<1>1. /\ TypeOK /\ SrvOK /\ CliOK /\ C2SOK /\ S2COK /\ GhostOK /\ SpentOK
      /\ \A m \in ToSet(c2s) : FileGood(m)
      /\ \A l \in List : own[l] \subseteq list[l] \cup Safe(l)
  BY TypeParts, InvParts DEF IInv, OwnBansSurvive, Safe
<1> DEFINE m == Head(c2s)
\* What is left to show of a handler, given HandlesIs.
<1>2. ASSUME NEW type, Handles(type),
             srv' \in [List -> SUBSET Entry], S2COK',
             \A l \in List : srv[l] \subseteq srv'[l],
             \A a \in ToSet(s2c') : a \in ToSet(s2c) \/ AnswerGood(a)'
      PROVE  IInv'
  <2>1. /\ CliOK' /\ C2SOK' /\ GhostOK' /\ SpentOK' /\ known' \in BOOLEAN
        /\ own' = own /\ cut' = cut /\ list' = list
        /\ ToSet(c2s') \subseteq ToSet(c2s)
    BY <1>1, <1>2, HandlesIs
  <2>2. TypeOK'
    BY <1>2, <2>1, TypeParts DEF SrvOK
  <2>3. \A l \in List : Safe(l) \subseteq Safe(l)'
    BY <1>2, <2>1 DEF Safe
  <2> QED
    BY <1>2, <2>1, <2>2, <2>3, OnlyTheNew
<1>3. ASSUME HandleHeartbeat PROVE IInv'
  <2>1. Handles("heartbeat") /\ srv' = srv /\ s2c' = s2c
    BY <1>3 DEF HandleHeartbeat
  <2> QED
    BY <1>1, <1>2, <2>1 DEF SrvOK, S2COK
<1>4. ASSUME HandleRequest PROVE IInv'
  <2>1. Handles("request") /\ srv' = srv
    BY <1>4 DEF HandleRequest
  <2>2. m.lists \in Part
    BY <1>1, <2>1, HandlesIs
  <2>3. PICK l \in DOMAIN m.lists : s2c' = s2c \o Answers(l)
    BY <1>4 DEF HandleRequest
  <2>4. /\ Answers(l) \in Seq(ToClientMsg)
        /\ \A a \in ToSet(Answers(l)) : a.type = "receive"
    BY <1>1, <2>2, <2>3, PartIs, AnswersAre DEF SrvOK
  <2>5. S2COK' /\ ToSet(s2c') = ToSet(s2c) \cup ToSet(Answers(l))
    BY <1>1, <2>3, <2>4, SetOfConcat DEF S2COK
  <2>6. \A a \in ToSet(Answers(l)) : AnswerGood(a)'
    BY <2>4 DEF AnswerGood, Receipts
  <2> QED
    BY <1>1, <1>2, <2>1, <2>5, <2>6 DEF SrvOK
<1>5. ASSUME NEW type \in Uploads, HandleUpload(type) PROVE IInv'
  <2>1. Handles(type)
    BY <1>5 DEF HandleUpload
  <2>2. m \in ToSet(c2s) /\ m.type = type /\ m.lists \in Part
        /\ own' = own /\ cut' = cut
    BY <1>1, <2>1, HandlesIs
  <2>3. CASE m.lists = Nothing
    <3>1. srv' = srv /\ s2c' = s2c
      BY <1>5, <2>3 DEF HandleUpload
    <3> QED
      BY <1>1, <1>2, <2>1, <3>1 DEF SrvOK, S2COK
  <2>4. CASE m.lists # Nothing
    <3> DEFINE back == [l \in DOMAIN m.lists |-> srv'[l]]
    <3>1. srv' = With(srv, Accepted(m.lists)) /\ s2c' = Append(s2c, Msg(Answer(type), back))
      BY <1>5, <2>4 DEF HandleUpload
    <3>2. DOMAIN m.lists \in SUBSET List /\ Accepted(m.lists) \in Part
          /\ DOMAIN Accepted(m.lists) = DOMAIN m.lists
          /\ \A l \in DOMAIN m.lists : Accepted(m.lists)[l] = m.lists[l] \ Protected
      <4>1. \A l \in DOMAIN m.lists : Accepted(m.lists)[l] = m.lists[l] \ Protected
        BY DEF Accepted
      <4> HIDE DEF m
      <4> QED
        BY <2>2, <4>1, PartIs, AcceptedIs
    <3>3. /\ srv' \in [List -> SUBSET Entry]
          /\ \A l \in List : srv[l] \subseteq srv'[l]
          /\ \A l \in DOMAIN m.lists : srv'[l] = srv[l] \cup (m.lists[l] \ Protected)
      <4>1. srv \in [List -> SUBSET Entry]
        BY <1>1 DEF SrvOK
      <4> HIDE DEF m
      <4> QED
        BY <3>1, <3>2, <4>1, WithIs
    <3>4. back \in Part /\ DOMAIN back = DOMAIN m.lists
      <4>1. back \in [DOMAIN m.lists -> SUBSET Entry]
        BY <3>2, <3>3
      <4> HIDE DEF back, m
      <4> QED
        BY <3>2, <4>1, PartIs
    <3>5. /\ Answer(type) \in ToClientType
          /\ Answer(type) = "receive-bans-compressed" => type = "upload-bans-compressed"
      BY DEF Answer, Uploads, ToClientType
    <3> DEFINE a == Msg(Answer(type), back)
    <3>6. a \in ToClientMsg /\ a.type = Answer(type) /\ a.lists = back
      <4> HIDE DEF back
      <4> QED
        BY <3>4, <3>5, MsgIs
    <3>7. S2COK' /\ ToSet(s2c') = ToSet(s2c) \cup {a}
      <4> HIDE DEF a
      <4> QED
        BY <1>1, <3>1, <3>6, SetOfAppend DEF S2COK, a
    <3>8. ASSUME NEW x, x = a PROVE AnswerGood(x)'
      <4>1. FileGood(m)
        BY <1>1, <2>2
      <4>2. \A l \in DOMAIN m.lists : own'[l] \subseteq Safe(l)'
        <5> HIDE DEF m
        <5> QED
          BY <1>5, <2>2, <3>2, <3>3, <4>1 DEF FileGood, Safe
      <4>3. Answer(type) = "receive-bans-compressed" => DOMAIN m.lists = List
        <5> HIDE DEF m
        <5> QED
          BY <2>2, <2>4, <3>5, <4>1 DEF FileGood
      <4>4. x.type = Answer(type) /\ DOMAIN x.lists = DOMAIN m.lists
        <5> HIDE DEF a, back
        <5> QED
          BY <3>4, <3>6, <3>8
      <4> HIDE DEF a, back, m
      <4> QED
        BY <4>2, <4>3, <4>4 DEF AnswerGood
    <3>9. \A x \in ToSet(s2c') : x \in ToSet(s2c) \/ AnswerGood(x)'
      <4> HIDE DEF a
      <4> QED
        BY <3>7, <3>8
    <3> QED
      BY <1>2, <2>1, <3>3, <3>7, <3>9
  <2> QED
    BY <2>3, <2>4
<1> QED
  BY <1>3, <1>4, <1>5 DEF ServerReceives, Uploads

\* Bans of others only add to what is safe.
LEMMA OtherBanKeeps ==
  ASSUME IInv, NEW l \in List, NEW k \in Entry, OtherBan(l, k)
  PROVE  IInv'
<1>1. SrvOK /\ CliOK /\ C2SOK /\ S2COK /\ GhostOK /\ SpentOK
  BY TypeParts DEF IInv
<1>2. /\ srv' = [srv EXCEPT ![l] = @ \cup {k}] /\ known' = known
      /\ own' = own /\ cut' = cut /\ duped' = duped /\ c2s' = c2s
      /\ UNCHANGED client
  BY DEF OtherBan
<1>3. SrvOK' /\ CliOK' /\ C2SOK' /\ SpentOK'
  <2>1. SpentOK'
    BY <1>1, BanTransferAssumption DEF OtherBan, SpentOK
  <2> QED
    BY <1>1, <1>2, <2>1 DEF SrvOK, CliOK, C2SOK, client
<1>4. \A x \in List : Safe(x) \subseteq Safe(x)' /\ list' = list
  BY <1>1, <1>2 DEF SrvOK, Safe, client
<1>5. CASE known
  <2> DEFINE a == Msg("add", Only(l, {k}))
  <2>1. s2c' = Append(s2c, a) /\ missed' = missed
    BY <1>5 DEF OtherBan
  <2>2. a \in ToClientMsg /\ a.type = "add"
    <3>1. Only(l, {k}) \in Part
      <4>1. {k} \in SUBSET Entry
        OBVIOUS
      <4> QED
        BY <4>1, OnlyIs
    <3> QED
      BY <3>1, MsgIs DEF ToClientType
  <2> HIDE DEF a
  <2>3. S2COK' /\ ToSet(s2c') = ToSet(s2c) \cup {a}
    BY <1>1, <2>1, <2>2, SetOfAppend DEF S2COK
  <2>4. AnswerGood(a)'
    BY <2>2 DEF AnswerGood, Receipts
  <2>5. TypeOK'
    BY <1>1, <1>2, <1>3, <2>1, <2>3, TypeParts DEF GhostOK
  <2> QED
    BY <1>2, <1>4, <2>3, <2>4, <2>5, OnlyTheNew
<1>6. CASE ~known
  <2>1. s2c' = s2c /\ missed' = [missed EXCEPT ![l] = @ \cup {k}]
    BY <1>6 DEF OtherBan
  <2>2. S2COK' /\ GhostOK'
    BY <1>1, <1>2, <2>1 DEF S2COK, GhostOK
  <2>3. TypeOK'
    BY <1>3, <2>2, TypeParts
  <2> QED
    BY <1>2, <1>4, <2>1, <2>3, OnlyTheNew
<1> QED
  BY <1>5, <1>6

\* A restart and a lost datagram take away no list.
LEMMA FaultsKeep == IInv /\ (ServerRestart \/ LoseToServer \/ LoseToClient) => IInv'
<1> SUFFICES ASSUME IInv PROVE ServerRestart \/ LoseToServer \/ LoseToClient => IInv'
  OBVIOUS
<1>1. SrvOK /\ CliOK /\ C2SOK /\ S2COK /\ GhostOK /\ SpentOK
  BY TypeParts DEF IInv
<1>2. ASSUME ServerRestart \/ LoseToServer \/ LoseToClient
      PROVE  /\ SrvOK' /\ CliOK' /\ SpentOK'
             /\ own' = own /\ list' = list /\ \A l \in List : Safe(l)' = Safe(l)
  <2>1. Fault
    BY <1>2 DEF ServerRestart, LoseToServer, LoseToClient
  <2>2. SpentOK'
    BY <1>1, <2>1, FaultIs
  <2> QED
    BY <1>1, <1>2, <2>2 DEF ServerRestart, LoseToServer, LoseToClient, server, client,
         ghosts, SrvOK, CliOK, Safe
<1>3. ASSUME ServerRestart PROVE IInv'
  <2>1. c2s' = c2s /\ s2c' = s2c /\ C2SOK' /\ S2COK' /\ GhostOK'
    BY <1>1, <1>3 DEF ServerRestart, ghosts, C2SOK, S2COK, GhostOK
  <2>2. TypeOK'
    BY <1>2, <1>3, <2>1, TypeParts
  <2> QED
    BY <1>2, <1>3, <2>1, <2>2, OnlyTheNew
<1>4. ASSUME LoseToServer PROVE IInv'
  <2>1. c2s # <<>> /\ c2s' = Tail(c2s) /\ s2c' = s2c /\ S2COK' /\ GhostOK'
    BY <1>1, <1>4 DEF LoseToServer, ghosts, S2COK, GhostOK
  <2>2. C2SOK' /\ ToSet(c2s') \subseteq ToSet(c2s)
    BY <1>1, <2>1, SetOfTail DEF C2SOK
  <2>3. TypeOK'
    BY <1>2, <1>4, <2>1, <2>2, TypeParts
  <2> QED
    BY <1>2, <1>4, <2>1, <2>2, <2>3, OnlyTheNew
<1>5. ASSUME LoseToClient PROVE IInv'
  <2>1. /\ s2c # <<>> /\ s2c' = Tail(s2c) /\ c2s' = c2s /\ C2SOK'
        /\ cut' = cut /\ duped' = duped
    BY <1>1, <1>5 DEF LoseToClient, C2SOK
  <2>2. S2COK' /\ ToSet(s2c') \subseteq ToSet(s2c) /\ Head(s2c) \in ToClientMsg
    BY <1>1, <2>1, SetOfTail DEF S2COK
  <2>3. GhostOK'
    <3>1. Head(s2c).lists \in Part
      BY <2>2 DEF ToClientMsg
    <3>2. With(missed, Head(s2c).lists) \in [List -> SUBSET Entry]
      BY <1>1, <3>1, WithIs DEF GhostOK
    <3> QED
      BY <1>1, <1>2, <1>5, <2>1, <3>2 DEF LoseToClient, GhostOK
  <2>4. TypeOK'
    BY <1>2, <1>5, <2>1, <2>2, <2>3, TypeParts
  <2> QED
    BY <1>2, <1>5, <2>1, <2>2, <2>4, OnlyTheNew
<1> QED
  BY <1>3, <1>4, <1>5

\* The invariant holds in every state.
THEOREM Invariance == Spec => []IInv
<1>1. ASSUME IInv, Next PROVE IInv'
  BY <1>1, UploadsKeep, AsksKeep, ReceivesKeep, ServerKeeps, OtherBanKeeps, FaultsKeep
     DEF Next
<1>2. ASSUME IInv, UNCHANGED vars PROVE IInv'
  <2>1. /\ SrvOK' /\ CliOK' /\ C2SOK' /\ S2COK' /\ GhostOK' /\ SpentOK'
        /\ own' = own /\ list' = list /\ c2s' = c2s /\ s2c' = s2c
        /\ \A l \in List : Safe(l)' = Safe(l)
    <3>1. SrvOK /\ CliOK /\ C2SOK /\ S2COK /\ GhostOK /\ SpentOK
      BY <1>2, TypeParts DEF IInv
    <3> QED
      BY <1>2, <3>1 DEF vars, server, client, ghosts, spent,
           SrvOK, CliOK, C2SOK, S2COK, GhostOK, SpentOK, Safe
  <2> QED
    BY <1>2, <2>1, TypeParts, OnlyTheNew
<1> QED
  BY <1>1, <1>2, InitIInv, PTL DEF Spec

\* The state has its type, whatever the constants.
THEOREM TypeCorrect == Spec => []TypeOK
BY Invariance, PTL DEF IInv

\* No ban that the client had is forgotten by both sides, whatever becomes of
\* the transfers and the datagrams, but for the rest of a file that broke off.
THEOREM NoBanForgotten == Spec => []OwnBansSurvive
BY Invariance, PTL DEF IInv

-----------------------------------------------------------------------------
(* Nothing that was received is lacking.                                   *)

\* A datagram that adds the entry to the list, and does nothing else.
Gives(m, l, e) == m.type \in {"receive", "add"} /\ l \in DOMAIN m.lists /\ e \in m.lists[l]

\* The lists of which the client believes, or will believe, that it has them.
Claimed(l) ==
  \/ flag[l] \/ synced
  \/ \E m \in ToSet(s2c) : m.type = "receive" /\ l \in DOMAIN m.lists

\* What the client is not to be given any more.
Excused(l) == missed[l] \cup cut[l]

NoneProtected == \A l \in List : srv[l] \cap Protected = {}

\* Whatever is on its way to the client is on the server.
AnswersKnown == \A m \in ToSet(s2c) : \A l \in DOMAIN m.lists : m.lists[l] \subseteq srv[l]

\* Apart from what is safe, a file on its way to the server is the list of the
\* client; and once there is an answer, everything on that list is safe.
FilesAgree ==
  \A m \in ToSet(c2s) : m.type \in Uploads =>
    \A l \in DOMAIN m.lists : m.lists[l] \cup Safe(l) = list[l] \cup Safe(l)

AnswersCover ==
  \A m \in ToSet(s2c) : m.type \in Receipts =>
    \A l \in DOMAIN m.lists : list[l] \subseteq Safe(l)

\* What an answer lacks of the server's list comes after it.
AnswersFollowed ==
  \A p \in DOMAIN s2c : s2c[p].type \in Receipts =>
    \A l \in DOMAIN s2c[p].lists : \A e \in srv[l] \ Excused(l) :
      e \in s2c[p].lists[l] \/ \E q \in DOMAIN s2c : q > p /\ Gives(s2c[q], l, e)

\* What the client lacks of a list that it claims is in a datagram.
NothingLacks ==
  \A l \in List : Claimed(l) /\ l \notin duped =>
    \A e \in Latest(srv[l], Window[l]) \ Excused(l) :
      e \in list[l] \/ \E m \in ToSet(s2c) : Gives(m, l, e)

\* A file in flight to the server, by itself.
FileAgrees(m) ==
  m.type \in Uploads => \A l \in DOMAIN m.lists : m.lists[l] \cup Safe(l) = list[l] \cup Safe(l)

DInv == /\ NoneProtected /\ AnswersKnown /\ FilesAgree /\ AnswersCover
        /\ AnswersFollowed /\ NothingLacks

\* What is in flight is typed, and names lists.
LEMMA InFlightAre ==
  ASSUME TypeOK
  PROVE  /\ s2c \in Seq(ToClientMsg) /\ c2s \in Seq(ToServerMsg)
         /\ \A m \in ToSet(s2c) \cup ToSet(c2s) :
              /\ DOMAIN m.lists \subseteq List
              /\ \A l \in DOMAIN m.lists : m.lists[l] \subseteq Entry
<1>1. s2c \in Seq(ToClientMsg) /\ c2s \in Seq(ToServerMsg)
  BY TypeParts DEF S2COK, C2SOK
<1>2. \A m \in ToClientMsg \cup ToServerMsg :
        /\ DOMAIN m.lists \subseteq List
        /\ \A l \in DOMAIN m.lists : m.lists[l] \subseteq Entry
  BY PartIs DEF ToClientMsg, ToServerMsg
<1>3. ToSet(s2c) \subseteq ToClientMsg /\ ToSet(c2s) \subseteq ToServerMsg
  BY <1>1 DEF ToSet
<1> QED
  BY <1>1, <1>2, <1>3

\* Sets of entries are finite.
LEMMA EntriesFinite == ASSUME NEW S \in SUBSET Entry PROVE IsFiniteSet(S) /\ Cardinality(S) \in Nat
<1>1. MaxEntry \in Int /\ 1 \in Int
  BY BanTransferAssumption
<1>2. IsFiniteSet(Entry)
  BY <1>1, FS_Interval DEF Entry
<1>3. IsFiniteSet(S)
  BY <1>2, FS_Subset
<1> QED
  BY <1>3, FS_CardinalityType

\* An entry among the last ones of a list is among the last of any part of it.
LEMMA LatestOfPart ==
  ASSUME NEW T \in SUBSET Entry, NEW S \in SUBSET T, NEW n \in Nat, NEW e \in Latest(T, n), e \in S
  PROVE  e \in Latest(S, n)
<1> DEFINE A == {f \in S : f > e}
           B == {f \in T : f > e}
<1>1. A \in SUBSET B /\ A \in SUBSET Entry /\ B \in SUBSET Entry
  OBVIOUS
<1> HIDE DEF A, B
<1>2. Cardinality(A) <= Cardinality(B) /\ Cardinality(A) \in Nat /\ Cardinality(B) \in Nat
  BY <1>1, EntriesFinite, FS_Subset
<1>3. Cardinality(B) < n
  BY DEF Latest, B
<1>4. Cardinality(A) < n
  BY <1>2, <1>3
<1> QED
  BY <1>4 DEF Latest, A

\* What is cut into pieces is whole.
LEMMA PiecesWhole ==
  ASSUME NEW S \in SUBSET Entry
  PROVE  /\ \A i \in DOMAIN Pieces(S) : Pieces(S)[i] \subseteq S
         /\ \A e \in S : \E i \in DOMAIN Pieces(S) : e \in Pieces(S)[i]
<1> DEFINE n == Cardinality(S)
           last == (n + Piece - 1) \div Piece
<1>1. n \in Nat /\ IsFiniteSet(S) /\ Piece \in Nat /\ Piece > 0
  BY EntriesFinite, BanTransferAssumption
<1>2. DOMAIN Pieces(S) = 1 .. last
  BY DEF Pieces
<1>3. \A i \in 1 .. last : Pieces(S)[i] = {e \in S : Cardinality({f \in S : f < e}) \div Piece = i - 1}
  BY DEF Pieces
<1>4. ASSUME NEW e \in S PROVE \E i \in 1 .. last : e \in Pieces(S)[i]
  <2> DEFINE A == {f \in S : f < e}
             x == Cardinality(A)
             q == x \div Piece
  <2>1. A \in SUBSET (S \ {e}) /\ A \in SUBSET Entry
    <3>1. e \in Int /\ ~ (e < e)
      BY DEF Entry
    <3>2. \A f \in A : f \in S /\ f # e
      BY <3>1
    <3> HIDE DEF A
    <3> QED
      BY <3>2
  <2>2. IsFiniteSet(S \ {e}) /\ Cardinality(S \ {e}) = n - 1
    BY <1>1, FS_RemoveElement
  <2>3. x <= n - 1 /\ x \in Nat
    <3> HIDE DEF A
    <3> QED
      BY <2>1, <2>2, FS_Subset, EntriesFinite
  <2> HIDE DEF A, x, n
  <2>4. q \in Nat /\ q + 1 <= last
    <3>1. q \in Nat /\ last \in Nat
      BY <1>1, <2>3
    <3>2. Piece * q <= x
      BY <1>1, <2>3
    <3>3. n + Piece - 1 < Piece * last + Piece
      BY <1>1
    <3> HIDE DEF q, last
    <3>4. ASSUME last <= q PROVE FALSE
      <4>1. Piece * last <= Piece * q
        BY <1>1, <3>1, <3>4
      <4> QED
        BY <1>1, <2>3, <3>1, <3>2, <3>3, <4>1
    <3> QED
      BY <3>1, <3>4
  <2>5. q + 1 \in 1 .. last /\ (q + 1) - 1 = q
    <3>1. last \in Int
      BY <1>1
    <3> HIDE DEF q, last
    <3> QED
      BY <2>4, <3>1
  <2>6. e \in Pieces(S)[q + 1]
    <3> DEFINE i == q + 1
    <3>1. i \in 1 .. last /\ i - 1 = q
      BY <2>5
    <3> HIDE DEF i, last
    <3>2. Pieces(S)[i] = {d \in S : Cardinality({f \in S : f < d}) \div Piece = i - 1}
      BY <1>3, <3>1
    <3>3. Cardinality({f \in S : f < e}) \div Piece = i - 1
      BY <3>1 DEF A, x
    <3>4. e \in Pieces(S)[i]
      BY <3>2, <3>3
    <3> QED
      BY <3>4 DEF i
  <2> HIDE DEF q, last
  <2> QED
    BY <2>5, <2>6
<1> HIDE DEF last
<1> QED
  BY <1>2, <1>3, <1>4

\* t is the queue s without its first datagram; u is s with t behind it.
Shortened(s, t) ==
  /\ 1 \in DOMAIN s /\ s[1] = Head(s)
  /\ \A p \in DOMAIN t : p + 1 \in DOMAIN s /\ t[p] = s[p + 1]
  /\ \A q \in DOMAIN s : q > 1 => q - 1 \in DOMAIN t /\ t[q - 1] = s[q]
  /\ ToSet(s) = {Head(s)} \cup ToSet(t)

Extended(s, t, u) ==
  /\ \A p \in DOMAIN s : p \in DOMAIN u /\ u[p] = s[p]
  /\ \A j \in DOMAIN t : /\ Len(s) + j \in DOMAIN u /\ u[Len(s) + j] = t[j]
                         /\ \A p \in DOMAIN s : Len(s) + j > p
  /\ \A p \in DOMAIN u : p \in DOMAIN s \/ \E j \in DOMAIN t : p = Len(s) + j
  /\ ToSet(u) = ToSet(s) \cup ToSet(t)

\* What is behind the first datagram.
LEMMA QueueTail ==
  ASSUME NEW M, NEW s \in Seq(M), s # <<>>
  PROVE  Shortened(s, Tail(s))
<1> DEFINE t == Tail(s)
<1>1. /\ Len(s) \in Nat /\ Len(s) > 0 /\ DOMAIN s = 1 .. Len(s) /\ DOMAIN t = 1 .. Len(s) - 1
      /\ \A p \in 1 .. Len(s) - 1 : t[p] = s[p + 1]
      /\ s[1] = Head(s)
  OBVIOUS
<1> HIDE DEF t
<1>2. /\ \A p \in DOMAIN t : p + 1 \in DOMAIN s /\ t[p] = s[p + 1]
      /\ \A q \in DOMAIN s : q > 1 => q - 1 \in DOMAIN t /\ t[q - 1] = s[q]
      /\ \A q \in DOMAIN s : q = 1 \/ q > 1
      /\ 1 \in DOMAIN s
  <2>1. \A q \in DOMAIN s : q > 1 => q - 1 \in DOMAIN t /\ (q - 1) + 1 = q
    BY <1>1
  <2> QED
    BY <1>1, <2>1
<1>3. ToSet(s) \subseteq {Head(s)} \cup ToSet(t)
  BY <1>1, <1>2 DEF ToSet
<1>4. {Head(s)} \cup ToSet(t) \subseteq ToSet(s)
  BY <1>1, <1>2 DEF ToSet
<1> QED
  BY <1>1, <1>2, <1>3, <1>4 DEF Shortened, t

\* What is added comes behind what is there.
LEMMA QueueMore ==
  ASSUME NEW M, NEW s \in Seq(M), NEW t \in Seq(M)
  PROVE  Extended(s, t, s \o t)
<1> DEFINE u == s \o t
<1>1. /\ Len(s) \in Nat /\ Len(t) \in Nat /\ DOMAIN s = 1 .. Len(s) /\ DOMAIN t = 1 .. Len(t)
      /\ DOMAIN u = 1 .. Len(s) + Len(t)
      /\ \A p \in 1 .. Len(s) + Len(t) : u[p] = IF p <= Len(s) THEN s[p] ELSE t[p - Len(s)]
  OBVIOUS
<1>2. ToSet(u) = ToSet(s) \cup ToSet(t)
  BY SetOfConcat
<1> HIDE DEF u
<1>3. \A p \in DOMAIN s : p \in DOMAIN u /\ u[p] = s[p]
  BY <1>1
<1>4. ASSUME NEW j \in DOMAIN t
      PROVE  /\ Len(s) + j \in DOMAIN u /\ u[Len(s) + j] = t[j]
             /\ \A p \in DOMAIN s : Len(s) + j > p
  <2>1. Len(s) + j \in DOMAIN u /\ ~ (Len(s) + j <= Len(s)) /\ (Len(s) + j) - Len(s) = j
    BY <1>1
  <2> QED
    BY <1>1, <2>1
<1>5. ASSUME NEW p \in DOMAIN u, p \notin DOMAIN s PROVE \E j \in DOMAIN t : p = Len(s) + j
  <2>1. p - Len(s) \in DOMAIN t /\ p = Len(s) + (p - Len(s))
    BY <1>1, <1>5
  <2> QED
    BY <2>1
<1> QED
  BY <1>3, <1>4, <1>5, <1>2 DEF Extended, u

-----------------------------------------------------------------------------
(* The three kinds of steps.                                               *)

\* What the client sends concerns files only: an entry more may be cut off.
LEMMA ClientSends ==
  ASSUME IInv, DInv, srv' = srv, list' = list, flag' = flag, synced' = synced, s2c' = s2c,
         missed' = missed, duped' = duped,
         \A l \in List : cut[l] \subseteq cut'[l],
         \A m \in ToSet(c2s') : m \in ToSet(c2s) \/ FileAgrees(m)'
  PROVE  DInv'
<1>1. \A l \in List : Safe(l) \subseteq Safe(l)' /\ Excused(l) \subseteq Excused(l)'
  BY DEF Safe, Excused
<1>2. \A m \in ToSet(s2c) \cup ToSet(c2s) : DOMAIN m.lists \subseteq List
  BY InFlightAre DEF IInv
<1>3. NoneProtected' /\ AnswersKnown'
  BY DEF DInv, NoneProtected, AnswersKnown
<1>4. FilesAgree'
  <2> SUFFICES ASSUME NEW m \in ToSet(c2s'), m.type \in Uploads, NEW l \in DOMAIN m.lists
               PROVE  m.lists[l] \cup Safe(l)' = list'[l] \cup Safe(l)'
    BY DEF FilesAgree
  <2>1. CASE m \in ToSet(c2s)
    <3>1. m.lists[l] \cup Safe(l) = list[l] \cup Safe(l) /\ l \in List
      BY <1>2, <2>1 DEF DInv, FilesAgree
    <3> QED
      BY <1>1, <3>1
  <2>2. CASE FileAgrees(m)'
    BY <2>2 DEF FileAgrees
  <2> QED
    BY <2>1, <2>2
<1>5. AnswersCover'
  <2> SUFFICES ASSUME NEW m \in ToSet(s2c), m.type \in Receipts, NEW l \in DOMAIN m.lists
               PROVE  list[l] \subseteq Safe(l)'
    BY DEF AnswersCover
  <2>1. list[l] \subseteq Safe(l) /\ l \in List
    BY <1>2 DEF DInv, AnswersCover
  <2> QED
    BY <1>1, <2>1
<1>6. AnswersFollowed'
  <2> SUFFICES ASSUME NEW p \in DOMAIN s2c, s2c[p].type \in Receipts,
                      NEW l \in DOMAIN s2c[p].lists, NEW e \in srv[l] \ Excused(l)'
               PROVE  e \in s2c[p].lists[l] \/ \E q \in DOMAIN s2c : q > p /\ Gives(s2c[q], l, e)
    BY DEF AnswersFollowed, Gives
  <2>1. s2c[p] \in ToSet(s2c)
    BY DEF ToSet
  <2>2. l \in List
    BY <1>2, <2>1
  <2>3. e \in srv[l] \ Excused(l)
    BY <1>1, <2>2
  <2> QED
    BY <2>3 DEF DInv, AnswersFollowed
<1>7. NothingLacks'
  <2> SUFFICES ASSUME NEW l \in List, Claimed(l)', l \notin duped,
                      NEW e \in Latest(srv[l], Window[l]) \ Excused(l)'
               PROVE  e \in list[l] \/ \E m \in ToSet(s2c) : Gives(m, l, e)
    BY DEF NothingLacks, Gives
  <2>1. Claimed(l) /\ e \in Latest(srv[l], Window[l]) \ Excused(l)
    BY <1>1 DEF Claimed
  <2> QED
    BY <2>1 DEF DInv, NothingLacks
<1> QED
  BY <1>3, <1>4, <1>5, <1>6, <1>7 DEF DInv

\* What the client takes from the queue, or loses: an answer replaces a list,
\* but then the client has all of it, or keeps what it had and claims no more.
LEMMA ClientTakes ==
  ASSUME IInv, DInv, s2c # <<>>, s2c' = Tail(s2c), c2s' = c2s, srv' = srv, cut' = cut,
         NEW m, m = Head(s2c),
         \A l \in List : missed[l] \subseteq missed'[l],
         \A l \in List : list'[l] \subseteq list[l] \cup srv[l],
         \A l \in List : list[l] \subseteq list'[l] \/ (m.type \in Receipts /\ l \in DOMAIN m.lists),
         \A l \in List, e \in Entry : Gives(m, l, e) => e \in list'[l] \cup missed'[l],
         \A l \in List : Claimed(l)' /\ l \notin duped' =>
           \/ Claimed(l) /\ l \notin duped /\ list[l] \subseteq list'[l]
           \/ m.type \in Receipts /\ l \in DOMAIN m.lists /\ m.lists[l] \ Protected \subseteq list'[l]
  PROVE  DInv'
<1>1. \A l \in List : Safe(l)' = Safe(l) /\ Excused(l) \subseteq Excused(l)'
  BY DEF Safe, Excused
<1>2. /\ s2c \in Seq(ToClientMsg) /\ srv \in [List -> SUBSET Entry]
      /\ \A a \in ToSet(s2c) \cup ToSet(c2s) : DOMAIN a.lists \subseteq List
  BY InFlightAre, TypeParts DEF IInv, SrvOK
<1>3. /\ 1 \in DOMAIN s2c /\ s2c[1] = m
      /\ \A p \in DOMAIN s2c' : p + 1 \in DOMAIN s2c /\ s2c'[p] = s2c[p + 1]
      /\ \A q \in DOMAIN s2c : q > 1 => q - 1 \in DOMAIN s2c' /\ s2c'[q - 1] = s2c[q]
      /\ ToSet(s2c) = {m} \cup ToSet(s2c')
  <2>1. Shortened(s2c, Tail(s2c))
    BY <1>2, QueueTail
  <2> QED
    BY <2>1 DEF Shortened
<1>4. DOMAIN s2c \subseteq Nat /\ DOMAIN s2c' \subseteq Nat
  BY <1>2
<1>5. NoneProtected' /\ AnswersKnown'
  BY <1>3 DEF DInv, NoneProtected, AnswersKnown
\* An answer that replaces a list finds everything safe on it.
<1>6. ASSUME NEW l \in List PROVE list[l] \cup Safe(l) = list'[l] \cup Safe(l)
  <2>1. CASE list[l] \subseteq list'[l]
    BY <2>1 DEF Safe
  <2>2. CASE m.type \in Receipts /\ l \in DOMAIN m.lists
    <3>1. list[l] \subseteq Safe(l)
      BY <1>3, <2>2 DEF DInv, AnswersCover
    <3> QED
      BY <3>1 DEF Safe
  <2> QED
    BY <2>1, <2>2
<1>7. FilesAgree'
  <2> SUFFICES ASSUME NEW a \in ToSet(c2s), a.type \in Uploads, NEW l \in DOMAIN a.lists
               PROVE  a.lists[l] \cup Safe(l)' = list'[l] \cup Safe(l)'
    BY DEF FilesAgree
  <2>1. l \in List /\ a.lists[l] \cup Safe(l) = list[l] \cup Safe(l)
    BY <1>2 DEF DInv, FilesAgree
  <2> QED
    BY <1>1, <1>6, <2>1
<1>8. AnswersCover'
  <2> SUFFICES ASSUME NEW a \in ToSet(s2c'), a.type \in Receipts, NEW l \in DOMAIN a.lists
               PROVE  list'[l] \subseteq Safe(l)'
    BY DEF AnswersCover
  <2>1. l \in List /\ list[l] \subseteq Safe(l)
    BY <1>2, <1>3 DEF DInv, AnswersCover
  <2> QED
    BY <1>1, <1>6, <2>1
<1>9. AnswersFollowed'
  <2> SUFFICES ASSUME NEW p \in DOMAIN s2c', s2c'[p].type \in Receipts,
                      NEW l \in DOMAIN s2c'[p].lists, NEW e \in srv[l] \ Excused(l)'
               PROVE  \/ e \in s2c'[p].lists[l]
                      \/ \E q \in DOMAIN s2c' : q > p /\ Gives(s2c'[q], l, e)
    BY DEF AnswersFollowed, Gives
  <2>1. p + 1 \in DOMAIN s2c /\ s2c'[p] = s2c[p + 1]
    BY <1>3
  <2>2. l \in List
    BY <1>2, <2>1 DEF ToSet
  <2>3. e \in srv[l] \ Excused(l)
    BY <1>1, <2>2
  <2>4. e \in s2c[p + 1].lists[l] \/ \E q \in DOMAIN s2c : q > p + 1 /\ Gives(s2c[q], l, e)
    BY <2>1, <2>3 DEF DInv, AnswersFollowed
  <2>5. CASE e \in s2c[p + 1].lists[l]
    BY <2>1, <2>5
  <2>6. ASSUME NEW q \in DOMAIN s2c, q > p + 1, Gives(s2c[q], l, e)
        PROVE  \E r \in DOMAIN s2c' : r > p /\ Gives(s2c'[r], l, e)
    <3>1. q > 1 /\ q - 1 > p
      BY <1>4, <2>6
    <3>2. q - 1 \in DOMAIN s2c' /\ s2c'[q - 1] = s2c[q]
      BY <1>3, <3>1
    <3> QED
      BY <2>6, <3>1, <3>2
  <2> QED
    BY <2>4, <2>5, <2>6
<1>10. NothingLacks'
  <2> SUFFICES ASSUME NEW l \in List, Claimed(l)', l \notin duped',
                      NEW e \in Latest(srv[l], Window[l]) \ Excused(l)'
               PROVE  e \in list'[l] \/ \E a \in ToSet(s2c') : Gives(a, l, e)
    BY DEF NothingLacks, Gives
  <2>1. e \in srv[l] /\ e \in Entry /\ e \notin Excused(l) /\ e \notin missed'[l]
    BY <1>1, <1>2 DEF Latest, Excused
  <2>2. CASE Claimed(l) /\ l \notin duped /\ list[l] \subseteq list'[l]
    <3>1. e \in list[l] \/ \E a \in ToSet(s2c) : Gives(a, l, e)
      BY <2>1, <2>2 DEF DInv, NothingLacks
    <3>2. Gives(m, l, e) => e \in list'[l]
      BY <2>1
    <3> QED
      BY <1>3, <2>2, <3>1, <3>2
  <2>3. CASE m.type \in Receipts /\ l \in DOMAIN m.lists /\ m.lists[l] \ Protected \subseteq list'[l]
    <3>1. e \in m.lists[l] \/ \E q \in DOMAIN s2c : q > 1 /\ Gives(s2c[q], l, e)
      BY <1>3, <2>1, <2>3 DEF DInv, AnswersFollowed
    <3>2. e \notin Protected
      BY <2>1 DEF DInv, NoneProtected
    <3>3. ASSUME NEW q \in DOMAIN s2c, q > 1, Gives(s2c[q], l, e)
          PROVE  \E a \in ToSet(s2c') : Gives(a, l, e)
      <4>1. q - 1 \in DOMAIN s2c' /\ s2c'[q - 1] = s2c[q]
        BY <1>3, <3>3
      <4>2. s2c[q] \in ToSet(s2c')
        BY <4>1 DEF ToSet
      <4> QED
        BY <3>3, <4>2
    <3> QED
      BY <2>3, <3>1, <3>2, <3>3
  <2> QED
    BY <2>2, <2>3
<1> QED
  BY <1>5, <1>7, <1>8, <1>9, <1>10 DEF DInv

\* What the server sends, and what it learns meanwhile: a new entry is in what
\* it sends, or the client has it and nothing is in flight that could take it
\* away, or it is excused.
LEMMA ServerSends ==
  ASSUME IInv, DInv, NEW t \in Seq(ToClientMsg), s2c' = s2c \o t, ToSet(c2s') \subseteq ToSet(c2s),
         list' = list, flag' = flag, synced' = synced, duped' = duped, cut' = cut,
         srv' \in [List -> SUBSET Entry],
         \A l \in List : srv[l] \subseteq srv'[l] /\ missed[l] \subseteq missed'[l],
         NoneProtected',
         \A l \in List, e \in Entry : e \in srv'[l] /\ e \notin srv[l] =>
           \/ e \in Excused(l)'
           \/ \E m \in ToSet(t) : Gives(m, l, e)
           \/ e \in list[l] /\ ~ \E m \in ToSet(s2c) : m.type \in Receipts /\ l \in DOMAIN m.lists,
         \A m \in ToSet(t) : \A l \in DOMAIN m.lists :
           /\ m.lists[l] \subseteq srv'[l]
           /\ m.type \in Receipts => m.lists[l] = srv'[l] /\ list[l] \subseteq Safe(l)'
           /\ m.type = "receive" => \A e \in Latest(srv'[l], Window[l]) :
                                      \E a \in ToSet(t) : Gives(a, l, e)
  PROVE  DInv'
<1>1. \A l \in List : Safe(l) \subseteq Safe(l)' /\ Excused(l) \subseteq Excused(l)'
  BY DEF Safe, Excused
<1>2. /\ s2c \in Seq(ToClientMsg) /\ srv \in [List -> SUBSET Entry]
      /\ \A a \in ToSet(s2c) \cup ToSet(c2s) : DOMAIN a.lists \subseteq List
  BY InFlightAre, TypeParts DEF IInv, SrvOK
<1>3. /\ \A p \in DOMAIN s2c : p \in DOMAIN s2c' /\ s2c'[p] = s2c[p]
      /\ \A j \in DOMAIN t : /\ Len(s2c) + j \in DOMAIN s2c' /\ s2c'[Len(s2c) + j] = t[j]
                             /\ \A p \in DOMAIN s2c : Len(s2c) + j > p
      /\ \A p \in DOMAIN s2c' : p \in DOMAIN s2c \/ \E j \in DOMAIN t : p = Len(s2c) + j
      /\ ToSet(s2c') = ToSet(s2c) \cup ToSet(t)
  <2>1. Extended(s2c, t, s2c \o t)
    BY <1>2, QueueMore
  <2> QED
    BY <2>1 DEF Extended
<1>4. \A a \in ToSet(t) : DOMAIN a.lists \subseteq List
  <2>1. ToSet(t) \subseteq ToClientMsg
    BY DEF ToSet
  <2>2. \A a \in ToClientMsg : DOMAIN a.lists \subseteq List
    BY PartIs DEF ToClientMsg
  <2> QED
    BY <2>1, <2>2
<1>5. AnswersKnown'
  <2> SUFFICES ASSUME NEW a \in ToSet(s2c'), NEW l \in DOMAIN a.lists PROVE a.lists[l] \subseteq srv'[l]
    BY DEF AnswersKnown
  <2>1. CASE a \in ToSet(t)
    BY <2>1
  <2>2. CASE a \in ToSet(s2c)
    <3>1. l \in List /\ a.lists[l] \subseteq srv[l]
      BY <1>2, <2>2 DEF DInv, AnswersKnown
    <3> QED
      BY <3>1
  <2> QED
    BY <1>3, <2>1, <2>2
<1>6. FilesAgree'
  <2> SUFFICES ASSUME NEW a \in ToSet(c2s'), a.type \in Uploads, NEW l \in DOMAIN a.lists
               PROVE  a.lists[l] \cup Safe(l)' = list[l] \cup Safe(l)'
    BY DEF FilesAgree
  <2>1. l \in List /\ a.lists[l] \cup Safe(l) = list[l] \cup Safe(l)
    BY <1>2 DEF DInv, FilesAgree
  <2> QED
    BY <1>1, <2>1
<1>7. AnswersCover'
  <2> SUFFICES ASSUME NEW a \in ToSet(s2c'), a.type \in Receipts, NEW l \in DOMAIN a.lists
               PROVE  list[l] \subseteq Safe(l)'
    BY DEF AnswersCover
  <2>1. CASE a \in ToSet(t)
    BY <2>1
  <2>2. CASE a \in ToSet(s2c)
    <3>1. l \in List /\ list[l] \subseteq Safe(l)
      BY <1>2, <2>2 DEF DInv, AnswersCover
    <3> QED
      BY <1>1, <3>1
  <2> QED
    BY <1>3, <2>1, <2>2
<1>8. AnswersFollowed'
  <2> SUFFICES ASSUME NEW p \in DOMAIN s2c', s2c'[p].type \in Receipts,
                      NEW l \in DOMAIN s2c'[p].lists, NEW e \in srv'[l] \ Excused(l)'
               PROVE  \/ e \in s2c'[p].lists[l]
                      \/ \E q \in DOMAIN s2c' : q > p /\ Gives(s2c'[q], l, e)
    BY DEF AnswersFollowed, Gives
  <2>1. CASE p \in DOMAIN s2c
    <3>1. s2c'[p] = s2c[p] /\ s2c[p] \in ToSet(s2c) /\ l \in List
      BY <1>2, <1>3, <2>1 DEF ToSet
    <3>2. e \in Entry /\ e \notin Excused(l)
      BY <1>1, <3>1
    <3>3. CASE e \in srv[l]
      <4>1. e \in s2c[p].lists[l] \/ \E q \in DOMAIN s2c : q > p /\ Gives(s2c[q], l, e)
        BY <2>1, <3>1, <3>2, <3>3 DEF DInv, AnswersFollowed
      <4> QED
        BY <1>3, <3>1, <4>1
    <3>4. CASE e \notin srv[l]
      <4>1. \E m \in ToSet(t) : Gives(m, l, e)
        BY <3>1, <3>2, <3>4
      <4>2. PICK j \in DOMAIN t : Gives(t[j], l, e)
        BY <4>1 DEF ToSet
      <4> QED
        BY <1>3, <2>1, <4>2
    <3> QED
      BY <3>3, <3>4
  <2>2. ASSUME NEW j \in DOMAIN t, p = Len(s2c) + j
        PROVE  e \in s2c'[p].lists[l]
    <3>1. s2c'[p] = t[j] /\ t[j] \in ToSet(t)
      BY <1>3, <2>2 DEF ToSet
    <3> QED
      BY <3>1
  <2> QED
    BY <1>3, <2>1, <2>2
<1>9. NothingLacks'
  <2> SUFFICES ASSUME NEW l \in List, Claimed(l)', l \notin duped,
                      NEW e \in Latest(srv'[l], Window[l]) \ Excused(l)'
               PROVE  e \in list[l] \/ \E a \in ToSet(s2c') : Gives(a, l, e)
    BY DEF NothingLacks, Gives
  <2>1. e \in srv'[l] /\ e \in Entry /\ e \notin Excused(l)
    BY <1>1 DEF Latest
  <2>2. CASE Claimed(l)
    <3>1. CASE e \in srv[l]
      <4>1. /\ srv'[l] \in SUBSET Entry /\ srv[l] \in SUBSET srv'[l] /\ Window[l] \in Nat
            /\ e \in Latest(srv'[l], Window[l])
        BY BanTransferAssumption
      <4>2. e \in Latest(srv[l], Window[l])
        BY <3>1, <4>1, LatestOfPart
      <4>3. e \in list[l] \/ \E a \in ToSet(s2c) : Gives(a, l, e)
        BY <2>1, <2>2, <4>2 DEF DInv, NothingLacks
      <4> QED
        BY <1>3, <4>3
    <3>2. CASE e \notin srv[l]
      BY <1>3, <2>1, <3>2
    <3> QED
      BY <3>1, <3>2
  <2>3. CASE ~ Claimed(l)
    <3>1. \E a \in ToSet(t) : a.type = "receive" /\ l \in DOMAIN a.lists
      BY <1>3, <2>3 DEF Claimed
    <3> QED
      BY <1>3, <3>1
  <2> QED
    BY <2>2, <2>3
<1> QED
  BY <1>5, <1>6, <1>7, <1>8, <1>9 DEF DInv

-----------------------------------------------------------------------------
(* The actions.                                                            *)

\* At the start nothing is in flight, and nothing is claimed.
LEMMA InitDInv == Init => DInv
<1> SUFFICES ASSUME Init PROVE DInv
  OBVIOUS
<1>1. c2s = <<>> /\ s2c = <<>> /\ ToSet(c2s) = {} /\ ToSet(s2c) = {}
  BY DEF Init, ToSet
<1>2. NoneProtected
  BY BanTransferAssumption DEF Init, NoneProtected
<1>3. NothingLacks
  BY <1>1 DEF Init, NothingLacks, Claimed
<1> QED
  BY <1>1, <1>2, <1>3 DEF DInv, AnswersKnown, FilesAgree, AnswersCover, AnswersFollowed

\* A file has the client's list, up to what broke off; requests and heartbeats
\* are no files, and fewer datagrams are no more than before.
LEMMA SendingKeeps ==
  ASSUME IInv, DInv,
         \/ UploadArchive \/ SkipArchive \/ UploadSingle \/ Request \/ Heartbeat
         \/ ServerRestart \/ LoseToServer
  PROVE  DInv'
<1>1. TypeOK /\ SrvOK /\ CliOK /\ C2SOK /\ S2COK /\ GhostOK /\ SpentOK
  BY TypeParts DEF IInv
<1>2. CASE UploadArchive
  <2>1. PICK stored \in {list, Nothing} : c2s' = Append(c2s, Msg("upload-bans-compressed", stored))
    BY <1>2 DEF UploadArchive
  <2>2. stored \in Part
    BY <1>1, <2>1, PartIs DEF CliOK
  <2>3. ToSet(c2s') = ToSet(c2s) \cup {Msg("upload-bans-compressed", stored)}
    BY <1>1, <2>1, <2>2, MsgIs, SetOfAppend DEF C2SOK, ToServerType
  <2>4. /\ srv' = srv /\ list' = list /\ flag' = flag /\ synced' = synced /\ s2c' = s2c
        /\ missed' = missed /\ duped' = duped /\ cut' = cut
    BY <1>2 DEF UploadArchive, server, ghosts
  <2>5. FileAgrees(Msg("upload-bans-compressed", stored))'
    <3>1. CASE stored = list
      BY <1>1, <2>2, <2>4, <3>1, MsgIs DEF FileAgrees, CliOK, ToServerType
    <3>2. CASE stored = Nothing
      BY <2>2, <3>2, MsgIs, PartIs DEF FileAgrees, ToServerType
    <3> QED
      BY <2>1, <3>1, <3>2
  <2> QED
    BY <2>3, <2>4, <2>5, ClientSends
<1>3. CASE UploadSingle
  <2>1. /\ srv' = srv /\ list' = list /\ flag' = flag /\ synced' = synced /\ s2c' = s2c
        /\ missed' = missed /\ duped' = duped
        /\ \A l \in List : cut[l] \subseteq cut'[l]
        /\ \A m \in ToSet(c2s') : m \in ToSet(c2s) \/ Cut(m, cut')
    BY <1>1, <1>3, SingleIs
  <2>2. \A m \in ToSet(c2s') : m \in ToSet(c2s) \/ FileAgrees(m)'
    BY <2>1 DEF Cut, FileAgrees, Safe
  <2> QED
    BY <2>1, <2>2, ClientSends
<1>4. CASE Request \/ Heartbeat
  <2>1. /\ srv' = srv /\ list' = list /\ flag' = flag /\ synced' = synced /\ s2c' = s2c
        /\ missed' = missed /\ duped' = duped /\ cut' = cut
    BY <1>4 DEF Request, Heartbeat, server, client, ghosts
  <2>2. \A m \in ToSet(c2s') : m.type \notin Uploads
    BY <1>4 DEF Request, Heartbeat, Msg, ToSet, Uploads
  <2>3. \A m \in ToSet(c2s') : FileAgrees(m)'
    BY <2>2 DEF FileAgrees
  <2> QED
    BY <2>1, <2>3, ClientSends
<1>5. CASE SkipArchive \/ ServerRestart \/ LoseToServer
  <2>1. /\ srv' = srv /\ list' = list /\ flag' = flag /\ synced' = synced /\ s2c' = s2c
        /\ missed' = missed /\ duped' = duped /\ cut' = cut
    BY <1>5 DEF SkipArchive, ServerRestart, LoseToServer, server, client, ghosts
  <2>2. ToSet(c2s') \subseteq ToSet(c2s)
    BY <1>1, <1>5, SetOfTail DEF SkipArchive, ServerRestart, LoseToServer, C2SOK
  <2> QED
    BY <2>1, <2>2, ClientSends
<1> QED
  BY <1>2, <1>3, <1>4, <1>5

\* What one more flag lets the client claim.
LEMMA CompletedClaims ==
  ASSUME TypeOK, NEW l \in List, Completed(l), ToSet(s2c') \subseteq ToSet(s2c),
         NEW x \in List, x # l, Claimed(x)'
  PROVE  Claimed(x)
<1>1. flag \in [List -> BOOLEAN]
  BY DEF TypeOK
<1>2. flag'[x] => flag[x]
  BY <1>1 DEF Completed
<1>3. synced' => synced \/ flag'[x]
  BY DEF Completed
<1> QED
  BY <1>2, <1>3 DEF Claimed

\* Files and pieces take the place of what the client has, or add to it.
LEMMA TakingKeeps ==
  ASSUME IInv, DInv, ClientReceives \/ LoseToClient
  PROVE  DInv'
<1> DEFINE m == Head(s2c)
<1>1. /\ TypeOK /\ SrvOK /\ CliOK /\ C2SOK /\ S2COK /\ GhostOK /\ SpentOK
      /\ \A a \in ToSet(s2c) : AnswerGood(a)
  BY TypeParts, InvParts DEF IInv
<1>2. s2c # <<>> /\ s2c' = Tail(s2c) /\ c2s' = c2s /\ srv' = srv /\ cut' = cut
  BY DEF ClientReceives, HandleArchive, HandleFile, HandlePiece, HandleAdd, Receives,
         LoseToClient, server
<1>3. /\ m \in ToSet(s2c) /\ m \in ToClientMsg /\ m.lists \in Part
      /\ ToSet(s2c') \subseteq ToSet(s2c)
  <2>1. s2c \in Seq(ToClientMsg)
    BY <1>1 DEF S2COK
  <2>2. m \in ToSet(s2c) /\ m \in ToClientMsg /\ ToSet(s2c') \subseteq ToSet(s2c)
    BY <1>2, <2>1, SetOfTail
  <2> HIDE DEF m
  <2> QED
    BY <2>2 DEF ToClientMsg
<1>4. /\ DOMAIN m.lists \subseteq List
      /\ \A l \in DOMAIN m.lists : m.lists[l] \subseteq srv[l] /\ m.lists[l] \cap Protected = {}
  <2>1. DOMAIN m.lists \subseteq List
    BY <1>3, PartIs
  <2> QED
    BY <1>3, <2>1 DEF DInv, AnswersKnown, NoneProtected
<1> HIDE DEF m
\* A handler that claims nothing new.
<1>5. ASSUME \A l \in List : missed[l] \subseteq missed'[l],
             flag' = flag, synced' = synced, duped' = duped,
             \A l \in List : list[l] \subseteq list'[l] /\ list'[l] \subseteq list[l] \cup srv[l],
             \A l \in List, e \in Entry : Gives(m, l, e) => e \in list'[l] \cup missed'[l]
      PROVE  DInv'
  <2>1. \A l \in List : Claimed(l)' => Claimed(l)
    BY <1>3, <1>5 DEF Claimed
  <2> QED
    BY <1>2, <1>5, <2>1, ClientTakes DEF m
<1>6. CASE HandleArchive
  <2>1. Receives("receive-bans-compressed") /\ flag' = flag /\ duped' = duped /\ missed' = missed
    BY <1>6 DEF HandleArchive, Receives
  <2>2. m.type = "receive-bans-compressed" /\ DOMAIN m.lists = List
    BY <1>1, <1>3, <2>1 DEF Receives, AnswerGood, m
  <2>3. \A l, e : ~ Gives(m, l, e)
    BY <2>2 DEF Gives
  <2>4. CASE list' = Accepted(m.lists)
    <3>1. \A l \in List : list'[l] = m.lists[l] \ Protected
      BY <2>2, <2>4 DEF Accepted
    <3>2. \A l \in List : list'[l] \subseteq list[l] \cup srv[l]
      BY <1>4, <2>2, <3>1
    <3> QED
      BY <1>2, <2>1, <2>2, <2>3, <3>1, <3>2, ClientTakes DEF m, Receipts
  <2>5. CASE UNCHANGED <<list, synced>>
    BY <1>5, <2>1, <2>3, <2>5
  <2> QED
    BY <1>6, <2>4, <2>5 DEF HandleArchive, m
<1>7. CASE HandleFile
  <2>1. Receives("receive-bans") /\ missed' = missed /\ m.type = "receive-bans"
    BY <1>7 DEF HandleFile, Receives, m
  <2>2. \A l, e : ~ Gives(m, l, e)
    BY <2>1 DEF Gives
  <2>3. PICK l \in DOMAIN m.lists :
          \/ list' = [list EXCEPT ![l] = m.lists[l] \ Protected] /\ Completed(l) /\ duped' = duped
          \/ UNCHANGED <<list, flag, synced, duped>>
          \/ /\ \E left \in {list[l]} \cup BrokenOff(m.lists[l]) :
                  list' = [list EXCEPT ![l] = left \ Protected]
             /\ Completed(l) /\ duped' = duped \cup {l}
    BY <1>7 DEF HandleFile, m
  <2>4. l \in List
    BY <1>4
  \* Only this list is changed, and claimed.
  <2>5. ASSUME Completed(l), NEW S, list' = [list EXCEPT ![l] = S], S \subseteq list[l] \cup srv[l],
               duped \subseteq duped', l \in duped' \/ m.lists[l] \ Protected \subseteq S
        PROVE  DInv'
    <3>1. list'[l] = S /\ \A x \in List : x # l => list'[x] = list[x]
      BY <1>1, <2>4, <2>5 DEF CliOK
    <3>2. \A x \in List : Claimed(x)' /\ x # l => Claimed(x)
      BY <1>1, <1>3, <2>4, <2>5, CompletedClaims
    <3>3. \A x \in List : Claimed(x)' /\ x \notin duped' =>
            \/ Claimed(x) /\ x \notin duped /\ list[x] \subseteq list'[x]
            \/ x = l /\ m.lists[x] \ Protected \subseteq list'[x]
      BY <2>5, <3>1, <3>2
    <3>4. m.type \in Receipts /\ \A x \in List : list'[x] \subseteq list[x] \cup srv[x]
      BY <2>1, <2>5, <3>1 DEF Receipts
    <3>5. \A x \in List : list[x] \subseteq list'[x] \/ x = l
      BY <3>1
    <3> QED
      BY <1>2, <2>1, <2>2, <2>3, <3>3, <3>4, <3>5, ClientTakes DEF m
  <2>6. CASE list' = [list EXCEPT ![l] = m.lists[l] \ Protected] /\ Completed(l) /\ duped' = duped
    BY <1>4, <2>3, <2>5, <2>6
  <2>7. CASE UNCHANGED <<list, flag, synced, duped>>
    BY <1>5, <2>1, <2>2, <2>7
  <2>8. ASSUME NEW left \in {list[l]} \cup BrokenOff(m.lists[l]),
               list' = [list EXCEPT ![l] = left \ Protected],
               Completed(l), duped' = duped \cup {l}
        PROVE  DInv'
    <3>1. left \ Protected \subseteq list[l] \cup srv[l]
      BY <1>4, <2>3, <2>8 DEF BrokenOff
    <3> QED
      BY <2>5, <2>8, <3>1
  <2> QED
    BY <2>3, <2>6, <2>7, <2>8
<1>8. CASE HandlePiece
  <2>1. /\ Receives("receive") /\ list' = With(list, Accepted(m.lists)) /\ m.type = "receive"
        /\ duped' = duped /\ missed' = missed
    BY <1>8 DEF HandlePiece, Receives, m
  <2>2. PICK l \in DOMAIN m.lists : Completed(l)
    BY <1>8 DEF HandlePiece, m
  <2>3. /\ \A x \in List : list[x] \subseteq list'[x] /\ list'[x] \subseteq list[x] \cup srv[x]
        /\ \A x \in DOMAIN m.lists : m.lists[x] \subseteq list'[x]
    BY <1>4, <2>1 DEF With, Accepted
  <2>4. \A x \in List : Claimed(x)' => Claimed(x)
    <3>1. Claimed(l)
      BY <1>3, <2>1, <2>2 DEF Claimed
    <3>2. \A x \in List : Claimed(x)' /\ x # l => Claimed(x)
      BY <1>1, <1>3, <1>4, <2>2, CompletedClaims
    <3> QED
      BY <3>1, <3>2
  <2>5. \A x \in List, e \in Entry : Gives(m, x, e) => e \in list'[x]
    BY <2>3 DEF Gives
  <2> QED
    BY <1>2, <2>1, <2>3, <2>4, <2>5, ClientTakes DEF m
<1>9. CASE HandleAdd
  <2>1. /\ list' = With(list, m.lists)
        /\ flag' = flag /\ synced' = synced /\ duped' = duped /\ missed' = missed
    BY <1>9 DEF HandleAdd, Receives, m
  <2>2. /\ \A x \in List : list[x] \subseteq list'[x] /\ list'[x] \subseteq list[x] \cup srv[x]
        /\ \A x \in DOMAIN m.lists : m.lists[x] \subseteq list'[x]
    BY <1>4, <2>1 DEF With
  <2>3. \A x \in List, e \in Entry : Gives(m, x, e) => e \in list'[x]
    BY <2>2 DEF Gives
  <2> QED
    BY <1>5, <2>1, <2>2, <2>3
<1>10. CASE LoseToClient
  <2>1. /\ list' = list /\ flag' = flag /\ synced' = synced /\ duped' = duped
        /\ missed' = IF m.type \in {"receive", "add"} THEN With(missed, m.lists) ELSE missed
    BY <1>10 DEF LoseToClient, client, m
  <2>2. /\ \A x \in List : missed[x] \subseteq missed'[x]
        /\ m.type \in {"receive", "add"} => \A x \in DOMAIN m.lists : m.lists[x] \subseteq missed'[x]
    BY <1>4, <2>1 DEF With
  <2>3. \A x \in List, e \in Entry : Gives(m, x, e) => e \in missed'[x]
    BY <2>2 DEF Gives
  <2> QED
    BY <1>5, <2>1, <2>2, <2>3
<1> QED
  BY <1>6, <1>7, <1>8, <1>9, <1>10 DEF ClientReceives

\* What the server handles is a datagram of the client, and the rest stays.
LEMMA HandlingIs ==
  ASSUME IInv, NEW type, Handles(type)
  PROVE  /\ list' = list /\ flag' = flag /\ synced' = synced /\ duped' = duped
         /\ cut' = cut /\ missed' = missed
         /\ ToSet(c2s') \subseteq ToSet(c2s)
         /\ Head(c2s) \in ToSet(c2s) /\ Head(c2s).type = type
         /\ Head(c2s).lists \in Part /\ DOMAIN Head(c2s).lists \subseteq List
<1>1. TypeOK
  BY DEF IInv
<1>2. Head(c2s).lists \in Part
  BY <1>1, HandlesIs
<1>3. DOMAIN Head(c2s).lists \subseteq List
  BY <1>2, PartIs
<1> QED
  BY <1>1, <1>2, <1>3, HandlesIs DEF Handles, client, ghosts

\* The pieces of an answer together are the last entries of the list.
LEMMA AnswersGive ==
  ASSUME NEW l \in List, srv \in [List -> SUBSET Entry]
  PROVE  /\ \A m \in ToSet(Answers(l)) :
              /\ m.type = "receive" /\ DOMAIN m.lists = {l}
              /\ m.lists[l] \subseteq srv[l]
         /\ \A e \in Latest(srv[l], Window[l]) : \E m \in ToSet(Answers(l)) : Gives(m, l, e)
<1> DEFINE S == Latest(srv[l], Window[l])
<1>1. S \in SUBSET Entry /\ S \subseteq srv[l]
  BY DEF Latest
<1>2. DOMAIN Answers(l) = DOMAIN Pieces(S)
  BY DEF Answers
<1>3. ASSUME NEW i \in DOMAIN Answers(l)
      PROVE  /\ Answers(l)[i].type = "receive" /\ DOMAIN Answers(l)[i].lists = {l}
             /\ Answers(l)[i].lists[l] = Pieces(S)[i]
  BY <1>3 DEF Answers, Msg, Only
<1> HIDE DEF S
<1>4. /\ \A i \in DOMAIN Answers(l) : Pieces(S)[i] \subseteq S
      /\ \A e \in S : \E i \in DOMAIN Answers(l) : e \in Pieces(S)[i]
  BY <1>1, <1>2, PiecesWhole
<1>5. ASSUME NEW m \in ToSet(Answers(l))
      PROVE  m.type = "receive" /\ DOMAIN m.lists = {l} /\ m.lists[l] \subseteq srv[l]
  <2>1. PICK i \in DOMAIN Answers(l) : m = Answers(l)[i]
    BY DEF ToSet
  <2> QED
    BY <1>1, <1>3, <1>4, <2>1
<1>6. ASSUME NEW e \in S PROVE \E m \in ToSet(Answers(l)) : Gives(m, l, e)
  <2>1. PICK i \in DOMAIN Answers(l) : e \in Pieces(S)[i]
    BY <1>4
  <2>2. Answers(l)[i] \in ToSet(Answers(l))
    BY DEF ToSet
  <2> QED
    BY <1>3, <2>1, <2>2 DEF Gives
<1> QED
  BY <1>5, <1>6 DEF S

\* A request is answered with all that the client may claim; a file is answered
\* with the whole list, of which the client had everything that is new.
LEMMA AnsweringKeeps ==
  ASSUME IInv, DInv, IInv', ServerReceives
  PROVE  DInv'
<1> DEFINE m == Head(c2s)
<1>1. /\ s2c \in Seq(ToClientMsg) /\ srv \in [List -> SUBSET Entry]
      /\ srv' \in [List -> SUBSET Entry]
  BY TypeParts DEF IInv, SrvOK, S2COK
<1>2. CASE HandleHeartbeat
  <2>1. Handles("heartbeat") /\ srv' = srv /\ s2c' = s2c
    BY <1>2 DEF HandleHeartbeat
  <2>2. s2c' = s2c \o <<>> /\ <<>> \in Seq(ToClientMsg) /\ ToSet(<<>>) = {}
    BY <1>1, <2>1 DEF ToSet
  <2>3. NoneProtected'
    BY <2>1 DEF DInv, NoneProtected
  <2> QED
    BY <1>1, <2>1, <2>2, <2>3, HandlingIs, ServerSends
<1>3. CASE HandleRequest
  <2>1. Handles("request") /\ srv' = srv
    BY <1>3 DEF HandleRequest
  <2>2. PICK l \in DOMAIN m.lists : s2c' = s2c \o Answers(l)
    BY <1>3 DEF HandleRequest
  <2>3. l \in List
    BY <2>1, <2>2, HandlingIs
  <2> HIDE DEF m
  <2>4. Answers(l) \in Seq(ToClientMsg)
    BY <1>1, <2>3, AnswersAre
  <2>5. /\ \A a \in ToSet(Answers(l)) :
             a.type = "receive" /\ DOMAIN a.lists = {l} /\ a.lists[l] \subseteq srv[l]
        /\ \A e \in Latest(srv[l], Window[l]) : \E a \in ToSet(Answers(l)) : Gives(a, l, e)
    BY <1>1, <2>3, AnswersGive
  <2>6. \A a \in ToSet(Answers(l)) : a.type \notin Receipts
    BY <2>5 DEF Receipts
  <2>7. NoneProtected'
    BY <2>1 DEF DInv, NoneProtected
  <2>8. \A a \in ToSet(Answers(l)) : \A x \in DOMAIN a.lists :
          /\ a.lists[x] \subseteq srv'[x]
          /\ a.type = "receive" => \A e \in Latest(srv'[x], Window[x]) :
                                      \E b \in ToSet(Answers(l)) : Gives(b, x, e)
    BY <2>1, <2>5
  <2>9. /\ list' = list /\ flag' = flag /\ synced' = synced /\ duped' = duped
        /\ cut' = cut /\ missed' = missed /\ ToSet(c2s') \subseteq ToSet(c2s)
    BY <2>1, HandlingIs
  <2> DEFINE t == Answers(l)
  <2> HIDE DEF t
  <2> QED
    BY <1>1, <2>1, <2>2, <2>4, <2>6, <2>7, <2>8, <2>9, ServerSends DEF t
<1>4. ASSUME NEW type \in Uploads, HandleUpload(type) PROVE DInv'
  <2>1. Handles(type)
    BY <1>4 DEF HandleUpload
  <2>2. /\ list' = list /\ flag' = flag /\ synced' = synced /\ duped' = duped
        /\ cut' = cut /\ missed' = missed
        /\ ToSet(c2s') \subseteq ToSet(c2s) /\ m \in ToSet(c2s) /\ m.type = type
        /\ m.lists \in Part /\ DOMAIN m.lists \subseteq List
    BY <2>1, HandlingIs
  <2>3. CASE m.lists = Nothing
    <3>1. srv' = srv /\ s2c' = s2c
      BY <1>4, <2>3 DEF HandleUpload
    <3>2. s2c' = s2c \o <<>> /\ <<>> \in Seq(ToClientMsg) /\ ToSet(<<>>) = {}
      BY <1>1, <3>1 DEF ToSet
    <3>3. NoneProtected'
      BY <3>1 DEF DInv, NoneProtected
    <3> HIDE DEF m
    <3> QED
      BY <1>1, <2>2, <3>1, <3>2, <3>3, ServerSends
  <2>4. CASE m.lists # Nothing
    <3> DEFINE back == [l \in DOMAIN m.lists |-> srv'[l]]
               a == Msg(Answer(type), back)
    <3>1. srv' = With(srv, Accepted(m.lists)) /\ s2c' = Append(s2c, a)
      BY <1>4, <2>4 DEF HandleUpload
    <3> HIDE DEF m
    <3>2. /\ \A l \in List : srv[l] \subseteq srv'[l]
          /\ \A l \in DOMAIN m.lists : srv'[l] = srv[l] \cup (m.lists[l] \ Protected)
          /\ \A l \in List \ DOMAIN m.lists : srv'[l] = srv[l]
      BY <2>2, <3>1 DEF With, Accepted
    <3>3. /\ a.type = Answer(type) /\ DOMAIN a.lists = DOMAIN m.lists
          /\ \A l \in DOMAIN a.lists : a.lists[l] = srv'[l]
      BY DEF Msg
    <3>4. Answer(type) \in Receipts /\ Answer(type) \in ToClientType
      BY <1>4 DEF Answer, Receipts, Uploads, ToClientType
    <3>5. back \in Part
      <4>1. back \in [DOMAIN m.lists -> SUBSET Entry] /\ DOMAIN m.lists \in SUBSET List
        BY <1>1, <2>2
      <4> HIDE DEF back, a
      <4> QED
        BY <4>1, PartIs
    <3>6. a \in ToClientMsg
      <4> HIDE DEF back
      <4> QED
        BY <3>4, <3>5, MsgIs
    <3> HIDE DEF a, back
    <3> DEFINE t == <<a>>
    <3>7. s2c' = s2c \o t /\ t \in Seq(ToClientMsg) /\ ToSet(t) = {a}
      BY <1>1, <3>1, <3>6 DEF ToSet
    <3> HIDE DEF t
    \* The file is the client's list, but for what is safe.
    <3>8. \A l \in DOMAIN m.lists : l \in List /\ m.lists[l] \cup Safe(l) = list[l] \cup Safe(l)
      BY <1>4, <2>2 DEF DInv, FilesAgree
    <3>9. \A l \in DOMAIN a.lists : list[l] \subseteq Safe(l)'
      BY <2>2, <3>2, <3>3, <3>8 DEF Safe
    <3>10. NoneProtected'
      BY <3>2 DEF DInv, NoneProtected
    <3>11. ASSUME NEW l \in List, NEW e \in Entry, e \in srv'[l], e \notin srv[l], e \notin Excused(l)'
           PROVE  /\ e \in list[l]
                  /\ ~ \E x \in ToSet(s2c) : x.type \in Receipts /\ l \in DOMAIN x.lists
      <4>1. l \in DOMAIN m.lists /\ e \in m.lists[l] /\ e \notin Protected
        BY <3>2, <3>11
      <4>2. e \notin Safe(l)
        BY <2>2, <3>11, <4>1 DEF Safe, Excused
      <4>3. e \in list[l]
        BY <3>8, <4>1, <4>2
      <4> QED
        BY <4>2, <4>3 DEF DInv, AnswersCover
    <3>12. a.type # "receive"
      BY <3>3, <3>4 DEF Receipts
    <3>13. \A x \in ToSet(t) : \A l \in DOMAIN x.lists :
             /\ x.lists[l] = srv'[l] /\ list[l] \subseteq Safe(l)'
             /\ x.type # "receive"
      BY <3>3, <3>7, <3>9, <3>12
    <3> QED
      BY <1>1, <2>2, <3>2, <3>7, <3>10, <3>11, <3>13, ServerSends
  <2> QED
    BY <2>3, <2>4
<1> QED
  BY <1>2, <1>3, <1>4 DEF ServerReceives, Uploads

\* A ban is forwarded, or the client misses it.
LEMMA BanningKeeps ==
  ASSUME IInv, DInv, IInv', NEW l \in List, NEW k \in Entry, OtherBan(l, k)
  PROVE  DInv'
<1>1. /\ s2c \in Seq(ToClientMsg) /\ srv \in [List -> SUBSET Entry]
      /\ srv' \in [List -> SUBSET Entry] /\ missed \in [List -> SUBSET Entry]
  BY TypeParts DEF IInv, SrvOK, S2COK, GhostOK
<1>2. /\ k \notin Protected /\ srv' = [srv EXCEPT ![l] = @ \cup {k}]
      /\ list' = list /\ flag' = flag /\ synced' = synced /\ duped' = duped /\ cut' = cut
      /\ c2s' = c2s
  BY DEF OtherBan, client
<1>3. srv'[l] = srv[l] \cup {k} /\ \A x \in List : x # l => srv'[x] = srv[x]
  BY <1>1, <1>2
<1>4. NoneProtected'
  BY <1>2, <1>3 DEF DInv, NoneProtected
<1>5. CASE known
  <2> DEFINE a == Msg("add", Only(l, {k}))
  <2>1. s2c' = Append(s2c, a) /\ missed' = missed
    BY <1>5 DEF OtherBan
  <2>2. a.type = "add" /\ DOMAIN a.lists = {l} /\ a.lists[l] = {k}
    BY DEF Msg, Only
  <2>3. a \in ToClientMsg
    <3>1. {k} \in SUBSET Entry
      OBVIOUS
    <3>2. Only(l, {k}) \in Part
      BY <3>1, OnlyIs
    <3> QED
      BY <3>2, MsgIs DEF ToClientType
  <2> HIDE DEF a
  <2>4. s2c' = s2c \o <<a>> /\ <<a>> \in Seq(ToClientMsg) /\ ToSet(<<a>>) = {a}
    BY <1>1, <2>1, <2>3 DEF ToSet
  <2>5. \A x \in List, e \in Entry : e \in srv'[x] /\ e \notin srv[x] => Gives(a, x, e)
    BY <1>3, <2>2 DEF Gives
  <2>6. a.lists[l] \subseteq srv'[l]
    BY <1>3, <2>2
  <2>7. a.type \notin Receipts
    BY <2>2 DEF Receipts
  <2> QED
    BY <1>1, <1>2, <1>3, <1>4, <2>1, <2>2, <2>4, <2>5, <2>6, <2>7, ServerSends
<1>6. CASE ~known
  <2>1. s2c' = s2c /\ missed' = [missed EXCEPT ![l] = @ \cup {k}]
    BY <1>6 DEF OtherBan
  <2>2. missed'[l] = missed[l] \cup {k} /\ \A x \in List : missed[x] \subseteq missed'[x]
    BY <1>1, <2>1
  <2>3. s2c' = s2c \o <<>> /\ <<>> \in Seq(ToClientMsg) /\ ToSet(<<>>) = {}
    BY <1>1, <2>1 DEF ToSet
  <2>4. \A x \in List, e \in Entry : e \in srv'[x] /\ e \notin srv[x] => e \in Excused(x)'
    BY <1>3, <2>2 DEF Excused
  <2> QED
    BY <1>1, <1>2, <1>3, <1>4, <2>2, <2>3, <2>4, ServerSends
<1> QED
  BY <1>5, <1>6

\* What the client counts as received, it has, but for what was in a datagram
\* that was lost or broke off on the way.
THEOREM NothingLost == Spec => []Delivered
<1>1. IInv /\ DInv /\ IInv' /\ Next => DInv'
  BY SendingKeeps, TakingKeeps, AnsweringKeeps, BanningKeeps DEF Next
<1>2. IInv /\ DInv /\ UNCHANGED vars => DInv'
  <2> SUFFICES ASSUME IInv, DInv, UNCHANGED vars PROVE DInv'
    OBVIOUS
  <2> QED
    BY ClientSends DEF vars, server, client, ghosts
<1>3. DInv => Delivered
  <2> SUFFICES ASSUME DInv, NEW l \in List, flag[l] \/ synced, ~InFlight(l), l \notin duped,
                      NEW e \in Latest(srv[l], Window[l]), e \notin list[l]
               PROVE  e \in missed[l] \cup cut[l]
    BY DEF Delivered
  <2>1. \A m \in ToSet(s2c) : ~ Gives(m, l, e)
    BY DEF InFlight, Gives
  <2>2. Claimed(l)
    BY DEF Claimed
  <2> QED
    BY <2>1, <2>2 DEF DInv, NothingLacks, Excused
<1> QED
  BY <1>1, <1>2, <1>3, InitDInv, Invariance, PTL DEF Spec
=============================================================================
