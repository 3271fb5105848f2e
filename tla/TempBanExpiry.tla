--------------------------- MODULE TempBanExpiry ----------------------------
(***************************************************************************)
(* How temporary bans end.  The server never looks at the clock: every     *)
(* client goes through its own list each time it has read the players of   *)
(* the game server, drops the bans that have run out, and tells the server *)
(* to remove those addresses.  The server and the other clients remove     *)
(* whatever ban of the address they hold.                                  *)
(*                                                                         *)
(* The pass goes through the vector while the removal erases from it: the  *)
(* element after a removed one is never looked at, and the iteration ends  *)
(* in slots that the vector no longer has.  What a release build finds     *)
(* there is a destroyed element with an empty address, which is not banned.*)
(*                                                                         *)
(* The clocks agree, and nothing is lost: BanSync is about losses.  The    *)
(* login upload is one step here; BanSync splits it.                       *)
(***************************************************************************)
EXTENDS Naturals, Sequences, SequencesExt, FiniteSets

CONSTANTS
  Client, Key,                  \* administrators' clients, IP addresses
  Hours,                        \* durations of bans
  MaxTime, MaxBans, MaxLifts, MaxLogins   \* bounds of a run

ASSUME TempBanExpiryAssumption ==
  /\ IsFiniteSet(Key)
  /\ Hours \subseteq Nat \ {0}
  /\ {MaxTime, MaxBans, MaxLifts, MaxLogins} \subseteq Nat

VARIABLES
  now,
  srv, tomb,           \* the server: bans, removed addresses
  known,               \* running clients whose present socket it has heard of
  up, uploaded,        \* the clients that run, and that have sent their list
  vec, map,            \* the bans of each client, and the keys of its map
  c2s, s2c,            \* datagrams in flight, oldest first
  late,                \* how many of c2s are from a socket that is closed by now
  due,                 \* ghost: until when an address is to stay banned
  bans, lifts, logins

server  == <<srv, tomb, known>>
clients == <<up, uploaded, vec, map>>
spent   == <<bans, lifts, logins>>
vars    == <<now, server, clients, c2s, s2c, late, due, spent>>

Entry(k, until) == [key |-> k, until |-> until]
Times           == UNION {{t, t + h} : t \in 0 .. MaxTime, h \in Hours}
Entries         == [key : Key, until : Times]
Keys(entries)   == {b.key : b \in entries}
OnePerKey(entries) == \A b, d \in entries : b.key = d.key => b = d

\* Those elements of a sequence that are in a set, in their order.
Kept(seq, S) ==
  LET kept[i \in 0 .. Len(seq)] ==
        IF i = 0 THEN <<>>
        ELSE IF seq[i] \in S THEN Append(kept[i - 1], seq[i]) ELSE kept[i - 1]
  IN  kept[Len(seq)]

Msg(type, entries) == [type |-> type, bans |-> entries]

TypeOK ==
  /\ now \in 0 .. MaxTime
  /\ srv \subseteq Entries /\ OnePerKey(srv)
  /\ tomb \subseteq Key /\ known \subseteq up
  /\ up \subseteq Client /\ uploaded \subseteq up
  /\ vec \in [Client -> Seq(Entries)]
  /\ map \in [Client -> SUBSET Key]
  /\ \A c \in Client :
       \A m \in ToSet(c2s[c]) \cup ToSet(s2c[c]) :
         /\ m.type \in {"hello", "add", "remove", "upload", "bans"}
         /\ m.bans \subseteq Entries
  /\ \A c \in Client : late[c] \in 0 .. Len(c2s[c])
  /\ due \in [Key -> Times \cup {0}]

\* The files of the clients may hold the bans of an earlier session.
Init ==
  /\ now = 0 /\ srv = {} /\ tomb = {} /\ known = {}
  /\ up = {} /\ uploaded = {}
  /\ \E file \in [Client -> {e \in SUBSET [key : Key, until : Hours] : OnePerKey(e)}] :
       /\ vec \in {v \in [Client -> UNION {SetToSeqs(file[c]) : c \in Client}] :
                     \A c \in Client : v[c] \in SetToSeqs(file[c])}
       /\ map = [c \in Client |-> Keys(file[c])]
  /\ c2s = [c \in Client |-> <<>>] /\ s2c = [c \in Client |-> <<>>]
  /\ late = [c \in Client |-> 0]
  /\ due = [k \in Key |-> 0]
  /\ bans = 0 /\ lifts = 0 /\ logins = 0

Tick ==
  /\ now < MaxTime
  /\ now' = now + 1
  /\ UNCHANGED <<server, clients, c2s, s2c, late, due, spent>>

-----------------------------------------------------------------------------
(* The clients.                                                            *)

ToServer(c, msgs) == c2s' = [c2s EXCEPT ![c] = @ \o msgs]

Login(c) ==
  /\ c \notin up /\ logins < MaxLogins
  /\ logins' = logins + 1
  /\ up' = up \cup {c}
  /\ ToServer(c, <<Msg("hello", {})>>)
  /\ UNCHANGED <<now, server, uploaded, vec, map, s2c, late, due, bans, lifts>>

UploadList(c) ==
  /\ c \in up \ uploaded
  /\ uploaded' = uploaded \cup {c}
  /\ ToServer(c, <<Msg("upload", ToSet(vec[c]))>>)
  /\ UNCHANGED <<now, server, up, vec, map, s2c, late, due, spent>>

Quit(c) ==
  /\ c \in up
  /\ up' = up \ {c} /\ uploaded' = uploaded \ {c} /\ known' = known \ {c}
  /\ late' = [late EXCEPT ![c] = Len(c2s[c])]
  /\ s2c' = [s2c EXCEPT ![c] = <<>>]
  /\ UNCHANGED <<now, srv, tomb, vec, map, c2s, due, spent>>

\* Of two bans that overlap, the one that ends first counts.
Promise(k, until) ==
  due' = [due EXCEPT ![k] = IF @ > now /\ @ < until THEN @ ELSE until]

\* !tb.  When the client holds a ban of the address already, that ban stays,
\* and the datagram gives the start time which the player's record has kept.
Ban(c, k, hours) ==
  /\ c \in up /\ bans < MaxBans
  /\ bans' = bans + 1
  /\ \/ /\ k \notin map[c]
        /\ vec' = [vec EXCEPT ![c] = Append(@, Entry(k, now + hours))]
        /\ map' = [map EXCEPT ![c] = @ \cup {k}]
        /\ ToServer(c, <<Msg("add", {Entry(k, now + hours)})>>)
        /\ Promise(k, now + hours)
     \/ /\ k \in map[c]
        /\ \E start \in 0 .. now : ToServer(c, <<Msg("add", {Entry(k, start + hours)})>>)
        /\ UNCHANGED <<vec, map, due>>
  /\ UNCHANGED <<now, server, up, uploaded, s2c, late, lifts, logins>>

Others(k) == {b \in Entries : b.key # k}

RemovedAliased(list, k) ==                                          \* mutant
  LET rest == Kept(list.vec, Others(k))
      at   == {i \in DOMAIN rest : list.vec[i].key = k}
  IN  [vec |-> rest,
       map |-> list.map \ (IF at = {} THEN {k} ELSE {rest[i].key : i \in at})]

\* remove_temp_banned_ip_address copies the entry before it erases anything:
\* the address it was passed lives in the vector, and erasing moves the next
\* element into its place.
Removed(list, k) ==
  [vec |-> Kept(list.vec, Others(k)), map |-> list.map \ {k}]

List(c) == [vec |-> vec[c], map |-> map[c]]

SetList(c, list) ==
  /\ vec' = [vec EXCEPT ![c] = list.vec]
  /\ map' = [map EXCEPT ![c] = list.map]

\* !ub with an IP address.
Unban(c, k) ==
  /\ c \in up /\ lifts < MaxLifts /\ k \in map[c]
  /\ lifts' = lifts + 1
  /\ SetList(c, Removed(List(c), k))
  /\ ToServer(c, <<Msg("remove", {b \in ToSet(vec[c]) : b.key = k})>>)
  /\ due' = [due EXCEPT ![k] = 0]
  /\ UNCHANGED <<now, server, up, uploaded, s2c, late, bans, logins>>

\* A list in the middle of a pass, with what has been sent.
Lifted(list, sent) == [vec |-> list.vec, map |-> list.map, sent |-> sent]

VisitFirst(list, i) ==                                              \* mutant
  IF i = 1 /\ i <= Len(list.vec) /\ list.vec[i].until <= now
    THEN LET b == list.vec[i] IN
         Lifted(Removed(list, b.key), Append(list.sent, Msg("remove", {b})))
    ELSE list

VisitUntilRemoved(list, i) ==                                       \* mutant
  IF i <= Len(list.vec) /\ list.vec[i].until <= now /\ list.sent = <<>>
    THEN LET b == list.vec[i] IN
         Lifted(Removed(list, b.key), Append(list.sent, Msg("remove", {b})))
    ELSE list

VisitAliased(list, i) ==                                            \* mutant
  IF i <= Len(list.vec) /\ list.vec[i].until <= now
    THEN LET rest == Removed(list, list.vec[i].key)
             b    == (rest.vec \o <<list.vec[i]>>)[i]
         IN  Lifted(rest, Append(list.sent, Msg("remove", {b})))
    ELSE list

\* The i-th iteration of the pass.
Visit(list, i) ==
  IF i <= Len(list.vec) /\ list.vec[i].until <= now
    THEN LET b == list.vec[i] IN
         Lifted(Removed(list, b.key), Append(list.sent, Msg("remove", {b})))
    ELSE list

Pass(c) ==
  /\ c \in up
  /\ \E list \in {FoldLeftDomain(Visit, Lifted(List(c), <<>>), vec[c])} :
       /\ list.sent # <<>>
       /\ SetList(c, list)
       /\ ToServer(c, list.sent)
  /\ UNCHANGED <<now, server, up, uploaded, s2c, late, due, spent>>

\* The list that comes from the server is sorted by the time the bans were
\* made; any order will do here.
ClientHandle(c) ==
  /\ c \in up /\ s2c[c] # <<>>
  /\ LET m == Head(s2c[c]) IN
       \/ /\ m.type = "add"
          /\ \E b \in m.bans :
               SetList(c, IF b.key \in map[c] THEN List(c)
                          ELSE [vec |-> Append(vec[c], b), map |-> map[c] \cup {b.key}])
       \/ /\ m.type = "remove"
          /\ \E b \in m.bans :
               SetList(c, IF b.key \in map[c] THEN Removed(List(c), b.key) ELSE List(c))
       \/ /\ m.type = "bans"
          /\ \E v \in SetToSeqs(m.bans) : SetList(c, [vec |-> v, map |-> Keys(m.bans)])
  /\ s2c' = [s2c EXCEPT ![c] = Tail(@)]
  /\ UNCHANGED <<now, server, up, uploaded, c2s, late, due, spent>>

-----------------------------------------------------------------------------
(* The server.                                                             *)

Heard(c, type) ==
  /\ c2s[c] # <<>> /\ Head(c2s[c]).type = type
  /\ c2s' = [c2s EXCEPT ![c] = Tail(@)]
  /\ IF late[c] > 0 THEN late' = [late EXCEPT ![c] = @ - 1] /\ UNCHANGED known
                    ELSE known' = known \cup {c} /\ UNCHANGED late

Broadcast(c, m) ==
  s2c' = [d \in Client |-> IF d \in known \ {c} THEN Append(s2c[d], m) ELSE s2c[d]]

HandleHello(c) ==
  /\ Heard(c, "hello")
  /\ UNCHANGED <<now, srv, tomb, clients, s2c, due, spent>>

HandleAdd(c) ==
  /\ Heard(c, "add")
  /\ LET m == Head(c2s[c]) IN
       IF Keys(m.bans) \subseteq Keys(srv)
         THEN UNCHANGED <<srv, tomb, s2c>>
         ELSE /\ srv' = srv \cup m.bans
              /\ tomb' = tomb \ Keys(m.bans)
              /\ Broadcast(c, m)
  /\ UNCHANGED <<now, clients, due, spent>>

\* The address alone decides what is removed, not when the ban would end.
HandleRemove(c) ==
  /\ Heard(c, "remove")
  /\ LET m    == Head(c2s[c])
         gone == Keys(m.bans) \cap Keys(srv)
     IN  IF gone = {}
           THEN UNCHANGED <<srv, tomb, s2c>>
           ELSE /\ srv' = {b \in srv : b.key \notin gone}
                /\ tomb' = tomb \cup gone
                /\ Broadcast(c, m)
  /\ UNCHANGED <<now, clients, due, spent>>

NewUnchecked(file) == {b \in file : b.key \notin tomb}              \* mutant
New(file) == {b \in file : b.key \notin tomb \cup Keys(srv)}

HandleUpload(c) ==
  /\ Heard(c, "upload")
  /\ srv' = srv \cup New(Head(c2s[c]).bans)
  /\ s2c' = IF c \in known' THEN [s2c EXCEPT ![c] = Append(@, Msg("bans", srv'))] ELSE s2c
  /\ UNCHANGED <<now, tomb, clients, due, spent>>

-----------------------------------------------------------------------------
ClientStep(c) ==
  \/ Login(c) \/ UploadList(c) \/ Quit(c)
  \/ \E k \in Key : Unban(c, k) \/ \E hours \in Hours : Ban(c, k, hours)
  \/ Pass(c) \/ ClientHandle(c)

ServerStep(c) == HandleHello(c) \/ HandleAdd(c) \/ HandleRemove(c) \/ HandleUpload(c)

Next == Tick \/ \E c \in Client : ClientStep(c) \/ ServerStep(c)

Spec == Init /\ [][Next]_vars

\* A running client goes on asking the game server for its players, and
\* makes a pass after each answer.
Fairness == \A c \in Client : WF_vars(Pass(c))

FairSpec == Spec /\ Fairness

-----------------------------------------------------------------------------
(* The properties.                                                         *)

\* The vector and the map of a client hold the same addresses, each once,
\* through every interleaving of passes, commands and datagrams.
MapMatchesVector ==
  \A c \in Client : /\ map[c] = Keys(ToSet(vec[c]))
                    /\ Cardinality(map[c]) = Len(vec[c])

Expired(c) == Kept(vec[c], {b \in Entries : b.until <= now})
Running(c) == Kept(vec[c], {b \in Entries : b.until > now})

\* A pass leaves every ban that is still running in its place, and removes
\* at least half of the others although it skips the element after each one
\* that it removes.
PassSound == [][\A c \in Client : Pass(c) =>
  /\ Running(c)' = Running(c)
  /\ 2 * Len(Expired(c)') <= Len(Expired(c))]_vars

\* What removes the ban b is a datagram about another ban of its address, one
\* that has run out.
EndedByOldBan(b, m) ==
  m.type = "remove" /\ \E d \in m.bans : d.key = b.key /\ d.until <= now

\* As long as no ban is lifted by hand, a ban that still runs ends for one
\* reason only: an older ban of the address was left on some client and has
\* run out there.  Besides, a client gives up its list for the server's.
RunningBansStay == [][lifts' = 0 =>
  /\ \A b \in srv \ srv' : b.until > now =>
       \E c \in Client : HandleRemove(c) /\ EndedByOldBan(b, Head(c2s[c]))
  /\ \A c \in Client : \A b \in ToSet(vec[c]) \ ToSet(vec'[c]) : b.until > now =>
       /\ ClientHandle(c)
       /\ Head(s2c[c]).type = "bans" \/ EndedByOldBan(b, Head(s2c[c]))]_vars

\* In the end no ban that has run out is left on the list of a client that
\* keeps running, whatever a single pass has skipped.
ExpiredLeave == \A c \in Client : []<>(c \notin up \/ Expired(c) = <<>>)

AtRest == \A c \in Client : c2s[c] = <<>> /\ s2c[c] = <<>>

\* What the help text of !tb says: it bans for the duration it was given.
\* The server keeps the ban until then, unless somebody lifts it by hand.
BansLast == AtRest => \A k \in Key : due[k] > now => k \in Keys(srv)
=============================================================================
