------------------------------- MODULE BanSync -------------------------------
(***************************************************************************)
(* One ban list shared by the TinyRcon server and the clients of its       *)
(* administrators.  A client changes its own list first and then sends a   *)
(* datagram to the server; the server changes its list, and forwards the   *)
(* same datagram to every other client it has heard of.  The sender gets   *)
(* no answer.  When a client logs in, it uploads its list to the FTP       *)
(* server, and the server merges the file and hands back its own list.     *)
(*                                                                         *)
(* Datagrams can be lost.  Two datagrams from one socket to another arrive *)
(* in the order they were sent (one path between them is assumed).         *)
(*                                                                         *)
(* Left to other modules: transfers that fail, answers in pieces and the   *)
(* six lists (BanTransfer), protected entries (ProtectSync, BanTransfer)   *)
(* and how the server keeps its list on disk (BanStore): a restart of the  *)
(* server costs it only the addresses of its users.                        *)
(***************************************************************************)
EXTENDS Naturals, Sequences, SequencesExt

CONSTANTS
  Client,                                            \* clients of administrators
  Key,                                               \* what can be banned
  MaxCommands, MaxFaults, MaxLogins                  \* bounds of a run

Nobody == "nobody"
Many   == "many"

ASSUME BanSyncAssumption ==
  /\ {Nobody, Many} \cap Client = {}
  /\ {MaxCommands, MaxFaults, MaxLogins} \subseteq Nat

VARIABLES
  srv, tomb,   \* the server's list and its tombstones
  known,       \* running clients whose present socket the server has heard of
  up,          \* clients that are running
  list,        \* the list of each client (memory and file)
  synced,      \* has the client been given the server's list?
  snap,        \* the file a client has uploaded and not yet announced
  uploads,     \* uploads of a client since it logged in
  c2s, s2c,    \* datagrams in flight, oldest first
  late,        \* how many of c2s are from a socket that is closed by now
  sees,        \* ghost: all that the client's list can differ by is in s2c
  owner,       \* ghost: who alone has changed a key, if anybody
  spent        \* how much of each bound is used

server   == <<srv, tomb, known>>
clients  == <<up, list, synced, snap, uploads>>
ghosts   == <<sees, owner>>
vars     == <<server, clients, c2s, s2c, late, ghosts, spent>>

MsgType == {"login", "heartbeat", "add", "remove", "upload", "bans", "request", "receive"}
Msg(type, keys) == [type |-> type, keys |-> keys]

TypeOK ==
  /\ srv \subseteq Key /\ tomb \subseteq Key /\ known \subseteq up
  /\ up \subseteq Client
  /\ list \in [Client -> SUBSET Key]
  /\ synced \in [Client -> {"no", "partly", "fully"}]
  /\ \A c \in Client : snap[c] \subseteq SUBSET Key
  /\ uploads \in [Client -> 0 .. 2]
  /\ \A c \in Client :
       \A m \in ToSet(c2s[c]) \cup ToSet(s2c[c]) :
         m.type \in MsgType /\ m.keys \subseteq Key
  /\ \A c \in Client : late[c] \in 0 .. Len(c2s[c])
  /\ sees \in [Client -> BOOLEAN]
  /\ owner \in [Key -> Client \cup {Nobody, Many}]

Init ==
  /\ srv = {} /\ tomb = {} /\ known = {} /\ up = {}
  /\ list \in [Client -> SUBSET Key]
  /\ synced = [c \in Client |-> "no"]
  /\ snap = [c \in Client |-> {}]
  /\ uploads = [c \in Client |-> 0]
  /\ c2s = [c \in Client |-> <<>>] /\ s2c = [c \in Client |-> <<>>]
  /\ late = [c \in Client |-> 0]
  /\ sees = [c \in Client |-> FALSE]
  /\ owner = [k \in Key |-> Nobody]
  /\ spent = [commands |-> 0, faults |-> 0, logins |-> 0]

-----------------------------------------------------------------------------
(* Helpers.                                                                *)

Spend(what, limit) ==
  /\ spent[what] < limit
  /\ spent' = [spent EXCEPT ![what] = @ + 1]

ToServer(c, m) == c2s' = [c2s EXCEPT ![c] = Append(@, m)]

Commands(msgs) == {i \in DOMAIN msgs : msgs[i].type \in {"add", "remove"}}

\* A new list, or a part of it, is on its way to the client.
Refreshing(c) ==
  \/ snap[c] # {}
  \/ \E m \in ToSet(c2s[c]) : m.type \in {"upload", "request"}
  \/ \E m \in ToSet(s2c[c]) : m.type \in {"bans", "receive"}

\* Whoever changes a key while its list is complete and not being replaced
\* owns the key, until somebody else changes it.
Claim(c, k) ==
  owner' = [owner EXCEPT ![k] =
    IF synced[c] = "fully" /\ ~Refreshing(c) /\ @ \in {Nobody, c} THEN c ELSE Many]

-----------------------------------------------------------------------------
(* The clients.                                                            *)

\* WinMain queues request-login first.
Login(c) ==
  /\ c \notin up
  /\ Spend("logins", MaxLogins)
  /\ up' = up \cup {c}
  /\ ToServer(c, Msg("login", {}))
  /\ UNCHANGED <<server, list, synced, snap, uploads, s2c, late, ghosts>>

TakeSnapshotAgain(c) ==                                             \* mutant
  /\ c \in up /\ snap[c] = {}
  /\ uploads[c] = 0 \/ synced[c] = "no"
  /\ snap' = [snap EXCEPT ![c] = {list[c]}]
  /\ uploads' = [uploads EXCEPT ![c] = @ + 1]
  /\ UNCHANGED <<server, up, list, synced, c2s, s2c, late, ghosts, spent>>

\* upload-bans-compressed after the login, and upload-bans once more after
\* 15 seconds without an answer: the handler stores the file of the list on
\* the FTP server, and then the datagram that names it is sent.
TakeSnapshot(c) ==
  /\ c \in up /\ uploads[c] < 2 /\ snap[c] = {}
  /\ uploads[c] = 0 \/ synced[c] = "no"
  /\ snap' = [snap EXCEPT ![c] = {list[c]}]
  /\ uploads' = [uploads EXCEPT ![c] = @ + 1]
  /\ UNCHANGED <<server, up, list, synced, c2s, s2c, late, ghosts, spent>>

Announce(c) ==
  /\ c \in up /\ snap[c] # {}
  /\ \E file \in snap[c] : ToServer(c, Msg("upload", file))
  /\ snap' = [snap EXCEPT ![c] = {}]
  /\ UNCHANGED <<server, up, list, synced, uploads, s2c, late, ghosts, spent>>

\* request-*bans every 30 seconds, until the list is synchronized.
Request(c) ==
  /\ c \in up /\ synced[c] = "no"
  /\ c2s[c] = <<>> /\ s2c[c] = <<>> /\ snap[c] = {}
  /\ ToServer(c, Msg("request", {}))
  /\ UNCHANGED <<server, clients, s2c, late, ghosts, spent>>

\* heartbeat, every 5 seconds: it matters when the server has restarted.
Heartbeat(c) ==
  /\ c \in up /\ c \notin known /\ c2s[c] = <<>>
  /\ ToServer(c, Msg("heartbeat", {}))
  /\ UNCHANGED <<server, clients, s2c, late, ghosts, spent>>

\* !gb, !tb, !br, ...: the client bans first, then tells the server.
Ban(c, k) ==
  /\ c \in up /\ k \notin list[c]
  /\ Spend("commands", MaxCommands)
  /\ list' = [list EXCEPT ![c] = @ \cup {k}]
  /\ ToServer(c, Msg("add", {k}))
  /\ sees' = [sees EXCEPT ![c] = FALSE]
  /\ Claim(c, k)
  /\ UNCHANGED <<server, up, synced, snap, uploads, s2c, late>>

\* !ub, !ubr, ...
Unban(c, k) ==
  /\ c \in up /\ k \in list[c]
  /\ Spend("commands", MaxCommands)
  /\ list' = [list EXCEPT ![c] = @ \ {k}]
  /\ ToServer(c, Msg("remove", {k}))
  /\ sees' = [sees EXCEPT ![c] = FALSE]
  /\ Claim(c, k)
  /\ UNCHANGED <<server, up, synced, snap, uploads, s2c, late>>

ReceivedMerging(keys, m) ==                                         \* mutant
  CASE m.type = "remove" -> keys \ m.keys
    [] m.type = "add"    -> keys \cup m.keys
    [] OTHER             -> keys \cup m.keys

\* What the datagram at the head does to the list of a client.
Received(keys, m) ==
  CASE m.type = "add"     -> keys \cup m.keys
    [] m.type = "remove"  -> keys \ m.keys
    [] m.type = "bans"    -> m.keys
    [] m.type = "receive" -> keys \cup m.keys

ClientHandle(c) ==
  /\ c \in up /\ s2c[c] # <<>>
  /\ LET m == Head(s2c[c]) IN
       /\ list' = [list EXCEPT ![c] = Received(@, m)]
       /\ synced' = [synced EXCEPT ![c] =
            IF m.type = "bans" THEN "fully"
            ELSE IF m.type = "receive" /\ @ = "no" THEN "partly" ELSE @]
  /\ s2c' = [s2c EXCEPT ![c] = Tail(@)]
  /\ UNCHANGED <<server, up, snap, uploads, c2s, late, ghosts, spent>>

\* The client stops; what is still sent to it finds nobody, and when it starts
\* again its socket gets another port.
Quit(c) ==
  /\ c \in up
  /\ up' = up \ {c} /\ known' = known \ {c}
  /\ late' = [late EXCEPT ![c] = Len(c2s[c])]
  /\ synced' = [synced EXCEPT ![c] = "no"]
  /\ snap' = [snap EXCEPT ![c] = {}]
  /\ uploads' = [uploads EXCEPT ![c] = 0]
  /\ s2c' = [s2c EXCEPT ![c] = <<>>]
  /\ sees' = [sees EXCEPT ![c] = FALSE]
  /\ UNCHANGED <<srv, tomb, list, c2s, owner, spent>>

-----------------------------------------------------------------------------
(* The server handles one datagram at a time.                              *)

\* Every datagram tells the server where its sender is, or was.
Heard(c) ==
  /\ c2s[c] # <<>>
  /\ c2s' = [c2s EXCEPT ![c] = Tail(@)]
  /\ IF late[c] > 0 THEN late' = [late EXCEPT ![c] = @ - 1] /\ UNCHANGED known
                    ELSE known' = known \cup {c} /\ UNCHANGED late

Handles(c, type) == Heard(c) /\ Head(c2s[c]).type = type

BroadcastNobody(c, m) == UNCHANGED s2c                              \* mutant

\* Forward the datagram to every user with an endpoint, but not to its sender.
Broadcast(c, m) ==
  s2c' = [d \in Client |-> IF d \in known \ {c} THEN Append(s2c[d], m) ELSE s2c[d]]

Reply(c, m) ==
  s2c' = IF c \in known' THEN [s2c EXCEPT ![c] = Append(@, m)] ELSE s2c

HandleHello(c) ==
  /\ Handles(c, "login") \/ Handles(c, "heartbeat")
  /\ UNCHANGED <<srv, tomb, clients, s2c, ghosts, spent>>

HandleAdd(c) ==
  /\ Handles(c, "add")
  /\ LET m == Head(c2s[c]) IN
       IF m.keys \subseteq srv
         THEN UNCHANGED <<srv, tomb, s2c>>
         ELSE /\ srv' = srv \cup m.keys
              /\ tomb' = tomb \ m.keys
              /\ Broadcast(c, m)
  /\ UNCHANGED <<clients, ghosts, spent>>

HandleRemove(c) ==
  /\ Handles(c, "remove")
  /\ LET m == Head(c2s[c]) IN
       IF m.keys \subseteq srv
         THEN /\ srv' = srv \ m.keys
              /\ tomb' = tomb \cup m.keys
              /\ Broadcast(c, m)
         ELSE UNCHANGED <<srv, tomb, s2c>>
  /\ UNCHANGED <<clients, ghosts, spent>>

\* The merged list goes back to the client that uploaded, and to nobody else.
New(file) == file \ (tomb \cup srv)

HandleUpload(c) ==
  /\ Handles(c, "upload")
  /\ LET file == Head(c2s[c]).keys IN
       /\ srv' = srv \cup New(file)
       /\ Reply(c, Msg("bans", srv'))
       /\ owner' = [k \in Key |-> IF k \in New(file) THEN Many ELSE owner[k]]
  /\ sees' = [sees EXCEPT ![c] = c \in known' /\ Commands(Tail(c2s[c])) = {}]
  /\ UNCHANGED <<tomb, clients, spent>>

\* The last entries of the list; an empty list is not answered.
HandleRequest(c) ==
  /\ Handles(c, "request")
  /\ IF srv = {} THEN UNCHANGED s2c ELSE Reply(c, Msg("receive", srv))
  /\ UNCHANGED <<srv, tomb, clients, ghosts, spent>>

\* The users' endpoints are not saved: nobody hears of anything until his
\* client sends something.
ServerRestart ==
  /\ Spend("faults", MaxFaults)
  /\ known' = {}
  /\ sees' = [c \in Client |-> FALSE]
  /\ owner' = [k \in Key |-> Many]
  /\ UNCHANGED <<srv, tomb, clients, c2s, s2c, late>>

-----------------------------------------------------------------------------
(* The network.                                                            *)

Disown(m) == owner' = [k \in Key |-> IF k \in m.keys THEN Many ELSE owner[k]]

LoseToServer(c) ==
  /\ c2s[c] # <<>>
  /\ Spend("faults", MaxFaults)
  /\ Disown(Head(c2s[c]))
  /\ c2s' = [c2s EXCEPT ![c] = Tail(@)]
  /\ late' = [late EXCEPT ![c] = IF @ > 0 THEN @ - 1 ELSE 0]
  /\ UNCHANGED <<server, clients, s2c, sees>>

LoseToClient(c) ==
  /\ s2c[c] # <<>>
  /\ Spend("faults", MaxFaults)
  /\ Disown(Head(s2c[c]))
  /\ s2c' = [s2c EXCEPT ![c] = Tail(@)]
  /\ sees' = [sees EXCEPT ![c] = FALSE]
  /\ UNCHANGED <<server, clients, c2s, late>>

-----------------------------------------------------------------------------
ClientStep(c) ==
  \/ Login(c) \/ TakeSnapshot(c) \/ Announce(c) \/ Request(c) \/ Heartbeat(c)
  \/ \E k \in Key : Ban(c, k) \/ Unban(c, k)
  \/ ClientHandle(c) \/ Quit(c)

ServerStep(c) ==
  HandleHello(c) \/ HandleAdd(c) \/ HandleRemove(c) \/ HandleUpload(c) \/ HandleRequest(c)

NetworkStep(c) == LoseToServer(c) \/ LoseToClient(c)

Next ==
  \/ \E c \in Client : ClientStep(c) \/ ServerStep(c) \/ NetworkStep(c)
  \/ ServerRestart

Spec == Init /\ [][Next]_vars

-----------------------------------------------------------------------------
(* The properties.                                                         *)

\* The list of a client once it has handled all that is in flight to it.
View(c) == FoldLeft(Received, list[c], s2c[c])

\* A client that only listens (it has missed no datagram and issued no
\* command since the server last wrote out a list for it) does not go on
\* enforcing a ban that the server has dropped: the login repairs all that
\* was lost before, and the broadcasts keep it right from then on.
ListenersFollow == \A c \in Client : sees[c] => View(c) \subseteq srv

AtRest == \A c \in Client : c2s[c] = <<>> /\ s2c[c] = <<>> /\ snap[c] = {}

\* When every change of a key was a command of the same administrator, all
\* issued while his list was complete, then once the network is empty his
\* list, the server's and those of all other complete clients agree on it,
\* whatever the others still had in their files when they logged in.
OwnedKeysAgree ==
  AtRest => \A k \in Key : owner[k] \in Client =>
    \A c \in up : synced[c] = "fully" => (k \in list[c] <=> k \in srv)

\* What the README of the repository says of the lists: the clients that
\* have logged in to the same server have the same bans.
AllClientsAgree ==
  AtRest => \A c, d \in up :
    synced[c] = "fully" /\ synced[d] = "fully" => list[c] = list[d]
=============================================================================
