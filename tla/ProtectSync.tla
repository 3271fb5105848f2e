----------------------------- MODULE ProtectSync -----------------------------
(***************************************************************************)
(* One kind of protected entries (IP addresses, IP ranges, cities or       *)
(* countries), shared by the server and the clients of the administrators. *)
(* As with bans, a client changes its own set and sends a datagram; the    *)
(* server changes its set and forwards a datagram to the other clients.    *)
(* Nothing is merged: a client that logs in asks for the server's set,     *)
(* and replaces its own with the answer.                                   *)
(*                                                                         *)
(* Datagrams between two sockets arrive in order, but can be lost, and the *)
(* server can restart: its set is on disk (BanStore), but the addresses of *)
(* its users are forgotten.  The load of the set is over at once here.     *)
(*                                                                         *)
(* A client that listens follows the server; for the entries that it has   *)
(* given the last command for, the server follows it.  Two ghosts say      *)
(* which entries of a client these are.                                    *)
(***************************************************************************)
EXTENDS Naturals, Sequences, SequencesExt

CONSTANTS
  Client, Key,
  Kind,                    \* which of the four sets
  MaxCommands, MaxFaults, MaxLogins   \* bounds of a run

ASSUME ProtectSyncAssumption ==
  /\ Kind \in {"ipaddress", "iprange", "city", "country"}
  /\ {MaxCommands, MaxFaults, MaxLogins} \subseteq Nat

VARIABLES
  prot,       \* the server's set
  known,      \* running clients whose present socket the server has heard of
  up,         \* clients that are running
  mine,       \* the set of each client
  c2s, s2c,   \* datagrams in flight, oldest first
  late,       \* how many of c2s are from a socket that is closed by now
  sees,       \* ghost: the keys where all that a client can differ by is in s2c
  leads,      \* ghost: those where all that the server can differ by is in c2s
  spent       \* how much of each bound is used

vars == <<prot, known, up, mine, c2s, s2c, late, sees, leads, spent>>

MsgType == {"heartbeat", "request", "receive", "protect", "unprotect"}
Msg(type, keys) == [type |-> type, keys |-> keys]

\* The keys that the datagrams of a queue are about.
Touched(queue) == UNION {m.keys : m \in ToSet(queue)}

TypeOK ==
  /\ prot \subseteq Key /\ known \subseteq up /\ up \subseteq Client
  /\ mine \in [Client -> SUBSET Key]
  /\ \A c \in Client :
       \A m \in ToSet(c2s[c]) \cup ToSet(s2c[c]) :
         m.type \in MsgType /\ m.keys \subseteq Key
  /\ \A c \in Client : late[c] \in 0 .. Len(c2s[c])
  /\ sees \in [Client -> SUBSET Key] /\ leads \in [Client -> SUBSET Key]
  /\ spent \in [commands : 0 .. MaxCommands, faults : 0 .. MaxFaults,
                logins : 0 .. MaxLogins]

Init ==
  /\ prot \in SUBSET Key /\ known = {} /\ up = {}
  /\ mine \in [Client -> SUBSET Key]
  /\ c2s = [c \in Client |-> <<>>] /\ s2c = [c \in Client |-> <<>>]
  /\ late = [c \in Client |-> 0]
  /\ sees = [c \in Client |-> {}] /\ leads = [c \in Client |-> {}]
  /\ spent = [commands |-> 0, faults |-> 0, logins |-> 0]

-----------------------------------------------------------------------------
Spend(what, limit) ==
  /\ spent[what] < limit
  /\ spent' = [spent EXCEPT ![what] = @ + 1]

ToServer(c, m) == c2s' = [c2s EXCEPT ![c] = Append(@, m)]

Login(c) ==
  /\ c \notin up
  /\ Spend("logins", MaxLogins)
  /\ up' = up \cup {c}
  /\ ToServer(c, Msg("request", {}))
  /\ UNCHANGED <<prot, known, mine, s2c, late, sees, leads>>

\* heartbeat, every 5 seconds: it matters when the server does not know where
\* the client is.
Heartbeat(c) ==
  /\ c \in up /\ c \notin known /\ c2s[c] = <<>>
  /\ ToServer(c, Msg("heartbeat", {}))
  /\ UNCHANGED <<prot, known, up, mine, s2c, late, sees, leads, spent>>

\* No answer is under way to a client, and nothing about a key but what the
\* client itself has commanded.
Clear(c, k) ==
  /\ \A m \in ToSet(c2s[c]) : m.type # "request"
  /\ \A m \in ToSet(s2c[c]) : m.type # "receive" /\ k \notin m.keys
  /\ \A d \in Client \ {c} : k \notin Touched(c2s[d])

\* !protectip, !protectiprange, !protectcity, !protectcountry and their opposites.
Command(c, type, k) ==
  /\ c \in up
  /\ Spend("commands", MaxCommands)
  /\ \/ /\ type = "protect" /\ k \notin mine[c]
        /\ mine' = [mine EXCEPT ![c] = @ \cup {k}]
     \/ /\ type = "unprotect" /\ k \in mine[c]
        /\ mine' = [mine EXCEPT ![c] = @ \ {k}]
  /\ ToServer(c, Msg(type, {k}))
  /\ sees' = [sees EXCEPT ![c] = @ \ {k}]
  /\ leads' = [d \in Client |->
       IF d = c /\ (k \in leads[c] \/ Clear(c, k)) THEN leads[d] \cup {k}
                                                  ELSE leads[d] \ {k}]
  /\ UNCHANGED <<prot, known, up, s2c, late>>

\* What a datagram does to the set of a client.
Received(set, m) ==
  CASE m.type = "protect"   -> set \cup m.keys
    [] m.type = "unprotect" -> set \ m.keys
    [] m.type = "receive"   -> m.keys

ClientHandle(c) ==
  /\ c \in up /\ s2c[c] # <<>>
  /\ mine' = [mine EXCEPT ![c] = Received(@, Head(s2c[c]))]
  /\ s2c' = [s2c EXCEPT ![c] = Tail(@)]
  /\ UNCHANGED <<prot, known, up, c2s, late, sees, leads, spent>>

Quit(c) ==
  /\ c \in up
  /\ up' = up \ {c} /\ known' = known \ {c}
  /\ late' = [late EXCEPT ![c] = Len(c2s[c])]
  /\ s2c' = [s2c EXCEPT ![c] = <<>>]
  /\ sees' = [sees EXCEPT ![c] = {}] /\ leads' = [leads EXCEPT ![c] = {}]
  /\ UNCHANGED <<prot, mine, c2s, spent>>

-----------------------------------------------------------------------------
Heard(c, type) ==
  /\ c2s[c] # <<>> /\ Head(c2s[c]).type = type
  /\ c2s' = [c2s EXCEPT ![c] = Tail(@)]
  /\ IF late[c] > 0 THEN late' = [late EXCEPT ![c] = @ - 1] /\ UNCHANGED known
                    ELSE known' = known \cup {c} /\ UNCHANGED late

ForwardedInverted(type) ==                                          \* mutant
  IF type = "protect" THEN "unprotect" ELSE "protect"
ForwardedMisspelt(type) == type \o "-ipadress"                      \* mutant

\* What a handler forwards is what it was sent, but the handler of
\* protect-ipaddressrange forwards unprotect-ipaddressrange.
Forwarded(type) ==
  IF Kind = "iprange" /\ type = "protect" THEN "unprotect" ELSE type

BroadcastEcho(c, m) ==                                              \* mutant
  s2c' = [d \in Client |-> IF d \in known THEN Append(s2c[d], m) ELSE s2c[d]]

Broadcast(c, m) ==
  s2c' = [d \in Client |-> IF d \in known \ {c} THEN Append(s2c[d], m) ELSE s2c[d]]

\* Whoever has given the last command for a key follows the server again as
\* soon as it is handled.
Follows(c) ==
  sees' = [sees EXCEPT ![c] =
    IF c \in known' THEN @ \cup ((leads[c] \cap Head(c2s[c]).keys) \ Touched(c2s'[c])) ELSE @]

HandleHeartbeat(c) ==
  /\ Heard(c, "heartbeat")
  /\ UNCHANGED <<prot, up, mine, s2c, sees, leads, spent>>

HandleRequest(c) ==
  /\ Heard(c, "request")
  /\ s2c' = IF c \in known' THEN [s2c EXCEPT ![c] = Append(@, Msg("receive", prot))] ELSE s2c
  /\ sees' = [sees EXCEPT ![c] = IF c \in known' THEN Key \ Touched(c2s'[c]) ELSE {}]
  /\ UNCHANGED <<prot, up, mine, leads, spent>>

HandleProtect(c) ==
  /\ Heard(c, "protect")
  /\ LET keys == Head(c2s[c]).keys IN
       IF keys \subseteq prot
         THEN UNCHANGED <<prot, s2c>>
         ELSE /\ prot' = prot \cup keys
              /\ Broadcast(c, Msg(Forwarded("protect"), keys))
  /\ Follows(c)
  /\ UNCHANGED <<up, mine, leads, spent>>

HandleUnprotect(c) ==
  /\ Heard(c, "unprotect")
  /\ LET keys == Head(c2s[c]).keys IN
       IF keys \subseteq prot
         THEN /\ prot' = prot \ keys
              /\ Broadcast(c, Msg(Forwarded("unprotect"), keys))
         ELSE UNCHANGED <<prot, s2c>>
  /\ Follows(c)
  /\ UNCHANGED <<up, mine, leads, spent>>

\* A broadcast reaches nobody until he has sent something to the new process.
ServerRestart ==
  /\ Spend("faults", MaxFaults)
  /\ known' = {}
  /\ sees' = [c \in Client |-> {}]
  /\ UNCHANGED <<prot, up, mine, c2s, s2c, late, leads>>

-----------------------------------------------------------------------------
(* The network.                                                            *)

LoseToServer(c) ==
  /\ c2s[c] # <<>>
  /\ Spend("faults", MaxFaults)
  /\ c2s' = [c2s EXCEPT ![c] = Tail(@)]
  /\ late' = [late EXCEPT ![c] = IF @ > 0 THEN @ - 1 ELSE 0]
  /\ leads' = [leads EXCEPT ![c] = @ \ Head(c2s[c]).keys]
  /\ UNCHANGED <<prot, known, up, mine, s2c, sees>>

LoseToClient(c) ==
  /\ s2c[c] # <<>>
  /\ Spend("faults", MaxFaults)
  /\ s2c' = [s2c EXCEPT ![c] = Tail(@)]
  /\ sees' = [sees EXCEPT ![c] =
       IF Head(s2c[c]).type = "receive" THEN {} ELSE @ \ Head(s2c[c]).keys]
  /\ UNCHANGED <<prot, known, up, mine, c2s, late, leads>>

-----------------------------------------------------------------------------
ClientStep(c) ==
  \/ Login(c) \/ Heartbeat(c) \/ ClientHandle(c) \/ Quit(c)
  \/ \E k \in Key : Command(c, "protect", k) \/ Command(c, "unprotect", k)

ServerStep(c) ==
  HandleHeartbeat(c) \/ HandleRequest(c) \/ HandleProtect(c) \/ HandleUnprotect(c)

Next ==
  \/ \E c \in Client : ClientStep(c) \/ ServerStep(c) \/ LoseToServer(c) \/ LoseToClient(c)
  \/ ServerRestart

Spec == Init /\ [][Next]_vars

-----------------------------------------------------------------------------
\* A client that was given the set and is known to the server holds what the
\* server holds once it has handled what is in flight, whatever others have
\* lost: except for entries whose datagram was lost on its way to the client,
\* and for those that it has itself commanded, until that has been handled.  It
\* is what the README of the repository promises for protected entries.
ListenersMatch ==
  \A c \in Client : \A k \in sees[c] :
    k \in FoldLeft(Received, mine[c], s2c[c]) <=> k \in prot

\* What a command of a client makes of the server's set.
Ordered(set, m) == IF m.type = "protect" THEN set \cup m.keys ELSE set \ m.keys

\* What an administrator has commanded stands: the server's set will have it
\* once the commands in flight are handled, and nothing that others have sent
\* takes it back at the client in the meantime, as long as nobody else gives
\* a command for the entry and the command is not lost.
CommandsStand ==
  \A c \in Client : \A k \in leads[c] :
    k \in mine[c] <=> k \in FoldLeft(Ordered, prot, c2s[c])
=============================================================================
