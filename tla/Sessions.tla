------------------------------ MODULE Sessions ------------------------------
(***************************************************************************)
(* Which administrators the TinyRcon server takes to be logged in.  There  *)
(* is no time limit per administrator: every ten seconds the timer of the  *)
(* server's window marks everybody as logged out and sends everybody a     *)
(* heartbeat, and whoever answers is marked as logged in again.  Clients   *)
(* also send heartbeats of their own, and log in and out.  What the server *)
(* forwards to the administrators who are logged in (public messages) goes *)
(* by these marks at the moment it handles the message.                    *)
(*                                                                         *)
(* The timer runs on the window's thread and the handlers on the messaging *)
(* thread: they interleave freely.  Administrators behind one router share *)
(* an address, and a login or a logout of one of them unmarks all of them. *)
(***************************************************************************)
EXTENDS Naturals, Sequences, SequencesExt

CONSTANTS
  Client,
  Sharing,                                            \* clients with one address
  MaxQueue, MaxLogins, MaxPublic, MaxLosses, MaxRestarts   \* bounds of a run

ASSUME SessionsAssumption ==
  /\ Sharing \subseteq Client
  /\ {MaxQueue, MaxLogins, MaxPublic, MaxLosses, MaxRestarts} \subseteq Nat

VARIABLES
  loggedIn, saved,   \* the marks of the server, and those in its users file
  known,             \* running clients whose present socket the server has heard of
  up, leaving,       \* clients that run, and those of them that are closing
  c2s, s2c,          \* datagrams in flight, oldest first
  late,              \* how many of c2s are from a socket that is closed by now
  spent              \* how much of each bound is used

server  == <<loggedIn, saved, known>>
clients == <<up, leaving>>
vars    == <<server, clients, c2s, s2c, late, spent>>

ToServerType == {"login", "logout", "heartbeat", "public"}
\* "text" is what only shows at the client: the answer to a login, and public
\* messages.
ToClientType == {"heartbeat", "text"}

TypeOK ==
  /\ loggedIn \subseteq Client /\ saved \subseteq Client /\ known \subseteq up
  /\ up \subseteq Client /\ leaving \subseteq up
  /\ \A c \in Client : /\ ToSet(c2s[c]) \subseteq ToServerType
                       /\ ToSet(s2c[c]) \subseteq ToClientType
                       /\ Len(c2s[c]) <= MaxQueue
                       /\ late[c] \in 0 .. Len(c2s[c])

Init ==
  /\ loggedIn = {} /\ saved = {} /\ known = {}
  /\ up = {} /\ leaving = {}
  /\ c2s = [c \in Client |-> <<>>] /\ s2c = [c \in Client |-> <<>>]
  /\ late = [c \in Client |-> 0]
  /\ spent = [logins |-> 0, public |-> 0, losses |-> 0, restarts |-> 0]

Spend(what, limit) ==
  /\ spent[what] < limit
  /\ spent' = [spent EXCEPT ![what] = @ + 1]

Neighbours(c) == {c} \cup (IF c \in Sharing THEN Sharing ELSE {})

-----------------------------------------------------------------------------
(* The clients.                                                            *)

ToServer(c, type) ==
  /\ Len(c2s[c]) < MaxQueue
  /\ c2s' = [c2s EXCEPT ![c] = Append(@, type)]

Login(c) ==
  /\ c \notin up
  /\ Spend("logins", MaxLogins)
  /\ up' = up \cup {c}
  /\ ToServer(c, "login")
  /\ UNCHANGED <<server, leaving, s2c, late>>

\* Every five seconds while the window is there.
ClientTimer(c) ==
  /\ c \in up \ leaving
  /\ "heartbeat" \notin ToSet(c2s[c])
  /\ ToServer(c, "heartbeat")
  /\ UNCHANGED <<server, clients, s2c, late, spent>>

\* !t
Public(c) ==
  /\ c \in up \ leaving
  /\ Spend("public", MaxPublic)
  /\ ToServer(c, "public")
  /\ UNCHANGED <<server, clients, s2c, late>>

\* The messaging thread, which goes on until the process ends.
ClientHandle(c) ==
  /\ c \in up /\ s2c[c] # <<>>
  /\ s2c' = [s2c EXCEPT ![c] = Tail(@)]
  /\ IF Head(s2c[c]) = "heartbeat" THEN ToServer(c, "heartbeat") ELSE UNCHANGED c2s
  /\ UNCHANGED <<server, up, leaving, late, spent>>

\* execute_at_exit, before the messaging thread is asked to stop.
Leave(c) ==
  /\ c \in up \ leaving
  /\ ToServer(c, "logout")
  /\ leaving' = leaving \cup {c}
  /\ UNCHANGED <<server, up, s2c, late, spent>>

StoppedKnown(c) ==                                                  \* mutant
  /\ up' = up \ {c} /\ leaving' = leaving \ {c}
  /\ late' = [late EXCEPT ![c] = Len(c2s[c])]
  /\ s2c' = [s2c EXCEPT ![c] = <<>>]
  /\ UNCHANGED known

Stopped(c) ==
  /\ up' = up \ {c} /\ leaving' = leaving \ {c}
  /\ known' = known \ {c}
  /\ late' = [late EXCEPT ![c] = Len(c2s[c])]
  /\ s2c' = [s2c EXCEPT ![c] = <<>>]

\* The process ends, after a logout or without one (a crash).
Stop(c) ==
  /\ c \in up
  /\ Stopped(c)
  /\ UNCHANGED <<loggedIn, saved, c2s, spent>>

-----------------------------------------------------------------------------
(* The server's messaging thread.                                          *)

Handles(c, type) ==
  /\ c2s[c] # <<>> /\ Head(c2s[c]) = type
  /\ c2s' = [c2s EXCEPT ![c] = Tail(@)]
  /\ IF late[c] > 0 THEN late' = [late EXCEPT ![c] = @ - 1] /\ UNCHANGED known
                    ELSE known' = known \cup {c} /\ UNCHANGED late

\* Send to those of a set of users that have an endpoint.
Send(set, type) ==
  s2c' = [c \in Client |-> IF c \in set \cap known' THEN Append(s2c[c], type)
                           ELSE s2c[c]]

HandleLogin(c) ==
  /\ Handles(c, "login")
  /\ loggedIn' = (loggedIn \ Neighbours(c)) \cup {c}
  /\ saved' = loggedIn'
  /\ Send({c}, "text")
  /\ UNCHANGED <<clients, spent>>

HandleLogout(c) ==
  /\ Handles(c, "logout")
  /\ loggedIn' = loggedIn \ Neighbours(c)
  /\ saved' = loggedIn'
  /\ UNCHANGED <<clients, s2c, spent>>

HeardOnly(c) == UNCHANGED loggedIn                                  \* mutant
Marked(c)    == loggedIn' = loggedIn \cup {c}

HandleHeartbeat(c) ==
  /\ Handles(c, "heartbeat")
  /\ Marked(c)
  /\ UNCHANGED <<saved, clients, s2c, spent>>

HandlePublic(c) ==
  /\ Handles(c, "public")
  /\ Send(loggedIn \ {c}, "text")
  /\ UNCHANGED <<loggedIn, saved, clients, spent>>

-----------------------------------------------------------------------------
(* The server's window and its process.                                    *)

Kept == UNCHANGED loggedIn                                          \* mutant
Unmarked == loggedIn' = {}

\* A client that has not yet read the last heartbeat is not sent another one
\* here, to bound the queues.
ServerTimer ==
  /\ Unmarked
  /\ s2c' = [c \in Client |-> IF c \in known /\ "heartbeat" \notin ToSet(s2c[c])
                              THEN Append(s2c[c], "heartbeat") ELSE s2c[c]]
  /\ UNCHANGED <<saved, known, clients, c2s, late, spent>>

\* The marks come from the file, which an orderly exit has written.  The
\* endpoints are not in it.
ServerRestart ==
  /\ Spend("restarts", MaxRestarts)
  /\ \/ UNCHANGED <<loggedIn, saved>>
     \/ loggedIn' = saved /\ UNCHANGED saved
     \/ saved' = loggedIn /\ UNCHANGED loggedIn
  /\ known' = {}
  /\ UNCHANGED <<clients, c2s, s2c, late>>

LoseToServer(c) ==
  /\ c2s[c] # <<>>
  /\ Spend("losses", MaxLosses)
  /\ c2s' = [c2s EXCEPT ![c] = Tail(@)]
  /\ late' = [late EXCEPT ![c] = IF @ > 0 THEN @ - 1 ELSE 0]
  /\ UNCHANGED <<server, clients, s2c>>

LoseToClient(c) ==
  /\ s2c[c] # <<>>
  /\ Spend("losses", MaxLosses)
  /\ s2c' = [s2c EXCEPT ![c] = Tail(@)]
  /\ UNCHANGED <<server, clients, c2s, late>>

-----------------------------------------------------------------------------
ClientStep(c) ==
  Login(c) \/ ClientTimer(c) \/ Public(c) \/ ClientHandle(c) \/ Leave(c) \/ Stop(c)

ServerStep(c) == HandleLogin(c) \/ HandleLogout(c) \/ HandleHeartbeat(c) \/ HandlePublic(c)

Next ==
  \/ \E c \in Client :
       ClientStep(c) \/ ServerStep(c) \/ LoseToServer(c) \/ LoseToClient(c)
  \/ ServerTimer \/ ServerRestart

Spec == Init /\ [][Next]_vars

\* Both windows' timers go on firing, and both messaging threads go on
\* handling what arrives.  Nobody has to log in, and nobody has to quit.
Fairness ==
  /\ WF_vars(ServerTimer)
  /\ \A c \in Client :
       /\ WF_vars(ServerStep(c))
       /\ WF_vars(ClientHandle(c))
       /\ WF_vars(ClientTimer(c))

FairSpec == Spec /\ Fairness

-----------------------------------------------------------------------------
(* The properties.                                                         *)

\* An administrator whose client has ended, by a crash as well, is in the
\* end no longer taken to be logged in, although a heartbeat of his may be
\* handled after his logout.
QuitNoticed == \A c \in Client : <>[](c \notin up) => <>[](c \notin loggedIn)

\* An administrator whose client keeps running is taken to be logged in
\* again and again, whatever the others behind his router do, and whatever
\* is lost or restarted.
RunningSeen == \A c \in Client : []<>(c \in loggedIn \/ c \notin up \/ c \in leaving)
=============================================================================
