----------------------------- MODULE BanTransfer -----------------------------
(***************************************************************************)
(* How the lists of the server come to one client after its start.  There  *)
(* are three ways: an archive of all lists, uploaded once at the login;    *)
(* each list on its own, uploaded once by the timer as long as no answer   *)
(* to the archive has come; and requests, which the timer repeats until    *)
(* every list counts as received.  The files travel by FTP, and a transfer *)
(* can fail or break off; a datagram names the file to the other side, and *)
(* datagrams can be lost.  The server answers an upload with a file of its *)
(* own list, and a request with the last entries of it, cut into several   *)
(* datagrams.  Meanwhile other administrators ban.                         *)
(*                                                                         *)
(* The two FTP helpers of the client wait one second for their thread, and *)
(* look at its exit code only if it has taken longer than that: a failure  *)
(* within the first second counts as a success.                            *)
(*                                                                         *)
(* Entries are numbers, in the order in which the list keeps them.         *)
(* Protected entries are a constant, the same for both sides; what removes *)
(* bans, and what other clients upload, is left to BanSync.                *)
(***************************************************************************)
EXTENDS Integers, Sequences, SequencesExt, FiniteSets

CONSTANTS
  Lists,                     \* the lists, in the order in which they are sent
  MaxEntry,                  \* entries are 1 .. MaxEntry
  Window,                    \* how many entries of each list answer a request
  Piece,                     \* entries in one datagram
  Protected,                 \* entries that may not be banned
  ServerLists, ClientLists,  \* what a list may hold when the client starts
  MaxBans, MaxFaults         \* bounds of a run

List  == {Lists[i] : i \in DOMAIN Lists}
Entry == 1 .. MaxEntry

ASSUME BanTransferAssumption ==
  /\ Lists \in Seq(List)
  /\ MaxEntry \in Nat /\ Piece \in Nat \ {0} /\ {MaxBans, MaxFaults} \subseteq Nat
  /\ Window \in [List -> Nat]
  /\ Protected \subseteq Entry
  /\ ServerLists \subseteq SUBSET (Entry \ Protected)
  /\ ClientLists \subseteq SUBSET Entry

VARIABLES
  srv,       \* the lists of the server
  known,     \* does the server know where the client is?
  list,      \* the lists of the client (memory and file)
  flag,      \* ban_entries_synchronized_for_admins_flag
  synced,    \* is_ban_entries_synchronized_for_admins
  due,       \* the uploads the client has still to make
  c2s, s2c,  \* datagrams in flight, oldest first
  own,       \* ghost: what the client's lists held at the start
  cut,       \* ghost: what an upload that broke off has left out
  missed,    \* ghost: entries in datagrams that the client never got
  duped,     \* ghost: lists whose failed download counted as a success
  bans, faults \* how many there have been

server == <<srv, known>>
client == <<list, flag, synced, due>>
ghosts == <<own, cut, missed, duped>>
spent  == <<bans, faults>>
vars   == <<server, client, c2s, s2c, ghosts, spent>>

\* A datagram, with the lists in it or in the file that it names.
Msg(type, lists) == [type |-> type, lists |-> lists]
Only(l, S) == [x \in {l} |-> S]
Nothing == [x \in {} |-> {}]

ToServerType == {"heartbeat", "upload-bans-compressed", "upload-bans", "request"}
ToClientType == {"receive-bans-compressed", "receive-bans", "receive", "add"}

\* The entries of some of the lists.
Part == UNION {[some -> SUBSET Entry] : some \in SUBSET List}

TypeOK ==
  /\ srv \in [List -> SUBSET Entry] /\ known \in BOOLEAN
  /\ list \in [List -> SUBSET Entry]
  /\ flag \in [List -> BOOLEAN] /\ synced \in BOOLEAN
  /\ due \subseteq {"archive", "single"}
  /\ c2s \in Seq([type : ToServerType, lists : Part])
  /\ s2c \in Seq([type : ToClientType, lists : Part])
  /\ {own, cut, missed} \subseteq [List -> SUBSET Entry] /\ duped \subseteq List
  /\ bans \in 0 .. MaxBans /\ faults \in 0 .. MaxFaults

Init ==
  /\ srv \in [List -> ServerLists] /\ list \in [List -> ClientLists]
  /\ known = FALSE
  /\ flag = [l \in List |-> FALSE] /\ synced = FALSE
  /\ due = {"archive", "single"}
  /\ c2s = <<>> /\ s2c = <<>>
  /\ own = list
  /\ cut = [l \in List |-> {}] /\ missed = [l \in List |-> {}] /\ duped = {}
  /\ bans = 0 /\ faults = 0

-----------------------------------------------------------------------------
(* Helpers.                                                                *)

Fault ==
  /\ faults < MaxFaults
  /\ faults' = faults + 1
  /\ UNCHANGED bans

\* A transfer, or a batch of them, that fails is a fault like a lost datagram.
Transfer(succeeds) ==
  IF succeeds THEN UNCHANGED spent ELSE Fault

\* f with what g has for some of the lists.
With(f, g) == [l \in List |-> IF l \in DOMAIN g THEN f[l] \cup g[l] ELSE f[l]]

Accepted(lists) == [l \in DOMAIN lists |-> lists[l] \ Protected]

\* What may be left of a list in a file that broke off.
BrokenOff(S) == {S \cap (1 .. i) : i \in 0 .. MaxEntry}

Latest(S, n) == {e \in S : Cardinality({f \in S : f > e}) < n}

\* Entries are put into a datagram until it is long enough; the rest goes into
\* the last one.
Pieces(S) ==
  [i \in 1 .. (Cardinality(S) + Piece - 1) \div Piece |->
    {e \in S : Cardinality({f \in S : f < e}) \div Piece = i - 1}]

-----------------------------------------------------------------------------
(* The client sends.                                                       *)

\* upload-bans-compressed: if the archive cannot be stored, or not all of it,
\* the datagram is sent all the same.
UploadArchive ==
  /\ "archive" \in due
  /\ due' = due \ {"archive"}
  /\ \E stored \in {list, Nothing} :
       /\ c2s' = Append(c2s, Msg("upload-bans-compressed", stored))
       /\ Transfer(stored = list)
  /\ UNCHANGED <<server, list, flag, synced, s2c, ghosts>>

\* The FTP site was offline when the client started.
SkipArchive ==
  /\ "archive" \in due
  /\ due' = due \ {"archive"}
  /\ UNCHANGED <<server, list, flag, synced, c2s, s2c, ghosts, spent>>

\* upload-bans for each list, once; each file arrives, in part, or not at all.
UploadSingle ==
  /\ "single" \in due /\ ~synced
  /\ due' = due \ {"single"}
  /\ \E stored \in SUBSET List, upTo \in [List -> 0 .. MaxEntry] :
       LET file == [l \in stored |-> list[l] \cap (1 .. upTo[l])]
           named(l) == IF l \in stored THEN Only(l, file[l]) ELSE Nothing
       IN  /\ c2s' = c2s \o [i \in DOMAIN Lists |-> Msg("upload-bans", named(Lists[i]))]
           /\ cut' = With(cut, [l \in stored |-> list[l] \ file[l]])
           /\ Transfer(stored = List /\ cut' = cut)
  /\ UNCHANGED <<server, list, flag, synced, s2c, own, missed, duped>>

RequestEarly ==                                                      \* mutant
  /\ due # {} /\ ~synced /\ c2s = <<>> /\ s2c = <<>>
  /\ c2s' = [i \in DOMAIN Lists |-> Msg("request", Only(Lists[i], {}))]
  /\ UNCHANGED <<server, client, s2c, ghosts, spent>>

\* request-*bans for each list, every 30 seconds; upload-bans comes first.
Request ==
  /\ "single" \notin due /\ ~synced /\ c2s = <<>> /\ s2c = <<>>
  /\ c2s' = [i \in DOMAIN Lists |-> Msg("request", Only(Lists[i], {}))]
  /\ UNCHANGED <<server, client, s2c, ghosts, spent>>

\* heartbeat, every 5 seconds: it matters when the server has restarted.
Heartbeat ==
  /\ ~known /\ c2s = <<>>
  /\ c2s' = <<Msg("heartbeat", Nothing)>>
  /\ UNCHANGED <<server, client, s2c, ghosts, spent>>

-----------------------------------------------------------------------------
(* The client receives.                                                    *)

Receives(type) ==
  /\ s2c # <<>> /\ Head(s2c).type = type
  /\ s2c' = Tail(s2c)
  /\ UNCHANGED <<server, due, c2s, own, cut, missed>>

CompletedOne(l) ==                                                   \* mutant
  /\ flag' = [flag EXCEPT ![l] = TRUE]
  /\ synced' = (synced \/ \E x \in List : flag'[x])

\* set_operation_completed_flag_for_admins
Completed(l) ==
  /\ flag' = [flag EXCEPT ![l] = TRUE]
  /\ synced' = (synced \/ \A x \in List : flag'[x])

\* The archive of an earlier transfer is deleted first: if the download fails,
\* however fast, there is nothing to extract.
HandleArchive ==
  /\ Receives("receive-bans-compressed")
  /\ \/ /\ list' = Accepted(Head(s2c).lists)
        /\ synced' = TRUE
        /\ Transfer(TRUE)
     \/ UNCHANGED <<list, synced>> /\ Transfer(FALSE)
  /\ UNCHANGED <<flag, duped>>

\* The list's own file is overwritten by the download and read again.
HandleFile ==
  /\ Receives("receive-bans")
  /\ \E l \in DOMAIN Head(s2c).lists :
       LET sent == Head(s2c).lists[l] IN
       \/ /\ list' = [list EXCEPT ![l] = sent \ Protected]
          /\ Completed(l)
          /\ Transfer(TRUE)
          /\ UNCHANGED duped
       \/ UNCHANGED <<list, flag, synced, duped>> /\ Transfer(FALSE)
       \/ /\ \E left \in {list[l]} \cup BrokenOff(sent) :
               list' = [list EXCEPT ![l] = left \ Protected]
          /\ Completed(l)
          /\ duped' = duped \cup {l}
          /\ Transfer(FALSE)

\* receive-*bans: the entries the client lacks are added, and the list counts
\* as received, whichever piece of it this is.
HandlePiece ==
  /\ Receives("receive")
  /\ list' = With(list, Accepted(Head(s2c).lists))
  /\ \E l \in DOMAIN Head(s2c).lists : Completed(l)
  /\ UNCHANGED <<duped, spent>>

HandleAdd ==
  /\ Receives("add")
  /\ list' = With(list, Head(s2c).lists)
  /\ UNCHANGED <<flag, synced, duped, spent>>

-----------------------------------------------------------------------------
(* The server.                                                             *)

Handles(type) ==
  /\ c2s # <<>> /\ Head(c2s).type = type
  /\ c2s' = Tail(c2s)
  /\ known' = TRUE
  /\ UNCHANGED <<client, ghosts, spent>>

HandleHeartbeat == Handles("heartbeat") /\ UNCHANGED <<srv, s2c>>

Answer(type) == IF type = "upload-bans" THEN "receive-bans" ELSE "receive-bans-compressed"

HandleUploadUnmerged(type) ==                                        \* mutant
  /\ Handles(type)
  /\ LET lists == Head(c2s).lists IN
       /\ srv' = srv
       /\ IF lists = Nothing THEN UNCHANGED s2c
          ELSE s2c' = Append(s2c, Msg(Answer(type), [l \in DOMAIN lists |-> srv[l]]))

\* The file is merged and written again with the result; without a file, or
\* with an archive that cannot be extracted, there is no answer.
HandleUpload(type) ==
  /\ Handles(type)
  /\ LET lists == Head(c2s).lists IN
       IF lists = Nothing
         THEN UNCHANGED <<srv, s2c>>
         ELSE /\ srv' = With(srv, Accepted(lists))
              /\ s2c' = Append(s2c, Msg(Answer(type), [l \in DOMAIN lists |-> srv'[l]]))

AnswersMisnamed(l) ==                                                \* mutant
  LET pieces == Pieces(Latest(srv[l], Window[l])) IN
  [i \in DOMAIN pieces |-> Msg("request", Only(l, pieces[i]))]

Answers(l) ==
  LET pieces == Pieces(Latest(srv[l], Window[l])) IN
  [i \in DOMAIN pieces |-> Msg("receive", Only(l, pieces[i]))]

\* An empty list is not answered.
HandleRequest ==
  /\ Handles("request")
  /\ \E l \in DOMAIN Head(c2s).lists : s2c' = s2c \o Answers(l)
  /\ UNCHANGED srv

\* Another administrator bans, and the server forwards it to whom it knows.
OtherBan(l, k) ==
  /\ k \notin srv[l] \cup Protected
  /\ srv' = [srv EXCEPT ![l] = @ \cup {k}]
  /\ IF known THEN s2c' = Append(s2c, Msg("add", Only(l, {k}))) /\ UNCHANGED missed
              ELSE missed' = [missed EXCEPT ![l] = @ \cup {k}] /\ UNCHANGED s2c
  /\ bans < MaxBans /\ bans' = bans + 1
  /\ UNCHANGED <<known, client, c2s, own, cut, duped, faults>>

ServerRestart ==
  /\ known' = FALSE
  /\ Fault
  /\ UNCHANGED <<srv, client, c2s, s2c, ghosts>>

-----------------------------------------------------------------------------
(* The network.                                                            *)

LoseToServer ==
  /\ c2s # <<>>
  /\ c2s' = Tail(c2s)
  /\ Fault
  /\ UNCHANGED <<server, client, s2c, ghosts>>

LoseToClient ==
  /\ s2c # <<>>
  /\ s2c' = Tail(s2c)
  /\ missed' = IF Head(s2c).type \in {"receive", "add"}
                 THEN With(missed, Head(s2c).lists) ELSE missed
  /\ Fault
  /\ UNCHANGED <<server, client, c2s, own, cut, duped>>

-----------------------------------------------------------------------------
ClientReceives == HandleArchive \/ HandleFile \/ HandlePiece \/ HandleAdd

ServerReceives ==
  \/ HandleHeartbeat \/ HandleRequest
  \/ \E type \in {"upload-bans-compressed", "upload-bans"} : HandleUpload(type)

Next ==
  \/ UploadArchive \/ SkipArchive \/ UploadSingle \/ Request \/ Heartbeat
  \/ ClientReceives \/ ServerReceives
  \/ \E l \in List, k \in Entry : OtherBan(l, k)
  \/ ServerRestart \/ LoseToServer \/ LoseToClient

Spec == Init /\ [][Next]_vars

\* The timer of the client fires, and both messaging threads go on.
Fairness ==
  /\ WF_vars(UploadSingle) /\ WF_vars(Request)
  /\ WF_vars(ClientReceives) /\ WF_vars(ServerReceives)

FairSpec == Spec /\ Fairness

-----------------------------------------------------------------------------
(* The properties.                                                         *)

InFlight(l) == \E m \in ToSet(s2c) : l \in DOMAIN m.lists

\* A list that counts as received, when nothing of it is in flight any more,
\* has the last entries of the server's list: it lacks at most what was in a
\* datagram that was lost, or what an upload that broke off left out, unless a
\* download has failed unnoticed.  Neither the cut into pieces, nor the flag
\* that the first of them sets, nor bans that come in between cost an entry.
Delivered ==
  \A l \in List : (flag[l] \/ synced) /\ ~InFlight(l) /\ l \notin duped =>
    Latest(srv[l], Window[l]) \ list[l] \subseteq missed[l] \cup cut[l]

\* A ban that the client held when it started is never forgotten by both
\* sides, though every answer to an upload replaces the client's list and any
\* transfer can fail: only an upload that broke off midway costs the rest of
\* its file.
OwnBansSurvive ==
  \A l \in List : own[l] \subseteq list[l] \cup srv[l] \cup cut[l] \cup Protected

\* Whatever becomes of the transfers, the client is given every list on which
\* the server has anything.
ClientGetsList == \A l \in List : srv[l] # {} ~> (flag[l] \/ synced)
=============================================================================
