# Models and proofs of TinyRcon

TinyRcon administers Call of Duty 2 game servers. A **TinyRcon client** runs on
the computer of every administrator, a **TinyRcon server** keeps the lists that
the administrators share. They exchange short UDP datagrams, and files by FTP;
the client asks the game server over UDP and kicks players there. This
directory models the parts of the two programs where order, concurrency,
failures or time decide whether they are right: the ban lists and their files,
the synchronization and the transfer of the lists, the expiry of temporary
bans, the sessions of the administrators, the kicks, and the way the client
replaces itself by a newer version.

`S` below is `TinyRconServer/src/tiny_rcon_server.cpp`, `U` its
`tiny_rcon_utility_functions.cpp`, `C` and `CU` the two files
`tiny_rcon_client.cpp` and `tiny_rcon_utility_functions.cpp` of
`TinyRconClient/src`, `CN` its `connection_manager.cpp` and `A` its
`autoupdate.cpp`. `PROJECT.json` gives for every definition the lines it
stands for.

## 1. Inventory

| Part | State | Operations | What is hard |
|---|---|---|---|
| Ban lists of the server (S, U) | six lists (temporary bans, IP addresses, ranges, names, cities, countries) as map and vector, for each a list of removed entries, four sets of protected entries, a file for each | load at start, `add-*`, `remove-*`, `upload-bans`, `upload-bans-compressed`, `protect-*`, `unprotect-*`, save at exit, console `clear all` | three threads and no lock (the `lock_guard`s are commented out); handlers run before the load has ended; two files per update; torn files after a crash |
| Ban lists of a client (C, CU) | the same lists without removed entries, flags that say which are synchronized | the `!` commands, `add-*`/`remove-*` from the server, upload at login, `receive-*` | a command between upload and answer; lost datagrams; no echo to the sender |
| Protected entries (S, C) | a set on each side for each of four kinds | `protect-*`, `unprotect-*`, `request-protected*` | the answer to a request races with commands |
| Temporary bans (CU, S) | start and duration of each ban | `!tb`, `!ub`, a pass over the list after each status of the game server | removal while iterating; each client expires bans on its own; a late removal meets a newer ban |
| Sessions (S, C) | `is_logged_in`, address and endpoint of each user, a users file | `request-login`, `request-logout`, `heartbeat` both ways, timers of 5 and 10 s | marks are cleared before heartbeats are answered; addresses are shared; endpoints are forgotten at a restart |
| Messaging (`connection_manager_for_messages` of both) | a socket and a queue on each side | send, receive with a timeout, dispatch to a handler | loss, and endpoints that are out of date |
| Transfer of lists (C, S, A) | `is_ban_entries_synchronized_for_admins`, a flag for each list, a file for each list and an archive of all of them on the FTP site | upload of the archive, upload of each list, `request-*`, `receive-*` | transfers fail, break off, or count as successful too soon; an answer is cut into datagrams; uploads and requests overtake each other |
| rcon to the game server (CN, CU) | the table of players, the warnings, three settings | `status`, `clientkick`, `!w`, `!messages`, `!egb`/`!dgb`, `!ecb`/`!dcb`, the walks over the table | nothing ties an answer to its request: a late status replaces the table in the middle of a walk; kicks and warnings go by slot; a setting about messages decides about kicks |
| Automatic update (A) | two program files, processes started from either, detached deletions | check, download, replace, run, delete | a file in use can be neither deleted nor overwritten; deletions come late; several instances; crashes |
| Inform and private messages (S, C) | time stamp of each message seen | `inform-message` with accept or deny | repeats within 5 seconds |
| Statistics, geographic data, windows and grids, SQLite, MD5 | display and I/O state | | sequential or pure I/O |
| Private server and private clients | as above, for players | as above | as above |

How they interact: a handler of the server runs on its messaging thread and
changes lists which the task thread loads and the window saves. A client sends
a datagram for each command; the server applies it and forwards it to every
other user whose endpoint it knows. A login starts with `request-login`, then
an upload of the client's lists and requests for the protected sets; requests
for the ban lists follow until all have been received. Clients
drop bans that have run out and tell the server, which tells the others. Who
gets a public message depends on the marks of the sessions. The command thread
of a client asks the game server for its players, and after each status walks
over them and kicks those whom a list names.

What makes each part right:

- the lists of the server: nothing acknowledged is lost, nothing removed comes
  back, whatever the threads and crashes do;
- the synchronization: lists converge, a list is delivered in the end, a ban
  that was lifted is not enforced for ever by those who listen;
- expiry: bans end when they run out, and before that only through an older ban
  of the same address;
- transfers: a list that counts as received is there, no ban is forgotten by
  both sides, and a client is given every list in the end;
- sessions: those who are there count as logged in, those who are not do not;
- kicks: whoever a list in force names has to leave, kicks end, a warning stays with
  the player who got it, and a kick is for somebody who has earned it;
- update: the program never goes back to an older version, something that can
  be started is always left, and updating ends.

## 2. Modules

| Module | What it models |
|---|---|
| `BanStore` | one ban list of the server: memory, removed list, protected entries, three files; task thread, messaging thread, window, crash |
| `BanStoreProof` | its inductive invariant and theorems, for every set of keys |
| `BanList` | what one ban list promises, whatever threads and files it is made of; `BanStore` implements it |
| `BanSync` | one ban list shared by the server and its clients over datagrams that can be lost |
| `BanSyncProof` | its types, `ListenersFollow` and `OwnedKeysAgree`, for any number of clients, keys and faults |
| `BanTransfer` | how all lists come to one client after its start: archive, single files, requests; transfers and datagrams fail |
| `BanTransferProof` | its types, that no ban is forgotten by both sides, and `Delivered`, for any number of lists, entries and faults |
| `ProtectSync` | one kind of protected entries shared in the same way, nothing merged |
| `ProtectSyncProof` | its types, `ListenersMatch` for three of the four kinds, and `CommandsStand` for all |
| `TempBanExpiry` | temporary bans with time: vector and map of each client, the pass, the removal that the server forwards |
| `TempBanExpiryProof` | its types, `MapMatchesVector`, `PassSound` and `RunningBansStay`, for any number of clients, addresses and hours |
| `Sessions` | logins, heartbeats, marks, restarts, public messages |
| `AutoKick` | status and kicks over UDP, the table of players, the walks over it, warnings |
| `AutoKickProof` | its types, `WarningsStick`, `NestingBounded`, `KickIsEarned` and `NoOneElseIsHit`, for any number of players, slots and faults |
| `Update` | the two program files, the processes that replace each other, detached deletions |
| `UpdateProof` | its types, `NeverOlder` and `ProgramLeft`, for any number of processes and versions |
| `FoldLemmas` | what a fold over a sequence is at its two ends, for any step; three of the proofs instantiate it |

Each model but `BanList` has an `MC` module for TLC (symmetry, or the values of constants
that are not sets) and `.cfg` files. The models do not extend each other; each
abstracts its neighbours in a way that is named at its head: `BanSync` takes a
restart of the server to keep the list, which `BanStore` is about, and one
datagram to be enough for a list, which `BanTransfer` is about; `TempBanExpiry`
takes the network to be reliable, which `BanSync` does not; `AutoKick` takes the
lists to be constant, which the models of the lists are about. Only `BanList` is
instantiated: `BanStore` maps its files and threads to it.

### State and actions

**BanStore.** `banned`, `removed` and `prot` are map and vector of a list, its
removed list and the protected set; `bansFile`, `removedFile`, `protFile` the
files. A handler takes several steps, because each of its saves is one: `Add`
and `Remove` are `add_temporarily_banned_ip_address` (U:3004) and
`remove_temp_banned_ip_address` (U:3032) up to the first save, `SaveRemoved`
and `SaveBans` are the two saves with what lies between. For cities and
countries the active list changes before the first save, for the others after
it: both orders are allowed. `LoadProtected`, `LoadBans`, `LoadRemoved` are the
task thread (S:2472-2539), `ExitSave*` the end of `WinMain` (S:2682-2703), which
runs while the two others may still be busy. `Crash` kills the process, and
leaves of a file that was being rewritten any part of what was to be written,
or the old file. The ghosts `kept` and `gone` are the promises of the server.
They are withdrawn only where the code itself gives them up, and the
definitions that do so say so: handlers that overlap the load (`Promise`),
a window closed during the load (`ExitSaveRemoved`), entries of protected
keys (`LoadBans`, `LoadRemoved`), an entry that a torn file has lost (`Crash`).
What the theorems claim is therefore that **these are the only ways**.

**BanList.** The abstract list has the bans on disk, the promises `kept` and
`gone`, and which parts of the rest a step may disturb. An action of it says
which promises it may take back: a `Command` those of its own key, `Lose` those
in a file that is being rewritten, `Skip` those of protected keys during the
load, `Overwrite` all of them when somebody does not wait for the load.
`KeepsPromises` in `BanStore` is `BanList!Spec` with `onDisk` mapped to the file
of the list, `saving` to a rewrite in progress by a handler or by the window, and
`loading` to a load that has not ended or was overtaken.

**BanSync.** `c2s` and `s2c` are queues of datagrams. `TakeSnapshot` is the
handler of `upload-bans*` on the client, which writes the file; `Announce` sends
the datagram; commands can fall in between. `Received` is what a datagram does
to a list. `late` counts the datagrams at the head of `c2s` whose socket is
closed: a client gets a new port at each start, and what it sent before tells
the server an endpoint where nobody listens any more. The ghost `sees` holds from
the moment the server has written a list for a client until the client issues a
command, misses a datagram, stops, or the server restarts. The ghost `owner`
is the administrator who alone has changed a key.

**BanTransfer.** Entries are numbers in the order of the list, so that a file
that broke off is a prefix, and "the last fifty" (`Latest`) the largest.
`UploadArchive`, `UploadSingle` and `Request` are the three ways of C:5906,
C:8184 and C:8254; `due` holds the uploads still to make. `HandleUpload` merges
and answers, `HandleRequest` answers in pieces (`Pieces`), nothing for an empty
list. `HandleFile` has three outcomes: the transfer succeeds; it fails and
the client knows; it fails within the first second and counts as a success
(A:1035), with whatever is in the file by then. `Completed` is
`set_operation_completed_flag_for_admins`. The ghosts `cut`, `missed` and
`duped` name what each kind of fault can cost, and nothing else may be
missing. `OtherBan` is the ban of another administrator, forwarded to this
client if the server knows its endpoint.

**ProtectSync.** `Kind` chooses among the four kinds; `Forwarded` is the command
that the handlers of a kind forward. The set is asked for once, at the login, so
that a client that misses a datagram stays different until its next start. Two
ghosts say, entry by entry, who follows whom. `sees` holds the keys for which a
client that was given the set has missed no datagram and has no command of its
own on its way; `leads` those for which it has given the last command, when
nothing was on its way that could undo it (`Clear`): an answer to a request
replaces its set, whatever it has commanded since. With the second, a client
follows the server again in an entry once its command is handled
(`Follows`), although the server sends it nothing.

**TempBanExpiry.** `vec` is a sequence because the order matters: `Visit` is one
iteration of the range-for in `check_for_temp_banned_ip_addresses` (CU:4642),
which erases from the vector it walks. The iterations are as many as the vector
had elements when the loop began (its end iterator is taken once); those beyond
the new end read a destroyed element. That is undefined behaviour: the model
has the outcome of a release build, where the element's address is empty and
`remove_temp_banned_ip_address` finds no ban of it. A debug build stops with
an assertion, which is not modelled. The server compares addresses
only (S:1834, S:1877).

**Sessions.** `ServerTimer` is the block of `WM_TIMER` that runs every ten
seconds (S:2930-2946): the marks and the heartbeats. `Neighbours` are the users with the sender's
address, all of whom a login or a logout unmarks (S:541-549, 603-611).
`ServerRestart` starts from the users file, which may be of the last login or
logout (a crash) or of an orderly exit. The load of that file by
the task thread is one step.

**AutoKick.** `seat` and `toGame` are the game server and what is on its way
to it; `players` and `count` the client's table, old rows included, as
`NewRows` leaves them. The stack of the command thread is `walks`: the exchange
of a kick (`send_and_receive_rcon_data`, CN:1053) takes whatever comes, so
`TakeStatus` during a kick replaces the table and pushes a walk of its own;
`Return` is the way back into `kick_player`, which then forgets the warning of
the slot. `Lists` has the six kinds of ban in the order of the two walks, each as
far as it is in force: `off` holds the settings that are off, `Switch` the
commands that change them. Kicks for cities and countries have a setting each
(CU:4878, CU:4906). The kicks of the walk over the temporary bans depend on the
setting of the kick *messages* (CU:4705-4731), those of the other walk do not,
see section 5. A walk is at a row and at a list; `Left` are the kicks it has still to
make, with the address range it read before the kick, and the rest from the
row as it is now. Between two kicks of one walk nothing changes the table,
so rows without a kick are no steps. `TimeOut` while an answer is still to come
is a fault, and so are lost or cut answers.

**Update.** `file` holds the version in `tinyrcon.exe` ("main") and
`_U_tinyrcon.exe` ("temp"); `exe`, `version`, `pc` and `want` are the
processes. `Replace`, `Copy`, `RunMain` are `replace_temporary_version`
(A:763), `Search`, `Download`, `RunTemp` `check_for_updates` and its
download, `Leave` and `Delete` the detached command of `delete_me` (A:163).
`Without` is `DeleteFile`, which leaves a file in use alone. `Close` is a
process that is closed or dies anywhere, with a torn file if it was writing
one. The ghost `hasty` says that somebody closed a program whose file a command
was about to delete.

## 3. Runs

| Run | Properties | Bounds | What it shows |
|---|---|---|---|
| `ban_store` | `TypeOK` `Coherent` `KeptBansHeld` `GoneStaysGone` `KeepsPromises` | 2 keys, unbounded behaviour | acknowledged bans and removals survive every interleaving and crash; every step is one of `BanList` |
| `ban_sync` | `TypeOK` `ListenersFollow` `OwnedKeysAgree` | 2 clients, 1 key, 2 logins, 2 commands, 1 fault | who only listens drops every ban that the server drops; a key with one owner ends the same everywhere |
| `ban_sync_agree` | `AllClientsAgree` (violated) | 2 clients, 1 key, 2 logins | a merge is not forwarded |
| `ban_transfer` | `TypeOK` `Delivered` `OwnBansSurvive` `ClientGetsList` | 2 lists, 4 entries (1 protected), pieces of 2, 1 ban, 2 faults | what counts as received is there, nothing is forgotten by both sides, every list comes in the end |
| `protect_city` | `TypeOK` `ListenersMatch` `CommandsStand` | 2 clients, 2 keys, 3 logins, 2 commands, 1 fault | entry by entry, who misses nothing comes to have what the server has, and the server what it was last told |
| `protect_iprange` | `ListenersMatch` (violated) | the same, no fault | a protection of a range is forwarded as its opposite |
| `temp_ban_two` | `TypeOK` `MapMatchesVector` `RunningBansStay` | 2 clients, 2 addresses, 1 duration, 1 tick, 1 ban, 2 logins | vector and map stay together; a running ban is ended by an older one of its address, and by nothing else |
| `temp_ban_pass` | `PassSound` `ExpiredLeave` | 1 client, 3 addresses, 2 durations, 2 ticks, 1 `!ub` | a pass is sound, repeated passes finish |
| `temp_ban_last` | `BansLast` (violated) | 2 clients, 1 address, 1 tick, 2 bans, 3 logins | a stale expiry drops a fresh ban |
| `sessions_live` | `TypeOK` `QuitNoticed` `RunningSeen` | 2 clients behind one router, 2 logins, 1 message, 1 loss, 1 restart | marks follow the clients |
| `auto_kick` | `TypeOK` `WarningsStick` `NestingBounded` `KickIsEarned` `BannedLeave` `KicksCease` `TableCatchesUp` `NoOneElseIsHit` | 2 players, 2 slots, 2 warnings for a kick, 2 of the 3 settings changed at any time, 1 fault | whoever a list in force names leaves, kicks end, warnings do not move, the table catches up; who is kicked without a reason, and when |
| `update` | `TypeOK` `NeverOlder` `ProgramLeft` `UpdateSettles` | 4 processes, 2 versions, 2 starts, 1 failure, 2 deletions at a time | no way back, something to start is left, updating ends |

Why the bounds are enough. The lists of `BanStore` are independent for each key
except through the single handler in progress, so one key under work and one
bystander show what there is to show; its proof covers the rest. Two clients
give a sender and a receiver; a third client would be a second
receiver that never talks to the first, and the proofs are for any number. In `BanSync` keys meet nowhere but in
an upload, which carries a set of them that each go their own way. In
`BanTransfer` one list is sent as
its last two entries in one datagram and the other whole in two, so that a
window smaller than the list and an answer of several pieces both occur; two
faults let a second one hit the repair of the first; what more of each would do
to what the run says of safety is proved. In `TempBanExpiry` three bans
are the shortest list on which a pass both skips an element and runs past the
end. In `AutoKick` two slots let a player come back into another slot than the
one the client knows. One player is banned by address, range and country, so that
he is kicked three times in one row. The other one is protected: his city and his
name are banned, which comes to nothing, and he has a temporary ban, which
counts unless the kick messages are off. With the messages off he is the
bystander whom a late status can put into the other's row between two kicks. The
kicks for cities and those for temporary bans are turned on and off, those for
countries stay on. One late answer is one nested walk, and the proof covers deeper
ones and any lists and settings. In `Update` two
programs started by the user, each with the process it hands over to, fill four
places. Two versions, the installed one and one release, show whether the newest
is chosen and whether an old program or a late copy comes back. That a temporary
version is older than main needs a third version. TLC finds no such state with three
(safety only; the liveness would take too long), and `UpdatesGoForward`
proves it for any number (`TempInv`). Single losses and restarts are combined with every position they can have;
`MaxQueue` of `Sessions` only delays sends, and has room for a heartbeat behind
a logout. Deadlock is checked for `BanStore` only: the others have bounded
numbers of logins, commands and starts, so their runs end.

### Fairness

- `BanTransfer`: the timer of the client, and both messaging threads
  (`WF` on `UploadSingle`, `Request`, `ClientReceives`, `ServerReceives`):
  the code has them in loops that end with the process only. Faults are
  bounded: a network that loses everything delivers nothing. The archive need
  never be uploaded.
- `TempBanExpiry`: a client that runs makes its pass after every status of the
  game server, which it asks for periodically.
- `Sessions`: both timers and both messaging threads. No administrator has to
  log in, to issue a command or to quit.
- `AutoKick`: the game server answers, the command thread goes on, and the
  status is asked for again and again; `SF` because the thread comes to it when
  no command is left, so that a pause in the commands is all it takes. No
  player has to join or leave, and no setting has to be changed.
- `Update`: a process goes on with its check, and the detached commands run.
  Nobody has to start or close anything, and nothing has to be released.

`BanStore`, `BanSync`, `ProtectSync` and `temp_ban_two` check safety without
fairness.

## 4. Proofs

All theorems hold for every value of the constants that their modules' named
assumptions allow: natural bounds, subsets where subsets are meant, marks that
are no clients (`Nobody` and `Many` of `BanSync`), and finitely many addresses
(`Key` of `TempBanExpiry`; a list of the server is made of a set of them).

| Module | Theorem | Says |
|---|---|---|
| `BanStoreProof` | `Invariance` | `Spec => []IInv`, for every set `Key` and from no assumption |
| | `TypeCorrect` | every variable keeps its type |
| | `MemoryOnDisk` | `Coherent`: outside handlers in progress, memory has nothing that the files lack |
| | `BansAreKept` | `KeptBansHeld`: an acknowledged ban stays on disk and in force |
| | `RemovedBansStayRemoved` | `GoneStaysGone`: neither an upload nor a restart brings a removed ban back |
| | `StoreKeepsPromises` | `KeepsPromises`: the store implements `BanList` |
| `BanTransferProof` | `Invariance`, `TypeCorrect` | the inductive invariant, and the types |
| | `NoBanForgotten` | `OwnBansSurvive`: a ban of the client is never forgotten by both sides |
| | `NothingLost` | `Delivered`: what counts as received is there, but for what was lost or broke off |
| `BanSyncProof` | `BanTypes` | every variable keeps its type |
| | `BanListeners` | `ListenersFollow`: who only listens enforces no ban that the server has dropped |
| | `BanOwnedKeys` | `OwnedKeysAgree`: all complete clients agree at rest on a key that one administrator has changed |
| `ProtectSyncProof` | `ProtectTypes` | every variable keeps its type |
| | `ProtectListeners` | `ListenersMatch` for every `Kind` but ranges: who was given the set comes to have the server's entry, but where a datagram was lost or a command of his own is on its way |
| | `ProtectCommandsStand` | `CommandsStand`, for every `Kind`: what an administrator commands is what the server comes to have, unless something else about the entry was on its way |
| `TempBanExpiryProof` | `TempBanTypes` | every variable keeps its type |
| | `TempBanMaps` | `MapMatchesVector`: vector and map of a client never part |
| | `TempBanPasses` | `PassSound`, an action property: a pass takes no running ban, and at least half of the others |
| | `TempBanRunning` | `RunningBansStay`, an action property: if nobody lifts a ban, one that still runs leaves the server only with the removal of an older ban of its address that has run out, and a client only so or with its whole list |
| `UpdateProof` | `Invariance`, `TypeCorrect` | the inductive invariant, and the types |
| | `UpdatesGoForward` | `NeverOlder`: the program never goes back |
| | `ProgramIsLeft` | `ProgramLeft`: one of the two files can be started |
| `AutoKickProof` | `Invariance`, `TypeCorrect` | the inductive invariant, and the types |
| | `WarningsAreKept` | `WarningsStick`: a warning stays with the player who got it |
| | `NestingIsBounded` | `NestingBounded`: walks nest no deeper than answers are late |
| | `KicksAreEarned` | `KickIsEarned`: a kick is for a row whose player has earned it, unless a late status has changed that row in the middle of a walk over the bans |
| | `NobodyElseIsHit` | `NoOneElseIsHit`, an action property: without a fault a kick hits nobody whom the table shows in that slot and who has not earned it |

**BanStore.** The properties are not inductive: they say nothing of a handler
between its two saves. `IInv` adds `HandlerInv` (what the handler in progress
knows of its key: the target of an `add` is not promised to be gone, that of a
`remove` is neither promised to be kept nor without a tombstone, and a handler
that saves lists began after the load or is marked `early`) and `StoreInv`
(which parts of memory the files are known to hold, and that the removed list
is empty until it has been read). `StepIInv` has one step per action. The
refinement maps initial states to initial states and, under `IInv`, every action
to one action of `BanList` or a stutter.

**BanTransfer.** An answer in flight will replace the client's list, and a file
on its way is all that the server has seen of it. `IInv` says what each is good
for: a file on its way has all that the client held at its start and that is not
`Safe` yet (`FilesComplete`), and once an answer is on its way all of it is
`Safe` (`AnswersSafe`), because the server merges before it answers.

`Delivered` speaks of a queue that holds nothing of a list, so its invariant
(`DInv`, inductive together with `IInv`) says what the queues hold until then.
A client that claims a list, or will because a piece of it is on its way, has
each of the last entries or is about to be given it (`NothingLacks`); an answer,
which replaces the list, is followed by datagrams with whatever it lacks
(`AnswersFollowed`). The case that looked doubtful is a new entry which the
server gets from the client's own upload and forwards to nobody: it is on the
client's list already (`FilesAgree`), and no older answer can be in flight that
would take it away, because then it would have been `Safe` (`AnswersCover`).
`LatestOfPart` says that an entry stays among the last ones when others leave
the list, `PiecesWhole` that the pieces of an answer together are all of it.

**BanSync and ProtectSync.** For a listener it is enough to know that a
broadcast reaches him, that no command of his own is on its way, and what he
will have after he has handled what is in flight: a fold of `Received` over his
queue, of which `FoldLemmas` says what one datagram more at its end, and one
less at its front, change.

In `ProtectSync` this is said of each key by itself, and in both directions.
Datagrams about other keys leave a key alone (`FoldsLeave`), and two sets that
agree on a key still do after the same datagrams (`FoldsAlike`): so a lost
datagram, or a command, spoils no other entry. `Leading` is the other
direction: the server's set, with the commands of a client that are on their way
folded into it (`Ordered`), has his entry as he has it; it needs `Clear`, and
`Clear` stays true because the server forwards a command to everybody but its
sender. When the last command of a leader for a key has been handled, both folds leave
the key alone, and he is a listener again (`LeaderFollows`): this is why
`ProtectListeners` needs `Leading`. It assumes `Kind # "iprange"`: for
ranges it is false, see run `protect_iprange`. `ProtectCommandsStand` does not
assume it: a wrong forward reaches the others, not whoever has commanded.

`OwnedKeysAgree` speaks of a network at rest, and here the invariant is about
the order of what is on its way. The owner of a key is ahead of the server
(`Leads`): the last of his commands in flight says what he has
(`LastCommand`), and every list that he uploads, asks for or is given says the
same and is handled after his commands (`ListsAgree`, `ListsLate`). Everybody
else is behind it (`Follows`): folding what is in flight to him gives what the
server has, and no list in flight surprises him on the way, so that it does not
matter which of them he misses. A key that nobody has changed
is not on any list that counts (`Untouched`).

**TempBanExpiry.** Vector and map can stay together only if every list that a
client is given holds an address once. `Messages` in `TempBanExpiryProof` says
so of the datagrams, `OnePerKey` of the server's list, and `Agree` is what each
iteration of a pass keeps. `TempBanPasses` follows the iterations (`Paid`): each
ban that has run out and was passed over without being looked at stands
in the place of one that was removed just before, so that in the end those left are no more than
those gone; the bans that still run keep their order (`KeptTwice`). `TempBanRunning`
is the other side of finding 3 in section 5: it says that an old ban of the
address is the only thing that goes wrong there. Its invariant (`OldRemovals`) is
about what is on its way: as long as nobody has lifted a ban, every removal in a
queue is of a ban that had run out when it was sent, and so has now.

**Update.** `SecureInv` strengthens `ProgramLeft`: unless somebody was hasty
there is a file that can be started and that is either not about to be deleted
or in use by a process that stays. `TempInv` (what waits in temp is not older
than anything main has had) and `ProcessInv` (a running program is what its file
holds, and the version it wants is newer) carry `NeverOlder`.

**AutoKick.** While a walk is on, the table is ahead of the warnings. They match
when no walk over the table has begun since they were last checked (`Settled`),
which needs that a kick for a warning is at the bottom of the stack only
(`WarnAtBottom`). `NestingIsBounded` counts what can still begin a walk: each
status that is on its way, beyond the one being waited for, has been paid for by
a time-out.

`KicksAreEarned` follows the walk that waits for the kick (`Aim`). A status that
comes inside the kick replaces the table and begins a walk of its own; the walk
that goes on after it makes its next kick from the row as it is then, or from the
range of addresses that it has read before (`KickNextDoes`), and that is the
exception which the property names. A kick for a warning goes by slot, so the
proof needs that a slot has one row only (`SlotsUnique`): the rows that count are
numbered by the slots taken, as many as there are, so that none of them is left
over from an older and longer table (`RowsComplete`). `NobodyElseIsHit` then
needs that without a fault the table has not been replaced since the kick was
decided (`Undisturbed`): no status is under way while a walk is on (`NoneLate`),
which the count of the answers to come (`Paid`) gives. A walk is only ever on while
the settings stay as they are (they are changed between two walks), so that
whoever was `Wanted` when a kick was decided still is.

**Induction.** The theorems of the library about induction take an operator as a
parameter, which the installed provers cannot instantiate. `FoldLemmas`
goes round that: a set of natural numbers that is not empty has a least element
(`LeastElement`, from the library's theorem on well-founded relations, which is
about sets), and whoever is the least counterexample has a predecessor that
is none (`UpTo`). This gives the
function that `FoldLeft` is defined by (`FoldExists`), and the lemmas on folds
from it. The step of the fold is a constant of the module, which `BanSyncProof`,
`ProtectSyncProof` and `TempBanExpiryProof` instantiate with the steps of their
models. `Kept` in `TempBanExpiry` is a recursive function of the same shape.

Only model-checked: the liveness properties (`ClientGetsList`, `ExpiredLeave`,
`QuitNoticed`, `RunningSeen`, `BannedLeave`, `KicksCease`, `TableCatchesUp`,
`UpdateSettles`), which are out of the prover's reach; and the types of
`Sessions`, whose other properties are of this kind too. Every other invariant
and action property of the runs that pass is proved.

## 5. Where code and documentation part

1. A login merges the client's list into the server's, and tells the uploader
   only (S:1346). The README of the repository says the lists are "synchronized among all
   TinyRcon clients". Run `ban_sync_agree`.
2. `protect-ipaddressrange` is forwarded as `unprotect-ipaddressrange`
   (S:1511). Run `protect_iprange`.
3. `remove-tempban` goes by address: the expiry of an old ban on one client
   drops a fresh ban of another (S:1877). Run `temp_ban_last`.
4. `!messages off` says that it has turned off "automatic kick messages for
   temporarily and permanently banned players" (C:4361), but the `kick_player`
   of the walk over the temporary bans is in the branch for messages that are
   on (CU:4705-4731): as long as they are off, players with a temporary ban are not
   kicked at all. All other bans still kick, without a message. The
   shipped configuration has the messages on. The model has the branch
   (`Lists`), and `BannedLeave` is stated for the lists in force (`Wanted`); run
   `auto_kick` finds it violated if `Wanted` is put together without the
   settings. Everything else about the kicks holds whatever the settings are.

Not stated as a property, as nothing in the repository promises it: the
timer unmarks all administrators before it asks who is there, so a public
message that is handled in between reaches nobody (S:2941, S:476); and a kick
goes by slot, so that it can hit a player who has just taken the slot. What holds of the second
is stated: `KickIsEarned` says whom a kick is meant for and `NoOneElseIsHit` that,
without a fault, whoever else it hits took the slot after the last status.

Some hazards of `PROJECT.json` have no property, or one that sees only a part of them:

- where the code does lose what it has acknowledged, `BanStore` withdraws the
  promise: handlers that overlap the load (S:2594), a window closed before
  the load has ended (S:2693), tombstones of protected keys at a restart
  (U:2453). No property says that nothing is lost *there*; what is
  checked and proved is that nothing is lost elsewhere;
- two threads inside one vector or map at a time (U:3034) are undefined
  behaviour. `Coherent` is about whole updates and saves;
- an `add-tempban` that meets an expired entry is ignored (S:1834). The action
  has the guard, no property singles it out;
- marks that are taken away for a while, by the timer (S:2941) or by a login or
  logout behind the same router (S:543): `RunningSeen` says that they come
  back, not for how long they may be missing.

## 6. Assumptions

- Datagrams between two sockets are not reordered nor duplicated (one path).
  They can be lost everywhere but in `TempBanExpiry`.
- Clocks agree. FTP transfers succeed except in `BanTransfer` and `Update`.
- In `BanSync` and `ProtectSync` a server that answers has ended its load; what
  happens to handlers that overlap the load is in `BanStore`.
- Two programs do not run under one user name at a time.
- Messages whose password is wrong are dropped before a handler; they are not
  modelled.
- `AutoKick`: the lists and the map do not change, the administrator's own `is_muted` and
  the automatic ban of an address with too many connections are left out, and
  so are exchanges that ask for something other than a status or a kick.
  Settings are changed by commands, which the command thread executes between two
  walks; the boxes of the windows change the same settings on another
  thread at any time (C:10322-10332, CU:12760), which is left out.

## 7. Not modelled

- **Private server and private client.** The same patterns as the public pair
  over another port, with fewer messages; a model would repeat `BanSync`
  and `Sessions`.
- **Inform messages** (S:393-460). The server accepts the first report of an
  event and denies its repeats for five seconds. One thread compares one time
  stamp; what could be said restates that comparison.
- **`!bans clear all`, `!tempbans clear all`** of the server (S:336, S:349). The
  loop erases from the map it walks: undefined behaviour from the first removal
  on, and the second command passes the key that it destroys as a reference. The
  outcomes of a build range from all bans removed to a crash, so that nothing
  worth stating holds of all of them.
- **Differences of the six lists**: the handlers of cities and countries count
  and forward a ban that is there already (S:2241, S:2308), and of the removed
  entries those of names are not among the files written at exit. `BanStore` allows for both orders of
  memory and file; the rest has no effect on what it promises, as each handler
  saves what it has removed.
- **The queue of commands** of the client: a command is executed while the mutex
  of the queue is held (`tiny_rcon_client_application.h:1882`). A handler that
  sets the text of a window (C:584, C:4010) then waits for the thread of the
  windows, and if that one is about to queue a command each waits for the
  other. It is listed among the hazards; nothing in the repository says that it
  cannot happen, so there is no property to check.
- **The update of images and plug-ins** (A:447): data files of the display.
- **Players and statistics, geographic data, guid lookup, windows and grids,
  SQLite, MD5**: sequential bookkeeping, display, lookup in a table.
- **Vendored code** (asio, nlohmann json, bit7z, WTL, SQLite), by far
  the most lines of the repository.

## 8. Plan

Done: `BanStore` with its proof, `BanSync`, `ProtectSync`, `TempBanExpiry` and
`Sessions`, because the ban lists are what the program is for; then `BanList`
with the refinement, `BanTransfer`, `Update` and `AutoKick` with their proofs.

The proofs now cover every safety property that the runs check except the
types of `Sessions`. What is left: those, together with a safety property of
the sessions that is worth a proof of its own (which marks a restart of the
server can leave wrong, and for how long).
