------------------------------ MODULE BanStore ------------------------------
(***************************************************************************)
(* One ban list of the TinyRcon server: the list in memory, the list of    *)
(* removed bans (the tombstones), the protected entries, the three files   *)
(* that hold them, and the threads that read and write all six:            *)
(*   - the task thread loads the files once, in a fixed order, and does    *)
(*     not look at the termination flag while it loads;                    *)
(*   - the messaging thread runs one handler at a time, from the moment    *)
(*     the program starts: nothing makes it wait for the load;             *)
(*   - the UI thread saves the protected entries and the tombstones when   *)
(*     the window closes, whatever the two others are doing.               *)
(*                                                                         *)
(* The six lists of the server (temporary bans, IP addresses, IP ranges,   *)
(* names, cities, countries) run the same algorithm: a Key is an IP        *)
(* address, a range, a name, a city or a country.  For the first four the  *)
(* map and the vector of the code always change together and are one set   *)
(* here.  Nothing locks the lists or the files (every lock_guard of the    *)
(* code is commented out): where two threads meet, the outcome is any part *)
(* of what either had.                                                     *)
(*                                                                         *)
(* A save truncates the file and rewrites it, so the program can die with  *)
(* a file that holds a part of what was being written.  Two ghost          *)
(* variables record what the server has promised: kept (bans it has        *)
(* acknowledged and written) and gone (bans it has removed and written).   *)
(* The only steps that withdraw a promise without an administrator asking  *)
(* are named in the definitions that do so.                                *)
(***************************************************************************)
EXTENDS Naturals, FiniteSets

CONSTANT Key                \* what can be banned, removed or protected

VARIABLES
  \* memory of the process
  banned,      \* keys of the active list (map and vector)
  removed,     \* keys of the removed list (map and vector)
  prot,        \* protected keys
  \* files
  bansFile, removedFile, protFile,
  \* threads
  loaded,      \* how far the task thread has loaded the files
  ui,          \* the UI thread: "off" means that there is no process
  job, target, \* the handler the messaging thread is in, and its key
  writing,     \* the file that handler is rewriting
  early,       \* a handler of this process began before the load ended
  \* ghosts
  kept, gone

memory  == <<banned, removed, prot>>
files   == <<bansFile, removedFile, protFile>>
handler == <<job, target, writing, early>>
ghosts  == <<kept, gone>>
vars    == <<banned, removed, prot, bansFile, removedFile, protFile,
             loaded, ui, job, target, writing, early, kept, gone>>

LoadStage == {"none", "protected", "bans", "all"}
UiStage   == {"off", "open", "closing", "savedProtected", "savedAll"}
Job       == {"idle", "add", "remove", "upload", "protect"}
File      == {"none", "bans", "removed", "protected"}

TypeOK ==
  /\ banned \subseteq Key /\ removed \subseteq Key /\ prot \subseteq Key
  /\ bansFile \subseteq Key /\ removedFile \subseteq Key /\ protFile \subseteq Key
  /\ loaded \in LoadStage
  /\ ui \in UiStage
  /\ job \in Job
  /\ target \in Key
  /\ writing \in File
  /\ early \in BOOLEAN
  /\ kept \subseteq Key /\ gone \subseteq Key

-----------------------------------------------------------------------------
Running == ui # "off"
Settled == loaded = "all"

\* The list in memory stands for the file once the task thread has read it.
ActiveLoaded == loaded \in {"bans", "all"}

Init ==
  /\ banned = {} /\ removed = {} /\ prot = {}
  /\ bansFile = {} /\ removedFile = {} /\ protFile = {}
  /\ loaded = "none" /\ ui = "off"
  /\ job = "idle" /\ target \in Key /\ writing = "none" /\ early = FALSE
  /\ kept = {} /\ gone = {}

Start ==
  /\ ui = "off"
  /\ ui' = "open"
  /\ UNCHANGED <<memory, files, loaded, handler, ghosts>>

-----------------------------------------------------------------------------
(* The task thread.  Protected entries come first because parsing a list   *)
(* skips them; the active list is parsed before its removed list, which    *)
(* is therefore still empty when parse_*_file consults it.                 *)

\* What a file may hold when it is looked at, or the process dies, while
\* it may be being rewritten: the old content, or any part of the new one.
Torn(isWriting, old, new) == {old} \cup (IF isWriting THEN SUBSET new ELSE {})

SavedUnflushed(isRaced, old, new) == {old}                          \* mutant

\* What a save leaves when another thread uses the same list or file.
Saved(isRaced, old, new) == IF isRaced THEN SUBSET (old \cup new) ELSE {new}

LoadProtected ==
  /\ Running /\ loaded = "none"
  /\ prot' \in Torn(writing = "protected", protFile, prot)
  /\ loaded' = "protected"
  /\ UNCHANGED <<banned, removed, files, ui, handler, ghosts>>

\* A ban on a key that is protected by now is dropped, by design.
LoadBans ==
  /\ Running /\ loaded = "protected"
  /\ \E read \in Torn(writing = "bans", bansFile, banned) :
       banned' = {k \in read : k \notin removed /\ k \notin prot}
  /\ loaded' = "bans"
  /\ kept' = kept \ prot
  /\ UNCHANGED <<removed, prot, files, ui, handler, gone>>

\* A tombstone of a protected key is dropped as well: that removal is
\* forgotten, so the promise is withdrawn.
LoadRemoved ==
  /\ Running /\ loaded = "bans"
  /\ \E read \in Torn(writing = "removed", removedFile, removed) :
       removed' = read \ prot
  /\ loaded' = "all"
  /\ gone' = gone \ prot
  /\ UNCHANGED <<banned, prot, files, ui, handler, kept>>

-----------------------------------------------------------------------------
(* The messaging thread.  When the window closes it may already be waiting *)
(* for a message, and still handles it.                                    *)

CanHandle == Running /\ writing = "none"

BeginSwapped(j, k, f) ==     \* mutant: the file and the job exchanged
  /\ job' = f /\ target' = k /\ writing' = j
  /\ early' = (early \/ ~Settled)

\* A handler that runs before the load has ended works on lists that are
\* not there yet, and races with their parser: whatever it saves replaces
\* the file, so until the process ends nothing is promised any more.
Begin(j, k, f) ==
  /\ job' = j /\ target' = k /\ writing' = f
  /\ early' = (early \/ ~Settled)
Promise(kp, gn) ==
  IF early' THEN kept' = {} /\ gone' = {} ELSE kept' = kp /\ gone' = gn

\* add-*ban: the tombstone goes first, and its file is saved before the ban
\* exists; cities and countries are in memory already by then.
Add(k) ==
  /\ CanHandle
  /\ k \notin banned
  /\ IF k \in removed
       THEN /\ removed' = removed \ {k}
            /\ banned' \in {banned, banned \cup {k}}
            /\ Begin("add", k, "removed")
       ELSE /\ banned' = banned \cup {k}
            /\ Begin("add", k, "bans")
            /\ UNCHANGED removed
  /\ Promise(kept, gone \ {k})
  /\ UNCHANGED <<prot, files, loaded, ui>>

\* remove-*ban: the tombstone is written unless there is one already.
Remove(k) ==
  /\ CanHandle
  /\ k \in banned
  /\ IF k \notin removed
       THEN /\ removed' = removed \cup {k}
            /\ banned' \in {banned, banned \ {k}}
            /\ Begin("remove", k, "removed")
       ELSE /\ banned' = banned \ {k}
            /\ Begin("remove", k, "bans")
            /\ UNCHANGED removed
  /\ Promise(kept \ {k}, gone)
  /\ UNCHANGED <<prot, files, loaded, ui>>

MergedReplacing(S) == {k \in S : k \notin removed /\ k \notin prot}  \* mutant
MergedUnchecked(S) == banned \cup (S \ prot)                        \* mutant

\* upload-bans, upload-bans-compressed: the administrator's own file is
\* merged into the list, except for removed and protected entries.
Merged(S) == banned \cup {k \in S : k \notin removed /\ k \notin prot}

Upload(S) ==
  /\ CanHandle
  /\ banned' = Merged(S)
  /\ Begin("upload", target, "bans")
  /\ Promise(kept, gone)
  /\ UNCHANGED <<removed, prot, files, loaded, ui>>

BeginProtect(k) ==
  /\ job' = "protect" /\ target' = k /\ writing' = "protected"
  /\ UNCHANGED <<banned, removed, files, loaded, ui, early, ghosts>>

Protect(k) ==
  /\ CanHandle
  /\ k \notin prot
  /\ prot' = prot \cup {k}
  /\ BeginProtect(k)

Unprotect(k) ==
  /\ CanHandle
  /\ k \in prot
  /\ prot' = prot \ {k}
  /\ BeginProtect(k)

\* The first of the two saves ends, and the active list changes.  The UI
\* thread may be writing the same file.
SaveRemoved ==
  /\ Running /\ writing = "removed"
  /\ removedFile' \in Saved(early \/ ui = "savedProtected", removedFile, removed)
  /\ banned' = IF job = "add" THEN banned \cup {target} ELSE banned \ {target}
  /\ writing' = "bans"
  /\ UNCHANGED early
  /\ Promise(kept, gone \cap removedFile')
  /\ UNCHANGED <<removed, prot, bansFile, protFile, loaded, ui, job, target>>

\* The last save ends: every ban in memory is on disk, and the handler is
\* done, so its effect is acknowledged to the other administrators.
SaveBans ==
  /\ Running /\ writing = "bans"
  /\ bansFile' \in Saved(early, bansFile, banned)
  /\ writing' = "none" /\ job' = "idle"
  /\ UNCHANGED early
  /\ Promise(banned, IF job = "remove" /\ target \in removedFile
                       THEN gone \cup {target} ELSE gone)
  /\ UNCHANGED <<memory, removedFile, protFile, loaded, ui, target>>

SaveProtected ==
  /\ Running /\ writing = "protected"
  /\ protFile' = prot
  /\ writing' = "none" /\ job' = "idle"
  /\ UNCHANGED <<memory, bansFile, removedFile, loaded, ui, target, early, ghosts>>

-----------------------------------------------------------------------------
(* The UI thread.                                                          *)

Close ==
  /\ ui = "open"
  /\ ui' = "closing"
  /\ UNCHANGED <<memory, files, loaded, handler, ghosts>>

ExitSaveProtected ==
  /\ ui = "closing"
  /\ protFile' = prot
  /\ ui' = "savedProtected"
  /\ UNCHANGED <<memory, bansFile, removedFile, loaded, handler, ghosts>>

\* Closing the window while the files are being loaded saves a removed list
\* that has not been read yet: every tombstone is wiped out.
ExitSaveRemoved ==
  /\ ui = "savedProtected"
  /\ removedFile' \in Saved(writing = "removed", removedFile, removed)
  /\ ui' = "savedAll"
  /\ gone' = IF Settled THEN gone \cap removedFile' ELSE {}
  /\ UNCHANGED <<memory, bansFile, protFile, loaded, handler, kept>>

NoProcess ==
  /\ banned' = {} /\ removed' = {} /\ prot' = {}
  /\ loaded' = "none" /\ ui' = "off"
  /\ job' = "idle" /\ writing' = "none" /\ early' = FALSE
  /\ UNCHANGED target

\* WinMain returns once the other threads have been joined.
Exit ==
  /\ ui = "savedAll" /\ Settled /\ writing = "none"
  /\ NoProcess
  /\ UNCHANGED <<files, ghosts>>

\* The process dies at any point.  An entry that a torn file has lost is no
\* longer promised; a file that was not being written costs nothing.
Crash ==
  /\ Running
  /\ NoProcess
  /\ bansFile' \in Torn(writing = "bans", bansFile, banned)
  /\ removedFile' \in
       Torn(writing = "removed" \/ ui = "savedProtected", removedFile, removed)
  /\ protFile' \in Torn(writing = "protected" \/ ui = "closing", protFile, prot)
  /\ kept' = IF writing = "bans" THEN kept \cap bansFile' ELSE kept
  /\ gone' = IF writing = "removed" \/ ui = "savedProtected"
               THEN gone \cap removedFile' ELSE gone

-----------------------------------------------------------------------------
Handle ==
  \/ \E k \in Key : Add(k) \/ Remove(k) \/ Protect(k) \/ Unprotect(k)
  \/ \E S \in (SUBSET Key) \ {{}} : Upload(S)
  \/ SaveRemoved \/ SaveBans \/ SaveProtected

Load == LoadProtected \/ LoadBans \/ LoadRemoved

Window == Close \/ ExitSaveProtected \/ ExitSaveRemoved

Next == Start \/ Load \/ Handle \/ Window \/ Exit \/ Crash

Spec == Init /\ [][Next]_vars

-----------------------------------------------------------------------------
(* The properties.                                                         *)

\* While no handler is in the middle of a save, and none overlapped the load
\* or the exit, memory holds no ban and no tombstone that the files do not
\* hold: an orderly or a sudden end of the process then loses nothing (add_*,
\* remove_*, upload-bans).
Coherent ==
  (writing = "none" /\ ActiveLoaded /\ ~early /\ ui = "open") =>
    /\ banned \subseteq bansFile
    /\ Settled => removed \subseteq removedFile

\* A ban the server has acknowledged is in force whenever the list is
\* loaded, through uploads, removals of other keys, restarts and crashes.
KeptBansHeld ==
  /\ kept \subseteq bansFile
  /\ ActiveLoaded => kept \subseteq banned

\* A ban the server has removed does not come back, neither by a restart
\* nor by the upload of an administrator whose own list still has it.
GoneStaysGone ==
  /\ gone \cap bansFile = {}
  /\ ActiveLoaded => gone \cap banned = {}
  /\ Settled => gone \subseteq removed

-----------------------------------------------------------------------------
(* What BanList promises, this store keeps.  A file is being rewritten by  *)
(* a handler, or by the window on its way out.                             *)

List == INSTANCE BanList WITH
  onDisk  <- bansFile,
  saving  <- writing \in {"removed", "bans"} \/ ui = "savedProtected",
  loading <- ~Settled \/ early

\* Every step takes back only the promises BanList lets it take back: a
\* command those of its own key, a crash those in a file it cut short.
KeepsPromises == List!Spec

=============================================================================
