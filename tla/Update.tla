------------------------------- MODULE Update --------------------------------
(***************************************************************************)
(* How the TinyRcon client replaces itself by a newer version.  There are  *)
(* two program files: tinyrcon.exe ("main") and _U_tinyrcon.exe ("temp").  *)
(* A process started from main downloads a newer version into temp, starts *)
(* it and ends.  A process started from temp deletes main, copies temp     *)
(* over it, starts main and ends.  Whoever ends this way leaves behind a   *)
(* detached command that deletes his file "after three seconds".           *)
(*                                                                         *)
(* Nothing but the file system relates all those processes: Windows does   *)
(* not delete or overwrite the file of a program that runs.  The delay of  *)
(* the deletion is left open, and so is how long a process tries: five     *)
(* attempts can all fail while the file is in use.  A process can be       *)
(* closed, or die, between any two steps.                                  *)
(***************************************************************************)
EXTENDS Naturals, FiniteSets

CONSTANTS
  Process,                               \* places for processes
  MaxVersion,                            \* the last version that is released
  MaxStarts, MaxFailures, MaxPending     \* bounds of a run

ASSUME UpdateAssumption == {MaxVersion, MaxStarts, MaxFailures, MaxPending} \subseteq Nat \ {0}

VARIABLES
  site,      \* the newest version on the FTP site
  file,      \* the version in each program file; None if there is none to run
  exe,       \* the file each process was started from; "none": no process
  version,   \* the version it runs
  pc,        \* how far its check for updates has come
  want,      \* the version it has chosen to download
  deletions, \* how many detached commands are about to delete each file
  installed, \* ghost: the newest version that main has had
  hasty,     \* ghost: a program ended while its file was about to be deleted
  starts, failures

processes == <<exe, version, pc, want>>
spent     == <<starts, failures>>
vars      == <<site, file, processes, deletions, installed, hasty, spent>>

None    == 0
Version == 1 .. MaxVersion
File    == {"main", "temp"}
Stage   == {"off", "start", "copy", "run", "search", "download", "leave", "work"}

TypeOK ==
  /\ site \in Version
  /\ file \in [File -> Version \cup {None}]
  /\ exe \in [Process -> File \cup {"none"}]
  /\ version \in [Process -> Version \cup {None}]
  /\ pc \in [Process -> Stage]
  /\ want \in [Process -> Version \cup {None}]
  /\ deletions \in [File -> 0 .. MaxPending]
  /\ installed \in Version
  /\ hasty \in BOOLEAN
  /\ starts \in 0 .. MaxStarts /\ failures \in 0 .. MaxFailures

Init ==
  /\ site = 1
  /\ file = [f \in File |-> IF f = "main" THEN 1 ELSE None]
  /\ exe = [p \in Process |-> "none"]
  /\ version = [p \in Process |-> None]
  /\ pc = [p \in Process |-> "off"]
  /\ want = [p \in Process |-> None]
  /\ deletions = [f \in File |-> 0]
  /\ installed = 1 /\ hasty = FALSE
  /\ starts = 0 /\ failures = 0

-----------------------------------------------------------------------------
(* The file system, and the processes as it sees them.                     *)

InUse(f) == \E p \in Process : exe[p] = f

\* DeleteFile: a file in use stays.
Without(f) == IF InUse(f) THEN file ELSE [file EXCEPT ![f] = None]

\* Somebody has handed over, and left or is about to leave a command behind
\* that deletes this file.
Doomed(f) == deletions[f] > 0 \/ \E p \in Process : exe[p] = f /\ pc[p] = "leave"

At(p, program, stage) == exe[p] = program /\ pc[p] = stage

Goto(p, stage) ==
  /\ pc' = [pc EXCEPT ![p] = stage]
  /\ UNCHANGED <<exe, version, want>>

\* run_executable: q is a place for the new process.
Begin(q, f) ==
  /\ exe[q] = "none" /\ file[f] # None
  /\ exe' = [exe EXCEPT ![q] = f]
  /\ version' = [version EXCEPT ![q] = file[f]]
  /\ UNCHANGED want

Gone(p) ==
  /\ exe' = [exe EXCEPT ![p] = "none"]
  /\ version' = [version EXCEPT ![p] = None]
  /\ pc' = [pc EXCEPT ![p] = "off"]
  /\ want' = [want EXCEPT ![p] = None]

-----------------------------------------------------------------------------
(* The world.                                                              *)

Release ==
  /\ site < MaxVersion
  /\ site' = site + 1
  /\ UNCHANGED <<file, processes, deletions, installed, hasty, spent>>

\* The user starts one of the two programs.
Start(p, f) ==
  /\ starts < MaxStarts
  /\ starts' = starts + 1
  /\ Begin(p, f)
  /\ pc' = [pc EXCEPT ![p] = "start"]
  /\ UNCHANGED <<site, file, deletions, installed, hasty, failures>>

\* The user closes the program, or it dies: a copy or a download that it was
\* busy with leaves a file that cannot be run.
Close(p) ==
  /\ exe[p] # "none"
  /\ Gone(p)
  /\ file' \in {file} \cup
       (IF At(p, "temp", "copy")     THEN {Without("main")} ELSE {}) \cup
       (IF At(p, "main", "download") THEN {Without("temp")} ELSE {})
  /\ hasty' = (hasty \/ Doomed(exe[p]))
  /\ UNCHANGED <<site, deletions, installed, spent>>

\* The detached command of delete_me tries once.
Delete(f) ==
  /\ deletions[f] > 0
  /\ deletions' = [deletions EXCEPT ![f] = @ - 1]
  /\ file' = Without(f)
  /\ UNCHANGED <<site, processes, installed, hasty, spent>>

-----------------------------------------------------------------------------
(* replace_temporary_version                                               *)

\* A process started from temp deletes main; one started from main deletes
\* what is left of temp.  Both try five times, and go on.
Replace(p) ==
  /\ pc[p] = "start"
  /\ \/ exe[p] = "temp" /\ file' = Without("main") /\ Goto(p, "copy")
     \/ exe[p] = "main" /\ file' = Without("temp") /\ Goto(p, "search")
  /\ UNCHANGED <<site, deletions, installed, hasty, spent>>

\* CopyFile fails while main is in use, and the process goes on all the same.
Copy(p) ==
  /\ At(p, "temp", "copy")
  /\ IF InUse("main")
       THEN UNCHANGED <<file, installed>>
       ELSE /\ file' = [file EXCEPT !["main"] = file["temp"]]
            /\ installed' = IF file["temp"] > installed THEN file["temp"] ELSE installed
  /\ Goto(p, "run")
  /\ UNCHANGED <<site, deletions, hasty, spent>>

RunMainUnchecked(p, q) ==    \* mutant: leaves although nothing was started
  /\ At(p, "temp", "run")
  /\ IF file["main"] = None
       THEN Goto(p, "leave")
       ELSE /\ Begin(q, "main")
            /\ pc' = [pc EXCEPT ![p] = "leave", ![q] = "start"]
  /\ UNCHANGED <<site, file, deletions, installed, hasty, spent>>

\* If main cannot be started, the temporary version goes on as the program.
RunMain(p, q) ==
  /\ At(p, "temp", "run")
  /\ IF file["main"] = None
       THEN Goto(p, "work")
       ELSE /\ Begin(q, "main")
            /\ pc' = [pc EXCEPT ![p] = "leave", ![q] = "start"]
  /\ UNCHANGED <<site, file, deletions, installed, hasty, spent>>

\* delete_me, and _exit.
Leave(p) ==
  /\ pc[p] = "leave" /\ deletions[exe[p]] < MaxPending
  /\ deletions' = [deletions EXCEPT ![exe[p]] = @ + 1]
  /\ Gone(p)
  /\ UNCHANGED <<site, file, installed, hasty, spent>>

-----------------------------------------------------------------------------
(* check_for_updates and downloaded_latest_version_of_program              *)

SearchAny(p) ==              \* mutant: whatever the site has is downloaded
  /\ At(p, "main", "search")
  /\ want' = [want EXCEPT ![p] = site]
  /\ pc' = [pc EXCEPT ![p] = "download"]
  /\ UNCHANGED <<exe, version, site, file, deletions, installed, hasty, spent>>

SearchLast(p) ==             \* mutant: the last file that the site lists
  /\ At(p, "main", "search")
  /\ want' \in {[want EXCEPT ![p] = v] : v \in 1 .. site}
  /\ pc' = [pc EXCEPT ![p] = "download"]
  /\ UNCHANGED <<exe, version, site, file, deletions, installed, hasty, spent>>

SearchNext(p) ==             \* mutant: a version beyond the newest
  /\ At(p, "main", "search")
  /\ want' = [want EXCEPT ![p] = site + 1]
  /\ pc' = [pc EXCEPT ![p] = "download"]
  /\ UNCHANGED <<exe, version, site, file, deletions, installed, hasty, spent>>

\* The newest version on the site, if it is newer than this one.
Search(p) ==
  /\ At(p, "main", "search")
  /\ IF site > version[p]
       THEN /\ want' = [want EXCEPT ![p] = site]
            /\ pc' = [pc EXCEPT ![p] = "download"]
            /\ UNCHANGED <<exe, version>>
       ELSE Goto(p, "work")
  /\ UNCHANGED <<site, file, deletions, installed, hasty, spent>>

\* The site is offline.
SearchFails(p) ==
  /\ At(p, "main", "search") /\ failures < MaxFailures
  /\ failures' = failures + 1
  /\ Goto(p, "work")
  /\ UNCHANGED <<site, file, deletions, installed, hasty, starts>>

\* The old temp is deleted first.  The download fails while temp is in use.
Download(p) ==
  /\ At(p, "main", "download")
  /\ IF InUse("temp")
       THEN UNCHANGED file /\ Goto(p, "work")
       ELSE file' = [file EXCEPT !["temp"] = want[p]] /\ Goto(p, "run")
  /\ UNCHANGED <<site, deletions, installed, hasty, spent>>

DownloadFails(p) ==
  /\ At(p, "main", "download") /\ failures < MaxFailures
  /\ failures' = failures + 1
  /\ file' = Without("temp")
  /\ Goto(p, "work")
  /\ UNCHANGED <<site, deletions, installed, hasty, starts>>

RunTemp(p, q) ==
  /\ At(p, "main", "run")
  /\ IF file["temp"] = None
       THEN Goto(p, "work")
       ELSE /\ Begin(q, "temp")
            /\ pc' = [pc EXCEPT ![p] = "leave", ![q] = "start"]
  /\ UNCHANGED <<site, file, deletions, installed, hasty, spent>>

-----------------------------------------------------------------------------
Step(p) ==
  \/ Replace(p) \/ Copy(p) \/ Leave(p) \/ Search(p) \/ Download(p)
  \/ \E q \in Process : RunMain(p, q) \/ RunTemp(p, q)

Next ==
  \/ Release
  \/ \E p \in Process, f \in File : Start(p, f)
  \/ \E p \in Process : Close(p) \/ Step(p) \/ SearchFails(p) \/ DownloadFails(p)
  \/ \E f \in File : Delete(f)

Spec == Init /\ [][Next]_vars

\* A process goes on with its check, and the detached commands run; nobody
\* has to start or to close anything.
Fairness ==
  /\ \A p \in Process : WF_vars(Step(p))
  /\ \A f \in File : WF_vars(Delete(f))

FairSpec == Spec /\ Fairness

-----------------------------------------------------------------------------
(* The properties.                                                         *)

\* Whatever has been running at the same time, the program file never goes
\* back to a version older than one it has had.
NeverOlder == file["main"] \in {None, installed}

\* However the steps of the two programs, the late deletions and the crashes
\* fall, one of the two files can be started, unless somebody closes a program
\* whose file a command is about to delete: nothing protects that file then.
ProgramLeft == ~hasty => \E f \in File : file[f] # None

\* A new version finds the program that it is to replace in use: by the
\* process that has started it, or by one that the user has started as well.
Contended == \E p \in Process : At(p, "temp", "copy") /\ InUse("main")

\* In the end all who run are at work.  Processes replace each other for ever
\* only if the old program is in use again and again when a new version has
\* come to replace it: the new one then starts the old one, which downloads
\* the new one again.
UpdateSettles == <>[](\A p \in Process : pc[p] \in {"off", "work"}) \/ []<>Contended
=============================================================================
