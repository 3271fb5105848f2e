----------------------------- MODULE UpdateProof -----------------------------
(***************************************************************************)
(* Proofs about Update, for every number of processes, versions, starts,   *)
(* failures and pending deletions.                                         *)
(***************************************************************************)
EXTENDS Update, TLAPS

\* A process runs what its file holds, and is where its kind of program goes.
ProcessInv == \A p \in Process :
  /\ exe[p] = "none" <=> pc[p] = "off"
  /\ exe[p] # "none" => version[p] = file[exe[p]] /\ file[exe[p]] # None
  /\ pc[p] = "copy" => exe[p] = "temp"
  /\ pc[p] \in {"search", "download"} => exe[p] = "main"
  /\ pc[p] = "download" => version[p] < want[p]

\* What waits in temp is at least as new as what main has ever been.
TempInv == file["temp"] # None => file["temp"] >= installed

\* A file that can be started, and that nobody is about to delete or that is
\* in use by a process that stays.
Secure(f) ==
  /\ file[f] # None
  /\ Doomed(f) => \E p \in Process : exe[p] = f /\ pc[p] # "leave"

SecureInv == ~hasty => \E f \in File : Secure(f)

IInv == TypeOK /\ ProcessInv /\ TempInv /\ NeverOlder /\ SecureInv

-----------------------------------------------------------------------------
\* At first there is one program, and nobody runs it.
LEMMA InitIInv == Init => IInv
<1> SUFFICES ASSUME Init PROVE IInv
  OBVIOUS
<1> USE DEF Init, File, None, Version
<1>a. {MaxVersion, MaxStarts, MaxFailures, MaxPending} \subseteq Nat \ {0}
  BY UpdateAssumption DEF UpdateAssumption
<1>b. 1 \in Version /\ 0 \in 0 .. MaxStarts /\ 0 \in 0 .. MaxFailures /\ 0 \in 0 .. MaxPending
  BY <1>a
<1>c. file \in [File -> Version \cup {None}] /\ deletions \in [File -> 0 .. MaxPending]
  BY <1>b
<1>1. TypeOK
  BY <1>b, <1>c DEF TypeOK, Stage
<1>2. ProcessInv /\ TempInv /\ NeverOlder
  BY DEF ProcessInv, TempInv, NeverOlder
<1>3. Secure("main")
  BY DEF Secure, Doomed
<1> QED
  BY <1>1, <1>2, <1>3 DEF IInv, SecureInv

\* Nothing happens to a file in use, whoever tries to delete it.
LEMMA WithoutUnused ==
  ASSUME NEW f \in File, NEW g \in File, TypeOK, Without(f)[g] # file[g]
  PROVE  g = f /\ ~InUse(f) /\ Without(f)[g] = None
  BY DEF Without, TypeOK, File

-----------------------------------------------------------------------------
(* One lemma for the types, one for the processes and the versions, and    *)
(* one for the secure file, each with a case for every action.             *)

\* Every action of the users, the processes and the detached commands keeps
\* the types.
LEMMA StepTypeOK == IInv /\ [Next]_vars => TypeOK'
<1> SUFFICES ASSUME IInv, [Next]_vars PROVE TypeOK'
  OBVIOUS
<1>0. /\ MaxVersion \in Nat /\ MaxStarts \in Nat /\ MaxFailures \in Nat /\ MaxPending \in Nat
      /\ \A v \in Version : v \in Nat
  BY UpdateAssumption DEF UpdateAssumption, Version
<1>a. ASSUME NEW f \in File PROVE Without(f) \in [File -> Version \cup {None}]
  BY DEF IInv, TypeOK, Without
<1> USE <1>0 DEF IInv, TypeOK, Stage, Begin, Goto, Gone, processes, spent
<1>1. CASE Release
  BY <1>1 DEF Release, Version
<1>2. ASSUME NEW p \in Process, NEW f \in File, Start(p, f) PROVE TypeOK'
  BY <1>2 DEF Start
<1>3. ASSUME NEW p \in Process, Close(p) PROVE TypeOK'
  <2>1. file' \in [File -> Version \cup {None}]
    BY <1>3, <1>a DEF Close, File
  <2>2. hasty' \in BOOLEAN
    BY <1>3 DEF Close
  <2> QED
    BY <1>3, <2>1, <2>2 DEF Close
<1>4. ASSUME NEW p \in Process, Replace(p) PROVE TypeOK'
  <2>1. file' \in [File -> Version \cup {None}]
    BY <1>4, <1>a DEF Replace, File
  <2> QED
    BY <1>4, <2>1 DEF Replace
<1>5. ASSUME NEW p \in Process, Copy(p) PROVE TypeOK'
  <2>1. file["temp"] # None
    BY <1>5 DEF Copy, At, ProcessInv, File
  <2>2. file["temp"] \in Version
    BY <2>1 DEF File
  <2> QED
    BY <1>5, <2>2 DEF Copy
<1>6. ASSUME NEW p \in Process, NEW q \in Process, RunMain(p, q) PROVE TypeOK'
  BY <1>6 DEF RunMain, File
<1>7. ASSUME NEW p \in Process, Leave(p) PROVE TypeOK'
  <2>1. exe[p] \in File
    BY <1>7 DEF Leave, ProcessInv
  <2>2. deletions' \in [File -> 0 .. MaxPending]
    BY <1>7, <2>1 DEF Leave
  <2> QED
    BY <1>7, <2>2 DEF Leave
<1>8. ASSUME NEW p \in Process, Search(p) PROVE TypeOK'
  BY <1>8 DEF Search
<1>9. ASSUME NEW p \in Process, SearchFails(p) PROVE TypeOK'
  BY <1>9 DEF SearchFails
<1>10. ASSUME NEW p \in Process, Download(p) PROVE TypeOK'
  BY <1>10 DEF Download
<1>11. ASSUME NEW p \in Process, DownloadFails(p) PROVE TypeOK'
  <2>1. file' \in [File -> Version \cup {None}]
    BY <1>11, <1>a DEF DownloadFails, File
  <2> QED
    BY <1>11, <2>1 DEF DownloadFails
<1>12. ASSUME NEW p \in Process, NEW q \in Process, RunTemp(p, q) PROVE TypeOK'
  BY <1>12 DEF RunTemp, File
<1>13. ASSUME NEW f \in File, Delete(f) PROVE TypeOK'
  <2>1. file' \in [File -> Version \cup {None}]
    BY <1>13, <1>a DEF Delete
  <2>2. deletions[f] \in 0 .. MaxPending /\ deletions[f] - 1 \in 0 .. MaxPending
    BY <1>13 DEF Delete
  <2>3. deletions' \in [File -> 0 .. MaxPending]
    BY <1>13, <2>2 DEF Delete
  <2> QED
    BY <1>13, <2>1, <2>3 DEF Delete
<1>14. CASE UNCHANGED vars
  BY <1>14 DEF vars
<1> QED
  BY <1>1, <1>2, <1>3, <1>4, <1>5, <1>6, <1>7, <1>8, <1>9, <1>10, <1>11, <1>12,
     <1>13, <1>14 DEF Next, Step

\* A step that leaves the processes alone, and the files in use, keeps the
\* part of the invariant that is about versions.
LEMMA FilesOnly ==
  ASSUME IInv, UNCHANGED <<exe, version, pc, want, installed>>,
         file' = file \/ \E f \in File : file' = Without(f)
  PROVE  ProcessInv' /\ TempInv' /\ NeverOlder'
<1>1. CASE file' = file
  BY <1>1 DEF IInv, ProcessInv, TempInv, NeverOlder
<1>2. ASSUME NEW f \in File, file' = Without(f) PROVE ProcessInv' /\ TempInv' /\ NeverOlder'
  <2>1. \A g \in File : file'[g] = file[g] \/ (~InUse(g) /\ file'[g] = None)
    BY <1>2, WithoutUnused DEF IInv
  <2>2. ProcessInv'
    BY <2>1 DEF IInv, ProcessInv, InUse, File, TypeOK
  <2>3. TempInv' /\ NeverOlder'
    BY <2>1 DEF IInv, TempInv, NeverOlder, File
  <2> QED
    BY <2>2, <2>3
<1> QED
  BY <1>1, <1>2

\* Every action keeps what the processes know of the versions in the files,
\* and puts into main nothing older than it has had.
LEMMA StepVersions == IInv /\ [Next]_vars => ProcessInv' /\ TempInv' /\ NeverOlder'
<1> SUFFICES ASSUME IInv, [Next]_vars PROVE ProcessInv' /\ TempInv' /\ NeverOlder'
  OBVIOUS
<1>0. \A v \in Version : v \in Nat /\ v # None
  BY UpdateAssumption DEF UpdateAssumption, Version, None
<1> USE DEF Begin, Goto, Gone, processes, spent, At
<1>1. CASE Release
  BY <1>1, FilesOnly DEF Release
<1>2. ASSUME NEW p \in Process, NEW f \in File, Start(p, f)
      PROVE  ProcessInv' /\ TempInv' /\ NeverOlder'
  BY <1>2 DEF Start, IInv, ProcessInv, TempInv, NeverOlder, TypeOK, File
<1>3. ASSUME NEW p \in Process, Close(p) PROVE ProcessInv' /\ TempInv' /\ NeverOlder'
  <2>1. \A g \in File : file'[g] = file[g] \/ (~InUse(g) /\ file'[g] = None)
    BY <1>3, WithoutUnused DEF Close, IInv, File
  <2>2. ProcessInv'
    BY <1>3, <2>1 DEF Close, IInv, ProcessInv, InUse, File, TypeOK
  <2>3. TempInv' /\ NeverOlder'
    BY <1>3, <2>1 DEF Close, IInv, TempInv, NeverOlder, File
  <2> QED
    BY <2>2, <2>3
<1>4. ASSUME NEW p \in Process, Replace(p) PROVE ProcessInv' /\ TempInv' /\ NeverOlder'
  <2>1. \A g \in File : file'[g] = file[g] \/ (~InUse(g) /\ file'[g] = None)
    BY <1>4, WithoutUnused DEF Replace, IInv, File
  <2>2. ProcessInv'
    BY <1>4, <2>1 DEF Replace, IInv, ProcessInv, InUse, File, TypeOK
  <2>3. TempInv' /\ NeverOlder'
    BY <1>4, <2>1 DEF Replace, IInv, TempInv, NeverOlder, File
  <2> QED
    BY <2>2, <2>3
<1>5. ASSUME NEW p \in Process, Copy(p) PROVE ProcessInv' /\ TempInv' /\ NeverOlder'
  <2>1. ProcessInv'
    BY <1>5 DEF Copy, IInv, ProcessInv, InUse, File, TypeOK
  <2>2. file["temp"] \in Version /\ file["temp"] >= installed /\ installed \in Version
    BY <1>5 DEF Copy, IInv, ProcessInv, TempInv, File, TypeOK
  <2>3. TempInv' /\ NeverOlder'
    BY <1>5, <2>2, <1>0 DEF Copy, IInv, TempInv, NeverOlder, File, TypeOK
  <2> QED
    BY <2>1, <2>3
<1>6. ASSUME NEW p \in Process, NEW q \in Process, RunMain(p, q) \/ RunTemp(p, q)
      PROVE  ProcessInv' /\ TempInv' /\ NeverOlder'
  <2>1. ProcessInv'
    BY <1>6 DEF RunMain, RunTemp, IInv, ProcessInv, File, TypeOK
  <2>2. TempInv' /\ NeverOlder'
    BY <1>6 DEF RunMain, RunTemp, IInv, TempInv, NeverOlder
  <2> QED
    BY <2>1, <2>2
<1>7. ASSUME NEW p \in Process, Leave(p) PROVE ProcessInv' /\ TempInv' /\ NeverOlder'
  BY <1>7 DEF Leave, IInv, ProcessInv, TempInv, NeverOlder, TypeOK
<1>8. ASSUME NEW p \in Process, Search(p) PROVE ProcessInv' /\ TempInv' /\ NeverOlder'
  BY <1>8, <1>0 DEF Search, IInv, ProcessInv, TempInv, NeverOlder, TypeOK
<1>9. ASSUME NEW p \in Process, SearchFails(p) PROVE ProcessInv' /\ TempInv' /\ NeverOlder'
  BY <1>9 DEF SearchFails, IInv, ProcessInv, TempInv, NeverOlder, TypeOK
<1>10. ASSUME NEW p \in Process, Download(p) PROVE ProcessInv' /\ TempInv' /\ NeverOlder'
  <2>1. ProcessInv'
    BY <1>10 DEF Download, IInv, ProcessInv, InUse, File, TypeOK
  <2>2. /\ version[p] = file["main"] /\ file["main"] = installed
        /\ version[p] < want[p]
        /\ installed \in Version /\ want[p] \in Version \cup {None}
    BY <1>10 DEF Download, IInv, ProcessInv, NeverOlder, TypeOK, File
  <2>3. TempInv'
    BY <1>10, <2>2, <1>0 DEF Download, IInv, TempInv, TypeOK, File, None
  <2>4. NeverOlder'
    BY <1>10 DEF Download, IInv, NeverOlder, TypeOK, File
  <2> QED
    BY <2>1, <2>3, <2>4
<1>11. ASSUME NEW p \in Process, DownloadFails(p) PROVE ProcessInv' /\ TempInv' /\ NeverOlder'
  <2>1. \A g \in File : file'[g] = file[g] \/ (~InUse(g) /\ file'[g] = None)
    BY <1>11, WithoutUnused DEF DownloadFails, IInv, File
  <2>2. ProcessInv'
    BY <1>11, <2>1 DEF DownloadFails, IInv, ProcessInv, InUse, File, TypeOK
  <2>3. TempInv' /\ NeverOlder'
    BY <1>11, <2>1 DEF DownloadFails, IInv, TempInv, NeverOlder, File
  <2> QED
    BY <2>2, <2>3
<1>12. ASSUME NEW f \in File, Delete(f) PROVE ProcessInv' /\ TempInv' /\ NeverOlder'
  BY <1>12, FilesOnly DEF Delete
<1>13. CASE UNCHANGED vars
  BY <1>13 DEF vars, IInv, ProcessInv, TempInv, NeverOlder
<1> QED
  BY <1>1, <1>2, <1>3, <1>4, <1>5, <1>6, <1>7, <1>8, <1>9, <1>10, <1>11, <1>12,
     <1>13 DEF Next, Step

\* A secure file stays secure while nobody touches it or its processes.
LEMMA Untouched ==
  ASSUME NEW f \in File, Secure(f), TypeOK,
         UNCHANGED <<exe, pc>>,
         file'[f] = file[f], deletions'[f] <= deletions[f], deletions'[f] \in Nat
  PROVE  Secure(f)'
<1>1. deletions[f] \in 0 .. MaxPending
  BY DEF TypeOK
<1> QED
  BY <1>1 DEF Secure, Doomed

\* Each process that changes a file uses the other one, and stays: so a file
\* that is secure is left, unless somebody closes a program in the one moment
\* in which its file depends on it.
LEMMA StepSecure == IInv /\ TypeOK' /\ ProcessInv' /\ [Next]_vars => SecureInv'
<1> SUFFICES ASSUME IInv, TypeOK', ProcessInv', [Next]_vars, ~hasty'
             PROVE  \E f \in File : Secure(f)'
  BY DEF SecureInv
<1> USE DEF Begin, Goto, Gone, processes, spent, At
<1>a. \E f \in File : Secure(f)
  <2>1. ~hasty
    BY DEF IInv, TypeOK, Next, Step, Release, Start, Close, Replace, Copy, RunMain,
           RunTemp, Leave, Search, SearchFails, Download, DownloadFails, Delete, vars
  <2> QED
    BY <2>1 DEF IInv, SecureInv
<1>b. \A f \in File : deletions[f] \in Nat /\ deletions'[f] \in Nat
  BY UpdateAssumption DEF UpdateAssumption, IInv, TypeOK
<1>c. ASSUME NEW p \in Process, NEW f \in File, exe'[p] = f, pc'[p] # "leave"
      PROVE  Secure(f)'
  BY <1>c DEF ProcessInv, Secure, File
<1>1. CASE UNCHANGED <<file, exe, pc, deletions>>
  BY <1>1, <1>a DEF Secure, Doomed
<1>2. ASSUME NEW p \in Process, NEW f \in File, Start(p, f) PROVE \E g \in File : Secure(g)'
  <2>1. exe'[p] = f /\ pc'[p] # "leave"
    BY <1>2 DEF Start, IInv, TypeOK
  <2> QED
    BY <2>1, <1>c
<1>3. ASSUME NEW p \in Process, Close(p) PROVE \E g \in File : Secure(g)'
  <2>1. PICK f \in File : exe[p] = f
    BY <1>3 DEF Close, IInv, TypeOK
  <2>2. ~Doomed(f) /\ file[f] # None /\ deletions' = deletions
    BY <1>3, <2>1 DEF Close, IInv, ProcessInv, File
  <2>3. \A q \in Process : q # p => exe'[q] = exe[q] /\ pc'[q] = pc[q]
    BY <1>3 DEF Close, IInv, TypeOK
  <2>4. exe'[p] # f
    BY <1>3 DEF Close, IInv, TypeOK, File
  <2>5. file'[f] = file[f]
    BY <1>3, <2>1, WithoutUnused DEF Close, IInv, InUse, File
  <2>6. ~Doomed(f)'
    BY <2>2, <2>3, <2>4 DEF Doomed
  <2> QED
    BY <2>2, <2>5, <2>6 DEF Secure
<1>4. ASSUME NEW p \in Process,
             Replace(p) \/ Copy(p) \/ Search(p) \/ SearchFails(p)
               \/ Download(p) \/ DownloadFails(p)
      PROVE  \E g \in File : Secure(g)'
  <2>1. PICK f \in File : exe[p] = f
    BY <1>4 DEF Replace, Copy, Search, SearchFails, Download, DownloadFails,
                IInv, TypeOK, File
  <2>2. exe'[p] = f /\ pc'[p] # "leave"
    BY <1>4, <2>1 DEF Replace, Copy, Search, SearchFails, Download, DownloadFails,
                      IInv, TypeOK
  <2> QED
    BY <2>2, <1>c
<1>5. ASSUME NEW p \in Process, NEW q \in Process, RunMain(p, q) \/ RunTemp(p, q)
      PROVE  \E g \in File : Secure(g)'
  <2>1. CASE UNCHANGED exe
    <3>1. exe'[p] = exe[p] /\ exe[p] \in File /\ pc'[p] # "leave"
      BY <1>5, <2>1 DEF RunMain, RunTemp, IInv, TypeOK, File
    <3> QED
      BY <3>1, <1>c
  <2>2. CASE ~UNCHANGED exe
    <3>1. exe'[q] \in File /\ pc'[q] # "leave"
      BY <1>5, <2>2 DEF RunMain, RunTemp, IInv, TypeOK, File
    <3> QED
      BY <3>1, <1>c
  <2> QED
    BY <2>1, <2>2
<1>6. ASSUME NEW p \in Process, Leave(p) PROVE \E g \in File : Secure(g)'
  <2>1. PICK f \in File : Secure(f)
    BY <1>a
  <2>2. CASE exe[p] = f
    <3>1. Doomed(f)
      BY <1>6, <2>2 DEF Leave, Doomed
    <3>2. PICK q \in Process : exe[q] = f /\ pc[q] # "leave"
      BY <2>1, <3>1 DEF Secure
    <3>3. exe'[q] = f /\ pc'[q] # "leave"
      BY <1>6, <3>2 DEF Leave, IInv, TypeOK
    <3> QED
      BY <3>3, <1>c
  <2>3. CASE exe[p] # f
    <3>1. file' = file /\ deletions'[f] = deletions[f]
      BY <1>6, <2>3 DEF Leave, IInv, TypeOK
    <3>2. \A q \in Process : exe'[q] = f => exe[q] = f /\ pc'[q] = pc[q]
      BY <1>6, <2>3 DEF Leave, IInv, TypeOK, File
    <3>3. \A q \in Process : exe[q] = f => exe'[q] = f /\ pc'[q] = pc[q]
      BY <1>6, <2>3 DEF Leave, IInv, TypeOK
    <3> QED
      BY <2>1, <3>1, <3>2, <3>3 DEF Secure, Doomed
  <2> QED
    BY <2>2, <2>3
<1>7. ASSUME NEW f \in File, Delete(f) PROVE \E g \in File : Secure(g)'
  <2>1. PICK g \in File : Secure(g)
    BY <1>a
  <2>2. file'[g] = file[g]
    <3>1. CASE g = f
      <4>1. InUse(f)
        BY <1>7, <2>1, <3>1 DEF Delete, Secure, Doomed, InUse
      <4> QED
        BY <1>7, <4>1, <3>1 DEF Delete, Without
    <3>2. CASE g # f
      BY <1>7, <3>2 DEF Delete, Without, IInv, TypeOK
    <3> QED
      BY <3>1, <3>2
  <2>3. deletions'[g] <= deletions[g]
    BY <1>7, <1>b DEF Delete, IInv, TypeOK
  <2>4. UNCHANGED <<exe, pc>>
    BY <1>7 DEF Delete
  <2> QED
    BY <2>1, <2>2, <2>3, <2>4, <1>b, Untouched DEF IInv
<1>8. CASE Release \/ UNCHANGED vars
  BY <1>8, <1>1 DEF Release, vars
<1> QED
  BY <1>2, <1>3, <1>4, <1>5, <1>6, <1>7, <1>8 DEF Next, Step

-----------------------------------------------------------------------------
\* The invariant holds in every reachable state.
THEOREM Invariance == Spec => []IInv
<1>1. IInv /\ [Next]_vars => IInv'
  BY StepTypeOK, StepVersions, StepSecure DEF IInv
<1> QED
  BY <1>1, InitIInv, PTL DEF Spec

\* Every variable keeps its type.
THEOREM TypeCorrect == Spec => []TypeOK
<1>1. IInv => TypeOK
  BY DEF IInv
<1> QED
  BY <1>1, Invariance, PTL

\* An update never puts an older program in the place of a newer one, however
\* many processes update at the same time.
THEOREM UpdatesGoForward == Spec => []NeverOlder
<1>1. IInv => NeverOlder
  BY DEF IInv
<1> QED
  BY <1>1, Invariance, PTL

\* As long as nobody closes a program that is about to be deleted, one of the
\* two files holds a program.
THEOREM ProgramIsLeft == Spec => []ProgramLeft
<1>1. IInv => ProgramLeft
  BY DEF IInv, SecureInv, Secure, ProgramLeft
<1> QED
  BY <1>1, Invariance, PTL
=============================================================================
