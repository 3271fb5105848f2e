---------------------------- MODULE BanStoreProof ----------------------------
(***************************************************************************)
(* Proofs about BanStore for every set of keys.                            *)
(***************************************************************************)
EXTENDS BanStore, TLAPS

\* What the handler in progress knows about its key.
HandlerInv ==
  /\ (writing = "none") <=> (job = "idle")
  /\ (writing = "protected") <=> (job = "protect")
  /\ writing = "removed" => job \in {"add", "remove"}
  /\ (writing \in {"removed", "bans"} /\ ~early) => Settled
  /\ early => kept = {} /\ gone = {}
  /\ job = "add" => target \notin gone
  /\ job = "remove" => target \notin kept
  /\ (job = "remove" /\ ~early) => target \in removed
  /\ (job = "remove" /\ writing = "bans") => early \/ target \notin banned

\* How the lists in memory relate to the files behind them.
StoreInv ==
  /\ ~Running => loaded = "none" /\ writing = "none" /\ ~early
  /\ gone \subseteq removedFile
  /\ (writing # "removed" /\ ui \in {"off", "open"} /\ ~early) =>
       removed \subseteq removedFile
  /\ (writing \in {"none", "protected"} /\ ActiveLoaded /\ ~early) =>
       banned \subseteq bansFile
  /\ (~Settled /\ removed # {}) => early

IInv == TypeOK /\ HandlerInv /\ StoreInv /\ KeptBansHeld /\ GoneStaysGone

-----------------------------------------------------------------------------
\* Before the first start the lists and the files are empty, and nothing has
\* been promised.
LEMMA InitIInv == Init => IInv
  BY DEF Init, IInv, TypeOK, HandlerInv, StoreInv, KeptBansHeld, GoneStaysGone,
         LoadStage, UiStage, Job, File, Running, Settled, ActiveLoaded

\* Every step of the three threads, and every crash, keeps the invariant.
LEMMA StepIInv == IInv /\ [Next]_vars => IInv'
<1> SUFFICES ASSUME IInv, [Next]_vars PROVE IInv'
  OBVIOUS
<1> USE DEF IInv, TypeOK, HandlerInv, StoreInv, KeptBansHeld, GoneStaysGone,
            LoadStage, UiStage, Job, File, Running, Settled, ActiveLoaded,
            memory, files, handler, ghosts
<1>1. CASE Start
  BY <1>1 DEF Start
<1>2. CASE LoadProtected
  BY <1>2 DEF LoadProtected, Torn
<1>3. CASE LoadBans
  BY <1>3 DEF LoadBans, Torn
<1>4. CASE LoadRemoved
  BY <1>4 DEF LoadRemoved, Torn
<1>5. ASSUME NEW k \in Key, Add(k) PROVE IInv'
  BY <1>5 DEF Add, CanHandle, Begin, Promise
<1>6. ASSUME NEW k \in Key, Remove(k) PROVE IInv'
  <2> USE <1>6 DEF Remove, CanHandle, Begin, Promise
  <2>1. TypeOK'
    OBVIOUS
  <2>2. HandlerInv'
    <3>1. CASE k \in removed
      BY <3>1
    <3>2. CASE k \notin removed
      <4>1. target' = k /\ target' \in removed' /\ target' \notin kept'
        BY <3>2
      <4>2. job' = "remove" /\ writing' = "removed"
        BY <3>2
      <4>3. (~early' => Settled') /\ (early' => kept' = {} /\ gone' = {})
        BY <3>2
      <4> QED
        BY <4>1, <4>2, <4>3
    <3> QED
      BY <3>1, <3>2
  <2>3. StoreInv'
    OBVIOUS
  <2>4. KeptBansHeld' /\ GoneStaysGone'
    OBVIOUS
  <2> QED
    BY <2>1, <2>2, <2>3, <2>4
<1>7. ASSUME NEW S \in (SUBSET Key) \ {{}}, Upload(S) PROVE IInv'
  BY <1>7 DEF Upload, Merged, CanHandle, Begin, Promise
<1>8. ASSUME NEW k \in Key, Protect(k) PROVE IInv'
  BY <1>8 DEF Protect, BeginProtect, CanHandle
<1>9. ASSUME NEW k \in Key, Unprotect(k) PROVE IInv'
  BY <1>9 DEF Unprotect, BeginProtect, CanHandle
<1>10. CASE SaveRemoved
  BY <1>10 DEF SaveRemoved, Saved, Promise
<1>11. CASE SaveBans
  BY <1>11 DEF SaveBans, Saved, Promise
<1>12. CASE SaveProtected
  BY <1>12 DEF SaveProtected
<1>13. CASE Close
  BY <1>13 DEF Close
<1>14. CASE ExitSaveProtected
  BY <1>14 DEF ExitSaveProtected
<1>15. CASE ExitSaveRemoved
  BY <1>15 DEF ExitSaveRemoved, Saved
<1>16. CASE Exit
  BY <1>16 DEF Exit, NoProcess
<1>17. CASE Crash
  BY <1>17 DEF Crash, NoProcess, Torn
<1>18. CASE UNCHANGED vars
  BY <1>18 DEF vars
<1> QED
  BY <1>1, <1>2, <1>3, <1>4, <1>5, <1>6, <1>7, <1>8, <1>9, <1>10, <1>11, <1>12,
     <1>13, <1>14, <1>15, <1>16, <1>17, <1>18 DEF Next, Load, Handle, Window

\* The invariant holds in every reachable state.
THEOREM Invariance == Spec => []IInv
  BY InitIInv, StepIInv, PTL DEF Spec

\* Every variable keeps its type.
THEOREM TypeCorrect == Spec => []TypeOK
<1>1. IInv => TypeOK
  BY DEF IInv
<1> QED
  BY <1>1, Invariance, PTL

\* Whatever the interleaving of load, handlers, exit and crashes, memory never
\* holds an entry that the files lack once the handler that made it is done.
THEOREM MemoryOnDisk == Spec => []Coherent
<1>1. IInv => Coherent
  BY DEF IInv, TypeOK, StoreInv, Coherent, UiStage, LoadStage, File, Settled, ActiveLoaded
<1> QED
  BY <1>1, Invariance, PTL

\* A ban that has been acknowledged stays on disk, and in force while the list
\* is loaded, until an administrator removes or protects its key.
THEOREM BansAreKept == Spec => []KeptBansHeld
<1>1. IInv => KeptBansHeld
  BY DEF IInv
<1> QED
  BY <1>1, Invariance, PTL

\* A ban that has been removed is not brought back by an upload or a restart.
THEOREM RemovedBansStayRemoved == Spec => []GoneStaysGone
<1>1. IInv => GoneStaysGone
  BY DEF IInv
<1> QED
  BY <1>1, Invariance, PTL

-----------------------------------------------------------------------------
(* The refinement.  IInv' says that the promises are honoured after the    *)
(* step, so each case has only to name the action of BanList that allows   *)
(* what the step does to them.                                             *)

\* Whatever a step of the store does, prot, saving and loading keep their types.
LEMMA StatusOf == IInv' => List!Status
  BY DEF IInv, TypeOK, List!Status

\* Every step of the store is a step of BanList, or changes nothing it sees.
LEMMA StepOfList == IInv /\ IInv' /\ [Next]_vars => [List!Next]_(List!vars)
<1> SUFFICES ASSUME IInv, IInv', [Next]_vars PROVE [List!Next]_(List!vars)
  OBVIOUS
<1> USE DEF List!vars, List!promises
<1>0. List!Status
  BY StatusOf
<1>a. ASSUME UNCHANGED <<bansFile, kept, gone>> PROVE List!Next
  BY <1>0, <1>a DEF List!Next
<1>b. ASSUME NEW k \in Key, List!Command(k) \/ List!Acknowledge(k) PROVE List!Next
  BY <1>0, <1>b DEF List!Next
<1>c. ASSUME List!Lose \/ List!Skip \/ List!Overwrite PROVE List!Next
  BY <1>0, <1>c DEF List!Next
<1> USE DEF IInv, TypeOK, HandlerInv, StoreInv, KeptBansHeld, GoneStaysGone,
            Running, Settled, ActiveLoaded, memory, files, handler, ghosts
<1>1. CASE Start
  BY <1>1, <1>a DEF Start
<1>2. CASE LoadProtected
  BY <1>2, <1>a DEF LoadProtected
<1>3. CASE LoadBans
  <2>1. List!Skip
    BY <1>3 DEF LoadBans, List!Skip
  <2> QED
    BY <2>1, <1>c
<1>4. CASE LoadRemoved
  <2>1. List!Skip
    BY <1>4 DEF LoadRemoved, List!Skip
  <2> QED
    BY <2>1, <1>c
<1>5. ASSUME NEW k \in Key, Add(k) PROVE List!Next
  <2>1. CASE early'
    <3>1. List!Overwrite
      BY <1>5, <2>1 DEF Add, Begin, Promise, CanHandle, List!Overwrite
    <3> QED
      BY <3>1, <1>c
  <2>2. CASE ~early'
    <3>1. List!Command(k)
      BY <1>5, <2>2 DEF Add, Promise, List!Command
    <3> QED
      BY <3>1, <1>b
  <2> QED
    BY <2>1, <2>2
<1>6. ASSUME NEW k \in Key, Remove(k) PROVE List!Next
  <2>1. CASE early'
    <3>1. List!Overwrite
      BY <1>6, <2>1 DEF Remove, Begin, Promise, CanHandle, List!Overwrite
    <3> QED
      BY <3>1, <1>c
  <2>2. CASE ~early'
    <3>1. List!Command(k)
      BY <1>6, <2>2 DEF Remove, Promise, List!Command
    <3> QED
      BY <3>1, <1>b
  <2> QED
    BY <2>1, <2>2
<1>7. ASSUME NEW S \in (SUBSET Key) \ {{}}, Upload(S) PROVE List!Next
  <2>1. CASE early'
    <3>1. List!Overwrite
      BY <1>7, <2>1 DEF Upload, Begin, Promise, CanHandle, List!Overwrite
    <3> QED
      BY <3>1, <1>c
  <2>2. CASE ~early'
    BY <1>7, <2>2, <1>a DEF Upload, Promise
  <2> QED
    BY <2>1, <2>2
<1>8. ASSUME NEW k \in Key, Protect(k) \/ Unprotect(k) PROVE List!Next
  BY <1>8, <1>a DEF Protect, Unprotect, BeginProtect
<1>9. CASE SaveRemoved
  <2>1. CASE early
    <3>1. List!Overwrite
      BY <1>9, <2>1 DEF SaveRemoved, Promise, List!Overwrite
    <3> QED
      BY <3>1, <1>c
  <2>2. CASE ~early
    <3>1. List!Lose
      BY <1>9, <2>2 DEF SaveRemoved, Promise, List!Lose
    <3> QED
      BY <3>1, <1>c
  <2> QED
    BY <2>1, <2>2
<1>10. CASE SaveBans
  <2>1. CASE early
    <3>1. List!Overwrite
      BY <1>10, <2>1 DEF SaveBans, Promise, List!Overwrite
    <3> QED
      BY <3>1, <1>c
  <2>2. CASE ~early
    <3>1. bansFile' = banned /\ kept' = banned
      BY <1>10, <2>2 DEF SaveBans, Saved, Promise
    <3>2. kept \subseteq banned
      BY <1>10, <2>2 DEF SaveBans
    <3>3. gone' \subseteq gone \cup {target} /\ gone \subseteq gone'
      BY <1>10, <2>2 DEF SaveBans, Promise
    <3>4. List!Acknowledge(target)
      BY <1>10, <3>1, <3>2, <3>3 DEF SaveBans, List!Acknowledge
    <3> QED
      BY <3>4, <1>b
  <2> QED
    BY <2>1, <2>2
<1>11. CASE SaveProtected
  BY <1>11, <1>a DEF SaveProtected
<1>12. CASE Close \/ ExitSaveProtected \/ Exit
  BY <1>12, <1>a DEF Close, ExitSaveProtected, Exit
<1>13. CASE ExitSaveRemoved
  <2>1. CASE ~Settled
    <3>1. List!Overwrite
      BY <1>13, <2>1 DEF ExitSaveRemoved, List!Overwrite
    <3> QED
      BY <3>1, <1>c
  <2>2. CASE Settled
    <3>1. List!Lose
      BY <1>13, <2>2 DEF ExitSaveRemoved, List!Lose
    <3> QED
      BY <3>1, <1>c
  <2> QED
    BY <2>1, <2>2
<1>14. CASE Crash
  <2>1. CASE writing \in {"removed", "bans"} \/ ui = "savedProtected"
    <3>1. List!Lose
      BY <1>14, <2>1 DEF Crash, List!Lose
    <3> QED
      BY <3>1, <1>c
  <2>2. CASE ~(writing \in {"removed", "bans"} \/ ui = "savedProtected")
    BY <1>14, <2>2, <1>a DEF Crash, Torn
  <2> QED
    BY <2>1, <2>2
<1>15. CASE UNCHANGED vars
  BY <1>15 DEF vars
<1> QED
  BY <1>1, <1>2, <1>3, <1>4, <1>5, <1>6, <1>7, <1>8, <1>9, <1>10, <1>11, <1>12,
     <1>13, <1>14, <1>15 DEF Next, Load, Handle, Window

\* The store implements BanList for every set of keys: each step takes back
\* only the promises that BanList allows it to take back.
THEOREM StoreKeepsPromises == Spec => KeepsPromises
<1>1. Init => List!Init
  BY DEF Init, List!Init, Settled
<1>2. IInv /\ IInv' /\ [Next]_vars => [List!Next]_(List!vars)
  BY StepOfList
<1> QED
  BY <1>1, <1>2, Invariance, PTL DEF KeepsPromises, Spec, List!Spec

=============================================================================
