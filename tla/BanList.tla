------------------------------- MODULE BanList -------------------------------
(***************************************************************************)
(* What one ban list of the server promises, whatever threads and files it *)
(* is made of.  kept are the bans it has acknowledged, gone the bans whose *)
(* removal it has acknowledged, onDisk is what the next start would read.  *)
(* The list honours its promises at every moment; each action says which   *)
(* promises may be taken back, and why.  An action that says nothing of    *)
(* saving, loading and prot leaves open how they change.                   *)
(***************************************************************************)
CONSTANT Key

VARIABLES
  onDisk,      \* the bans in the file of the list
  prot,        \* the protected keys
  kept, gone,  \* the promises
  saving,      \* a file of the list is being rewritten
  loading      \* the files have not been read yet, or a handler did not wait

promises == <<kept, gone>>
vars     == <<onDisk, prot, kept, gone, saving, loading>>

Honoured == kept \subseteq onDisk /\ gone \cap onDisk = {}

Status == prot' \subseteq Key /\ saving' \in BOOLEAN /\ loading' \in BOOLEAN

Init ==
  /\ onDisk = {} /\ prot = {} /\ kept = {} /\ gone = {}
  /\ saving = FALSE /\ loading = TRUE

\* A command takes back what was promised of its own key, and of no other.
Command(k) ==
  /\ kept' \subseteq kept /\ kept \subseteq kept' \cup {k}
  /\ gone' \subseteq gone /\ gone \subseteq gone' \cup {k}
  /\ UNCHANGED onDisk

\* The end of a handler: all of the list is on disk.  No promise is broken
\* by the new ones, and at most one removal is acknowledged at a time.
Acknowledge(k) ==
  /\ saving
  /\ onDisk' \subseteq Key
  /\ kept \subseteq kept' /\ kept' = onDisk'
  /\ gone \subseteq gone' /\ gone' \subseteq gone \cup {k}
  /\ gone' \cap onDisk' = {}

\* A crash, or two threads in one file, can cost what is in that file; when
\* nothing is being saved, they cost nothing.
Lose ==
  /\ saving
  /\ onDisk' \subseteq Key
  /\ kept' \subseteq kept /\ gone' \subseteq gone
  /\ kept' \subseteq onDisk' /\ gone' \cap onDisk' = {}

\* The load skips protected keys.
Skip ==
  /\ loading
  /\ kept' \in {kept, kept \ prot}
  /\ gone' \in {gone, gone \ prot}
  /\ UNCHANGED onDisk

\* Whoever does not wait for the load overwrites files that nobody has read.
Overwrite ==
  /\ loading
  /\ onDisk' \subseteq Key
  /\ kept' \in {kept, {}} /\ gone' = {}
  /\ kept' \subseteq onDisk'

Next ==
  /\ Status
  /\ \/ UNCHANGED <<onDisk, promises>>
     \/ \E k \in Key : Command(k) \/ Acknowledge(k)
     \/ Lose \/ Skip \/ Overwrite

Spec == Init /\ [][Next]_vars
=============================================================================
