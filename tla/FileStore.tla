------------------------------ MODULE FileStore ------------------------------
(***************************************************************************)
(* What a store of temporary files promises to whoever put one there: the  *)
(* file can be read from the moment put returns its id until something     *)
(* dooms it - its window closes, somebody deletes it, a start cannot make  *)
(* sense of it - and once gone it never comes back.  TempStore.tla is      *)
(* shown to implement this module.                                         *)
(***************************************************************************)
CONSTANT Ids

VARIABLES
  used,    \* ids put has returned
  files,   \* those that can be read
  doomed   \* those the store may remove

vars == <<used, files, doomed>>

Init == used = {} /\ files = {} /\ doomed = {}

Put(id) ==
  /\ id \notin used
  /\ used' = used \union {id}
  /\ files' = files \union {id}
  /\ UNCHANGED doomed

\* The window closed, or a start gave the file up, before put returned: nobody may count on it.
PutLate(id) ==
  /\ id \notin used
  /\ used' = used \union {id}
  /\ doomed' = doomed \union {id}
  /\ files' \in {files, files \union {id}}

Doom(id) ==
  /\ id \in used
  /\ doomed' = doomed \union {id}
  /\ UNCHANGED <<used, files>>

Drop(id) ==
  /\ id \in doomed
  /\ files' = files \ {id}
  /\ UNCHANGED <<used, doomed>>

Next == \E id \in Ids : Put(id) \/ PutLate(id) \/ Doom(id) \/ Drop(id)

Spec == Init /\ [][Next]_vars
=============================================================================
