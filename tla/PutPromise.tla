------------------------------ MODULE PutPromise ------------------------------
(***************************************************************************)
(* What an upload promises the index, however many requests it takes: the  *)
(* object at a file's key is replaced by one whole version at a time, and  *)
(* the row is marked with a version only while the object holds it.        *)
(***************************************************************************)
CONSTANTS Contents, NoContent

VARIABLES
  stored, \* the version at the file's key
  marked  \* the version the index records as uploaded

Init == stored = NoContent /\ marked = NoContent

Put == /\ stored' \in Contents
       /\ UNCHANGED marked

Mark == /\ stored # NoContent
        /\ marked' = stored
        /\ UNCHANGED stored

Next == Put \/ Mark

Spec == Init /\ [][Next]_<<stored, marked>>
===============================================================================
