------------------------------ MODULE MCGroups ------------------------------
(* Small instances of Groups with the saving of forms in its loops.        *)
EXTENDS GroupSave

CONSTANT h1
=============================================================================
