--------------------------- MODULE MCUploadRecord ---------------------------
(* A TLC instance of UploadRecord: a clear shot without a face, and a poor  *)
(* one with a face and two packages.                                        *)
EXTENDS UploadRecord

TwoPersons ==
  {[prob |-> 2, observed |-> FALSE, face |-> 0, packages |-> 0],
   [prob |-> 1, observed |-> TRUE, face |-> 1, packages |-> 2]}
=============================================================================
