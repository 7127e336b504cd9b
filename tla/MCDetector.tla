----------------------------- MODULE MCDetector -----------------------------
(* A TLC instance of Detector: how many candidates each class has.  Two     *)
(* bodies and two heads compete for each other, and a third body makes      *)
(* chains of overlaps; one face has a choice of persons; the second package *)
(* overruns a person that has one.                                          *)
EXTENDS Detector

Few == [c \in Classes |-> CASE c = cls_person -> 3 [] c = cls_face -> 1 [] OTHER -> 2]
=============================================================================
