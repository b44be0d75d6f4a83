------------------------------ MODULE MCRecMgr ------------------------------
(***************************************************************************)
(* Instances of the recording manager.  The event "film" has the key m1    *)
(* until the guide moves it to m2; the two overlap.  The key an is a time  *)
(* range the user asked to record, around m1.                              *)
(***************************************************************************)
EXTENDS RecMgr, TLC

CONSTANTS m1, m2, an

EventOf == [k \in Key |-> IF k = an THEN an ELSE m1]
StartAt == [k \in Key |-> IF k = m2 THEN 2 ELSE 1]
EndAt   == [k \in Key |-> IF k = m2 THEN 4 ELSE 3]
FromAt  == [k \in Key |-> StartAt[k] - 1]
ToAt    == [k \in Key |-> EndAt[k]]
Symmetry == Permutations(Pid)
=============================================================================
