------------------------ MODULE MCCorrectionPosting ------------------------
(* One line: two were asked for and are on record, one of them came back.  *)
EXTENDS CorrectionPosting

CONSTANTS l1, r1, r2

Two == [l \in {l1} |-> 2]
One == [l \in {l1} |-> 1]
OneEach == [hr |-> 1, general |-> 1]
OnceUpOrDown == {-1, 1}
=============================================================================
