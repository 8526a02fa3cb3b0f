------------------------- MODULE MCCorrectionPanel -------------------------
(* Lines of which two are on record, and one came back.                    *)
EXTENDS CorrectionPanel

CONSTANTS l1, l2

Two == [l \in Line |-> 2]
One == [l \in Line |-> 1]
Enough == [hr |-> 2, general |-> 0]
UpOrDown == {-1, 1}
=============================================================================
