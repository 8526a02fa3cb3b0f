--------------------------- MODULE MCDurableImport ---------------------------
(* Files of two rows: one that inserts or changes, one with a row that does *)
(* not validate, and one the parser refuses.                               *)
EXTENDS DurableImport, TLC

CONSTANTS x, y

TwoFiles == {[n \in Chunk |-> x], (1 :> y @@ 2 :> "invalid")}
ThreeFiles == TwoFiles \cup {Unreadable}
NewAndOld == {(1 :> None @@ 2 :> y)}
=============================================================================
