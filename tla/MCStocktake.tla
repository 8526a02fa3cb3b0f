----------------------------- MODULE MCStocktake -----------------------------
(* Two items: the first request wants both, the second only the second.    *)
EXTENDS Stocktake

CONSTANTS r1, r2

BothAndSecond == [r \in {r1, r2} |-> IF r = r1 THEN {1, 2} ELSE {2}]
OneOfEach == [i \in Item |-> 1]
NoneOfFirst == [i \in Item |-> i - 1]
=============================================================================
