----------------------- MODULE MCSeasonalProcurement -----------------------
(* Demand of two pieces, two orders, two receipts, two desks; two screens   *)
(* of the CEO.                                                             *)
EXTENDS SeasonalProcurement, TLC

Of(a, r) == [delivered |-> a + r, accepted |-> a, rejected |-> r]
Unclassified == [delivered |-> 2, accepted |-> 1, rejected |-> 0]
Entries == {Of(1, 0), Of(0, 1), Unclassified}
Changes == {Of(1, 0), Of(-1, 0), Of(-1, 1)}
\* Bound: buying begins when the CEO's screens have been read again.
ScreensRead == purchase.limit # Nobody => \A w \in Screen : ceo[w] = Without({})
Symmetry == Permutations(Order) \cup Permutations(Receipt)
  \cup Permutations(Screen) \cup Permutations(Desk)
=============================================================================
