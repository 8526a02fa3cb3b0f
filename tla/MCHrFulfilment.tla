--------------------------- MODULE MCHrFulfilment ---------------------------
(* Small instances of HrFulfilment.                                        *)
EXTENDS HrFulfilment, TLC

CONSTANTS i1, i2, r1, r2, a1, s1, s2, k1, k2

Payload(f) == [i \in Items |-> IF i \in DOMAIN f THEN f[i] ELSE NoRow]
Asks(issue, increase) == [issue |-> issue, increase |-> increase]

\* Three pieces of each item, one of them in the HR warehouse.
Opening1And2 == [w \in Warehouses |-> [i \in Items |-> IF w = "HR" THEN 1 ELSE 2]]

\* The warehouse may send nothing of a line, with a reason.
NothingSent == {[i \in Items |-> [actual |-> 0, short |-> TRUE]]}

\* One item, of which two requests want up to four of the three there are.
OneItemPayloads == {Payload(i1 :> Asks(1, 0)), Payload(i1 :> Asks(1, 1))}

\* An edit or a revision may also move a request to the other item.
MovingPayloads == OneItemPayloads \cup {Payload(i2 :> Asks(0, 1))}

\* Bound: two requests are, and have been, about the first item alone, and are
\* served by one session beside the RPCs of one step.  The only request may move
\* to the second item, and has two sessions until it is prepared.
OneRaceAtATime ==
    LET present == {r \in Requests : status[r] # Absent}
    IN  IF Cardinality(present) > 1
          THEN /\ call[s2] = Idle
               /\ \A r \in present : rows[r][i2] = NoRow /\ reservation[r][i2] = NoReservation
               /\ call[s1].op = "UPDATE_HR_REQUEST" => call[s1].payload[i2] = NoRow
          ELSE call[s2] # Idle => \A r \in present : shipment[r] = NoShipment

Symmetry == Permutations(Requests) \cup Permutations(Keys)
=============================================================================
