---------------------------- MODULE StockPromise ----------------------------
(***************************************************************************)
(* What submitting an HR request promises: pieces set aside for it out of  *)
(* the stock of both warehouses, that no other request can be promised,    *)
(* until the request gives them back or takes at most that many away.      *)
(* HrFulfilment implements it.                                             *)
(***************************************************************************)
EXTENDS Integers, Functions

CONSTANTS
    Items,
    Requests

VARIABLES
    stock,      \* pieces of each item in the two warehouses together
    promise     \* pieces of each item set aside for each request

Nothing == [i \in Items |-> 0]

Init ==
    /\ stock \in [Items -> Nat]
    /\ promise = [r \in Requests |-> Nothing]

PromisedToOthers(r, i) ==
    SumFunctionOnSet([q \in Requests |-> promise[q][i]], Requests \ {r})

OthersKeepTheirs(r) == \A q \in Requests \ {r} : promise'[q] = promise[q]

\* A first promise, or a new one in place of the old.
Promise(r) ==
    /\ \A i \in Items :
         /\ promise'[r][i] >= 0
         /\ promise'[r][i] > 0 => promise'[r][i] + PromisedToOthers(r, i) <= stock[i]
    /\ OthersKeepTheirs(r)
    /\ stock' = stock

Withdraw(r) ==
    /\ promise'[r] = Nothing
    /\ OthersKeepTheirs(r)
    /\ stock' = stock

\* The request takes what it was promised, or less, and is done.
Take(r) ==
    /\ \A i \in Items : 0 <= stock[i] - stock'[i] /\ stock[i] - stock'[i] <= promise[r][i]
    /\ promise'[r] = Nothing
    /\ OthersKeepTheirs(r)

Next == \E r \in Requests : Promise(r) \/ Withdraw(r) \/ Take(r)

Spec == Init /\ [][Next]_<<stock, promise>>
=============================================================================
