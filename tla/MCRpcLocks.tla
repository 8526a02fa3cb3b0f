----------------------------- MODULE MCRpcLocks -----------------------------
(* Small instances of RpcLocks: documents 1 and 2 are HR requests, the     *)
(* others are numbered by tens, and each is about items 1 and 2 or one of  *)
(* them, so that any two RPCs may meet.                                    *)
EXTENDS RpcLocks, TLC

CONSTANTS s1, s2

BothItems == {1, 2}
Documents == 1 :> BothItems @@ 2 :> {2} @@ 10 :> BothItems @@ 20 :> BothItems
             @@ 21 :> {1} @@ 22 :> {2} @@ 30 :> {2}
ReturnOf == 30 :> 2

RequestRpcs == UNION {
    {SubmitHrRequest(r), UpdateHrRequestDraft(r, {1}), SubmitHrRequestWithLines(r, {1}),
     UpdateHrRequest(r, {1}), CancelHrRequest(r)} : r \in Requests}
ShipmentRpcs == UNION {
    {CreateWarehouseShipmentDraft(r), PostWarehouseShipment(r)} : r \in Requests}
ReplenishmentRpcs == UNION {
    {SubmitReplenishmentRequest(q), UpdateReplenishmentRequestDraft(q, {2}),
     CancelReplenishmentRequest(q), PostReplenishmentRequestWithLines(q)} : q \in Replenishments}
StocktakeRpcs == UNION {{UpdateStocktakeDraft(t), PostStocktake(t)} : t \in Stocktakes}
ReturnRpcs == {PostReturnNote(n) : n \in ReturnNotes}

\* The two that leave the order, and are therefore not among the programs of
\* the run: posting with lines takes the lines before the mutexes (0145:115),
\* and a short count takes reservations of items it does not count (0027:191).
\* Next to a cancellation, or to another short count, each waits in a circle.
DisorderedRpcs == {PostWarehouseShipmentWithLines(1, <<1, 2>>), PostStocktakeShortage(21, {1})}
OrderedRpcs == RequestRpcs \cup ShipmentRpcs \cup ReplenishmentRpcs \cup StocktakeRpcs \cup ReturnRpcs

ASSUME OutOfOrder == \A p \in DisorderedRpcs : ~KeepsOrder(p)

\* Two that are among them claim a command after a mutex, where the document
\* has it before: they keep the order because RpcGuard names the lock that
\* protects this command, not because they follow the document.
LateCommandRpcs == {SubmitHrRequestWithLines(1, {1}), PostReplenishmentRequestWithLines(10)}

ASSUME CommandAfterMutex ==
    \A p \in LateCommandRpcs : KeepsOrder(p) /\ \E n \in 1..Len(p), m \in 1..Len(p) :
        /\ m < n /\ p[m].table = "inventory_item_locks"
        /\ p[n].table \in {NestedSubmit, LateCommand}
=============================================================================
