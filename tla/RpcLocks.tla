------------------------------ MODULE RpcLocks ------------------------------
(***************************************************************************)
(* The row locks of the stock RPCs, in the order their statements take     *)
(* them, at the schema level before migration 0136.                        *)
(*                                                                         *)
(* Rows that one statement locks together and that no RPC locks apart are  *)
(* one lock: the two balance rows of an item (an RPC that locks one of     *)
(* them is given both), the issue lines of a request and its item row.     *)
(* Rows the transaction inserts are no one else's to wait for and are left *)
(* out, as are rows no other RPC locks.                                    *)
(*                                                                         *)
(* A definition commented "Mutant" is no part of the specification: it is  *)
(* the next definition with a bug in it, which a run must tell apart.      *)
(***************************************************************************)
EXTENDS LockOrder
LOCAL INSTANCE SequencesExt
LOCAL INSTANCE FiniteSetsExt

CONSTANTS
    Items,            \* uniform_items.id: numbers, as ids are ordered
    Requests,         \* hr_requests.id
    Replenishments,   \* replenishment_requests.id
    Stocktakes,       \* stocktakes.id
    ReturnNotes,      \* return_notes.id
    ItemsOf,          \* the items of each of these documents
    Returned          \* return_notes.original_hr_request_id

Row(table, doc, i) == [table |-> table, doc |-> doc, item |-> i]

NestedSubmit == "SUBMIT_HR_REQUEST of submit_hr_request_with_lines"
LateCommand == "POST_REPLENISHMENT_REQUEST"

Command(op, d) == <<Row(op, d, 0)>>
Document(table, d) == <<Row(table, d, 0)>>
Mutex(i) == Row("inventory_item_locks", 0, i)
Balance(i) == <<Row("inventory_balances", 0, i)>>
Reservation(r, i) == <<Row("inventory_reservations", r, i)>>

\* A loop over items or documents "order by id".
Each(ids, Locks(_)) ==
    LET sorted == SetToSortSeq(ids, <)
    IN  FlattenSeq([n \in DOMAIN sorted |-> Locks(sorted[n])])

Mutexes(items) == Each(items, LAMBDA i : <<Mutex(i)>>)
Lines(table, d, items) == Each(items, LAMBDA i : <<Row(table, d, i)>>)

\* The ACTIVE reservations of an item, whoever made them.
Reservations(i) ==
    Each({r \in Requests : i \in ItemsOf[r]}, LAMBDA r : Reservation(r, i))

-----------------------------------------------------------------------------
(* HR requests                                                             *)

Request(r) == Document("hr_requests", r)
RequestItems(r) == Lines("hr_request_items", r, ItemsOf[r])

SubmitLocks(r, op) ==
    Command(op, r) \o Mutexes(ItemsOf[r]) \o Request(r) \o RequestItems(r)
    \o Each(ItemsOf[r], LAMBDA i : Balance(i) \o Reservations(i))
SubmitHrRequest(r) == SubmitLocks(r, "SUBMIT_HR_REQUEST")

UpdateHrRequestDraft(r, payload) ==
    Command("UPDATE_HR_REQUEST_DRAFT", r) \o Mutexes(ItemsOf[r] \cup payload)
    \o Request(r) \o RequestItems(r)

\* One transaction around both.  Its submit key is its own.
SubmitHrRequestWithLines(r, payload) ==
    UpdateHrRequestDraft(r, payload)
    \o SubmitLocks(r, NestedSubmit)

\* The trigger on hr_requests.status locks the rows it tries to delete, even
\* if the guard trigger then skips them.
Cleanup(r) ==
    Lines("warehouse_shipment_lines", r, ItemsOf[r]) \o Document("warehouse_shipments", r)

\* Mutant: the mutexes are taken in the order of the payload.
UpdateInPayloadOrder(r, payload) ==
    Command("UPDATE_HR_REQUEST", r)
    \o Reverse(Mutexes(ItemsOf[r] \cup payload)) \o Request(r)
    \o Each(ItemsOf[r] \cup payload, LAMBDA i : Balance(i) \o Reservations(i))
    \o Each(ItemsOf[r], LAMBDA i : Reservation(r, i)) \o Cleanup(r) \o RequestItems(r)
UpdateHrRequest(r, payload) ==
    Command("UPDATE_HR_REQUEST", r)
    \o Mutexes(ItemsOf[r] \cup payload) \o Request(r)
    \o Each(ItemsOf[r] \cup payload, LAMBDA i : Balance(i) \o Reservations(i))
    \o Each(ItemsOf[r], LAMBDA i : Reservation(r, i)) \o Cleanup(r) \o RequestItems(r)

\* Mutant: the request is locked before the mutexes.
CancelRequestFirst(r) ==
    Command("CANCEL_HR_REQUEST", r) \o Request(r) \o Mutexes(ItemsOf[r])
    \o Each(ItemsOf[r], LAMBDA i : Reservation(r, i)) \o Cleanup(r)
CancelHrRequest(r) ==
    Command("CANCEL_HR_REQUEST", r) \o Mutexes(ItemsOf[r]) \o Request(r)
    \o Each(ItemsOf[r], LAMBDA i : Reservation(r, i)) \o Cleanup(r)

-----------------------------------------------------------------------------
(* Warehouse shipments                                                     *)

CreateWarehouseShipmentDraft(r) ==
    Command("CREATE_WAREHOUSE_SHIPMENT_DRAFT", r) \o Request(r) \o RequestItems(r)

PostWarehouseShipment(r) ==
    Command("POST_WAREHOUSE_SHIPMENT", r) \o Mutexes(ItemsOf[r]) \o Request(r)
    \o Document("warehouse_shipments", r) \o RequestItems(r)
    \o Each(ItemsOf[r], LAMBDA i : Balance(i))
    \o Each(ItemsOf[r], LAMBDA i : Reservations(i))
    \o Lines("warehouse_shipment_lines", r, ItemsOf[r])

\* The caller's lines are written first, in the order of the payload.
PostWarehouseShipmentWithLines(r, ordered) ==
    Command("POST_WAREHOUSE_SHIPMENT_WITH_LINES", r)
    \o [n \in DOMAIN ordered |-> Row("warehouse_shipment_lines", r, ordered[n])]
    \o PostWarehouseShipment(r)

-----------------------------------------------------------------------------
(* Replenishments                                                          *)

Replenishment(q) == Document("replenishment_requests", q)
ReplenishmentLines(q) == Lines("replenishment_request_lines", q, ItemsOf[q])

SubmitReplenishmentRequest(q) ==
    Command("SUBMIT_REPLENISHMENT_REQUEST", q) \o Mutexes(ItemsOf[q])
    \o Replenishment(q) \o ReplenishmentLines(q)

UpdateReplenishmentRequestDraft(q, payload) ==
    Command("UPDATE_REPLENISHMENT_REQUEST_DRAFT", q)
    \o Mutexes(ItemsOf[q] \cup payload) \o Replenishment(q) \o ReplenishmentLines(q)

CancelReplenishmentRequest(q) ==
    Command("CANCEL_REPLENISHMENT_REQUEST", q) \o Mutexes(ItemsOf[q]) \o Replenishment(q)

\* 0097 takes the mutexes, then calls the body of 0096, which claims the
\* command, locks the request and takes the mutexes it has.
PostReplenishmentRequestWithLines(q) ==
    Mutexes(ItemsOf[q]) \o Command(LateCommand, q)
    \o Replenishment(q) \o Mutexes(ItemsOf[q]) \o ReplenishmentLines(q)
    \o Each(ItemsOf[q], LAMBDA i : Balance(i))

-----------------------------------------------------------------------------
(* Stocktakes and returns                                                  *)

Stocktake(t) == Document("stocktakes", t)
StocktakeLines(t) == Lines("stocktake_lines", t, ItemsOf[t])

UpdateStocktakeDraft(t) ==
    Command("UPDATE_STOCKTAKE_DRAFT", t) \o Mutexes(ItemsOf[t]) \o Stocktake(t)
    \o StocktakeLines(t) \o Each(ItemsOf[t], LAMBDA i : Balance(i))

\* Mutant: the balances are locked under no mutex.
PostStocktakeUnguarded(t) ==
    Command("POST_STOCKTAKE", t) \o Stocktake(t) \o StocktakeLines(t)
    \o Each(ItemsOf[t], LAMBDA i : Balance(i))
    \o Each(ItemsOf[t], LAMBDA i : Reservations(i))
PostStocktake(t) ==
    Command("POST_STOCKTAKE", t) \o Mutexes(ItemsOf[t]) \o Stocktake(t)
    \o StocktakeLines(t) \o Each(ItemsOf[t], LAMBDA i : Balance(i))
    \o Each(ItemsOf[t], LAMBDA i : Reservations(i))

\* A count below what is reserved also takes the other reservations of every
\* request it uncovers, whose items it has no mutex of, and the requests.
PostStocktakeShortage(t, short) ==
    PostStocktake(t)
    \o Each(short, LAMBDA i :
         LET affected == {r \in Requests : i \in ItemsOf[r]}
         IN  Each(affected, LAMBDA r : Each(ItemsOf[r], LAMBDA j : Reservation(r, j)))
             \o Each(affected, LAMBDA r : Request(r)))

PostReturnNote(n) ==
    Command("POST_RETURN_NOTE", n) \o Mutexes(ItemsOf[n])
    \o Document("return_notes", n) \o Request(Returned[n])
    \o Lines("return_lines", n, ItemsOf[n]) \o Each(ItemsOf[n], LAMBDA i : Balance(i))

-----------------------------------------------------------------------------
(* The global order of data-model.md:601-610: commands, mutexes by item,   *)
(* source documents, then rows.  The code does not take the rows in one    *)
(* order; what it does keep is that only holders of a mutex, or of their   *)
(* document, lock them.  Two commands come later than documented, under a  *)
(* lock that is always taken before them.                                  *)

AllLocks == UNION {Range(p) : p \in Programs}

ItemGuarded == {"inventory_balances", "inventory_reservations"}
DocumentOf == [
    hr_request_items |-> "hr_requests",
    warehouse_shipments |-> "hr_requests",
    warehouse_shipment_lines |-> "hr_requests",
    replenishment_request_lines |-> "replenishment_requests",
    stocktake_lines |-> "stocktakes",
    return_lines |-> "return_notes"]

RpcGuard ==
    [l \in {m \in AllLocks :
              m.table \in ItemGuarded \cup DOMAIN DocumentOf \cup {NestedSubmit, LateCommand}} |->
        CASE l.table \in ItemGuarded -> Mutex(l.item)
          [] l.table \in DOMAIN DocumentOf -> Row(DocumentOf[l.table], l.doc, 0)
          [] l.table = NestedSubmit -> Row("UPDATE_HR_REQUEST_DRAFT", l.doc, 0)
          [] l.table = LateCommand -> Mutex(Min(ItemsOf[l.doc]))]

RpcRank ==
    [l \in AllLocks |->
        CASE l.table = "inventory_item_locks" -> l.item
          [] l.table \in {"replenishment_requests", "stocktakes", "return_notes"} -> Max(Items) + 1
          [] l.table = "hr_requests" -> Max(Items) + 2
          [] OTHER -> 0]
=============================================================================
