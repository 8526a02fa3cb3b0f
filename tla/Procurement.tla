---------------------------- MODULE Procurement ----------------------------
(***************************************************************************)
(* Buying what was approved: the decision, the purchase limit, orders,     *)
(* receipts and their corrections (migrations 0008, 0010, 0022 to 0024,    *)
(* 0049, 0126, 0143) on one item of one season.                            *)
(*                                                                         *)
(* Each transaction locks the orders, the decision and the order lines,    *)
(* and is one step.  An order has one line.  What a correction does to     *)
(* reservations is in CorrectionPosting.                                   *)
(*                                                                         *)
(* A definition commented "Mutant" is no part of the specification: it is  *)
(* the next definition with a bug in it, which a run must tell apart.      *)
(***************************************************************************)
EXTENDS Integers, FiniteSets, Functions

CONSTANTS
  Order, Receipt,
  Quantity,   \* quantities that are decided, ordered, or set as the limit
  Entry,      \* [delivered, accepted, rejected]: what is entered of a delivery
  Change,     \* the same, as differences: what a correction enters
  Minimum,    \* minimum_order_quantity of the supplier, 0 for none
  Nobody,     \* no decision yet, no order
  MaxChanges  \* bound: receipt corrections

ASSUME ProcurementConstants ==
  /\ IsFiniteSet(Order) /\ IsFiniteSet(Receipt)
  /\ Nobody \notin Order /\ Nobody \notin Quantity
  /\ Quantity \subseteq Nat /\ {Minimum, MaxChanges} \subseteq Nat
  /\ Entry \subseteq [delivered : Nat, accepted : Nat, rejected : Nat]
  /\ Change \subseteq [delivered : Int, accepted : Int, rejected : Int]

VARIABLE purchase   \* the database: see PurchaseInit; added is history, whether
                    \* a correction has ever added to what was accepted

NoEntry == [delivered |-> 0, accepted |-> 0, rejected |-> 0]
NoReceipt == [status |-> "NONE", order |-> Nobody, entry |-> NoEntry, corrected |-> NoEntry]

PurchaseInit ==
  purchase = [limit |-> Nobody,
              order |-> [o \in Order |-> [status |-> "NONE", quantity |-> 0]],
              receipt |-> [r \in Receipt |-> NoReceipt],
              general |-> 0, changes |-> 0, added |-> FALSE]

Open == {"ORDERED", "PARTIALLY_RECEIVED", "REOPENED"}
Ended == {"CANCELLED", "CLOSED_SHORT"}

-----------------------------------------------------------------------------
(* What has been received and what is allocated                            *)

PostedTo(d, o) == {r \in Receipt : d.receipt[r].status = "POSTED" /\ d.receipt[r].order = o}

\* As it was posted, and as it has been corrected.
AcceptedAtFirst(d, o) == SumFunctionOnSet([r \in Receipt |-> d.receipt[r].entry.accepted], PostedTo(d, o))
Accepted(d, o) ==
  SumFunctionOnSet([r \in Receipt |-> d.receipt[r].entry.accepted + d.receipt[r].corrected.accepted],
                   PostedTo(d, o))
Delivered(d, o) ==
  SumFunctionOnSet([r \in Receipt |-> d.receipt[r].entry.delivered + d.receipt[r].corrected.delivered],
                   PostedTo(d, o))

\* What an order takes of the limit, if a closed one takes closed[o].
Takes(d, o, closed) ==
  CASE d.order[o].status \in {"NONE", "CANCELLED"} -> 0
    [] d.order[o].status = "CLOSED_SHORT" -> closed
    [] OTHER -> d.order[o].quantity
\* Mutant: an order that was closed short is as if it had been cancelled.
AllocatedToOpen(d) == SumFunction([o \in Order |-> Takes(d, o, 0)])
\* As it is counted for orders and limits: without the corrections of what
\* was closed short.
Allocated(d) == SumFunction([o \in Order |-> Takes(d, o, AcceptedAtFirst(d, o))])
\* As it is counted for a correction.
AllocatedAsCorrected(d) == SumFunction([o \in Order |-> Takes(d, o, Accepted(d, o))])

Complete(d, o) == Accepted(d, o) >= d.order[o].quantity

-----------------------------------------------------------------------------
(* Purchasing                                                              *)

Becomes(d) == purchase' = d

\* set_seasonal_procurement_line, once; a difference has a reason.
Decide(q) ==
  /\ purchase.limit = Nobody
  /\ q = 0 \/ q >= Minimum
  /\ Becomes([purchase EXCEPT !.limit = q])

\* change_seasonal_purchase_limit
ChangeLimit(q) ==
  /\ purchase.limit # Nobody /\ q # purchase.limit
  /\ Allocated(purchase) <= q
  /\ Becomes([purchase EXCEPT !.limit = q])

\* create_purchase_order
CreateOrder(o, q) ==
  /\ purchase.limit # Nobody /\ q > 0
  /\ purchase.order[o].status = "NONE"
  /\ Allocated(purchase) + q <= purchase.limit
  /\ Becomes([purchase EXCEPT !.order[o] = [status |-> "ORDERED", quantity |-> q]])

\* change_purchase_order_quantity
ChangeQuantity(o, q) ==
  LET changed == [purchase EXCEPT !.order[o].quantity = q]
      status == purchase.order[o].status
  IN  /\ q > 0 /\ status \notin Ended \cup {"NONE"}
      /\ Accepted(purchase, o) <= q
      /\ Allocated(changed) <= purchase.limit
      /\ Becomes([changed EXCEPT !.order[o].status =
           IF status = "RECEIVED" /\ q > Accepted(purchase, o) THEN "REOPENED"
           ELSE IF q = Accepted(purchase, o) THEN "RECEIVED" ELSE @])

\* cancel_purchase_order and close_purchase_order_short: the one without, the
\* other with a posted receipt.
EndOrder(o) ==
  /\ purchase.order[o].status \in Open
  /\ Becomes([purchase EXCEPT !.order[o].status =
       IF PostedTo(purchase, o) = {} THEN "CANCELLED" ELSE "CLOSED_SHORT"])

-----------------------------------------------------------------------------
(* Receipts: may a transaction happen, and what becomes of the database.   *)

Balanced(e) == e.delivered > 0 /\ e.accepted + e.rejected = e.delivered

\* create_purchase_receipt_draft
CanDraft(d, r, o) == d.receipt[r].status = "NONE" /\ d.order[o].status \in Open
Drafted(d, r, o, e) ==
  [d EXCEPT !.receipt[r] = [status |-> "DRAFT", order |-> o, entry |-> e, corrected |-> NoEntry]]

\* update_purchase_receipt_draft
CanUpdate(d, r) ==
  d.receipt[r].status = "DRAFT" /\ d.order[d.receipt[r].order].status \in Open
Updated(d, r, e) == [d EXCEPT !.receipt[r].entry = e]

\* Mutant: an order that has ended meanwhile is not noticed.
OpenUnlessReceived(d, o) == d.order[o].status # "RECEIVED"
OpenForReceipt(d, o) == d.order[o].status \in Open

\* Mutant: corrections that have taken back are not looked at, see 0143.
ProgressAtFirst(d, o) == IF AcceptedAtFirst(d, o) < d.order[o].quantity THEN "PARTIALLY_RECEIVED" ELSE "RECEIVED"
Progress(d, o) == IF Complete(d, o) THEN "RECEIVED" ELSE "PARTIALLY_RECEIVED"

\* post_purchase_receipt
CanPost(d, r) ==
  LET o == d.receipt[r].order
      e == d.receipt[r].entry
  IN  /\ d.receipt[r].status = "DRAFT" /\ Balanced(e)
      /\ OpenForReceipt(d, o)
      /\ e.accepted <= d.order[o].quantity - Accepted(d, o)
      /\ e.delivered <= d.order[o].quantity - Delivered(d, o)
Posted(d, r) ==
  LET o == d.receipt[r].order
      moved == [d EXCEPT !.receipt[r].status = "POSTED", !.general = @ + d.receipt[r].entry.accepted]
  IN  [moved EXCEPT !.order[o].status = Progress(moved, o)]

\* Mutant: stock that is there no more is taken back.
InStockAnyway(general) == TRUE
InStock(general) == general >= 0

\* post_purchase_receipt_correction: the line that is corrected is held
\* against the order, the others that were received for it are not.
CorrectReceipt(r, c) ==
  LET x == purchase.receipt[r]
      o == x.order
      new == [f \in DOMAIN c |-> x.entry[f] + x.corrected[f] + c[f]]
      corrected == [purchase EXCEPT !.general = @ + c.accepted, !.changes = @ + 1, !.added = @ \/ c.accepted > 0,
                      !.receipt[r].corrected = [f \in DOMAIN c |-> @[f] + c[f]]]
      status == purchase.order[o].status
  IN  /\ purchase.changes < MaxChanges
      /\ x.status = "POSTED" /\ status # "CANCELLED"
      /\ \A f \in DOMAIN new : new[f] >= 0
      /\ new.accepted + new.rejected = new.delivered
      /\ new.accepted <= purchase.order[o].quantity
      /\ InStock(corrected.general)
      /\ AllocatedAsCorrected(corrected) <= purchase.limit
      /\ Becomes([corrected EXCEPT !.order[o].status =
           IF status = "CLOSED_SHORT" THEN @
           ELSE IF Complete(corrected, o) THEN "RECEIVED"
           ELSE IF status = "RECEIVED" THEN "REOPENED" ELSE "PARTIALLY_RECEIVED"])

\* A shipment takes from the GENERAL warehouse.
Ship ==
  /\ purchase.general > 0
  /\ Becomes([purchase EXCEPT !.general = @ - 1])

-----------------------------------------------------------------------------
(* Properties                                                              *)

(* An order that has not ended is RECEIVED when, and only when, all that is*)
(* ordered has been accepted, as corrected, whichever of an order, a       *)
(* receipt, a correction or a change of quantity came last.                *)
OrderTellsProgress ==
  \A o \in Order : purchase.order[o].status \notin Ended \cup {"NONE"} =>
    (purchase.order[o].status = "RECEIVED" <=> Complete(purchase, o))

(* AC-31: what has ended stays so and receives nothing more, though a draft*)
(* of a receipt may be waiting; what is cancelled has received nothing.    *)
EndIsFinal ==
  [][\A o \in Order :
       /\ (purchase.order[o].status \in Ended =>
             /\ purchase'.order[o] = purchase.order[o]
             /\ PostedTo(purchase', o) = PostedTo(purchase, o))
       /\ (purchase'.order[o].status = "CANCELLED" => PostedTo(purchase', o) = {})]_purchase

(* AC-30: no more is accepted of an order than was ordered.  The code does *)
(* not keep it: a correction looks at its own receipt only.                *)
AcceptedWithinOrdered ==
  \A o \in Order : Accepted(purchase, o) <= purchase.order[o].quantity

(* AC-30 and AC-32, as far as they are kept: as long as corrections only   *)
(* take back, no more is accepted than was ordered, and all orders         *)
(* together, those closed short by what was accepted, stay within the      *)
(* limit, whatever is changed, ended, posted or corrected in between.      *)
WithinOrderAndLimit ==
  ~purchase.added =>
    /\ AcceptedWithinOrdered
    /\ purchase.limit # Nobody => AllocatedAsCorrected(purchase) <= purchase.limit
=============================================================================
