------------------------- MODULE CorrectionPosting -------------------------
(***************************************************************************)
(* Corrections of posted documents: the transactions of migrations 0049 to *)
(* 0055 and 0131, with the returns of 0005, on one item.  The five kinds   *)
(* share their tables, their numbers and the stock; each has its own rule  *)
(* for what a source line may come to and for the stock it changes.        *)
(*                                                                         *)
(* One transaction is one step: each takes the mutex of the item.  A       *)
(* purchase line is delivered as it is accepted, and its order stays open; *)
(* a stocktake counted the HR warehouse.  correction_no is unique over all *)
(* kinds; the numbers of two kinds differ here, as the numbers of their    *)
(* source documents do, from which the panels take them.                   *)
(*                                                                         *)
(* A definition commented "Mutant" is no part of the specification: it is  *)
(* the next definition with a bug in it, which a run must tell apart.      *)
(***************************************************************************)
EXTENDS Integers, FiniteSets, Functions

CONSTANTS
  Kind,      \* the kinds of correction there are
  Line,      \* source lines: of an issue and its return, a shipment, an order
  Request,   \* HR requests, each of which reserves one
  Delta,     \* differences that are entered
  Original,  \* Original[l]: what the source line says
  Limit,     \* Limit[l]: what was asked of the warehouse or of the supplier
  Back,      \* Back[l]: of an issued line, what has been returned
  OnHand,    \* [hr, general]: the stock there is
  None,
  MaxNo,     \* bound: correction numbers of a kind
  MaxNotes,  \* bound: corrections there ever are
  MaxReturns \* bound: returned pieces of a line

No == Kind \X (1 .. MaxNo)

ASSUME CorrectionConstants ==
  /\ Kind \subseteq {"HR_ISSUE", "RETURN", "WAREHOUSE_TRANSFER", "PURCHASE_RECEIPT", "STOCKTAKE"}
  /\ Delta \subseteq Int \ {0}
  /\ {Original, Limit, Back} \subseteq [Line -> Nat]
  /\ \A l \in Line : Back[l] <= Original[l] /\ Original[l] <= Limit[l]
  /\ OnHand \in [hr : Nat, general : Nat] /\ IsFiniteSet(Request)
  /\ {MaxNo, MaxNotes, MaxReturns} \subseteq Nat

VARIABLE db   \* the database: see Init

NoNote == [status |-> "NONE", line |-> None, delta |-> 0]

OrderStatus(accepted, l) == IF accepted < Limit[l] THEN "PARTIALLY_RECEIVED" ELSE "RECEIVED"

Init ==
  db = [stock |-> OnHand,
        returned |-> Back,
        note |-> [n \in No |-> NoNote],
        order |-> [l \in Line |-> OrderStatus(Original[l], l)],
        request |-> [r \in Request |-> "DRAFT"]]

-----------------------------------------------------------------------------
(* What the source lines come to                                           *)

PostedNotes(d, k, l) ==
  {n \in No : n[1] = k /\ d.note[n].status = "POSTED" /\ d.note[n].line = l}
Corrected(d, k, l) == SumFunctionOnSet([n \in No |-> d.note[n].delta], PostedNotes(d, k, l))

Effective(d, k, l) == Original[l] + Corrected(d, k, l)
EffectiveReturned(d, l) == d.returned[l] + Corrected(d, "RETURN", l)

Combined(d) == d.stock.hr + d.stock.general
Reserved(d) == Cardinality({r \in Request : d.request[r] = "SUBMITTED"})

\* What one piece of a difference does to the stock of each warehouse.
Effect(k) ==
  CASE k = "HR_ISSUE" -> [hr |-> -1, general |-> 0]
    [] k = "WAREHOUSE_TRANSFER" -> [hr |-> 1, general |-> -1]
    [] k = "PURCHASE_RECEIPT" -> [hr |-> 0, general |-> 1]
    [] OTHER -> [hr |-> 1, general |-> 0]

StockAfter(d, k, delta) ==
  [hr |-> d.stock.hr + Effect(k).hr * delta, general |-> d.stock.general + Effect(k).general * delta]

\* Mutant: what earlier corrections have added is forgotten.
AllowedOfOriginal(d, k, l, delta) ==
  LET new == Original[l] + delta
  IN  CASE k = "HR_ISSUE" -> new >= 0 /\ EffectiveReturned(d, l) <= new
        [] k = "RETURN" -> d.returned[l] + delta \in 0 .. Original[l]
        [] k = "STOCKTAKE" -> Original[l] + delta >= 0
        [] OTHER -> new \in 0 .. Limit[l]
\* What a line may come to.  A return is held against the issue as it was
\* first posted, a count against the first count.
Allowed(d, k, l, delta) ==
  LET new == Effective(d, k, l) + delta
  IN  CASE k = "HR_ISSUE" -> new >= 0 /\ EffectiveReturned(d, l) <= new
        [] k = "RETURN" -> EffectiveReturned(d, l) + delta \in 0 .. Original[l]
        [] k = "STOCKTAKE" -> Original[l] + delta >= 0
        [] OTHER -> new \in 0 .. Limit[l]

\* Mutant: a late reservation is not looked at.
IssueIsCovered(d, k, delta) == TRUE
\* An issue that grows takes no reserved stock; others may, see Uncovered.
IssueCovered(d, k, delta) == k = "HR_ISSUE" => Combined(d) - delta >= Reserved(d)

\* Every reservation of the item is CONFLICTED at once, and its request goes
\* to review.
Uncovered(d, k) ==
  IF k \in {"HR_ISSUE", "WAREHOUSE_TRANSFER"} \/ Combined(d) >= Reserved(d) THEN d
  ELSE [d EXCEPT !.request = [r \in Request |->
          IF @[r] = "SUBMITTED" THEN "INVENTORY_REVIEW_REQUIRED" ELSE @[r]]]

\* Mutant: only the HR warehouse is looked at.
HrInStock(stock) == stock.hr >= 0
InStock(stock) == stock.hr >= 0 /\ stock.general >= 0

\* Mutant: an order is only ever found complete.
CompletedOrders(d, k, l) ==
  IF k = "PURCHASE_RECEIPT" /\ Effective(d, k, l) >= Limit[l]
    THEN [d EXCEPT !.order[l] = "RECEIVED"] ELSE d
\* A received order that is short again is REOPENED.
Reconciled(d, k, l) ==
  IF k # "PURCHASE_RECEIPT" THEN d
  ELSE [d EXCEPT !.order[l] =
          IF Effective(d, k, l) >= Limit[l] THEN "RECEIVED"
          ELSE IF @ = "RECEIVED" THEN "REOPENED" ELSE "PARTIALLY_RECEIVED"]

-----------------------------------------------------------------------------
(* The transactions: may they happen, and what becomes of the database.    *)

CanCreate(d, n) == d.note[n].status = "NONE"

Created(d, n, l, delta) == [d EXCEPT !.note[n] = [status |-> "DRAFT", line |-> l, delta |-> delta]]

CanPost(d, n) ==
  LET x == d.note[n]
  IN  /\ x.status = "DRAFT"
      /\ Allowed(d, n[1], x.line, x.delta)
      /\ IssueCovered(d, n[1], x.delta)
      /\ InStock(StockAfter(d, n[1], x.delta))

Posted(d, n) ==
  LET k == n[1]
      x == d.note[n]
      moved == [d EXCEPT !.note[n].status = "POSTED", !.stock = StockAfter(d, k, x.delta)]
  IN  Reconciled(Uncovered(moved, k), k, x.line)

-----------------------------------------------------------------------------
MoreNotes == Cardinality({n \in No : db.note[n].status # "NONE"}) < MaxNotes

Create(n, l, delta) == MoreNotes /\ CanCreate(db, n) /\ db' = Created(db, n, l, delta)

Post(n) == CanPost(db, n) /\ db' = Posted(db, n)

\* complete_*_correction: both, or neither.
Complete(n, l, delta) ==
  /\ MoreNotes /\ CanCreate(db, n)
  /\ CanPost(Created(db, n, l, delta), n)
  /\ db' = Posted(Created(db, n, l, delta), n)

\* post_return_note: more of an issued line comes back.
PostReturn(l) ==
  /\ db.returned[l] < MaxReturns
  /\ db.returned[l] + 1 <= Original[l]
  /\ db' = [db EXCEPT !.returned[l] = @ + 1, !.stock.hr = @ + 1]

\* submit_hr_request: one is reserved where one is left.
Submit(r) ==
  /\ db.request[r] = "DRAFT" /\ Reserved(db) < Combined(db)
  /\ db' = [db EXCEPT !.request[r] = "SUBMITTED"]

Next ==
  \/ \E n \in No, l \in Line, delta \in Delta : Create(n, l, delta) \/ Complete(n, l, delta)
  \/ \E n \in No : Post(n)
  \/ \E l \in Line : PostReturn(l)
  \/ \E r \in Request : Submit(r)

Spec == Init /\ [][Next]_db

-----------------------------------------------------------------------------
(* Properties                                                              *)

Database ==
  [stock : [hr : Nat, general : Nat],
   returned : [Line -> Nat],
   note : [No -> {NoNote} \cup [status : {"DRAFT", "POSTED"}, line : Line, delta : Delta]],
   order : [Line -> {"PARTIALLY_RECEIVED", "RECEIVED", "REOPENED"}],
   request : [Request -> {"DRAFT", "SUBMITTED", "INVENTORY_REVIEW_REQUIRED"}]]

(* The types of the tables.                                                *)
TypeOK == db \in Database

(* With all that has been posted, drafted in whatever order: of a line that*)
(* was issued, neither the issue nor what of it came back is less than     *)
(* nothing, and what was moved or received is neither that nor more than   *)
(* was asked for.  No more is said: an issue has no upper bound, counts are*)
(* each corrected from the first count, and ReturnedWithinIssued fails.    *)
EffectiveWithinLimits ==
  \A l \in Line :
    /\ Effective(db, "HR_ISSUE", l) >= 0 /\ EffectiveReturned(db, l) >= 0
    /\ \A k \in {"WAREHOUSE_TRANSFER", "PURCHASE_RECEIPT"} : Effective(db, k, l) \in 0 .. Limit[l]

(* AC-29: no more of an issued line has come back than was issued, both as *)
(* corrected.  The code does not keep it: returns and their corrections    *)
(* look at the issue as it was first posted.                               *)
ReturnedWithinIssued ==
  \A l \in Line : EffectiveReturned(db, l) <= Effective(db, "HR_ISSUE", l)

(* The stock covers what is reserved, after a correction of any kind: one  *)
(* that takes more sends every request it leaves uncovered to review.      *)
ReservationsCovered == Reserved(db) <= Combined(db)

(* An order is RECEIVED when, and only when, its corrected receipt is all  *)
(* that was ordered.                                                       *)
OrderTellsReceipt ==
  \A l \in Line :
    db.order[l] = "RECEIVED" <=> Effective(db, "PURCHASE_RECEIPT", l) >= Limit[l]
=============================================================================
