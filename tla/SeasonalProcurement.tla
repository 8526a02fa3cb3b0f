------------------------ MODULE SeasonalProcurement ------------------------
(***************************************************************************)
(* A season from demand to stock: SeasonalApproval hands the approved      *)
(* quantity to Procurement, whose receipts are entered at desks of the     *)
(* warehouse (PurchaseReceiptPanel).  What a desk shows of a draft and what*)
(* the database holds of it are two things.                                *)
(*                                                                         *)
(* Answers are not lost here: what a panel makes of that is in             *)
(* HrSubmission, Stocktake and CorrectionPanel.                            *)
(***************************************************************************)
EXTENDS SeasonalApproval, Procurement

CONSTANT Desk

VARIABLE form   \* form[k]: what the panel at desk k shows

purchaseVars == <<purchase, form>>
vars == <<campaign, approval, ceo, purchase, form>>

Blank == [order |-> Nobody, receipt |-> None, entry |-> NoEntry, posted |-> FALSE]

Init == ApprovalInit /\ PurchaseInit /\ form = [k \in Desk |-> Blank]

-----------------------------------------------------------------------------
Show(k, v) == form' = [form EXCEPT ![k] = v]
Unused == {r \in Receipt : purchase.receipt[r].status = "NONE"}

\* chooseOrder, chooseLine: not while a receipt is shown.
ChooseOrder(k, o) ==
  /\ form[k].receipt = None /\ form[k].order # o
  /\ purchase.order[o].status \in Open
  /\ Show(k, [Blank EXCEPT !.order = o]) /\ UNCHANGED purchase

\* The quantities may be changed until the receipt is shown as posted.
Enter(k, e) ==
  /\ form[k].order # Nobody /\ ~form[k].posted /\ form[k].entry # e
  /\ Show(k, [form[k] EXCEPT !.entry = e]) /\ UNCHANGED purchase

\* createDraft
CreateDraft(k) ==
  \E r \in Unused :
    /\ form[k].order # Nobody /\ form[k].receipt = None
    /\ CanDraft(purchase, r, form[k].order)
    /\ Becomes(Drafted(purchase, r, form[k].order, form[k].entry))
    /\ Show(k, [form[k] EXCEPT !.receipt = r])

\* updateDraft
UpdateDraft(k) ==
  /\ form[k].receipt # None /\ ~form[k].posted
  /\ CanUpdate(purchase, form[k].receipt)
  /\ Becomes(Updated(purchase, form[k].receipt, form[k].entry))
  /\ UNCHANGED form

\* completeReceipt of what has not been saved: complete_purchase_receipt.
CompleteNew(k) ==
  \E r \in Unused :
    /\ form[k].order # Nobody /\ form[k].receipt = None /\ Balanced(form[k].entry)
    /\ CanDraft(purchase, r, form[k].order)
    /\ LET drafted == Drafted(purchase, r, form[k].order, form[k].entry)
       IN  CanPost(drafted, r) /\ Becomes(Posted(drafted, r))
    /\ Show(k, [form[k] EXCEPT !.receipt = r, !.posted = TRUE])

\* completeReceipt of a draft: the button looks at the screen, the database
\* at what was saved.
CompleteDraft(k) ==
  /\ form[k].receipt # None /\ ~form[k].posted /\ Balanced(form[k].entry)
  /\ CanPost(purchase, form[k].receipt)
  /\ Becomes(Posted(purchase, form[k].receipt))
  /\ Show(k, [form[k] EXCEPT !.posted = TRUE])

\* startNextReceipt
StartNext(k) == form[k].posted /\ Show(k, Blank) /\ UNCHANGED purchase

DeskStep(k) ==
  \/ \E o \in Order : ChooseOrder(k, o)
  \/ \E e \in Entry : Enter(k, e)
  \/ CreateDraft(k) \/ UpdateDraft(k) \/ CompleteNew(k) \/ CompleteDraft(k) \/ StartNext(k)

PurchaseStep ==
  \/ \E q \in Quantity :
       \/ approval # None /\ Decide(q)
       \/ ChangeLimit(q)
       \/ \E o \in Order : CreateOrder(o, q) \/ ChangeQuantity(o, q)
  \/ \E o \in Order : EndOrder(o)
  \/ \E r \in Receipt, c \in Change : CorrectReceipt(r, c)
  \/ Ship

Next ==
  \/ ApprovalNext /\ UNCHANGED purchaseVars
  \/ PurchaseStep /\ UNCHANGED approvalVars /\ UNCHANGED form
  \/ \E k \in Desk : DeskStep(k) /\ UNCHANGED approvalVars

Spec == Init /\ [][Next]_vars

-----------------------------------------------------------------------------
(* Properties                                                              *)

OrderStatus == Open \cup Ended \cup {"NONE", "RECEIVED"}
Quantities(T) == [delivered : T, accepted : T, rejected : T]

ReceiptRow ==
  [status : {"NONE", "DRAFT", "POSTED"}, order : Order \cup {Nobody},
   entry : Quantities(Nat), corrected : Quantities(Int)]

Purchase ==
  [limit : Quantity \cup {Nobody},
   order : [Order -> [status : OrderStatus, quantity : Nat]],
   receipt : [Receipt -> ReceiptRow],
   general : Nat, changes : 0 .. MaxChanges, added : BOOLEAN]

(* The types of the tables and of the panels.                              *)
TypeOK ==
  /\ campaign \in
       [status : {"OPEN", "HR_REVIEW", "PENDING_APPROVAL", "APPROVED"}, demand : Demand,
        submissions : Seq([status : {"PENDING", "RETURNED", "APPROVED"}, demand : Demand])]
  /\ approval \in [of : Revisions, quantity : Demand, shown : Demand] \cup {None}
  /\ ceo \in [Screen -> [queue : SUBSET Revisions, selected : Revisions \cup {None},
                         lines : Demand \cup {None}]]
  /\ purchase \in Purchase
  /\ form \in [Desk -> [order : Order \cup {Nobody}, receipt : Receipt \cup {None},
                        entry : Entry \cup {NoEntry}, posted : BOOLEAN]]
=============================================================================
