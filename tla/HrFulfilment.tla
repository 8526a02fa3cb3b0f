---------------------------- MODULE HrFulfilment ----------------------------
(***************************************************************************)
(* From an HR request to the posted shipment: the RPCs that draft, submit, *)
(* revise and cancel an HR request, prepare its warehouse shipment and     *)
(* post it, with the reservations and the stock they move.                 *)
(*                                                                         *)
(* Every RPC is one PostgreSQL transaction.  Those that read the request   *)
(* before they hold its row lock, and compare what they read once they do, *)
(* are two steps: Begin is the unlocked read, Commit is everything from    *)
(* the row lock to COMMIT.  Any other session may commit in between.  A    *)
(* transaction that does not commit leaves nothing behind (Abort).         *)
(*                                                                         *)
(* TwoStage = FALSE is the schema up to migration 0132, TRUE the schema    *)
(* with 0136 applied.                                                      *)
(*                                                                         *)
(* A definition commented "Mutant" is no part of the specification: it is  *)
(* the next definition with a bug in it, which a run must tell apart.      *)
(***************************************************************************)
EXTENDS Inventory, FiniteSets, Functions

CONSTANTS
    Requests,   \* hr_requests.id, drafted or not yet
    Accounts,   \* app accounts with the HR role
    Sessions,   \* database sessions running RPCs
    Keys,       \* idempotency keys the clients draw from: they bound a run
    Payloads,   \* item rows a client may send with a request
    Edits,      \* line edits a warehouse client may send for a shipment
    TwoStage    \* is migration 0136 applied?

Row == [issue : Nat, increase : Nat]
NoRow == [issue |-> 0, increase |-> 0]
Line == [requested : Nat, general : Nat, maximum : Nat, actual : Nat, short : BOOLEAN]
NoLine == [requested |-> 0, general |-> 0, maximum |-> 0, actual |-> 0, short |-> FALSE]

ASSUME RequestsAssumption == IsFiniteSet(Requests)
ASSUME PayloadsAssumption ==
    \A p \in Payloads : p \in [Items -> Row] /\ \E i \in Items : p[i] # NoRow
ASSUME EditsAssumption == Edits \subseteq [Items -> [actual : Nat, short : BOOLEAN]]
ASSUME TwoStageAssumption == TwoStage \in BOOLEAN

RequestStatuses ==
    {"DRAFT", "SUBMITTED", "INVENTORY_REVIEW_REQUIRED", "SHIPPED", "CANCELLED"}
Open == {"SUBMITTED", "INVENTORY_REVIEW_REQUIRED"}
ReservationStatuses == {"NONE", "ACTIVE", "CLOSED", "RELEASED", "CONFLICTED"}
Absent == "NONE"            \* the row does not exist

VARIABLES
    status,       \* hr_requests.status, or Absent
    owner,        \* hr_requests.created_by
    rowVersion,   \* hr_requests.row_version
    rows,         \* hr_request_items: NoRow where the request has no row
    reservation,  \* inventory_reservations, one per request and item
    shipment,     \* warehouse_shipments and its lines, one per request
    commands,     \* succeeded operation_commands, as <<operation, key>>
    call          \* what each session has read so far in its open RPC

requestVars == <<status, owner, rowVersion, rows, reservation, shipment>>
vars == <<requestVars, commands, call, inventoryVars>>

NoReservation == [status |-> Absent, quantity |-> 0]
NoShipment == [status |-> Absent, version |-> 0, lines |-> [i \in Items |-> NoLine]]
Idle == [op |-> "IDLE"]

Init ==
    /\ InventoryInit
    /\ status = [r \in Requests |-> Absent]
    /\ owner = [r \in Requests |-> Absent]
    /\ rowVersion = [r \in Requests |-> 0]
    /\ rows = [r \in Requests |-> [i \in Items |-> NoRow]]
    /\ reservation = [r \in Requests |-> [i \in Items |-> NoReservation]]
    /\ shipment = [r \in Requests |-> NoShipment]
    /\ commands = {}
    /\ call = [s \in Sessions |-> Idle]

-----------------------------------------------------------------------------
(* What the RPCs read                                                      *)

ItemsOf(p) == {i \in Items : p[i] # NoRow}
ItemSet(r) == ItemsOf(rows[r])

\* hr_request_items.requested_transfer_quantity, a generated column ...
\* Mutant: the increase with the wrong sign.
IncreaseNegated(row) == row.issue - row.increase
GeneratedTransfer(row) == row.issue + row.increase
\* ... that 0136 turns into a value its trigger writes.
TriggeredTransfer(row) == row.increase
RequestedTransfer(row) ==
    IF TwoStage THEN TriggeredTransfer(row) ELSE GeneratedTransfer(row)

ActiveQuantity(r, i) ==
    IF reservation[r][i].status = "ACTIVE" THEN reservation[r][i].quantity ELSE 0
ActiveReserved(rs, i) == SumFunctionOnSet([r \in Requests |-> ActiveQuantity(r, i)], rs)

\* Stock of item i that no request other than those of `but` has reserved.
Available(but, i) == CombinedOnHand(i) - ActiveReserved(Requests \ but, i)

-----------------------------------------------------------------------------
(* The operation command: a key is claimed once per operation.  A second   *)
(* insert of a key in flight waits for the first transaction to end; of a  *)
(* key that succeeded, it answers with the stored result and does nothing. *)

Free(op, k) ==
    /\ <<op, k>> \notin commands
    /\ \A s \in Sessions : call[s].op = op => call[s].key # k

Succeed(op, k) == commands' = commands \cup {<<op, k>>}

Replay(op, k) ==
    /\ <<op, k>> \in commands
    /\ UNCHANGED vars

-----------------------------------------------------------------------------
(* Drafting                                                                *)

CreateRequestDraft(r, a, p, k) ==
    /\ status[r] = Absent
    /\ Free("CREATE_HR_REQUEST_DRAFT", k)
    /\ status' = [status EXCEPT ![r] = "DRAFT"]
    /\ owner' = [owner EXCEPT ![r] = a]
    /\ rows' = [rows EXCEPT ![r] = p]
    /\ Succeed("CREATE_HR_REQUEST_DRAFT", k)
    /\ UNCHANGED <<rowVersion, reservation, shipment, call, inventoryVars>>

UpdateRequestDraft(r, a, p, k) ==
    /\ owner[r] = a
    /\ status[r] = "DRAFT"
    /\ Free("UPDATE_HR_REQUEST_DRAFT", k)
    /\ rows' = [rows EXCEPT ![r] = p]
    /\ rowVersion' = [rowVersion EXCEPT ![r] = @ + 1]
    /\ Succeed("UPDATE_HR_REQUEST_DRAFT", k)
    /\ UNCHANGED <<status, owner, reservation, shipment, call, inventoryVars>>

-----------------------------------------------------------------------------
(* Submitting reserves the combined stock of both warehouses.              *)

BeginSubmit(s, r, a, k) ==
    /\ call[s] = Idle
    /\ Free("SUBMIT_HR_REQUEST", k)
    /\ ItemSet(r) # {}
    /\ call' = [call EXCEPT ![s] =
         [op |-> "SUBMIT_HR_REQUEST", key |-> k, req |-> r, actor |-> a,
          seen |-> ItemSet(r)]]
    /\ UNCHANGED <<requestVars, commands, inventoryVars>>

\* The item rows are still those whose mutexes the call has taken.
\* Mutant: they are not compared again.
SameItemsAssumed(r, seen) == seen \subseteq Items
SameItems(r, seen) == ItemSet(r) = seen

\* Every row is within what is available, and the insert of its reservation
\* finds none of the same request and item.
SubmitAccepted(r, p) ==
    \A i \in ItemsOf(p) :
        /\ RequestedTransfer(p[i]) <= Available({}, i)
        /\ reservation[r][i] = NoReservation

Reserve(r, p) == [i \in Items |->
    IF i \in ItemsOf(p)
      THEN [status |-> "ACTIVE", quantity |-> RequestedTransfer(p[i])]
      ELSE reservation[r][i]]

CommitSubmit(s) ==
    LET c == call[s]
        r == c.req
    IN  /\ c.op = "SUBMIT_HR_REQUEST"
        /\ owner[r] = c.actor
        /\ status[r] = "DRAFT"
        /\ SameItems(r, c.seen)
        /\ SubmitAccepted(r, rows[r])
        /\ reservation' = [reservation EXCEPT ![r] = Reserve(r, rows[r])]
        /\ status' = [status EXCEPT ![r] = "SUBMITTED"]
        /\ rowVersion' = [rowVersion EXCEPT ![r] = @ + 1]
        /\ Succeed(c.op, c.key)
        /\ call' = [call EXCEPT ![s] = Idle]
        /\ UNCHANGED <<owner, rows, shipment, inventoryVars>>

\* Create or update the draft and submit it, in one transaction.  The mutexes
\* cover the rows the transaction itself writes: nothing is compared again.
SubmitWithLines(r, a, p, k) ==
    LET op == IF status[r] = Absent THEN "CREATE_HR_REQUEST_DRAFT"
                                    ELSE "UPDATE_HR_REQUEST_DRAFT"
    IN  /\ status[r] = Absent \/ (status[r] = "DRAFT" /\ owner[r] = a)
        /\ Free(op, k) /\ Free("SUBMIT_HR_REQUEST", k)
        /\ SubmitAccepted(r, p)
        /\ reservation' = [reservation EXCEPT ![r] = Reserve(r, p)]
        /\ rows' = [rows EXCEPT ![r] = p]
        /\ status' = [status EXCEPT ![r] = "SUBMITTED"]
        /\ owner' = [owner EXCEPT ![r] = a]
        /\ rowVersion' = [rowVersion EXCEPT ![r] = IF status[r] = Absent THEN @ + 1 ELSE @ + 2]
        /\ commands' = commands \cup {<<op, k>>, <<"SUBMIT_HR_REQUEST", k>>}
        /\ UNCHANGED <<shipment, call, inventoryVars>>

-----------------------------------------------------------------------------
(* Revising and cancelling.  Leaving SUBMITTED for DRAFT or CANCELLED fires*)
(* the 0093 trigger, which deletes the DRAFT shipment and its lines.       *)

\* The BEFORE DELETE guard on both shipment tables ends in RETURN NEW.  NEW
\* is null in a DELETE, and a null result makes PostgreSQL skip the row: the
\* guard raises nothing and the row stays.
AfterGuardedDelete(row) == row

CleanedShipment(r) ==
    IF shipment[r].status = "DRAFT" THEN AfterGuardedDelete(shipment[r])
                                    ELSE shipment[r]

\* Mutant: the reservations stay.
ReleasedNone(r) == reservation[r]
Released(r) == [i \in Items |->
    IF reservation[r][i].status = "ACTIVE"
      THEN [reservation[r][i] EXCEPT !.status = "RELEASED"]
      ELSE reservation[r][i]]

BeginUpdate(s, r, a, p, k) ==
    /\ call[s] = Idle
    /\ Free("UPDATE_HR_REQUEST", k)
    /\ owner[r] = a
    /\ status[r] \in Open
    /\ call' = [call EXCEPT ![s] =
         [op |-> "UPDATE_HR_REQUEST", key |-> k, req |-> r, actor |-> a,
          seen |-> ItemSet(r) \cup ItemsOf(p), was |-> status[r], payload |-> p]]
    /\ UNCHANGED <<requestVars, commands, inventoryVars>>

\* The item rows are deleted and rewritten: a shipment line that still refers
\* to one of them makes the DELETE fail on the foreign key of 0002:49-50.  The
\* request's own reservations are already released when availability is read.
RevisionAccepted(r, p) ==
    /\ CleanedShipment(r).status = Absent
    /\ \A i \in ItemsOf(p) : RequestedTransfer(p[i]) <= Available({r}, i)

CommitUpdate(s) ==
    LET c == call[s]
        r == c.req
    IN  /\ c.op = "UPDATE_HR_REQUEST"
        /\ owner[r] = c.actor
        /\ status[r] = c.was
        /\ ItemSet(r) \subseteq c.seen
        /\ RevisionAccepted(r, c.payload)
        /\ reservation' = [reservation EXCEPT ![r] =
             [i \in Items |-> IF i \in ItemsOf(c.payload)
                                THEN Reserve(r, c.payload)[i]
                                ELSE Released(r)[i]]]
        /\ shipment' = [shipment EXCEPT ![r] = CleanedShipment(r)]
        /\ rows' = [rows EXCEPT ![r] = c.payload]
        /\ status' = [status EXCEPT ![r] = "SUBMITTED"]
        /\ rowVersion' = [rowVersion EXCEPT ![r] = @ + 2]  \* back to DRAFT and out again
        /\ Succeed(c.op, c.key)
        /\ call' = [call EXCEPT ![s] = Idle]
        /\ UNCHANGED <<owner, inventoryVars>>

\* Mutant: only a second cancellation is refused.
CancellableUnlessDone(r) == status[r] \notin {Absent, "CANCELLED"}
Cancellable(r) == status[r] \in {"DRAFT"} \cup Open

\* Any HR account may cancel; nothing read before the row lock is compared.
CancelRequest(r, k) ==
    /\ Cancellable(r)
    /\ Free("CANCEL_HR_REQUEST", k)
    /\ reservation' = [reservation EXCEPT ![r] = Released(r)]
    /\ shipment' = [shipment EXCEPT ![r] = CleanedShipment(r)]
    /\ status' = [status EXCEPT ![r] = "CANCELLED"]
    /\ rowVersion' = [rowVersion EXCEPT ![r] = @ + 1]
    /\ Succeed("CANCEL_HR_REQUEST", k)
    /\ UNCHANGED <<owner, rows, call, inventoryVars>>

-----------------------------------------------------------------------------
(* Preparing the shipment                                                  *)

\* The CHECK constraints of warehouse_shipment_lines.
LineStorable(line) ==
    /\ line.requested > 0
    /\ line.general >= 0
    /\ 0 <= line.actual /\ line.actual <= line.maximum

\* The draft proposes to move all it can.
DraftLine(r, i) ==
    LET requested == RequestedTransfer(rows[r][i])
        general   == onHand["GENERAL"][i]
        most      == Lesser(requested, general)
    IN  [requested |-> requested, general |-> general, maximum |-> most,
         actual |-> most, short |-> FALSE]

DraftAccepted(r) ==
    /\ status[r] = "SUBMITTED"
    /\ shipment[r].status = Absent
    /\ \A i \in ItemSet(r) : LineStorable(DraftLine(r, i))

CreateShipmentDraft(r, k) ==
    /\ Free("CREATE_WAREHOUSE_SHIPMENT_DRAFT", k)
    /\ DraftAccepted(r)
    /\ shipment' = [shipment EXCEPT ![r] =
         [status |-> "DRAFT", version |-> rowVersion[r],
          lines |-> [i \in Items |->
                       IF i \in ItemSet(r) THEN DraftLine(r, i) ELSE NoLine]]]
    /\ Succeed("CREATE_WAREHOUSE_SHIPMENT_DRAFT", k)
    /\ UNCHANGED <<status, owner, rowVersion, rows, reservation, call, inventoryVars>>

Edited(line, e) == [line EXCEPT !.actual = e.actual, !.short = e.short]

LineEditable(r, i) == shipment[r].status = "DRAFT" /\ shipment[r].lines[i] # NoLine

\* The warehouse client saves one line of a DRAFT shipment by itself.
EditShipmentLine(r, i, e) ==
    /\ LineEditable(r, i)
    /\ LineStorable(Edited(shipment[r].lines[i], e[i]))
    /\ shipment' = [shipment EXCEPT ![r].lines[i] = Edited(@, e[i])]
    /\ UNCHANGED <<status, owner, rowVersion, rows, reservation, commands, call,
                   inventoryVars>>

-----------------------------------------------------------------------------
(* Posting: one transaction transfers GENERAL stock to HR, issues it to    *)
(* employees, closes the reservations and freezes the shipment.            *)

BeginPost(s, r, k) ==
    /\ call[s] = Idle
    /\ Free("POST_WAREHOUSE_SHIPMENT", k)
    /\ shipment[r].status # Absent
    /\ call' = [call EXCEPT ![s] =
         [op |-> "POST_WAREHOUSE_SHIPMENT", key |-> k, req |-> r]]
    /\ UNCHANGED <<requestVars, commands, inventoryVars>>

\* The wrapper that takes the operator's last line edits along.
BeginPostWithLines(s, r, e, k) ==
    /\ call[s] = Idle
    /\ Free("POST_WAREHOUSE_SHIPMENT_WITH_LINES", k)
    /\ shipment[r].status # Absent
    /\ call' = [call EXCEPT ![s] =
         [op |-> "POST_WAREHOUSE_SHIPMENT_WITH_LINES", key |-> k, req |-> r, edit |-> e]]
    /\ UNCHANGED <<requestVars, commands, inventoryVars>>

\* The lines as posting finds them: the wrapper writes the caller's edits to
\* the draft first, in the same transaction.
LinesToPost(c) == [i \in Items |->
    IF c.op = "POST_WAREHOUSE_SHIPMENT_WITH_LINES" /\ shipment[c.req].lines[i] # NoLine
      THEN Edited(shipment[c.req].lines[i], c.edit[i])
      ELSE shipment[c.req].lines[i]]

PostedLine(r, i, line) ==
    LET fresh == DraftLine(r, i)
    IN  [fresh EXCEPT !.short = line.short,
                      !.actual = IF TwoStage THEN Lesser(line.actual, fresh.maximum)
                                             ELSE line.actual]

\* What 0095 demands of the stock and the reservations, and 0136 dropped.
\* Mutant: the HR warehouse is not looked at by itself.
CombinedStockChecks(r, i, actual) ==
    /\ reservation[r][i].status = "ACTIVE"
    /\ CombinedOnHand(i) - rows[r][i].issue >= ActiveReserved(Requests \ {r}, i)
StockChecks(r, i, actual) ==
    /\ reservation[r][i].status = "ACTIVE"
    /\ reservation[r][i].quantity = RequestedTransfer(rows[r][i])
    /\ onHand["HR"][i] + actual - rows[r][i].issue >= 0
    /\ CombinedOnHand(i) - rows[r][i].issue >= ActiveReserved(Requests \ {r}, i)

\* The label posting writes to hr_requests.status.
PostLabel == IF TwoStage THEN "POSTED" ELSE "SHIPPED"

PostAccepted(r, lines) ==
    /\ shipment[r].status = "DRAFT"
    /\ status[r] = "SUBMITTED"
    /\ shipment[r].version = rowVersion[r]
    /\ {i \in Items : lines[i] # NoLine} = ItemSet(r)
    /\ \A i \in ItemSet(r) :
         LET posted == PostedLine(r, i, lines[i])
         IN  /\ LineStorable(posted)
             /\ posted.actual < posted.maximum => posted.short
             /\ ~TwoStage => StockChecks(r, i, posted.actual)
    /\ PostLabel \in RequestStatuses

\* Two ledger entries per item: what leaves GENERAL, and what reaches HR net
\* of the issue to employees.
\* Mutant: the issue to employees is not entered.
TransferEntries(r, lines) == [w \in Warehouses |-> [i \in Items |->
    IF i \notin ItemSet(r) THEN 0
    ELSE IF w = "GENERAL" THEN -lines[i].actual ELSE lines[i].actual]]
LedgerEntries(r, lines) == [w \in Warehouses |-> [i \in Items |->
    IF i \notin ItemSet(r) THEN 0
    ELSE IF w = "GENERAL" THEN -lines[i].actual
                          ELSE lines[i].actual - rows[r][i].issue]]

\* The balances are updated by statements of their own.
BalancesAfter(r, lines) == [w \in Warehouses |-> [i \in Items |->
    IF i \notin ItemSet(r) THEN onHand[w][i]
    ELSE IF w = "GENERAL" THEN onHand[w][i] - lines[i].actual
                          ELSE onHand[w][i] + lines[i].actual - rows[r][i].issue]]

\* Mutant: the reservations outlive the posting.
ClosedNone(r) == reservation[r]
Closed(r) == [i \in Items |->
    IF i \in ItemSet(r) /\ reservation[r][i].status = "ACTIVE"
      THEN [reservation[r][i] EXCEPT !.status = "CLOSED"]
      ELSE reservation[r][i]]

CommitPost(s) ==
    LET c == call[s]
        r == c.req
        drafted == LinesToPost(c)
        posted == [i \in Items |-> IF i \in ItemSet(r)
                                     THEN PostedLine(r, i, drafted[i]) ELSE NoLine]
    IN  /\ c.op \in {"POST_WAREHOUSE_SHIPMENT", "POST_WAREHOUSE_SHIPMENT_WITH_LINES"}
        /\ \A i \in Items : drafted[i] # NoLine => LineStorable(drafted[i])
        /\ PostAccepted(r, drafted)
        /\ ledger' = Plus(ledger, LedgerEntries(r, posted))
        /\ onHand' = BalancesAfter(r, posted)
        /\ version' = Touch(ItemSet(r))
        /\ reservation' = [reservation EXCEPT ![r] = Closed(r)]
        /\ status' = [status EXCEPT ![r] = PostLabel]
        /\ rowVersion' = [rowVersion EXCEPT ![r] = @ + 1]
        /\ shipment' = [shipment EXCEPT ![r] =
             [status |-> "POSTED", lines |-> posted,
              version |-> IF TwoStage THEN @.version ELSE rowVersion[r] + 1]]
        /\ Succeed(c.op, c.key)
        /\ call' = [call EXCEPT ![s] = Idle]
        /\ UNCHANGED <<owner, rows>>

-----------------------------------------------------------------------------
\* A raised exception, a lost connection, a statement timeout, a deadlock
\* victim or a restart of the server: the transaction rolls back.
Abort(s) ==
    /\ call[s] # Idle
    /\ call' = [call EXCEPT ![s] = Idle]
    /\ UNCHANGED <<requestVars, commands, inventoryVars>>

RequestStep ==
    \E r \in Requests, a \in Accounts, p \in Payloads, k \in Keys :
        \/ CreateRequestDraft(r, a, p, k)
        \/ UpdateRequestDraft(r, a, p, k)
        \/ SubmitWithLines(r, a, p, k)
        \/ CancelRequest(r, k)
        \/ CreateShipmentDraft(r, k)
        \/ \E s \in Sessions : BeginSubmit(s, r, a, k) \/ BeginUpdate(s, r, a, p, k)

WarehouseStep ==
    \E r \in Requests, e \in Edits, k \in Keys :
        \/ \E i \in Items : EditShipmentLine(r, i, e)
        \/ \E s \in Sessions : BeginPost(s, r, k) \/ BeginPostWithLines(s, r, e, k)

SessionStep ==
    \E s \in Sessions : CommitSubmit(s) \/ CommitUpdate(s) \/ CommitPost(s) \/ Abort(s)

ReplayStep == \E c \in commands : Replay(c[1], c[2])

Next == RequestStep \/ WarehouseStep \/ SessionStep \/ ReplayStep

Spec == Init /\ [][Next]_vars
-----------------------------------------------------------------------------
(* Properties                                                              *)

CallType ==
    {Idle}
    \cup [op : {"SUBMIT_HR_REQUEST"}, key : Keys, req : Requests, actor : Accounts,
          seen : SUBSET Items]
    \cup [op : {"UPDATE_HR_REQUEST"}, key : Keys, req : Requests, actor : Accounts,
          seen : SUBSET Items, was : Open, payload : Payloads]
    \cup [op : {"POST_WAREHOUSE_SHIPMENT"}, key : Keys, req : Requests]
    \cup [op : {"POST_WAREHOUSE_SHIPMENT_WITH_LINES"}, key : Keys, req : Requests,
          edit : Edits]

\* Every table holds rows of its columns' types and within its CHECK
\* constraints (0001:120-200, 0002:17-60).
TypeOK ==
    /\ InventoryTypeOK
    /\ status \in [Requests -> RequestStatuses \cup {Absent}]
    /\ owner \in [Requests -> Accounts \cup {Absent}]
    /\ rowVersion \in [Requests -> Nat]
    /\ rows \in [Requests -> [Items -> Row]]
    /\ reservation \in
         [Requests -> [Items -> [status : ReservationStatuses, quantity : Nat]]]
    /\ shipment \in [Requests -> [status : {Absent, "DRAFT", "POSTED"},
                                  version : Nat, lines : [Items -> Line]]]
    /\ call \in [Sessions -> CallType]

\* No balance is ever below zero: the CHECK of 0001:123 is never what stops a
\* posting, because 0095:241-252 has already refused it.
StockNeverNegative == \A w \in Warehouses, i \in Items : onHand[w][i] >= 0

\* The balances are what the ledger says they are, although posting writes
\* the two in separate statements from separate expressions (0095:273-316).
LedgerExplainsBalance ==
    \A w \in Warehouses, i \in Items : onHand[w][i] = Opening[w][i] + ledger[w][i]

\* A request holds ACTIVE reservations exactly while it is SUBMITTED, exactly
\* for its items and for the quantity posting will demand (0095:217-226); a
\* revision, a cancellation or a posting leaves none behind.
ReservationTracksRequest ==
    \A r \in Requests, i \in Items :
        /\ reservation[r][i].status = "ACTIVE" <=>
             status[r] = "SUBMITTED" /\ i \in ItemSet(r)
        /\ reservation[r][i].status = "ACTIVE" =>
             reservation[r][i].quantity = RequestedTransfer(rows[r][i])

\* A submit or a revision reserves only items whose mutex its session has held
\* since before it took the request's row lock: the item rows it read unlocked
\* are the ones it reserves, whatever committed in between (0094:161-170,
\* 0089:308-320).  Only SubmitWithLines reserves without such a read.
ReservesUnderMutex ==
    \A r \in Requests, i \in Items :
        reservation'[r][i] # reservation[r][i] /\ reservation'[r][i].status = "ACTIVE" =>
            \/ \E s \in Sessions :
                 /\ call[s].op \in {"SUBMIT_HR_REQUEST", "UPDATE_HR_REQUEST"}
                 /\ call[s].req = r
                 /\ i \in call[s].seen
                 /\ call'[s] = Idle
            \/ \E a \in Accounts, p \in Payloads, k \in Keys : SubmitWithLines(r, a, p, k)
ReservedUnderMutex == [][ReservesUnderMutex]_vars

\* A shipment is POSTED if and only if its request is SHIPPED: the two rows
\* are changed by one transaction and neither is changed again.
ShippedIffPosted ==
    \A r \in Requests : status[r] = "SHIPPED" <=> shipment[r].status = "POSTED"

\* A submitted request whose shipment is drafted can always be posted, by
\* moving all that GENERAL can give: what submit promised, posting accepts.
SubmittedIsShippable ==
    \A r \in Requests :
        status[r] = "SUBMITTED" /\ shipment[r].status = "DRAFT" =>
            PostAccepted(r, [i \in Items |->
                IF i \in ItemSet(r) THEN DraftLine(r, i) ELSE NoLine])

\* What is posted stays posted: no later RPC changes the shipment, its lines,
\* the status or the item rows of its request (0002:62-93, 0001:224-268).
PostedStep(r) ==
    shipment[r].status = "POSTED" =>
        /\ shipment'[r] = shipment[r]
        /\ status'[r] = status[r]
        /\ rows'[r] = rows[r]
        /\ reservation'[r] = reservation[r]
PostedIsFinal == [][\A r \in Requests : PostedStep(r)]_vars

\* What the whole life of a request amounts to: it is promised stock, gives it
\* back or takes it, and no two requests are ever promised the same piece.
Promised == INSTANCE StockPromise WITH
    stock   <- [i \in Items |-> CombinedOnHand(i)],
    promise <- [r \in Requests |-> [i \in Items |-> ActiveQuantity(r, i)]]
KeepsPromises == Promised!Spec
=============================================================================
