------------------------- MODULE HrFulfilmentProofs -------------------------
(* Theorems about HrFulfilment, for every instance of its constants.       *)
EXTENDS HrFulfilment, SumLemmas

(***************************************************************************)
(* Types of what the helpers return                                        *)
(***************************************************************************)

LEMMA RequestedTransferType ==
    ASSUME NEW row \in Row
    PROVE  RequestedTransfer(row) \in Nat
  BY DEF Row, RequestedTransfer, GeneratedTransfer, TriggeredTransfer

LEMMA DraftLineType ==
    ASSUME TypeOK, NEW r \in Requests, NEW i \in Items
    PROVE  /\ DraftLine(r, i) \in [requested : Nat, general : Int, maximum : Int,
                                   actual : Int, short : BOOLEAN]
           /\ DraftLine(r, i).maximum <= onHand["GENERAL"][i]
           /\ LineStorable(DraftLine(r, i)) => DraftLine(r, i) \in Line
  <1>1. RequestedTransfer(rows[r][i]) \in Nat
    BY RequestedTransferType DEF TypeOK
  <1>2. onHand["GENERAL"][i] \in Int
    BY DEF TypeOK, InventoryTypeOK, Warehouses
  <1>3. QED
    BY <1>1, <1>2 DEF DraftLine, Lesser, LineStorable, Line

LEMMA ReserveType ==
    ASSUME TypeOK, NEW r \in Requests, NEW p \in [Items -> Row]
    PROVE  Reserve(r, p) \in [Items -> [status : ReservationStatuses, quantity : Nat]]
  BY RequestedTransferType DEF Reserve, TypeOK, ReservationStatuses

LEMMA ReleasedType ==
    ASSUME TypeOK, NEW r \in Requests
    PROVE  Released(r) \in [Items -> [status : ReservationStatuses, quantity : Nat]]
  <1>1. ASSUME NEW i \in Items
        PROVE  Released(r)[i] \in [status : ReservationStatuses, quantity : Nat]
    <2>1. reservation[r][i] \in [status : ReservationStatuses, quantity : Nat]
      BY DEF TypeOK
    <2>2. QED
      BY <2>1 DEF Released, ReservationStatuses
  <1>2. QED
    BY <1>1 DEF Released

LEMMA ClosedType ==
    ASSUME TypeOK, NEW r \in Requests
    PROVE  Closed(r) \in [Items -> [status : ReservationStatuses, quantity : Nat]]
  <1>1. ASSUME NEW i \in Items
        PROVE  Closed(r)[i] \in [status : ReservationStatuses, quantity : Nat]
    <2>1. reservation[r][i] \in [status : ReservationStatuses, quantity : Nat]
      BY DEF TypeOK
    <2>2. QED
      BY <2>1 DEF Closed, ReservationStatuses
  <1>2. QED
    BY <1>1 DEF Closed

LEMMA EditedType ==
    ASSUME NEW line \in Line, NEW e \in [actual : Nat, short : BOOLEAN]
    PROVE  Edited(line, e) \in Line
  BY DEF Edited, Line

\* What the calls hold when they commit.
LEMMA CallFields ==
    ASSUME TypeOK, NEW s \in Sessions
    PROVE  /\ call[s].op = "SUBMIT_HR_REQUEST" => call[s].req \in Requests
           /\ call[s].op = "UPDATE_HR_REQUEST" =>
                call[s].req \in Requests /\ call[s].payload \in Payloads
           /\ call[s].op \in {"POST_WAREHOUSE_SHIPMENT", "POST_WAREHOUSE_SHIPMENT_WITH_LINES"} =>
                call[s].req \in Requests
           /\ call[s].op = "POST_WAREHOUSE_SHIPMENT_WITH_LINES" => call[s].edit \in Edits
  BY DEF TypeOK, CallType, Idle

LEMMA LinesToPostType ==
    ASSUME TypeOK, NEW s \in Sessions,
           call[s].op \in {"POST_WAREHOUSE_SHIPMENT", "POST_WAREHOUSE_SHIPMENT_WITH_LINES"}
    PROVE  LinesToPost(call[s]) \in [Items -> Line]
  <1>1. shipment[call[s].req].lines \in [Items -> Line]
    BY CallFields DEF TypeOK
  <1>2. ASSUME NEW i \in Items, call[s].op = "POST_WAREHOUSE_SHIPMENT_WITH_LINES"
        PROVE  Edited(shipment[call[s].req].lines[i], call[s].edit[i]) \in Line
    BY <1>1, <1>2, CallFields, EditsAssumption, EditedType
  <1>3. QED
    BY <1>1, <1>2 DEF LinesToPost

LEMMA PostedLineType ==
    ASSUME TypeOK, NEW r \in Requests, NEW i \in Items, NEW line \in Line
    PROVE  /\ PostedLine(r, i, line) \in [requested : Nat, general : Int, maximum : Int,
                                          actual : Int, short : BOOLEAN]
           /\ PostedLine(r, i, line).maximum <= onHand["GENERAL"][i]
           /\ LineStorable(PostedLine(r, i, line)) => PostedLine(r, i, line) \in Line
  <1>1. DraftLine(r, i) \in [requested : Nat, general : Int, maximum : Int,
                             actual : Int, short : BOOLEAN]
    BY DraftLineType
  <1>2. DraftLine(r, i).maximum <= onHand["GENERAL"][i]
    BY DraftLineType
  <1>3. line.actual \in Int /\ line.short \in BOOLEAN
    BY DEF Line
  <1>4. Lesser(line.actual, DraftLine(r, i).maximum) \in Int
    BY <1>1, <1>3 DEF Lesser
  <1>5. PostedLine(r, i, line) \in [requested : Nat, general : Int, maximum : Int,
                                    actual : Int, short : BOOLEAN]
    <2>1. CASE TwoStage
      BY <1>1, <1>3, <1>4, <2>1 DEF PostedLine
    <2>2. CASE ~TwoStage
      BY <1>1, <1>3, <2>2 DEF PostedLine
    <2>3. QED
      BY <2>1, <2>2
  <1>6. PostedLine(r, i, line).maximum = DraftLine(r, i).maximum
    BY <1>1 DEF PostedLine
  <1>7. LineStorable(PostedLine(r, i, line)) => PostedLine(r, i, line) \in Line
    BY <1>5 DEF LineStorable, Line
  <1>8. QED
    BY <1>2, <1>5, <1>6, <1>7

(***************************************************************************)
(* Type correctness, one lemma per action that writes a table              *)
(***************************************************************************)

LEMMA InventoryTypeAfter ==
    ASSUME TypeOK, UNCHANGED inventoryVars
    PROVE  InventoryTypeOK'
  BY DEF TypeOK, InventoryTypeOK, inventoryVars

LEMMA CommitSubmitType ==
    ASSUME TypeOK, NEW s \in Sessions, CommitSubmit(s)
    PROVE  TypeOK'
  <1> DEFINE r == call[s].req
  <1>1. r \in Requests
    BY CallFields DEF CommitSubmit
  <1>2. InventoryTypeOK'
    BY InventoryTypeAfter DEF CommitSubmit
  <1>3. Reserve(r, rows[r]) \in [Items -> [status : ReservationStatuses, quantity : Nat]]
    BY <1>1, ReserveType DEF TypeOK
  <1>4. reservation' \in [Requests -> [Items -> [status : ReservationStatuses, quantity : Nat]]]
    BY <1>1, <1>3 DEF CommitSubmit, TypeOK
  <1>5. call' \in [Sessions -> CallType]
    BY DEF CommitSubmit, TypeOK, CallType
  <1>6. status' \in [Requests -> RequestStatuses \cup {Absent}]
    BY <1>1 DEF CommitSubmit, TypeOK, RequestStatuses
  <1>7. rowVersion' \in [Requests -> Nat]
    BY <1>1 DEF CommitSubmit, TypeOK
  <1>8. QED
    BY <1>2, <1>4, <1>5, <1>6, <1>7 DEF CommitSubmit, TypeOK

LEMMA CommitUpdateType ==
    ASSUME TypeOK, NEW s \in Sessions, CommitUpdate(s)
    PROVE  TypeOK'
  <1> DEFINE r == call[s].req
             p == call[s].payload
  <1>1. r \in Requests /\ p \in Payloads
    BY CallFields DEF CommitUpdate
  <1>2. InventoryTypeOK'
    BY InventoryTypeAfter DEF CommitUpdate
  <1>3. p \in [Items -> Row]
    BY <1>1, PayloadsAssumption
  <1>4. reservation' \in [Requests -> [Items -> [status : ReservationStatuses, quantity : Nat]]]
    <2>1. Reserve(r, p) \in [Items -> [status : ReservationStatuses, quantity : Nat]]
      BY <1>1, <1>3, ReserveType
    <2>2. Released(r) \in [Items -> [status : ReservationStatuses, quantity : Nat]]
      BY <1>1, ReleasedType
    <2>3. [i \in Items |-> IF i \in ItemsOf(p) THEN Reserve(r, p)[i] ELSE Released(r)[i]]
            \in [Items -> [status : ReservationStatuses, quantity : Nat]]
      BY <2>1, <2>2
    <2>4. QED
      BY <1>1, <2>3 DEF CommitUpdate, TypeOK
  <1>5. call' \in [Sessions -> CallType]
    BY DEF CommitUpdate, TypeOK, CallType
  <1>6. status' \in [Requests -> RequestStatuses \cup {Absent}]
    BY <1>1 DEF CommitUpdate, TypeOK, RequestStatuses
  <1>7. rowVersion' \in [Requests -> Nat]
    BY <1>1 DEF CommitUpdate, TypeOK
  <1>8. rows' \in [Requests -> [Items -> Row]]
    BY <1>1, <1>3 DEF CommitUpdate, TypeOK
  <1>9. shipment' = shipment
    BY <1>1 DEF CommitUpdate, CleanedShipment, AfterGuardedDelete, TypeOK
  <1>10. QED
    BY <1>2, <1>4, <1>5, <1>6, <1>7, <1>8, <1>9 DEF CommitUpdate, TypeOK

LEMMA CancelType ==
    ASSUME TypeOK, NEW r \in Requests, NEW k \in Keys, CancelRequest(r, k)
    PROVE  TypeOK'
  <1>1. InventoryTypeOK'
    BY InventoryTypeAfter DEF CancelRequest
  <1>2. reservation' \in [Requests -> [Items -> [status : ReservationStatuses, quantity : Nat]]]
    BY ReleasedType DEF CancelRequest, TypeOK
  <1>3. shipment' = shipment
    BY DEF CancelRequest, CleanedShipment, AfterGuardedDelete, TypeOK
  <1>4. status' \in [Requests -> RequestStatuses \cup {Absent}]
    BY DEF CancelRequest, TypeOK, RequestStatuses
  <1>5. rowVersion' \in [Requests -> Nat]
    BY DEF CancelRequest, TypeOK
  <1>6. QED
    BY <1>1, <1>2, <1>3, <1>4, <1>5 DEF CancelRequest, TypeOK

LEMMA ShipmentDraftType ==
    ASSUME TypeOK, NEW r \in Requests, NEW k \in Keys, CreateShipmentDraft(r, k)
    PROVE  TypeOK'
  <1>1. InventoryTypeOK'
    BY InventoryTypeAfter DEF CreateShipmentDraft
  <1>2. [i \in Items |-> IF i \in ItemSet(r) THEN DraftLine(r, i) ELSE NoLine]
          \in [Items -> Line]
    BY DraftLineType DEF CreateShipmentDraft, DraftAccepted, NoLine, Line
  <1>3. rowVersion[r] \in Nat
    BY DEF TypeOK
  <1>4. shipment' \in [Requests -> [status : {Absent, "DRAFT", "POSTED"},
                                   version : Nat, lines : [Items -> Line]]]
    BY <1>2, <1>3 DEF CreateShipmentDraft, TypeOK
  <1>5. QED
    BY <1>1, <1>4 DEF CreateShipmentDraft, TypeOK

LEMMA EditLineType ==
    ASSUME TypeOK, NEW r \in Requests, NEW i \in Items, NEW e \in Edits,
           EditShipmentLine(r, i, e)
    PROVE  TypeOK'
  <1>1. InventoryTypeOK'
    BY InventoryTypeAfter DEF EditShipmentLine
  <1>2. e[i] \in [actual : Nat, short : BOOLEAN]
    BY EditsAssumption
  <1>3. shipment[r] \in [status : {Absent, "DRAFT", "POSTED"},
                        version : Nat, lines : [Items -> Line]]
    BY DEF TypeOK
  <1>4. Edited(shipment[r].lines[i], e[i]) \in Line
    BY <1>2, <1>3, EditedType
  <1>5. [shipment[r].lines EXCEPT ![i] = Edited(@, e[i])] \in [Items -> Line]
    BY <1>3, <1>4
  <1>6. shipment' = [shipment EXCEPT ![r] =
          [shipment[r] EXCEPT !.lines = [shipment[r].lines EXCEPT ![i] = Edited(@, e[i])]]]
    BY DEF EditShipmentLine
  <1>7. [shipment[r] EXCEPT !.lines = [shipment[r].lines EXCEPT ![i] = Edited(@, e[i])]]
          \in [status : {Absent, "DRAFT", "POSTED"}, version : Nat, lines : [Items -> Line]]
    BY <1>3, <1>5
  <1>8. shipment' \in [Requests -> [status : {Absent, "DRAFT", "POSTED"},
                                   version : Nat, lines : [Items -> Line]]]
    BY <1>6, <1>7 DEF TypeOK
  <1>9. QED
    BY <1>1, <1>8 DEF EditShipmentLine, TypeOK

\* The lines as posting leaves them, and what they say of the stock moved.
PostedLines(s) == [i \in Items |->
    IF i \in ItemSet(call[s].req)
      THEN PostedLine(call[s].req, i, LinesToPost(call[s])[i]) ELSE NoLine]

LEMMA PostedLinesType ==
    ASSUME TypeOK, NEW s \in Sessions, CommitPost(s)
    PROVE  /\ PostedLines(s) \in [Items -> Line]
           /\ \A i \in ItemSet(call[s].req) :
                PostedLines(s)[i].actual <= onHand["GENERAL"][i]
  <1> DEFINE r == call[s].req
             L == LinesToPost(call[s])
  <1>1. r \in Requests
    BY CallFields DEF CommitPost
  <1>2. L \in [Items -> Line]
    BY LinesToPostType DEF CommitPost
  <1>3. ASSUME NEW i \in ItemSet(r)
        PROVE  /\ PostedLine(r, i, L[i]) \in Line
               /\ PostedLine(r, i, L[i]).actual <= onHand["GENERAL"][i]
    <2>1. i \in Items /\ L[i] \in Line
      BY <1>2 DEF ItemSet, ItemsOf
    <2>2. LineStorable(PostedLine(r, i, L[i]))
      BY <1>1 DEF CommitPost, PostAccepted
    <2>3. /\ PostedLine(r, i, L[i]) \in [requested : Nat, general : Int, maximum : Int,
                                         actual : Int, short : BOOLEAN]
          /\ PostedLine(r, i, L[i]).maximum <= onHand["GENERAL"][i]
          /\ PostedLine(r, i, L[i]) \in Line
      BY <1>1, <2>1, <2>2, PostedLineType
    <2>4. onHand["GENERAL"][i] \in Int
      BY <2>1 DEF TypeOK, InventoryTypeOK, Warehouses
    <2>5. QED
      BY <2>2, <2>3, <2>4 DEF LineStorable
  <1>4. NoLine \in Line
    BY DEF NoLine, Line
  <1>5. QED
    BY <1>3, <1>4 DEF PostedLines, ItemSet, ItemsOf

LEMMA CommitPostType ==
    ASSUME TypeOK, NEW s \in Sessions, CommitPost(s)
    PROVE  TypeOK'
  <1> DEFINE r == call[s].req
  <1>1. r \in Requests
    BY CallFields DEF CommitPost
  <1>2. PostedLines(s) \in [Items -> Line]
    BY PostedLinesType
  <1>3. \A i \in Items : PostedLines(s)[i].actual \in Int
    BY <1>2 DEF Line
  <1>4. \A i \in Items : rows[r][i].issue \in Int
    BY <1>1 DEF TypeOK, Row
  <1>5. onHand' = BalancesAfter(r, PostedLines(s))
    BY DEF CommitPost, PostedLines
  <1>6. ledger' = Plus(ledger, LedgerEntries(r, PostedLines(s)))
    BY DEF CommitPost, PostedLines
  <1>7. onHand' \in [Warehouses -> [Items -> Int]]
    BY <1>3, <1>4, <1>5 DEF BalancesAfter, TypeOK, InventoryTypeOK
  <1>8. ledger' \in [Warehouses -> [Items -> Int]]
    BY <1>3, <1>4, <1>6 DEF LedgerEntries, Plus, TypeOK, InventoryTypeOK
  <1>9. version' \in [Warehouses -> [Items -> Nat]]
    BY DEF CommitPost, Touch, TypeOK, InventoryTypeOK
  <1>10. reservation' \in [Requests -> [Items -> [status : ReservationStatuses, quantity : Nat]]]
    BY <1>1, ClosedType DEF CommitPost, TypeOK
  <1>11. status' \in [Requests -> RequestStatuses \cup {Absent}]
    BY <1>1 DEF CommitPost, PostAccepted, TypeOK
  <1>12. rowVersion' \in [Requests -> Nat]
    BY <1>1 DEF CommitPost, TypeOK
  <1>13. shipment' \in [Requests -> [status : {Absent, "DRAFT", "POSTED"},
                                    version : Nat, lines : [Items -> Line]]]
    <2>1. shipment' = [shipment EXCEPT ![r] =
            [status |-> "POSTED", lines |-> PostedLines(s),
             version |-> IF TwoStage THEN shipment[r].version ELSE rowVersion[r] + 1]]
      BY <1>1 DEF CommitPost, PostedLines, TypeOK
    <2>2. (IF TwoStage THEN shipment[r].version ELSE rowVersion[r] + 1) \in Nat
      BY <1>1 DEF TypeOK
    <2>3. QED
      BY <1>2, <2>1, <2>2 DEF TypeOK
  <1>14. call' \in [Sessions -> CallType]
    BY DEF CommitPost, TypeOK, CallType
  <1>15. QED
    BY <1>7, <1>8, <1>9, <1>10, <1>11, <1>12, <1>13, <1>14
       DEF CommitPost, TypeOK, InventoryTypeOK

\* A step that only writes what a session has read, or nothing at all.
Reads(s) ==
    \/ \E r \in Requests, a \in Accounts, k \in Keys :
         \/ BeginSubmit(s, r, a, k)
         \/ \E p \in Payloads : BeginUpdate(s, r, a, p, k)
    \/ \E r \in Requests, k \in Keys :
         \/ BeginPost(s, r, k)
         \/ \E e \in Edits : BeginPostWithLines(s, r, e, k)
    \/ Abort(s)

\* Every step of the specification, the quiet ones together.
LEMMA StepCases ==
    ASSUME [Next]_vars
    PROVE  \/ UNCHANGED vars
           \/ \E s \in Sessions : Reads(s)
           \/ \E r \in Requests, a \in Accounts, p \in Payloads, k \in Keys :
                CreateRequestDraft(r, a, p, k) \/ UpdateRequestDraft(r, a, p, k)
                  \/ SubmitWithLines(r, a, p, k)
           \/ \E r \in Requests, k \in Keys : CancelRequest(r, k) \/ CreateShipmentDraft(r, k)
           \/ \E r \in Requests, i \in Items, e \in Edits : EditShipmentLine(r, i, e)
           \/ \E s \in Sessions : CommitSubmit(s) \/ CommitUpdate(s) \/ CommitPost(s)
  <1>1. CASE RequestStep
    BY <1>1 DEF RequestStep, Reads
  <1>2. CASE WarehouseStep
    BY <1>2 DEF WarehouseStep, Reads
  <1>3. CASE SessionStep
    BY <1>3 DEF SessionStep, Reads
  <1>4. CASE ReplayStep
    BY <1>4 DEF ReplayStep, Replay
  <1>5. QED
    BY <1>1, <1>2, <1>3, <1>4 DEF Next

LEMMA ReadsWriteNoTable ==
    ASSUME NEW s \in Sessions, Reads(s)
    PROVE  UNCHANGED <<requestVars, commands, inventoryVars>>
  BY DEF Reads, BeginSubmit, BeginUpdate, BeginPost, BeginPostWithLines, Abort

LEMMA ReadsType ==
    ASSUME TypeOK, NEW s \in Sessions, Reads(s)
    PROVE  TypeOK'
  <1>1. UNCHANGED <<requestVars, inventoryVars>>
    BY ReadsWriteNoTable
  <1>2. InventoryTypeOK'
    BY <1>1, InventoryTypeAfter
  <1>3. \E c \in CallType : call' = [call EXCEPT ![s] = c]
    <2>1. CASE Abort(s)
      BY <2>1 DEF Abort, CallType
    <2>2. ASSUME NEW r \in Requests, NEW a \in Accounts, NEW k \in Keys, BeginSubmit(s, r, a, k)
          PROVE  \E c \in CallType : call' = [call EXCEPT ![s] = c]
      <3>1. ItemSet(r) \in SUBSET Items
        BY DEF ItemSet, ItemsOf
      <3>2. QED
        BY <2>2, <3>1 DEF BeginSubmit, CallType
    <2>3. ASSUME NEW r \in Requests, NEW a \in Accounts, NEW p \in Payloads, NEW k \in Keys,
                 BeginUpdate(s, r, a, p, k)
          PROVE  \E c \in CallType : call' = [call EXCEPT ![s] = c]
      <3>1. ItemSet(r) \cup ItemsOf(p) \in SUBSET Items
        BY DEF ItemSet, ItemsOf
      <3>2. QED
        BY <2>3, <3>1 DEF BeginUpdate, CallType
    <2>4. ASSUME NEW r \in Requests, NEW k \in Keys, BeginPost(s, r, k)
          PROVE  \E c \in CallType : call' = [call EXCEPT ![s] = c]
      BY <2>4 DEF BeginPost, CallType
    <2>5. ASSUME NEW r \in Requests, NEW e \in Edits, NEW k \in Keys,
                 BeginPostWithLines(s, r, e, k)
          PROVE  \E c \in CallType : call' = [call EXCEPT ![s] = c]
      BY <2>5 DEF BeginPostWithLines, CallType
    <2>6. QED
      BY <2>1, <2>2, <2>3, <2>4, <2>5 DEF Reads
  <1>4. call' \in [Sessions -> CallType]
    BY <1>3 DEF TypeOK
  <1>5. QED
    BY <1>1, <1>2, <1>4 DEF requestVars, TypeOK

LEMMA DraftingType ==
    ASSUME TypeOK, NEW r \in Requests, NEW a \in Accounts, NEW p \in Payloads, NEW k \in Keys,
           CreateRequestDraft(r, a, p, k) \/ UpdateRequestDraft(r, a, p, k)
             \/ SubmitWithLines(r, a, p, k)
    PROVE  TypeOK'
  <1>1. InventoryTypeOK'
    BY InventoryTypeAfter DEF CreateRequestDraft, UpdateRequestDraft, SubmitWithLines
  <1>2. p \in [Items -> Row]
    BY PayloadsAssumption
  <1>3. CASE CreateRequestDraft(r, a, p, k)
    BY <1>1, <1>2, <1>3 DEF CreateRequestDraft, TypeOK, RequestStatuses
  <1>4. CASE UpdateRequestDraft(r, a, p, k)
    BY <1>1, <1>2, <1>4 DEF UpdateRequestDraft, TypeOK
  <1>5. CASE SubmitWithLines(r, a, p, k)
    <2>1. Reserve(r, p) \in [Items -> [status : ReservationStatuses, quantity : Nat]]
      BY <1>2, ReserveType
    <2>2. reservation' \in [Requests -> [Items -> [status : ReservationStatuses, quantity : Nat]]]
      BY <1>5, <2>1 DEF SubmitWithLines, TypeOK
    <2>3. status' \in [Requests -> RequestStatuses \cup {Absent}]
      BY <1>5 DEF SubmitWithLines, TypeOK, RequestStatuses
    <2>4. rowVersion' \in [Requests -> Nat]
      BY <1>5 DEF SubmitWithLines, TypeOK
    <2>5. QED
      BY <1>1, <1>2, <1>5, <2>2, <2>3, <2>4 DEF SubmitWithLines, TypeOK
  <1>6. QED
    BY <1>3, <1>4, <1>5

LEMMA TypeInitially == Init => TypeOK
  <1> SUFFICES ASSUME Init PROVE TypeOK
    OBVIOUS
  <1>1. InventoryTypeOK
    BY OpeningAssumption DEF Init, InventoryInit, InventoryTypeOK
  <1>2. rows \in [Requests -> [Items -> Row]]
    BY DEF Init, NoRow, Row
  <1>3. reservation \in [Requests -> [Items -> [status : ReservationStatuses, quantity : Nat]]]
    BY DEF Init, NoReservation, ReservationStatuses, Absent
  <1>4. shipment \in [Requests -> [status : {Absent, "DRAFT", "POSTED"},
                                  version : Nat, lines : [Items -> Line]]]
    BY DEF Init, NoShipment, NoLine, Line
  <1>5. call \in [Sessions -> CallType]
    BY DEF Init, CallType
  <1>6. QED
    BY <1>1, <1>2, <1>3, <1>4, <1>5 DEF Init, TypeOK

LEMMA TypePreserved == TypeOK /\ [Next]_vars => TypeOK'
  <1> SUFFICES ASSUME TypeOK, [Next]_vars PROVE TypeOK'
    OBVIOUS
  <1>1. CASE UNCHANGED vars
    BY <1>1 DEF vars, requestVars, inventoryVars, TypeOK, InventoryTypeOK
  <1>2. QED
    BY <1>1, StepCases, ReadsType, DraftingType, CancelType, ShipmentDraftType, EditLineType,
       CommitSubmitType, CommitUpdateType, CommitPostType

\* Every table keeps to its columns' types and CHECK constraints, whatever the
\* sessions do and however their RPCs interleave.
THEOREM TypeCorrect == Spec => []TypeOK
  BY TypeInitially, TypePreserved, PTL DEF Spec

(***************************************************************************)
(* The inductive invariant.  Stock needs nothing but its types; the        *)
(* reservations need ShippedIffPosted to know that a posted request is     *)
(* closed, and a revision needs to know which mutexes its session took.    *)
(***************************************************************************)

SeenCoversPayload ==
    \A s \in Sessions :
        call[s].op = "UPDATE_HR_REQUEST" => ItemsOf(call[s].payload) \subseteq call[s].seen

IInv ==
    /\ TypeOK
    /\ StockNeverNegative
    /\ LedgerExplainsBalance
    /\ ReservationTracksRequest
    /\ ShippedIffPosted
    /\ SeenCoversPayload

\* 0136's label is not in the enumeration, so only 0095's posting commits.
LEMMA PostsInOneStage ==
    ASSUME NEW s \in Sessions, CommitPost(s)
    PROVE  ~TwoStage /\ PostLabel = "SHIPPED"
  BY TwoStageAssumption DEF CommitPost, PostAccepted, PostLabel, RequestStatuses

LEMMA CommitPostMoves ==
    ASSUME TypeOK, NEW s \in Sessions, CommitPost(s), NEW i \in Items
    PROVE  LET r == call[s].req
               moved == PostedLines(s)[i].actual
           IN  /\ r \in Requests
               /\ moved \in Nat /\ rows[r][i].issue \in Nat
               /\ i \in ItemSet(r) =>
                    /\ onHand'["GENERAL"][i] = onHand["GENERAL"][i] - moved
                    /\ onHand'["HR"][i] = onHand["HR"][i] + moved - rows[r][i].issue
                    /\ ledger'["GENERAL"][i] = ledger["GENERAL"][i] - moved
                    /\ ledger'["HR"][i] = ledger["HR"][i] + moved - rows[r][i].issue
                    /\ moved <= onHand["GENERAL"][i]
                    /\ onHand["HR"][i] + moved - rows[r][i].issue >= 0
               /\ i \notin ItemSet(r) => \A w \in Warehouses :
                    onHand'[w][i] = onHand[w][i] /\ ledger'[w][i] = ledger[w][i]
  <1> DEFINE r == call[s].req
             moved == PostedLines(s)[i].actual
  <1>1. r \in Requests
    BY CallFields DEF CommitPost
  <1>2. moved \in Nat /\ rows[r][i].issue \in Nat
    BY <1>1, PostedLinesType DEF Line, TypeOK, Row
  <1>3. onHand' = BalancesAfter(r, PostedLines(s))
    BY DEF CommitPost, PostedLines
  <1>4. ledger' = Plus(ledger, LedgerEntries(r, PostedLines(s)))
    BY DEF CommitPost, PostedLines
  <1>5. onHand \in [Warehouses -> [Items -> Int]] /\ ledger \in [Warehouses -> [Items -> Int]]
    BY DEF TypeOK, InventoryTypeOK
  <1>6. ASSUME i \in ItemSet(r)
        PROVE  onHand["HR"][i] + moved - rows[r][i].issue >= 0
    <2>1. StockChecks(r, i, PostedLine(r, i, LinesToPost(call[s])[i]).actual)
      BY <1>6, PostsInOneStage DEF CommitPost, PostAccepted
    <2>2. moved = PostedLine(r, i, LinesToPost(call[s])[i]).actual
      BY <1>6 DEF PostedLines
    <2>3. QED
      BY <2>1, <2>2 DEF StockChecks
  <1>7. ASSUME i \in ItemSet(r)
        PROVE  /\ onHand'["GENERAL"][i] = onHand["GENERAL"][i] - moved
               /\ onHand'["HR"][i] = onHand["HR"][i] + moved - rows[r][i].issue
    BY <1>3, <1>7 DEF BalancesAfter, Warehouses
  <1>8. ASSUME i \in ItemSet(r)
        PROVE  /\ ledger'["GENERAL"][i] = ledger["GENERAL"][i] - moved
               /\ ledger'["HR"][i] = ledger["HR"][i] + moved - rows[r][i].issue
    BY <1>2, <1>4, <1>5, <1>8 DEF Plus, LedgerEntries, Warehouses
  <1>9. ASSUME i \notin ItemSet(r), NEW w \in Warehouses
        PROVE  onHand'[w][i] = onHand[w][i] /\ ledger'[w][i] = ledger[w][i]
    BY <1>3, <1>4, <1>5, <1>9 DEF BalancesAfter, Plus, LedgerEntries
  <1>10. i \in ItemSet(r) => moved <= onHand["GENERAL"][i]
    BY PostedLinesType
  <1>11. QED
    BY <1>1, <1>2, <1>6, <1>7, <1>8, <1>9, <1>10

\* Only posting writes a balance or the ledger.
LEMMA OnlyPostingMoves ==
    ASSUME [Next]_vars, \A s \in Sessions : ~CommitPost(s)
    PROVE  UNCHANGED inventoryVars
  <1>1. ASSUME NEW r \in Requests, NEW a \in Accounts, NEW p \in Payloads, NEW k \in Keys,
               CreateRequestDraft(r, a, p, k) \/ UpdateRequestDraft(r, a, p, k)
                 \/ SubmitWithLines(r, a, p, k)
        PROVE  UNCHANGED inventoryVars
    BY <1>1 DEF CreateRequestDraft, UpdateRequestDraft, SubmitWithLines
  <1>2. ASSUME NEW r \in Requests, NEW k \in Keys, CancelRequest(r, k) \/ CreateShipmentDraft(r, k)
        PROVE  UNCHANGED inventoryVars
    BY <1>2 DEF CancelRequest, CreateShipmentDraft
  <1>3. ASSUME NEW s \in Sessions, CommitSubmit(s) \/ CommitUpdate(s)
        PROVE  UNCHANGED inventoryVars
    BY <1>3 DEF CommitSubmit, CommitUpdate
  <1>4. QED
    BY <1>1, <1>2, <1>3, StepCases, ReadsWriteNoTable DEF vars, EditShipmentLine

LEMMA StockPreserved ==
    ASSUME TypeOK, StockNeverNegative, [Next]_vars
    PROVE  StockNeverNegative'
  <1>1. ASSUME NEW s \in Sessions, CommitPost(s), NEW w \in Warehouses, NEW i \in Items
        PROVE  onHand'[w][i] >= 0
    <2>1. onHand["GENERAL"][i] \in Int
      BY DEF TypeOK, InventoryTypeOK, Warehouses
    <2>2. QED
      BY <1>1, <2>1, CommitPostMoves DEF StockNeverNegative, Warehouses
  <1>2. CASE UNCHANGED inventoryVars
    BY <1>2 DEF inventoryVars, StockNeverNegative
  <1>3. QED
    BY <1>1, <1>2, OnlyPostingMoves DEF StockNeverNegative

LEMMA LedgerPreserved ==
    ASSUME TypeOK, LedgerExplainsBalance, [Next]_vars
    PROVE  LedgerExplainsBalance'
  <1>1. ASSUME NEW s \in Sessions, CommitPost(s), NEW w \in Warehouses, NEW i \in Items
        PROVE  onHand'[w][i] = Opening[w][i] + ledger'[w][i]
    <2>1. /\ onHand[w][i] \in Int /\ ledger[w][i] \in Int
          /\ onHand[w][i] = Opening[w][i] + ledger[w][i] /\ Opening[w][i] \in Int
      BY OpeningAssumption DEF TypeOK, InventoryTypeOK, LedgerExplainsBalance
    <2>2. QED
      BY <1>1, <2>1, CommitPostMoves DEF Warehouses
  <1>2. CASE UNCHANGED inventoryVars
    BY <1>2 DEF inventoryVars, LedgerExplainsBalance
  <1>3. QED
    BY <1>1, <1>2, OnlyPostingMoves DEF LedgerExplainsBalance

\* ReservationTracksRequest, for one request.
Tracks(r) ==
    \A i \in Items :
        /\ reservation[r][i].status = "ACTIVE" <=> status[r] = "SUBMITTED" /\ i \in ItemSet(r)
        /\ reservation[r][i].status = "ACTIVE" =>
             reservation[r][i].quantity = RequestedTransfer(rows[r][i])

\* A request whose rows a step leaves alone keeps its reservations in step.
LEMMA TracksFrame ==
    ASSUME NEW r \in Requests, Tracks(r),
           status'[r] = status[r], rows'[r] = rows[r], reservation'[r] = reservation[r]
    PROVE  Tracks(r)'
  BY DEF Tracks, ItemSet, ItemsOf, RequestedTransfer, GeneratedTransfer, TriggeredTransfer

LEMMA SubmitTracks ==
    ASSUME TypeOK, NEW s \in Sessions, CommitSubmit(s), NEW r \in Requests, r = call[s].req, Tracks(r)
    PROVE  Tracks(r)'
  <1>1. /\ status'[r] = "SUBMITTED" /\ rows'[r] = rows[r]
        /\ reservation'[r] = Reserve(r, rows[r])
        /\ status[r] = "DRAFT"
    BY DEF CommitSubmit, TypeOK
  <1>2. ItemSet(r)' = ItemSet(r)
    BY <1>1 DEF ItemSet, ItemsOf
  <1>3. \A i \in Items : RequestedTransfer(rows[r][i])' = RequestedTransfer(rows[r][i])
    BY <1>1 DEF RequestedTransfer, GeneratedTransfer, TriggeredTransfer
  <1>4. status[r] = "DRAFT" /\ status'[r] = "SUBMITTED"
    BY <1>1
  <1>5. \A i \in Items : reservation[r][i].status # "ACTIVE"
    BY <1>4 DEF Tracks
  <1>6. reservation'[r] = [i \in Items |->
            IF i \in ItemSet(r) THEN [status |-> "ACTIVE", quantity |-> RequestedTransfer(rows[r][i])]
                                ELSE reservation[r][i]]
    BY <1>1 DEF Reserve, ItemSet
  <1>7. ASSUME NEW i \in Items, i \in ItemSet(r)
        PROVE  /\ reservation'[r][i].status = "ACTIVE"
               /\ reservation'[r][i].quantity = RequestedTransfer(rows[r][i])
    BY <1>6, <1>7
  <1>8. ASSUME NEW i \in Items, i \notin ItemSet(r)
        PROVE  reservation'[r][i].status # "ACTIVE"
    <2>1. reservation'[r][i] = reservation[r][i]
      BY <1>6, <1>8
    <2> QED BY <1>5, <2>1
  <1>9. QED
    BY <1>2, <1>3, <1>4, <1>7, <1>8 DEF Tracks

LEMMA UpdateTracks ==
    ASSUME TypeOK, NEW s \in Sessions, CommitUpdate(s),
           NEW r \in Requests, r = call[s].req, NEW p, p = call[s].payload
    PROVE  Tracks(r)'
  <1>1. /\ status'[r] = "SUBMITTED" /\ rows'[r] = p
        /\ reservation'[r] = [i \in Items |-> IF i \in ItemsOf(p) THEN Reserve(r, p)[i]
                                                                 ELSE Released(r)[i]]
    BY DEF CommitUpdate, TypeOK
  <1>2. ASSUME NEW i \in Items, i \in ItemsOf(p)
        PROVE  /\ reservation'[r][i].status = "ACTIVE"
               /\ reservation'[r][i].quantity = RequestedTransfer(p[i])
    BY <1>1, <1>2 DEF Reserve
  <1>3. ASSUME NEW i \in Items, i \notin ItemsOf(p)
        PROVE  reservation'[r][i].status # "ACTIVE"
    <2>1. reservation[r][i] \in [status : ReservationStatuses, quantity : Nat]
      BY DEF TypeOK
    <2>2. reservation'[r][i] = Released(r)[i]
      BY <1>1, <1>3
    <2>3. QED
      BY <2>1, <2>2 DEF Released
  <1>4. ItemSet(r)' = ItemsOf(p)
    BY <1>1 DEF ItemSet, ItemsOf
  <1>5. ASSUME NEW i \in Items
        PROVE  RequestedTransfer(rows[r][i])' = RequestedTransfer(p[i])
    BY <1>1 DEF RequestedTransfer, GeneratedTransfer, TriggeredTransfer
  <1>6. ASSUME NEW i \in Items
        PROVE  /\ reservation'[r][i].status = "ACTIVE" <=> i \in ItemsOf(p)
               /\ reservation'[r][i].status = "ACTIVE" =>
                    reservation'[r][i].quantity = RequestedTransfer(p[i])
    <2>1. CASE i \in ItemsOf(p)
      BY <1>2, <2>1
    <2>2. CASE i \notin ItemsOf(p)
      BY <1>3, <2>2
    <2>3. QED
      BY <2>1, <2>2
  <1>7. QED
    BY <1>1, <1>4, <1>5, <1>6 DEF Tracks

LEMMA CancelTracks ==
    ASSUME TypeOK, NEW r \in Requests, NEW k \in Keys, CancelRequest(r, k)
    PROVE  Tracks(r)'
  <1>1. status'[r] = "CANCELLED" /\ reservation'[r] = Released(r)
    BY DEF CancelRequest, TypeOK
  <1>2. ASSUME NEW i \in Items
        PROVE  Released(r)[i].status # "ACTIVE"
    <2>1. reservation[r][i] \in [status : ReservationStatuses, quantity : Nat]
      BY DEF TypeOK
    <2>2. QED
      BY <2>1 DEF Released
  <1>3. QED
    BY <1>1, <1>2 DEF Tracks

LEMMA PostTracks ==
    ASSUME TypeOK, NEW s \in Sessions, CommitPost(s), NEW r \in Requests, r = call[s].req, Tracks(r)
    PROVE  Tracks(r)'
  <1>1. status'[r] = "SHIPPED" /\ reservation'[r] = Closed(r)
    BY PostsInOneStage DEF CommitPost, TypeOK
  <1>2. ASSUME NEW i \in Items
        PROVE  Closed(r)[i].status # "ACTIVE"
    <2>1. reservation[r][i] \in [status : ReservationStatuses, quantity : Nat]
      BY DEF TypeOK
    <2>2. reservation[r][i].status = "ACTIVE" => i \in ItemSet(r)
      BY DEF Tracks
    <2>3. QED
      BY <2>1, <2>2 DEF Closed
  <1>3. QED
    BY <1>1, <1>2 DEF Tracks

LEMMA DraftingTracks ==
    ASSUME TypeOK, NEW r \in Requests, NEW a \in Accounts, NEW p \in Payloads, NEW k \in Keys,
           CreateRequestDraft(r, a, p, k) \/ UpdateRequestDraft(r, a, p, k), Tracks(r)
    PROVE  Tracks(r)'
  <1>1. status[r] # "SUBMITTED" /\ status'[r] = "DRAFT" /\ reservation' = reservation
    BY DEF CreateRequestDraft, UpdateRequestDraft, TypeOK, Absent
  <1>2. QED
    BY <1>1 DEF Tracks

LEMMA SubmitWithLinesTracks ==
    ASSUME TypeOK, NEW r \in Requests, NEW a \in Accounts, NEW p \in Payloads, NEW k \in Keys,
           SubmitWithLines(r, a, p, k), Tracks(r)
    PROVE  Tracks(r)'
  <1>1. /\ status[r] # "SUBMITTED" /\ status'[r] = "SUBMITTED"
        /\ rows'[r] = p /\ reservation'[r] = Reserve(r, p)
    BY DEF SubmitWithLines, TypeOK, Absent
  <1>2. QED
    BY <1>1 DEF Tracks, Reserve, ItemSet, ItemsOf, RequestedTransfer, GeneratedTransfer,
                TriggeredTransfer

LEMMA ReservationsPreserved ==
    ASSUME TypeOK, ReservationTracksRequest, [Next]_vars
    PROVE  ReservationTracksRequest'
  <1> SUFFICES ASSUME NEW q \in Requests PROVE Tracks(q)'
    BY DEF Tracks, ReservationTracksRequest
  <1>1. Tracks(q)
    BY DEF Tracks, ReservationTracksRequest
  <1>2. CASE UNCHANGED requestVars
    BY <1>1, <1>2, TracksFrame DEF requestVars
  <1>3. ASSUME NEW r \in Requests, NEW a \in Accounts, NEW p \in Payloads, NEW k \in Keys,
               CreateRequestDraft(r, a, p, k) \/ UpdateRequestDraft(r, a, p, k)
                 \/ SubmitWithLines(r, a, p, k)
        PROVE  Tracks(q)'
    <2>1. CASE q = r
      BY <1>1, <1>3, <2>1, DraftingTracks, SubmitWithLinesTracks
    <2>2. CASE q # r
      BY <1>1, <1>3, <2>2, TracksFrame DEF CreateRequestDraft, UpdateRequestDraft, SubmitWithLines, TypeOK
    <2>3. QED
      BY <2>1, <2>2
  <1>4. ASSUME NEW r \in Requests, NEW k \in Keys, CancelRequest(r, k)
        PROVE  Tracks(q)'
    <2>1. CASE q = r
      BY <1>4, <2>1, CancelTracks
    <2>2. CASE q # r
      BY <1>1, <1>4, <2>2, TracksFrame DEF CancelRequest, TypeOK
    <2>3. QED
      BY <2>1, <2>2
  <1>5. ASSUME NEW r \in Requests, NEW k \in Keys, CreateShipmentDraft(r, k)
        PROVE  Tracks(q)'
    BY <1>1, <1>5, TracksFrame DEF CreateShipmentDraft
  <1>6. ASSUME NEW r \in Requests, NEW i \in Items, NEW e \in Edits, EditShipmentLine(r, i, e)
        PROVE  Tracks(q)'
    BY <1>1, <1>6, TracksFrame DEF EditShipmentLine
  <1>7. ASSUME NEW s \in Sessions, CommitSubmit(s) \/ CommitUpdate(s) \/ CommitPost(s)
        PROVE  Tracks(q)'
    <2>1. CASE q = call[s].req
      <3>1. CASE CommitSubmit(s)
        BY <1>1, <2>1, <3>1, SubmitTracks
      <3>2. CASE CommitUpdate(s)
        BY <2>1, <3>2, UpdateTracks
      <3>3. CASE CommitPost(s)
        BY <1>1, <2>1, <3>3, PostTracks
      <3>4. QED
        BY <1>7, <3>1, <3>2, <3>3
    <2>2. CASE q # call[s].req
      BY <1>1, <1>7, <2>2, TracksFrame DEF CommitSubmit, CommitUpdate, CommitPost, TypeOK
    <2>3. QED
      BY <2>1, <2>2
  <1>8. QED
    BY <1>2, <1>3, <1>4, <1>5, <1>6, <1>7, StepCases, ReadsWriteNoTable DEF vars

LEMMA ShippedPreserved ==
    ASSUME TypeOK, ShippedIffPosted, [Next]_vars
    PROVE  ShippedIffPosted'
  <1> SUFFICES ASSUME NEW q \in Requests
               PROVE  (status'[q] = "SHIPPED") <=> (shipment'[q].status = "POSTED")
    BY DEF ShippedIffPosted
  <1>1. (status[q] = "SHIPPED") <=> (shipment[q].status = "POSTED")
    BY DEF ShippedIffPosted
  <1>2. CASE UNCHANGED requestVars
    BY <1>1, <1>2 DEF requestVars
  <1>3. ASSUME NEW r \in Requests, NEW a \in Accounts, NEW p \in Payloads, NEW k \in Keys,
               CreateRequestDraft(r, a, p, k) \/ UpdateRequestDraft(r, a, p, k)
                 \/ SubmitWithLines(r, a, p, k)
        PROVE  (status'[q] = "SHIPPED") <=> (shipment'[q].status = "POSTED")
    BY <1>1, <1>3 DEF CreateRequestDraft, UpdateRequestDraft, SubmitWithLines, TypeOK, Absent
  <1>4. ASSUME NEW r \in Requests, NEW k \in Keys, CancelRequest(r, k)
        PROVE  (status'[q] = "SHIPPED") <=> (shipment'[q].status = "POSTED")
    <2>1. shipment' = shipment
      BY <1>4 DEF CancelRequest, CleanedShipment, AfterGuardedDelete, TypeOK
    <2>2. status[r] # "SHIPPED" /\ status' = [status EXCEPT ![r] = "CANCELLED"]
      BY <1>4 DEF CancelRequest, Cancellable, Open
    <2>3. QED
      BY <1>1, <2>1, <2>2 DEF TypeOK
  <1>5. ASSUME NEW r \in Requests, NEW k \in Keys, CreateShipmentDraft(r, k)
        PROVE  (status'[q] = "SHIPPED") <=> (shipment'[q].status = "POSTED")
    <2>1. /\ shipment'[q] # shipment[q] =>
               q = r /\ shipment'[q].status = "DRAFT" /\ status[q] = "SUBMITTED"
          /\ status' = status
      BY <1>5 DEF CreateShipmentDraft, DraftAccepted, TypeOK
    <2>2. QED
      BY <1>1, <2>1
  <1>6. ASSUME NEW r \in Requests, NEW i \in Items, NEW e \in Edits, EditShipmentLine(r, i, e)
        PROVE  (status'[q] = "SHIPPED") <=> (shipment'[q].status = "POSTED")
    <2>1. shipment'[q].status = shipment[q].status /\ status' = status
      BY <1>6 DEF EditShipmentLine, TypeOK
    <2>2. QED
      BY <1>1, <2>1
  <1>7. ASSUME NEW s \in Sessions, CommitSubmit(s) \/ CommitUpdate(s) \/ CommitPost(s)
        PROVE  (status'[q] = "SHIPPED") <=> (shipment'[q].status = "POSTED")
    <2> DEFINE r == call[s].req
    <2>1. r \in Requests
      BY <1>7, CallFields DEF CommitSubmit, CommitUpdate, CommitPost
    <2>2. CASE CommitSubmit(s)
      BY <1>1, <2>1, <2>2 DEF CommitSubmit, TypeOK
    <2>3. CASE CommitUpdate(s)
      <3>1. shipment' = shipment
        BY <2>1, <2>3 DEF CommitUpdate, CleanedShipment, AfterGuardedDelete, TypeOK
      <3>2. shipment[r].status # "POSTED"
        BY <2>3 DEF CommitUpdate, RevisionAccepted, CleanedShipment, AfterGuardedDelete, Absent
      <3>3. QED
        BY <1>1, <2>1, <2>3, <3>1, <3>2 DEF CommitUpdate, TypeOK
    <2>4. CASE CommitPost(s)
      <3>1. CASE q = r
        BY <2>4, <3>1, PostsInOneStage DEF CommitPost, TypeOK
      <3>2. CASE q # r
        BY <1>1, <2>4, <3>2 DEF CommitPost, TypeOK
      <3>3. QED
        BY <3>1, <3>2
    <2>5. QED
      BY <1>7, <2>2, <2>3, <2>4
  <1>8. QED
    BY <1>2, <1>3, <1>4, <1>5, <1>6, <1>7, StepCases, ReadsWriteNoTable DEF vars

LEMMA SeenPreserved ==
    ASSUME TypeOK, SeenCoversPayload, [Next]_vars
    PROVE  SeenCoversPayload'
  <1> SUFFICES ASSUME NEW t \in Sessions, call'[t].op = "UPDATE_HR_REQUEST"
               PROVE  ItemsOf(call'[t].payload) \subseteq call'[t].seen
    BY DEF SeenCoversPayload, ItemsOf
  <1>1. CASE call'[t] = call[t]
    BY <1>1 DEF SeenCoversPayload
  <1>2. ASSUME NEW s \in Sessions, NEW r \in Requests, NEW a \in Accounts, NEW p \in Payloads,
               NEW k \in Keys, BeginUpdate(s, r, a, p, k), s = t
        PROVE  ItemsOf(call'[t].payload) \subseteq call'[t].seen
    BY <1>2 DEF BeginUpdate, TypeOK
  <1>3. ASSUME NEW s \in Sessions, Reads(s)
        PROVE  \/ call'[t] = call[t]
               \/ s = t /\ \E r \in Requests, a \in Accounts, p \in Payloads, k \in Keys :
                             BeginUpdate(s, r, a, p, k)
    BY <1>3 DEF Reads, BeginSubmit, BeginPost, BeginPostWithLines, BeginUpdate, Abort, TypeOK, Idle
  <1>4. ASSUME NEW s \in Sessions, CommitSubmit(s) \/ CommitUpdate(s) \/ CommitPost(s)
        PROVE  call'[t] = call[t]
    BY <1>4 DEF CommitSubmit, CommitUpdate, CommitPost, TypeOK, Idle
  <1>5. QED
    BY <1>1, <1>2, <1>3, <1>4, StepCases
       DEF vars, CreateRequestDraft, UpdateRequestDraft, SubmitWithLines, CancelRequest,
           CreateShipmentDraft, EditShipmentLine

LEMMA InvInitially == Init => IInv
  <1> SUFFICES ASSUME Init PROVE IInv
    OBVIOUS
  <1>1. StockNeverNegative /\ LedgerExplainsBalance
    BY OpeningAssumption DEF Init, InventoryInit, StockNeverNegative, LedgerExplainsBalance
  <1>2. ReservationTracksRequest
    BY DEF Init, NoReservation, ReservationTracksRequest, Absent
  <1>3. ShippedIffPosted
    BY DEF Init, NoShipment, ShippedIffPosted, Absent
  <1>4. SeenCoversPayload
    BY DEF Init, Idle, SeenCoversPayload
  <1>5. QED
    BY <1>1, <1>2, <1>3, <1>4, TypeInitially DEF IInv

LEMMA InvPreserved == IInv /\ [Next]_vars => IInv'
  BY TypePreserved, StockPreserved, LedgerPreserved, ReservationsPreserved, ShippedPreserved,
     SeenPreserved DEF IInv

THEOREM Invariance == Spec => []IInv
  BY InvInitially, InvPreserved, PTL DEF Spec

\* No interleaving of postings ever takes a balance below zero: 0095's own
\* checks suffice and the CHECK of 0001:123 is never needed.
THEOREM StockSafe == Spec => []StockNeverNegative
  BY Invariance, PTL DEF IInv

\* The balance statements and the ledger statements of a posting agree.
THEOREM LedgerSafe == Spec => []LedgerExplainsBalance
  BY Invariance, PTL DEF IInv

\* Submit, revision, cancellation and posting keep the reservations of a
\* request exactly in step with its status and its item rows.
THEOREM ReservationsSafe == Spec => []ReservationTracksRequest
  BY Invariance, PTL DEF IInv

\* Request and shipment change to SHIPPED and POSTED together.
THEOREM ShippedSafe == Spec => []ShippedIffPosted
  BY Invariance, PTL DEF IInv

LEMMA PostedStepHolds ==
    ASSUME IInv, [Next]_vars, NEW q \in Requests
    PROVE  PostedStep(q)
  <1> SUFFICES ASSUME shipment[q].status = "POSTED"
               PROVE  /\ shipment'[q] = shipment[q] /\ status'[q] = status[q]
                      /\ rows'[q] = rows[q] /\ reservation'[q] = reservation[q]
    BY DEF PostedStep
  <1>1. status[q] = "SHIPPED"
    BY DEF IInv, ShippedIffPosted
  <1>2. TypeOK
    BY DEF IInv
  <1>3. ASSUME NEW r \in Requests, NEW a \in Accounts, NEW p \in Payloads, NEW k \in Keys,
               CreateRequestDraft(r, a, p, k) \/ UpdateRequestDraft(r, a, p, k)
                 \/ SubmitWithLines(r, a, p, k)
        PROVE  /\ shipment'[q] = shipment[q] /\ status'[q] = status[q]
               /\ rows'[q] = rows[q] /\ reservation'[q] = reservation[q]
    BY <1>1, <1>2, <1>3
       DEF CreateRequestDraft, UpdateRequestDraft, SubmitWithLines, TypeOK, Absent
  <1>4. ASSUME NEW r \in Requests, NEW k \in Keys, CancelRequest(r, k) \/ CreateShipmentDraft(r, k)
        PROVE  /\ shipment'[q] = shipment[q] /\ status'[q] = status[q]
               /\ rows'[q] = rows[q] /\ reservation'[q] = reservation[q]
    <2>1. r # q
      BY <1>1, <1>4 DEF CancelRequest, Cancellable, CreateShipmentDraft, DraftAccepted, Open
    <2>2. QED
      BY <1>2, <1>4, <2>1 DEF CancelRequest, CreateShipmentDraft, TypeOK
  <1>5. ASSUME NEW r \in Requests, NEW i \in Items, NEW e \in Edits, EditShipmentLine(r, i, e)
        PROVE  /\ shipment'[q] = shipment[q] /\ status'[q] = status[q]
               /\ rows'[q] = rows[q] /\ reservation'[q] = reservation[q]
    <2>1. r # q
      BY <1>5 DEF EditShipmentLine, LineEditable
    <2>2. QED
      BY <1>2, <1>5, <2>1 DEF EditShipmentLine, TypeOK
  <1>6. ASSUME NEW s \in Sessions, CommitSubmit(s) \/ CommitUpdate(s) \/ CommitPost(s)
        PROVE  /\ shipment'[q] = shipment[q] /\ status'[q] = status[q]
               /\ rows'[q] = rows[q] /\ reservation'[q] = reservation[q]
    <2>1. call[s].req # q
      <3>1. CASE CommitSubmit(s)
        BY <1>1, <3>1 DEF CommitSubmit
      <3>2. CASE CommitUpdate(s)
        BY <3>2 DEF CommitUpdate, RevisionAccepted, CleanedShipment, AfterGuardedDelete, Absent
      <3>3. CASE CommitPost(s)
        BY <3>3 DEF CommitPost, PostAccepted
      <3>4. QED
        BY <1>6, <3>1, <3>2, <3>3
    <2>2. QED
      BY <1>2, <1>6, <2>1 DEF CommitSubmit, CommitUpdate, CommitPost, TypeOK
  <1>7. CASE UNCHANGED requestVars
    BY <1>7 DEF requestVars
  <1>8. QED
    BY <1>3, <1>4, <1>5, <1>6, <1>7, StepCases, ReadsWriteNoTable DEF vars

\* A posted shipment, its request and its reservations never change again.
THEOREM PostedStays == Spec => PostedIsFinal
  <1>1. IInv /\ [Next]_vars => [\A r \in Requests : PostedStep(r)]_vars
    BY PostedStepHolds
  <1>2. QED
    BY <1>1, Invariance, PTL DEF Spec, PostedIsFinal

LEMMA ReservesUnderMutexHolds ==
    ASSUME IInv, [Next]_vars
    PROVE  ReservesUnderMutex
  <1> SUFFICES ASSUME NEW q \in Requests, NEW i \in Items,
                      reservation'[q][i] # reservation[q][i],
                      reservation'[q][i].status = "ACTIVE"
               PROVE  \/ \E s \in Sessions :
                           /\ call[s].op \in {"SUBMIT_HR_REQUEST", "UPDATE_HR_REQUEST"}
                           /\ call[s].req = q
                           /\ i \in call[s].seen
                           /\ call'[s] = Idle
                      \/ \E a \in Accounts, p \in Payloads, k \in Keys :
                           SubmitWithLines(q, a, p, k)
    BY DEF ReservesUnderMutex
  <1>1. TypeOK /\ SeenCoversPayload
    BY DEF IInv
  <1>2. \A r \in Requests : reservation[r][i] \in [status : ReservationStatuses, quantity : Nat]
    BY <1>1 DEF TypeOK
  <1>3. ASSUME NEW r \in Requests, Released(r)[i] # reservation[r][i]
        PROVE  Released(r)[i].status # "ACTIVE"
    BY <1>2, <1>3 DEF Released
  <1>4. ASSUME NEW r \in Requests, NEW k \in Keys, CancelRequest(r, k)
        PROVE  FALSE
    BY <1>1, <1>3, <1>4 DEF CancelRequest, TypeOK
  <1>5. ASSUME NEW s \in Sessions, CommitPost(s)
        PROVE  FALSE
    <2>1. reservation' = [reservation EXCEPT ![call[s].req] = Closed(call[s].req)]
      BY <1>5 DEF CommitPost
    <2>2. ASSUME NEW r \in Requests, Closed(r)[i] # reservation[r][i]
          PROVE  Closed(r)[i].status # "ACTIVE"
      BY <1>2, <2>2 DEF Closed
    <2>3. QED
      BY <1>1, <1>5, <2>1, <2>2, CallFields DEF CommitPost, TypeOK
  <1>6. ASSUME NEW s \in Sessions, CommitSubmit(s)
        PROVE  call[s].req = q /\ i \in call[s].seen /\ call'[s] = Idle
    <2>1. call[s].req = q
      BY <1>1, <1>6 DEF CommitSubmit, TypeOK
    <2>2. reservation'[q] = Reserve(q, rows[q])
      BY <1>1, <1>6, <2>1 DEF CommitSubmit, TypeOK
    <2>3. i \in ItemSet(q)
      BY <2>2 DEF Reserve, ItemSet
    <2>4. QED
      BY <1>1, <1>6, <2>1, <2>3 DEF CommitSubmit, SameItems, TypeOK
  <1>7. ASSUME NEW s \in Sessions, CommitUpdate(s)
        PROVE  call[s].req = q /\ i \in call[s].seen /\ call'[s] = Idle
    <2>1. call[s].req = q
      BY <1>1, <1>7 DEF CommitUpdate, TypeOK
    <2>2. i \notin ItemsOf(call[s].payload) => reservation'[q][i] = Released(q)[i]
      BY <1>1, <1>7, <2>1 DEF CommitUpdate, TypeOK
    <2>3. i \in ItemsOf(call[s].payload)
      BY <1>3, <2>2
    <2>4. QED
      BY <1>1, <1>7, <2>1, <2>3 DEF CommitUpdate, SeenCoversPayload, TypeOK
  <1>8. reservation' # reservation
    OBVIOUS
  <1>9. \/ \E s \in Sessions : CommitSubmit(s) \/ CommitUpdate(s)
        \/ \E r \in Requests, a \in Accounts, p \in Payloads, k \in Keys :
             SubmitWithLines(r, a, p, k)
    BY <1>4, <1>5, <1>8, StepCases, ReadsWriteNoTable
       DEF vars, requestVars, CreateRequestDraft, UpdateRequestDraft, CreateShipmentDraft,
           EditShipmentLine
  <1>10. ASSUME NEW r \in Requests, NEW a \in Accounts, NEW p \in Payloads, NEW k \in Keys,
                SubmitWithLines(r, a, p, k)
         PROVE  r = q
    BY <1>1, <1>10 DEF SubmitWithLines, TypeOK
  <1>11. ASSUME NEW s \in Sessions, CommitSubmit(s) \/ CommitUpdate(s)
         PROVE  call[s].op \in {"SUBMIT_HR_REQUEST", "UPDATE_HR_REQUEST"}
    BY <1>11 DEF CommitSubmit, CommitUpdate
  <1>12. QED
    BY <1>6, <1>7, <1>9, <1>10, <1>11

\* A reservation is only ever written under the item's mutex.
THEOREM ReservingIsExclusive == Spec => ReservedUnderMutex
  <1>1. IInv /\ [Next]_vars => [ReservesUnderMutex]_vars
    BY ReservesUnderMutexHolds
  <1>2. QED
    BY <1>1, Invariance, PTL DEF Spec, ReservedUnderMutex
(***************************************************************************)
(* HrFulfilment implements StockPromise.                                   *)
(***************************************************************************)

LEMMA PromisedSum ==
    ASSUME NEW f, NEW S
    PROVE  Promised!SumFunctionOnSet(f, S) = SumFunctionOnSet(f, S)
  BY DEF Promised!SumFunctionOnSet, Promised!FoldFunctionOnSet, Promised!MapThenFoldSet,
         SumFunctionOnSet, FoldFunctionOnSet, MapThenFoldSet

\* What each request has reserved of an item.
Reserved(i) == [r \in Requests |-> ActiveQuantity(r, i)]

LEMMA ActiveType ==
    ASSUME TypeOK, NEW r \in Requests, NEW i \in Items
    PROVE  ActiveQuantity(r, i) \in Nat
  <1>1. reservation[r][i] \in [status : ReservationStatuses, quantity : Nat]
    BY DEF TypeOK
  <1>2. QED
    BY <1>1 DEF ActiveQuantity

LEMMA CombinedType ==
    ASSUME TypeOK, NEW i \in Items
    PROVE  /\ onHand["HR"][i] \in Int /\ onHand["GENERAL"][i] \in Int
           /\ CombinedOnHand(i) \in Int
  BY DEF TypeOK, InventoryTypeOK, Warehouses, CombinedOnHand

LEMMA ReservedType ==
    ASSUME TypeOK, NEW rs \in SUBSET Requests, NEW i \in Items
    PROVE  ActiveReserved(rs, i) \in Nat
  <1>1. IsFiniteSet(rs)
    BY RequestsAssumption, FS_Subset
  <1>2. \A r \in rs : Reserved(i)[r] \in Nat
    BY ActiveType DEF Reserved
  <1>3. SumFunctionOnSet(Reserved(i), rs) \in Nat
    BY <1>1, <1>2, SumNat
  <1>4. QED
    BY <1>3 DEF Reserved, ActiveReserved

\* All that is reserved is what one request has and what the others have.
LEMMA ReservedSplit ==
    ASSUME TypeOK, NEW r \in Requests, NEW i \in Items
    PROVE  ActiveReserved(Requests, i) =
             ActiveQuantity(r, i) + ActiveReserved(Requests \ {r}, i)
  <1>1. \A q \in Requests : Reserved(i)[q] \in Int
    BY ActiveType DEF Reserved
  <1>2. SumFunctionOnSet(Reserved(i), Requests) =
          Reserved(i)[r] + SumFunctionOnSet(Reserved(i), Requests \ {r})
    BY <1>1, RequestsAssumption, SumRemove
  <1>3. QED
    BY <1>2 DEF Reserved, ActiveReserved

LEMMA OthersReserveTheSame ==
    ASSUME NEW r \in Requests, NEW i \in Items,
           \A q \in Requests \ {r} : reservation'[q] = reservation[q]
    PROVE  ActiveReserved(Requests \ {r}, i)' = ActiveReserved(Requests \ {r}, i)
  <1> DEFINE f == Reserved(i)
             g == Reserved(i)'
  <1>1. \A q \in Requests \ {r} : g[q] = f[q]
    BY DEF Reserved, ActiveQuantity
  <1>2. IsFiniteSet(Requests \ {r})
    BY RequestsAssumption, FS_Subset
  <1> HIDE DEF f, g
  <1>3. SumFunctionOnSet(g, Requests \ {r}) = SumFunctionOnSet(f, Requests \ {r})
    BY <1>1, <1>2, SumSame
  <1>4. QED
    BY <1>3 DEF f, g, Reserved, ActiveReserved

\* The same in one formula, to speak of the state before and after a step.
Splits ==
    \A r \in Requests, i \in Items :
        /\ CombinedOnHand(i) \in Int
        /\ ActiveQuantity(r, i) \in Nat
        /\ ActiveReserved(Requests \ {r}, i) \in Nat
        /\ ActiveReserved(Requests, i) =
             ActiveQuantity(r, i) + ActiveReserved(Requests \ {r}, i)

LEMMA ReservationsSplit == TypeOK => Splits
  <1> SUFFICES ASSUME TypeOK, NEW r \in Requests, NEW i \in Items
               PROVE  /\ CombinedOnHand(i) \in Int
                      /\ ActiveQuantity(r, i) \in Nat
                      /\ ActiveReserved(Requests \ {r}, i) \in Nat
                      /\ ActiveReserved(Requests, i) =
                           ActiveQuantity(r, i) + ActiveReserved(Requests \ {r}, i)
    BY DEF Splits
  <1>1. CombinedOnHand(i) \in Int /\ ActiveQuantity(r, i) \in Nat
    BY CombinedType, ActiveType
  <1>2. ActiveReserved(Requests \ {r}, i) \in Nat
    BY ReservedType
  <1>3. QED
    BY <1>1, <1>2, ReservedSplit

\* The three things a step can do to the promises, in this model's own terms.
OthersKeep(r) == \A q \in Requests \ {r} : reservation'[q] = reservation[q]
GivesNothing(r) == \A i \in Items : ActiveQuantity(r, i)' = 0

Promises(r) ==
    /\ \A i \in Items :
         \/ ActiveQuantity(r, i)' = 0
         \/ ActiveQuantity(r, i)' + ActiveReserved(Requests \ {r}, i) <= CombinedOnHand(i)
    /\ OthersKeep(r)
    /\ UNCHANGED inventoryVars

Withdraws(r) == GivesNothing(r) /\ OthersKeep(r) /\ UNCHANGED inventoryVars

Takes(r) ==
    /\ \A i \in Items :
         /\ CombinedOnHand(i)' <= CombinedOnHand(i)
         /\ CombinedOnHand(i) - CombinedOnHand(i)' <= ActiveQuantity(r, i)
    /\ GivesNothing(r)
    /\ OthersKeep(r)

LEMMA ReservePromises ==
    ASSUME TypeOK, NEW r \in Requests, Tracks(r), status[r] # "SUBMITTED",
           NEW p \in [Items -> Row], SubmitAccepted(r, p), UNCHANGED inventoryVars,
           reservation' = [reservation EXCEPT ![r] = Reserve(r, p)]
    PROVE  Promises(r)
  <1>1. reservation'[r] = Reserve(r, p) /\ OthersKeep(r)
    BY DEF TypeOK, OthersKeep
  <1>2. ASSUME NEW i \in Items
        PROVE  \/ ActiveQuantity(r, i)' = 0
               \/ ActiveQuantity(r, i)' + ActiveReserved(Requests \ {r}, i)
                    <= CombinedOnHand(i)
    <2>1. ActiveQuantity(r, i) = 0
      BY DEF Tracks, ActiveQuantity
    <2>2. CASE i \in ItemsOf(p)
      <3>1. ActiveQuantity(r, i)' = RequestedTransfer(p[i])
        BY <1>1, <2>2 DEF Reserve, ActiveQuantity
      <3>2. RequestedTransfer(p[i]) <= CombinedOnHand(i) - ActiveReserved(Requests, i)
        <4>1. Requests \ {} = Requests
          OBVIOUS
        <4>2. QED
          BY <2>2, <4>1 DEF SubmitAccepted, Available
      <3>3. ActiveReserved(Requests, i) = ActiveReserved(Requests \ {r}, i)
        BY <2>1, ReservedSplit, ReservedType
      <3>4. /\ RequestedTransfer(p[i]) \in Nat /\ CombinedOnHand(i) \in Int
            /\ ActiveReserved(Requests \ {r}, i) \in Nat
        BY RequestedTransferType, CombinedType, ReservedType
      <3>5. QED
        BY <3>1, <3>2, <3>3, <3>4
    <2>3. CASE i \notin ItemsOf(p)
      BY <1>1, <2>1, <2>3 DEF Reserve, ActiveQuantity
    <2>4. QED
      BY <2>2, <2>3
  <1>3. QED
    BY <1>1, <1>2 DEF Promises

LEMMA CommitSubmitPromises ==
    ASSUME TypeOK, ReservationTracksRequest, NEW s \in Sessions, CommitSubmit(s),
           NEW r \in Requests, r = call[s].req
    PROVE  Promises(r)
  <1>1. Tracks(r)
    BY DEF Tracks, ReservationTracksRequest
  <1>2. rows[r] \in [Items -> Row]
    BY DEF TypeOK
  <1>3. /\ status[r] # "SUBMITTED" /\ SubmitAccepted(r, rows[r]) /\ UNCHANGED inventoryVars
        /\ reservation' = [reservation EXCEPT ![r] = Reserve(r, rows[r])]
    BY DEF CommitSubmit
  <1>4. QED
    BY <1>1, <1>2, <1>3, ReservePromises

LEMMA SubmitWithLinesPromises ==
    ASSUME TypeOK, ReservationTracksRequest, NEW r \in Requests, NEW a \in Accounts,
           NEW p \in Payloads, NEW k \in Keys, SubmitWithLines(r, a, p, k)
    PROVE  Promises(r)
  <1>1. Tracks(r)
    BY DEF Tracks, ReservationTracksRequest
  <1>2. p \in [Items -> Row]
    BY PayloadsAssumption
  <1>3. /\ status[r] # "SUBMITTED" /\ SubmitAccepted(r, p) /\ UNCHANGED inventoryVars
        /\ reservation' = [reservation EXCEPT ![r] = Reserve(r, p)]
    BY DEF SubmitWithLines, Absent
  <1>4. QED
    BY <1>1, <1>2, <1>3, ReservePromises

LEMMA ReleasedNothing ==
    ASSUME TypeOK, NEW r \in Requests, NEW i \in Items
    PROVE  Released(r)[i].status # "ACTIVE"
  <1>1. reservation[r][i] \in [status : ReservationStatuses, quantity : Nat]
    BY DEF TypeOK
  <1>2. QED
    BY <1>1 DEF Released

LEMMA CommitUpdatePromises ==
    ASSUME TypeOK, NEW s \in Sessions, CommitUpdate(s),
           NEW r \in Requests, r = call[s].req
    PROVE  Promises(r)
  <1>1. PICK p \in Payloads : p = call[s].payload
    BY CallFields DEF CommitUpdate
  <1>2. p \in [Items -> Row]
    BY <1>1, PayloadsAssumption
  <1>3. /\ reservation'[r] = [i \in Items |-> IF i \in ItemsOf(p) THEN Reserve(r, p)[i]
                                                                ELSE Released(r)[i]]
        /\ OthersKeep(r)
    BY <1>1 DEF CommitUpdate, TypeOK, OthersKeep
  <1>4. UNCHANGED inventoryVars /\ RevisionAccepted(r, p)
    BY <1>1 DEF CommitUpdate
  <1>5. ASSUME NEW i \in Items
        PROVE  \/ ActiveQuantity(r, i)' = 0
               \/ ActiveQuantity(r, i)' + ActiveReserved(Requests \ {r}, i)
                    <= CombinedOnHand(i)
    <2>1. CASE i \in ItemsOf(p)
      <3>1. reservation'[r][i] = [status |-> "ACTIVE", quantity |-> RequestedTransfer(p[i])]
        BY <1>3, <2>1 DEF Reserve
      <3>2. ActiveQuantity(r, i)' = RequestedTransfer(p[i])
        BY <3>1 DEF ActiveQuantity
      <3>3. RequestedTransfer(p[i]) <= CombinedOnHand(i) - ActiveReserved(Requests \ {r}, i)
        BY <1>4, <2>1 DEF RevisionAccepted, Available
      <3>4. /\ RequestedTransfer(p[i]) \in Nat /\ CombinedOnHand(i) \in Int
            /\ ActiveReserved(Requests \ {r}, i) \in Nat
        BY <1>2, RequestedTransferType, CombinedType, ReservedType
      <3>5. QED
        BY <3>2, <3>3, <3>4
    <2>2. CASE i \notin ItemsOf(p)
      BY <1>1, <1>3, <2>2, ReleasedNothing DEF ActiveQuantity
    <2>3. QED
      BY <2>1, <2>2
  <1>6. QED
    BY <1>3, <1>4, <1>5 DEF Promises

LEMMA CancelWithdraws ==
    ASSUME TypeOK, NEW r \in Requests, NEW k \in Keys, CancelRequest(r, k)
    PROVE  Withdraws(r)
  <1>1. reservation'[r] = Released(r) /\ OthersKeep(r)
    BY DEF CancelRequest, TypeOK, OthersKeep
  <1>2. GivesNothing(r)
    BY <1>1, ReleasedNothing DEF GivesNothing, ActiveQuantity
  <1>3. QED
    BY <1>1, <1>2 DEF Withdraws, CancelRequest

LEMMA CommitPostTakes ==
    ASSUME TypeOK, ReservationTracksRequest, NEW s \in Sessions, CommitPost(s),
           NEW r \in Requests, r = call[s].req
    PROVE  Takes(r)
  <1>1. ~TwoStage /\ status[r] = "SUBMITTED"
    BY PostsInOneStage DEF CommitPost, PostAccepted
  <1>2. reservation'[r] = Closed(r) /\ OthersKeep(r)
    BY <1>1 DEF CommitPost, TypeOK, OthersKeep
  <1>3. ASSUME NEW i \in Items
        PROVE  /\ reservation[r][i].status = "ACTIVE" <=> i \in ItemSet(r)
               /\ reservation[r][i].status = "ACTIVE" =>
                    reservation[r][i].quantity = RequestedTransfer(rows[r][i])
    BY <1>1 DEF ReservationTracksRequest
  <1>4. GivesNothing(r)
    <2>1. ASSUME NEW i \in Items
          PROVE  Closed(r)[i].status # "ACTIVE"
      <3>1. reservation[r][i] \in [status : ReservationStatuses, quantity : Nat]
        BY <1>1 DEF TypeOK
      <3>2. QED
        BY <1>3, <3>1 DEF Closed
    <2>2. QED
      BY <1>2, <2>1 DEF GivesNothing, ActiveQuantity
  <1>5. ASSUME NEW i \in Items
        PROVE  /\ CombinedOnHand(i)' <= CombinedOnHand(i)
               /\ CombinedOnHand(i) - CombinedOnHand(i)' <= ActiveQuantity(r, i)
    <2> DEFINE moved == PostedLines(s)[i].actual
    <2>1. rows[r][i] \in Row
      BY <1>1 DEF TypeOK
    <2>2. onHand["HR"][i] \in Int /\ onHand["GENERAL"][i] \in Int
      BY CombinedType
    <2>3. CASE i \in ItemSet(r)
      <3>1. /\ moved \in Nat
            /\ onHand'["GENERAL"][i] = onHand["GENERAL"][i] - moved
            /\ onHand'["HR"][i] = onHand["HR"][i] + moved - rows[r][i].issue
        BY <2>3, CommitPostMoves
      <3>2. ActiveQuantity(r, i) = rows[r][i].issue + rows[r][i].increase
        BY <1>1, <1>3, <2>3 DEF ActiveQuantity, RequestedTransfer, GeneratedTransfer
      <3>3. rows[r][i].issue \in Nat /\ rows[r][i].increase \in Nat
        BY <2>1 DEF Row
      <3> HIDE DEF moved
      <3>4. QED
        BY <2>2, <3>1, <3>2, <3>3 DEF CombinedOnHand
    <2>4. CASE i \notin ItemSet(r)
      <3>1. /\ onHand'["GENERAL"][i] = onHand["GENERAL"][i]
            /\ onHand'["HR"][i] = onHand["HR"][i]
        BY <2>4, CommitPostMoves DEF Warehouses
      <3>2. ActiveQuantity(r, i) \in Nat
        BY <1>1, ActiveType
      <3>3. QED
        BY <2>2, <3>1, <3>2 DEF CombinedOnHand
    <2>5. QED
      BY <2>3, <2>4
  <1>6. QED
    BY <1>2, <1>4, <1>5 DEF Takes

\* Every step promises, withdraws, takes, or leaves stock and promises alone.
LEMMA PromiseCases ==
    ASSUME TypeOK, ReservationTracksRequest, [Next]_vars
    PROVE  \/ reservation' = reservation /\ UNCHANGED inventoryVars
           \/ \E r \in Requests : Promises(r) \/ Withdraws(r) \/ Takes(r)
  <1>1. ASSUME NEW r \in Requests, NEW a \in Accounts, NEW p \in Payloads, NEW k \in Keys,
               CreateRequestDraft(r, a, p, k) \/ UpdateRequestDraft(r, a, p, k)
                 \/ SubmitWithLines(r, a, p, k)
        PROVE  (reservation' = reservation /\ UNCHANGED inventoryVars) \/ Promises(r)
    BY <1>1, SubmitWithLinesPromises DEF CreateRequestDraft, UpdateRequestDraft
  <1>2. ASSUME NEW r \in Requests, NEW k \in Keys, CancelRequest(r, k) \/ CreateShipmentDraft(r, k)
        PROVE  (reservation' = reservation /\ UNCHANGED inventoryVars) \/ Withdraws(r)
    BY <1>2, CancelWithdraws DEF CreateShipmentDraft
  <1>3. ASSUME NEW s \in Sessions, CommitSubmit(s) \/ CommitUpdate(s) \/ CommitPost(s)
        PROVE  \E r \in Requests : Promises(r) \/ Withdraws(r) \/ Takes(r)
    <2>1. PICK r \in Requests : r = call[s].req
      BY <1>3, CallFields DEF CommitSubmit, CommitUpdate, CommitPost
    <2>2. Promises(r) \/ Takes(r)
      BY <1>3, <2>1, CommitSubmitPromises, CommitUpdatePromises, CommitPostTakes
    <2>3. QED
      BY <2>2
  <1>4. QED
    BY <1>1, <1>2, <1>3, StepCases, ReadsWriteNoTable
       DEF vars, requestVars, EditShipmentLine

\* No piece is promised twice: all reservations together fit the stock.
Backed == \A i \in Items : ActiveReserved(Requests, i) <= CombinedOnHand(i)

LEMMA BackedPreserved ==
    ASSUME TypeOK, TypeOK', ReservationTracksRequest, Backed, [Next]_vars
    PROVE  Backed'
  <1> SUFFICES ASSUME NEW i \in Items
               PROVE  ActiveReserved(Requests, i)' <= CombinedOnHand(i)'
    BY DEF Backed
  <1>1. ActiveReserved(Requests, i) <= CombinedOnHand(i)
    BY DEF Backed
  <1>2. Splits /\ Splits'
    BY ReservationsSplit, PTL
  <1>3. CASE reservation' = reservation /\ UNCHANGED inventoryVars
    BY <1>1, <1>3 DEF ActiveReserved, ActiveQuantity, CombinedOnHand, inventoryVars
  <1>4. ASSUME NEW r \in Requests, Promises(r) \/ Withdraws(r) \/ Takes(r)
        PROVE  ActiveReserved(Requests, i)' <= CombinedOnHand(i)'
    <2> DEFINE others == ActiveReserved(Requests \ {r}, i)
               mine   == ActiveQuantity(r, i)
    <2>1. others' = others
      BY <1>4, OthersReserveTheSame DEF Promises, Withdraws, Takes, OthersKeep
    <2>2. /\ ActiveReserved(Requests, i) = mine + others
          /\ mine \in Nat /\ others \in Nat /\ CombinedOnHand(i) \in Int
      BY <1>2 DEF Splits
    <2>3. /\ ActiveReserved(Requests, i)' = mine' + others'
          /\ mine' \in Nat /\ CombinedOnHand(i)' \in Int
      BY <1>2 DEF Splits
    <2> HIDE DEF others, mine
    <2>4. CASE Promises(r)
      <3>1. CombinedOnHand(i)' = CombinedOnHand(i)
        BY <2>4 DEF Promises, inventoryVars, CombinedOnHand
      <3>2. mine' = 0 \/ mine' + others <= CombinedOnHand(i)
        BY <2>4 DEF Promises, mine, others
      <3>3. QED
        BY <1>1, <2>1, <2>2, <2>3, <3>1, <3>2
    <2>5. CASE Withdraws(r)
      <3>1. CombinedOnHand(i)' = CombinedOnHand(i)
        BY <2>5 DEF Withdraws, inventoryVars, CombinedOnHand
      <3>2. mine' = 0
        BY <2>5 DEF Withdraws, GivesNothing, mine
      <3>3. QED
        BY <1>1, <2>1, <2>2, <2>3, <3>1, <3>2
    <2>6. CASE Takes(r)
      <3>1. CombinedOnHand(i) - CombinedOnHand(i)' <= mine /\ mine' = 0
        BY <2>6 DEF Takes, GivesNothing, mine
      <3>2. QED
        BY <1>1, <2>1, <2>2, <2>3, <3>1
    <2>7. QED
      BY <1>4, <2>4, <2>5, <2>6
  <1>5. QED
    BY <1>3, <1>4, PromiseCases

LEMMA PromisesImplementsPromise ==
    ASSUME TypeOK, TypeOK', NEW r \in Requests, Promises(r)
    PROVE  Promised!Promise(r)
  <1>1. Splits /\ Splits'
    BY ReservationsSplit, PTL
  <1>2. ASSUME NEW i \in Items
        PROVE  Promised!PromisedToOthers(r, i) = ActiveReserved(Requests \ {r}, i)
    <2> DEFINE f == [q \in Requests |-> [q2 \in Requests |->
                       [j \in Items |-> ActiveQuantity(q2, j)]][q][i]]
    <2>1. f = Reserved(i)
      BY DEF Reserved
    <2>2. Promised!PromisedToOthers(r, i) = Promised!SumFunctionOnSet(f, Requests \ {r})
      BY DEF Promised!PromisedToOthers
    <2>3. ActiveReserved(Requests \ {r}, i) = SumFunctionOnSet(Reserved(i), Requests \ {r})
      BY DEF Reserved, ActiveReserved
    <2> HIDE DEF f
    <2>4. QED
      BY <2>1, <2>2, <2>3, PromisedSum
  <1>3. ASSUME NEW i \in Items
        PROVE  /\ ActiveQuantity(r, i)' >= 0
               /\ ActiveQuantity(r, i)' > 0 =>
                    ActiveQuantity(r, i)' + Promised!PromisedToOthers(r, i)
                      <= CombinedOnHand(i)
    <2>1. ActiveQuantity(r, i)' \in Nat
      BY <1>1 DEF Splits
    <2>2. \/ ActiveQuantity(r, i)' = 0
          \/ ActiveQuantity(r, i)' + ActiveReserved(Requests \ {r}, i) <= CombinedOnHand(i)
      BY DEF Promises
    <2>3. QED
      BY <1>2, <2>1, <2>2
  <1>4. Promised!OthersKeepTheirs(r)
    BY DEF Promises, OthersKeep, Promised!OthersKeepTheirs, ActiveQuantity
  <1>5. [i \in Items |-> CombinedOnHand(i)]' = [i \in Items |-> CombinedOnHand(i)]
    BY DEF Promises, inventoryVars, CombinedOnHand
  <1>6. QED
    BY <1>3, <1>4, <1>5 DEF Promised!Promise

LEMMA WithdrawsImplementsWithdraw ==
    ASSUME NEW r \in Requests, Withdraws(r)
    PROVE  Promised!Withdraw(r)
  <1>1. Promised!OthersKeepTheirs(r)
    BY DEF Withdraws, OthersKeep, Promised!OthersKeepTheirs, ActiveQuantity
  <1>2. [i \in Items |-> CombinedOnHand(i)]' = [i \in Items |-> CombinedOnHand(i)]
    BY DEF Withdraws, inventoryVars, CombinedOnHand
  <1>3. [i \in Items |-> ActiveQuantity(r, i)]' = Promised!Nothing
    BY DEF Withdraws, GivesNothing, Promised!Nothing
  <1>4. QED
    BY <1>1, <1>2, <1>3 DEF Promised!Withdraw

LEMMA TakesImplementsTake ==
    ASSUME TypeOK, TypeOK', NEW r \in Requests, Takes(r)
    PROVE  Promised!Take(r)
  <1>1. Splits /\ Splits'
    BY ReservationsSplit, PTL
  <1>2. Promised!OthersKeepTheirs(r)
    BY DEF Takes, OthersKeep, Promised!OthersKeepTheirs, ActiveQuantity
  <1>3. [i \in Items |-> ActiveQuantity(r, i)]' = Promised!Nothing
    BY DEF Takes, GivesNothing, Promised!Nothing
  <1>4. ASSUME NEW i \in Items
        PROVE  /\ 0 <= CombinedOnHand(i) - CombinedOnHand(i)'
               /\ CombinedOnHand(i) - CombinedOnHand(i)' <= ActiveQuantity(r, i)
    <2>1. CombinedOnHand(i) \in Int /\ CombinedOnHand(i)' \in Int
      BY <1>1 DEF Splits
    <2>2. QED
      BY <2>1 DEF Takes
  <1>5. QED
    BY <1>2, <1>3, <1>4 DEF Promised!Take

LEMMA StepsImplement ==
    ASSUME TypeOK, TypeOK', ReservationTracksRequest, [Next]_vars
    PROVE  [Promised!Next]_<<[i \in Items |-> CombinedOnHand(i)],
                             [r \in Requests |-> [i \in Items |-> ActiveQuantity(r, i)]]>>
  <1>1. CASE reservation' = reservation /\ UNCHANGED inventoryVars
    BY <1>1 DEF inventoryVars, CombinedOnHand, ActiveQuantity
  <1>2. ASSUME NEW r \in Requests, Promises(r) \/ Withdraws(r) \/ Takes(r)
        PROVE  Promised!Next
    BY <1>2, PromisesImplementsPromise, WithdrawsImplementsWithdraw, TakesImplementsTake
       DEF Promised!Next
  <1>3. QED
    BY <1>1, <1>2, PromiseCases

LEMMA InitImplements == Init => Promised!Init
  <1> SUFFICES ASSUME Init PROVE Promised!Init
    OBVIOUS
  <1>1. ASSUME NEW i \in Items PROVE CombinedOnHand(i) \in Nat
    BY OpeningAssumption DEF Init, InventoryInit, CombinedOnHand, Warehouses
  <1>2. ASSUME NEW r \in Requests, NEW i \in Items PROVE ActiveQuantity(r, i) = 0
    BY DEF Init, ActiveQuantity, NoReservation, Absent
  <1>3. QED
    BY <1>1, <1>2 DEF Promised!Init, Promised!Nothing

\* The whole protocol is nothing but promising stock to one request at a time,
\* never more than is there, and giving it back or taking it.
THEOREM PromisesKept == Spec => KeepsPromises
  <1>1. IInv /\ IInv' /\ [Next]_vars =>
          [Promised!Next]_<<[i \in Items |-> CombinedOnHand(i)],
                            [r \in Requests |-> [i \in Items |-> ActiveQuantity(r, i)]]>>
    BY StepsImplement DEF IInv
  <1>2. QED
    BY <1>1, InitImplements, Invariance, PTL DEF Spec, KeepsPromises, Promised!Spec

(***************************************************************************)
(* What submit promised, posting accepts.  The promise is kept because the *)
(* reservations of all requests together never exceed the stock, and the   *)
(* draft is of the request's present version.                              *)
(***************************************************************************)

Fresh(r) ==
    shipment[r].status = "DRAFT" =>
        \/ status[r] = "CANCELLED"
        \/ status[r] = "SUBMITTED" /\ shipment[r].version = rowVersion[r]

DraftsFresh == \A r \in Requests : Fresh(r)

LEMMA FreshFrame ==
    ASSUME NEW r \in Requests, Fresh(r),
           status'[r] = status[r], rowVersion'[r] = rowVersion[r],
           shipment'[r].status = shipment[r].status,
           shipment'[r].version = shipment[r].version
    PROVE  Fresh(r)'
  BY DEF Fresh

LEMMA FreshPreserved ==
    ASSUME TypeOK, DraftsFresh, [Next]_vars
    PROVE  DraftsFresh'
  <1> SUFFICES ASSUME NEW q \in Requests PROVE Fresh(q)'
    BY DEF DraftsFresh
  <1>1. Fresh(q)
    BY DEF DraftsFresh
  <1>2. CASE UNCHANGED requestVars
    BY <1>1, <1>2 DEF requestVars, Fresh
  <1>3. ASSUME NEW r \in Requests, NEW a \in Accounts, NEW p \in Payloads, NEW k \in Keys,
               CreateRequestDraft(r, a, p, k) \/ UpdateRequestDraft(r, a, p, k)
                 \/ SubmitWithLines(r, a, p, k)
        PROVE  Fresh(q)'
    <2>1. shipment' = shipment /\ status[r] \in {Absent, "DRAFT"}
      BY <1>3 DEF CreateRequestDraft, UpdateRequestDraft, SubmitWithLines
    <2>2. CASE q = r
      BY <1>1, <2>1, <2>2 DEF Fresh, Absent
    <2>3. CASE q # r
      BY <1>1, <1>3, <2>3
         DEF CreateRequestDraft, UpdateRequestDraft, SubmitWithLines, TypeOK, Fresh
    <2>4. QED
      BY <2>2, <2>3
  <1>4. ASSUME NEW r \in Requests, NEW k \in Keys, CancelRequest(r, k)
        PROVE  Fresh(q)'
    <2>1. shipment' = shipment
      BY <1>4 DEF CancelRequest, CleanedShipment, AfterGuardedDelete, TypeOK
    <2>2. CASE q = r
      BY <1>4, <2>2 DEF CancelRequest, TypeOK, Fresh
    <2>3. CASE q # r
      BY <1>1, <1>4, <2>1, <2>3 DEF CancelRequest, TypeOK, Fresh
    <2>4. QED
      BY <2>2, <2>3
  <1>5. ASSUME NEW r \in Requests, NEW k \in Keys, CreateShipmentDraft(r, k)
        PROVE  Fresh(q)'
    <2>1. status' = status /\ rowVersion' = rowVersion /\ status[r] = "SUBMITTED"
      BY <1>5 DEF CreateShipmentDraft, DraftAccepted
    <2>2. CASE q = r
      <3>1. shipment'[q].version = rowVersion[q]
        BY <1>5, <2>2 DEF CreateShipmentDraft, TypeOK
      <3>2. QED
        BY <2>1, <2>2, <3>1 DEF Fresh
    <2>3. CASE q # r
      BY <1>1, <1>5, <2>1, <2>3 DEF CreateShipmentDraft, TypeOK, Fresh
    <2>4. QED
      BY <2>2, <2>3
  <1>6. ASSUME NEW r \in Requests, NEW i \in Items, NEW e \in Edits, EditShipmentLine(r, i, e)
        PROVE  Fresh(q)'
    <2>1. /\ shipment'[q].status = shipment[q].status
          /\ shipment'[q].version = shipment[q].version
          /\ status' = status /\ rowVersion' = rowVersion
      BY <1>6 DEF EditShipmentLine, TypeOK
    <2>2. QED
      BY <1>1, <2>1, FreshFrame
  <1>7. ASSUME NEW s \in Sessions, CommitSubmit(s)
        PROVE  Fresh(q)'
    <2>1. PICK r \in Requests : r = call[s].req
      BY <1>7, CallFields DEF CommitSubmit
    <2>2. status[r] = "DRAFT" /\ shipment' = shipment
      BY <1>7, <2>1 DEF CommitSubmit
    <2>3. CASE q = r
      BY <1>1, <2>2, <2>3 DEF Fresh
    <2>4. CASE q # r
      BY <1>1, <1>7, <2>1, <2>4 DEF CommitSubmit, TypeOK, Fresh
    <2>5. QED
      BY <2>3, <2>4
  <1>8. ASSUME NEW s \in Sessions, CommitUpdate(s)
        PROVE  Fresh(q)'
    <2>1. PICK r \in Requests : r = call[s].req
      BY <1>8, CallFields DEF CommitUpdate
    <2>2. shipment' = shipment
      BY <1>8, <2>1 DEF CommitUpdate, CleanedShipment, AfterGuardedDelete, TypeOK
    <2>3. shipment[r].status # "DRAFT"
      BY <1>8, <2>1
         DEF CommitUpdate, RevisionAccepted, CleanedShipment, AfterGuardedDelete, Absent
    <2>4. CASE q = r
      BY <2>2, <2>3, <2>4 DEF Fresh
    <2>5. CASE q # r
      BY <1>1, <1>8, <2>1, <2>2, <2>5 DEF CommitUpdate, TypeOK, Fresh
    <2>6. QED
      BY <2>4, <2>5
  <1>9. ASSUME NEW s \in Sessions, CommitPost(s)
        PROVE  Fresh(q)'
    <2>1. PICK r \in Requests : r = call[s].req
      BY <1>9, CallFields DEF CommitPost
    <2>2. CASE q = r
      <3>1. shipment'[q].status = "POSTED"
        BY <1>9, <2>1, <2>2 DEF CommitPost, TypeOK
      <3>2. QED
        BY <3>1 DEF Fresh
    <2>3. CASE q # r
      BY <1>1, <1>9, <2>1, <2>3 DEF CommitPost, TypeOK, Fresh
    <2>4. QED
      BY <2>2, <2>3
  <1>10. QED
    BY <1>2, <1>3, <1>4, <1>5, <1>6, <1>7, <1>8, <1>9, StepCases, ReadsWriteNoTable DEF vars

StockInv == IInv /\ Backed /\ DraftsFresh

LEMMA StockInvInitially == Init => StockInv
  <1> SUFFICES ASSUME Init PROVE StockInv
    OBVIOUS
  <1>1. ASSUME NEW i \in Items
        PROVE  ActiveReserved(Requests, i) <= CombinedOnHand(i)
    <2>1. \A r \in Requests : Reserved(i)[r] = 0
      BY DEF Init, Reserved, ActiveQuantity, NoReservation, Absent
    <2>2. SumFunctionOnSet(Reserved(i), Requests) = 0
      BY <2>1, RequestsAssumption, SumZero
    <2>3. CombinedOnHand(i) \in Nat
      BY OpeningAssumption DEF Init, InventoryInit, CombinedOnHand, Warehouses
    <2>4. QED
      BY <2>2, <2>3 DEF Reserved, ActiveReserved
  <1>2. DraftsFresh
    BY DEF Init, DraftsFresh, Fresh, NoShipment, Absent
  <1>3. QED
    BY <1>1, <1>2, InvInitially DEF StockInv, Backed

LEMMA StockInvPreserved == StockInv /\ [Next]_vars => StockInv'
  <1> SUFFICES ASSUME StockInv, [Next]_vars PROVE StockInv'
    OBVIOUS
  <1>1. IInv'
    BY InvPreserved DEF StockInv
  <1>2. QED
    BY <1>1, BackedPreserved, FreshPreserved DEF StockInv, IInv

\* The lines that move all that GENERAL can give.
Proposal(r) == [i \in Items |-> IF i \in ItemSet(r) THEN DraftLine(r, i) ELSE NoLine]

LEMMA ProposalLines ==
    ASSUME NEW r \in Requests, NEW i \in Items
    PROVE  Proposal(r)[i] = IF i \in ItemSet(r) THEN DraftLine(r, i) ELSE NoLine
  BY DEF Proposal

LEMMA FreshDraftPosts ==
    ASSUME ~TwoStage, StockInv, NEW r \in Requests,
           status[r] = "SUBMITTED", shipment[r].status = "DRAFT"
    PROVE  PostAccepted(r, Proposal(r))
  <1>1. TypeOK /\ StockNeverNegative /\ Splits
    BY ReservationsSplit DEF StockInv, IInv
  <1>2. shipment[r].version = rowVersion[r]
    BY DEF StockInv, DraftsFresh, Fresh
  <1>3. ASSUME NEW i \in ItemSet(r)
        PROVE  /\ DraftLine(r, i) # NoLine
               /\ LineStorable(DraftLine(r, i))
               /\ PostedLine(r, i, Proposal(r)[i]) = DraftLine(r, i)
               /\ DraftLine(r, i).actual = DraftLine(r, i).maximum
               /\ StockChecks(r, i, DraftLine(r, i).actual)
    <2> DEFINE issue    == rows[r][i].issue
               increase == rows[r][i].increase
               hr       == onHand["HR"][i]
               general  == onHand["GENERAL"][i]
               mine     == ActiveQuantity(r, i)
               others   == ActiveReserved(Requests \ {r}, i)
    <2>1. i \in Items /\ rows[r][i] # NoRow /\ rows[r][i] \in Row
      BY <1>1 DEF ItemSet, ItemsOf, TypeOK
    <2>2. issue \in Nat /\ increase \in Nat /\ issue + increase > 0
      <3>1. issue \in Nat /\ increase \in Nat
        BY <2>1 DEF Row
      <3>2. rows[r][i] = [issue |-> issue, increase |-> increase]
        BY <2>1 DEF Row
      <3>3. issue # 0 \/ increase # 0
        BY <2>1, <3>2 DEF NoRow
      <3> HIDE DEF issue, increase
      <3>4. QED
        BY <3>1, <3>3
    <2>3. RequestedTransfer(rows[r][i]) = issue + increase
      BY DEF RequestedTransfer, GeneratedTransfer
    <2>4. hr \in Nat /\ general \in Nat
      BY <1>1, <2>1, CombinedType DEF StockNeverNegative, Warehouses
    <2>5. /\ reservation[r][i].status = "ACTIVE"
          /\ reservation[r][i].quantity = RequestedTransfer(rows[r][i])
      BY <2>1 DEF StockInv, IInv, ReservationTracksRequest
    <2>6. mine = issue + increase
      BY <2>3, <2>5 DEF ActiveQuantity
    <2>7. mine + others <= hr + general /\ others \in Nat
      BY <1>1, <2>1 DEF StockInv, Backed, Splits, CombinedOnHand
    <2>8. DraftLine(r, i) =
            [requested |-> issue + increase, general |-> general,
             maximum |-> Lesser(issue + increase, general),
             actual |-> Lesser(issue + increase, general), short |-> FALSE]
      BY <2>3 DEF DraftLine
    <2>9. PostedLine(r, i, Proposal(r)[i]) = DraftLine(r, i)
      <3>1. Proposal(r)[i] = DraftLine(r, i)
        BY <2>1, ProposalLines
      <3>2. QED
        BY <2>8, <3>1 DEF PostedLine
    <2> HIDE DEF issue, increase, hr, general, mine, others
    <2>10. DraftLine(r, i) # NoLine
      <3>1. DraftLine(r, i).requested = issue + increase /\ NoLine.requested = 0
        BY <2>8 DEF NoLine
      <3>2. QED
        BY <2>2, <3>1
    <2>11. LineStorable(DraftLine(r, i))
      BY <2>2, <2>4, <2>8 DEF LineStorable, Lesser
    <2>12. DraftLine(r, i).actual = DraftLine(r, i).maximum
      BY <2>8
    <2>13. hr + DraftLine(r, i).actual - issue >= 0
      BY <2>2, <2>4, <2>6, <2>7, <2>8 DEF Lesser
    <2>14. hr + general - issue >= others
      BY <2>2, <2>4, <2>6, <2>7
    <2>15. StockChecks(r, i, DraftLine(r, i).actual)
      <3>1. CombinedOnHand(i) = hr + general
        BY DEF CombinedOnHand, hr, general
      <3>2. CombinedOnHand(i) - issue >= others
        BY <2>2, <2>4, <2>7, <2>14, <3>1
      <3>3. QED
        BY <2>5, <2>13, <3>2, Zenon DEF StockChecks, hr, issue, others
    <2>16. QED
      BY <2>9, <2>10, <2>11, <2>12, <2>15
  <1>4. {i \in Items : Proposal(r)[i] # NoLine} = ItemSet(r)
    BY <1>3, ProposalLines DEF ItemSet, ItemsOf
  <1>5. \A i \in ItemSet(r) :
          LET posted == PostedLine(r, i, Proposal(r)[i])
          IN  /\ LineStorable(posted)
              /\ posted.actual < posted.maximum => posted.short
              /\ ~TwoStage => StockChecks(r, i, posted.actual)
    <2> SUFFICES ASSUME NEW i \in ItemSet(r)
                 PROVE  /\ LineStorable(DraftLine(r, i))
                        /\ DraftLine(r, i).actual < DraftLine(r, i).maximum =>
                             DraftLine(r, i).short
                        /\ StockChecks(r, i, DraftLine(r, i).actual)
      BY <1>3
    <2>1. i \in Items
      BY DEF ItemSet, ItemsOf
    <2>2. DraftLine(r, i).maximum \in Int
      BY <1>1, <2>1, DraftLineType
    <2>3. QED
      BY <1>3, <2>2
  <1>6. PostLabel \in RequestStatuses
    BY DEF PostLabel, RequestStatuses
  <1>7. QED
    BY <1>2, <1>4, <1>5, <1>6 DEF PostAccepted

\* Under 0095 every submitted request with a drafted shipment can be posted,
\* however many requests compete for the stock.  (Under 0136 none can.)
THEOREM SubmittedShips ==
    ASSUME ~TwoStage
    PROVE  Spec => []SubmittedIsShippable
  <1>1. StockInv => SubmittedIsShippable
    <2> SUFFICES ASSUME StockInv, NEW r \in Requests,
                        status[r] = "SUBMITTED", shipment[r].status = "DRAFT"
                 PROVE  PostAccepted(r, Proposal(r))
      BY Zenon DEF SubmittedIsShippable, Proposal
    <2>1. QED
      BY FreshDraftPosts
  <1>2. QED
    BY <1>1, StockInvInitially, StockInvPreserved, PTL DEF Spec
=============================================================================
