-------------------------- MODULE CorrectionProofs --------------------------
(***************************************************************************)
(* Theorems about CorrectionPosting and CorrectionPanel, for any source    *)
(* lines, requests and quantities, any number of corrections, of keys, of  *)
(* lost answers and of reloads.                                            *)
(*                                                                         *)
(* The first part is about the transactions.  The second is about the      *)
(* panels over them: what a call may do to the tables (Happens), what each *)
(* action makes of a panel, as a relation of the panel before and after    *)
(* (Chose, Pressed, Says ...), and then, from these relations alone, the   *)
(* types, the refinement and the safety of the panels.                     *)
(***************************************************************************)
EXTENDS CorrectionPanel, SumLemmas

-----------------------------------------------------------------------------
(* What the corrections of a line come to                                  *)

Row == [status : {"DRAFT", "POSTED"}, line : Line, delta : Delta]

LEMMA NoFinite == IsFiniteSet(No)
<1> DEFINE Kinds == {"HR_ISSUE", "RETURN", "WAREHOUSE_TRANSFER", "PURCHASE_RECEIPT", "STOCKTAKE"}
<1>1. IsFiniteSet(Kinds)
  <2>1. IsFiniteSet({}) /\ IsFiniteSet({"HR_ISSUE"}) /\ IsFiniteSet({"HR_ISSUE"} \cup {"RETURN"})
    BY FS_EmptySet, FS_Singleton, FS_AddElement
  <2>2. IsFiniteSet({"HR_ISSUE"} \cup {"RETURN"} \cup {"WAREHOUSE_TRANSFER"})
    BY <2>1, FS_AddElement
  <2>3. IsFiniteSet({"HR_ISSUE"} \cup {"RETURN"} \cup {"WAREHOUSE_TRANSFER"} \cup {"PURCHASE_RECEIPT"})
    BY <2>2, FS_AddElement
  <2>4. IsFiniteSet({"HR_ISSUE"} \cup {"RETURN"} \cup {"WAREHOUSE_TRANSFER"} \cup {"PURCHASE_RECEIPT"}
                     \cup {"STOCKTAKE"})
    BY <2>3, FS_AddElement
  <2>5. Kinds = {"HR_ISSUE"} \cup {"RETURN"} \cup {"WAREHOUSE_TRANSFER"} \cup {"PURCHASE_RECEIPT"}
                     \cup {"STOCKTAKE"}
    OBVIOUS
  <2> QED BY <2>4, <2>5
<1>2. IsFiniteSet(Kind)
  BY <1>1, FS_Subset, CorrectionConstants
<1>3. IsFiniteSet(1 .. MaxNo)
  <2>1. 1 \in Int /\ MaxNo \in Int
    BY CorrectionConstants
  <2> QED BY <2>1, FS_Interval
<1> QED BY <1>2, <1>3, FS_Product DEF No

LEMMA DeltaType ==
  ASSUME NEW d \in Database, NEW n \in No
  PROVE  d.note[n].delta \in Int
<1>1. d.note[n] \in {NoNote} \cup Row
  BY DEF Database, Row
<1> QED BY <1>1, CorrectionConstants DEF NoNote, Row

LEMMA PostedNotesFinite ==
  ASSUME NEW d, NEW k, NEW l
  PROVE  PostedNotes(d, k, l) \subseteq No /\ IsFiniteSet(PostedNotes(d, k, l))
<1>1. PostedNotes(d, k, l) \subseteq No
  BY DEF PostedNotes
<1> QED BY <1>1, NoFinite, FS_Subset

LEMMA CorrectedType ==
  ASSUME NEW d \in Database, NEW k, NEW l
  PROVE  Corrected(d, k, l) \in Int
<1> DEFINE f == [n \in No |-> d.note[n].delta]
<1>1. \A n \in PostedNotes(d, k, l) : f[n] \in Int
  BY DeltaType, PostedNotesFinite
<1> HIDE DEF f
<1>2. SumFunctionOnSet(f, PostedNotes(d, k, l)) \in Int
  BY <1>1, PostedNotesFinite, SumType
<1> QED BY <1>2 DEF Corrected, f

\* Drafts do not count.
LEMMA CorrectedSame ==
  ASSUME NEW d, NEW e, NEW k, NEW l,
         PostedNotes(e, k, l) = PostedNotes(d, k, l),
         \A n \in PostedNotes(d, k, l) : e.note[n].delta = d.note[n].delta
  PROVE  Corrected(e, k, l) = Corrected(d, k, l)
<1> DEFINE f(x) == [n \in No |-> x.note[n].delta]
<1>1. \A n \in PostedNotes(d, k, l) : f(e)[n] = f(d)[n]
  BY PostedNotesFinite
<1>2. Corrected(e, k, l) = SumFunctionOnSet(f(e), PostedNotes(d, k, l))
  BY DEF Corrected
<1>3. Corrected(d, k, l) = SumFunctionOnSet(f(d), PostedNotes(d, k, l))
  BY DEF Corrected
<1> HIDE DEF f
<1> QED BY <1>1, <1>2, <1>3, PostedNotesFinite, SumSame

LEMMA NothingCorrected ==
  ASSUME NEW d, \A n \in No : d.note[n].status = "NONE", NEW k, NEW l
  PROVE  Corrected(d, k, l) = 0
<1>1. PostedNotes(d, k, l) = {}
  BY DEF PostedNotes
<1> QED BY <1>1, SumEmpty DEF Corrected

\* A correction that is posted counts for its line and its kind, and only
\* there.
LEMMA CorrectedPosted ==
  ASSUME NEW d \in Database, NEW e \in Database, NEW n \in No,
         d.note[n].status # "POSTED", e.note[n].status = "POSTED",
         e.note[n].line = d.note[n].line, e.note[n].delta = d.note[n].delta,
         \A m \in No \ {n} : e.note[m] = d.note[m],
         NEW k, NEW l
  PROVE  Corrected(e, k, l) =
           IF k = n[1] /\ l = d.note[n].line THEN Corrected(d, k, l) + d.note[n].delta
                                             ELSE Corrected(d, k, l)
<1> DEFINE f(x) == [m \in No |-> x.note[m].delta]
           P == PostedNotes(d, k, l)
<1>1. n \notin P /\ P \subseteq No /\ IsFiniteSet(P)
  <2>1. n \notin P
    BY DEF PostedNotes
  <2> QED BY <2>1, PostedNotesFinite
<1>2. CASE k = n[1] /\ l = d.note[n].line
  <2>1. PostedNotes(e, k, l) = P \cup {n}
    BY <1>2 DEF PostedNotes
  <2>2. f(e) = f(d)
    OBVIOUS
  <2>3. Corrected(e, k, l) = SumFunctionOnSet(f(d), P \cup {n}) /\ Corrected(d, k, l) = SumFunctionOnSet(f(d), P)
    BY <2>1, <2>2 DEF Corrected
  <2>4. \A m \in P \cup {n} : f(d)[m] \in Int
    BY <1>1, DeltaType
  <2>5. f(d)[n] = d.note[n].delta
    OBVIOUS
  <2> HIDE DEF f, P
  <2>6. SumFunctionOnSet(f(d), P \cup {n}) = f(d)[n] + SumFunctionOnSet(f(d), P)
    BY <1>1, <2>4, SumAdd
  <2> QED BY <1>2, <2>3, <2>5, <2>6, DeltaType, CorrectedType
<1>3. CASE ~(k = n[1] /\ l = d.note[n].line)
  <2>1. PostedNotes(e, k, l) = P
    BY <1>3 DEF PostedNotes
  <2>2. Corrected(e, k, l) = Corrected(d, k, l)
    BY <1>1, <2>1, CorrectedSame
  <2> QED BY <1>3, <2>2
<1> QED BY <1>2, <1>3

-----------------------------------------------------------------------------
(* What is always so of the database: the parts of the invariant           *)

\* EffectiveWithinLimits, ReservationsCovered and OrderTellsReceipt of any
\* state of the database.
Within(d) ==
  \A l \in Line :
    /\ Effective(d, "HR_ISSUE", l) >= 0 /\ EffectiveReturned(d, l) >= 0
    /\ \A k \in {"WAREHOUSE_TRANSFER", "PURCHASE_RECEIPT"} : Effective(d, k, l) \in 0 .. Limit[l]
Covered(d) == Reserved(d) <= Combined(d)
Tells(d) == \A l \in Line : d.order[l] = "RECEIVED" <=> Effective(d, "PURCHASE_RECEIPT", l) >= Limit[l]

Good(d) == d \in Database /\ Within(d) /\ Covered(d) /\ Tells(d)

LEMMA ReservedType ==
  ASSUME NEW d
  PROVE  /\ IsFiniteSet({r \in Request : d.request[r] = "SUBMITTED"})
         /\ Reserved(d) \in Nat
<1>1. IsFiniteSet({r \in Request : d.request[r] = "SUBMITTED"})
  <2>1. {r \in Request : d.request[r] = "SUBMITTED"} \subseteq Request
    OBVIOUS
  <2> QED BY <2>1, FS_Subset, CorrectionConstants
<1> QED BY <1>1, FS_CardinalityType DEF Reserved

LEMMA StockType ==
  ASSUME NEW d \in Database
  PROVE  d.stock.hr \in Nat /\ d.stock.general \in Nat /\ Combined(d) \in Nat
<1>1. d.stock \in [hr : Nat, general : Nat]
  BY DEF Database
<1> QED BY <1>1 DEF Combined

LEMMA NothingReserved ==
  ASSUME NEW d, \A r \in Request : d.request[r] # "SUBMITTED"
  PROVE  Reserved(d) = 0
<1>1. {r \in Request : d.request[r] = "SUBMITTED"} = {}
  OBVIOUS
<1> QED BY <1>1, FS_EmptySet DEF Reserved

LEMMA InitialIsGood ==
  ASSUME Init
  PROVE  Good(db)
<1>1. db \in Database
  <2>1. [n \in No |-> NoNote] \in [No -> {NoNote} \cup Row]
    OBVIOUS
  <2>2. [l \in Line |-> OrderStatus(Original[l], l)] \in [Line -> {"PARTIALLY_RECEIVED", "RECEIVED", "REOPENED"}]
    BY DEF OrderStatus
  <2> QED BY <2>1, <2>2, CorrectionConstants DEF Init, Database, Row
<1>2. \A k, l : Corrected(db, k, l) = 0
  <2>1. \A n \in No : db.note[n].status = "NONE"
    BY DEF Init, NoNote
  <2> QED BY <2>1, NothingCorrected
<1>3. \A l \in Line : Original[l] \in Nat /\ Limit[l] \in Nat /\ Back[l] \in Nat /\ Original[l] <= Limit[l]
  BY CorrectionConstants
<1>4. Within(db)
  BY <1>2, <1>3 DEF Within, Effective, EffectiveReturned, Init
<1>5. Covered(db)
  <2>1. Reserved(db) = 0
    BY NothingReserved DEF Init
  <2> QED BY <1>1, <2>1 DEF Covered, Combined, Database
<1>6. Tells(db)
  BY <1>2, <1>3 DEF Tells, Effective, Init, OrderStatus
<1> QED BY <1>1, <1>4, <1>5, <1>6 DEF Good

LEMMA CreatedKeeps ==
  ASSUME NEW d, Good(d), NEW n \in No, NEW l \in Line, NEW delta \in Delta, CanCreate(d, n)
  PROVE  LET e == Created(d, n, l, delta)
         IN  Good(e) /\ e.note[n].status = "DRAFT" /\ \A m \in No \ {n} : e.note[m] = d.note[m]
<1> DEFINE x == [status |-> "DRAFT", line |-> l, delta |-> delta]
           e == [d EXCEPT !.note[n] = x]
<1>1. d \in Database /\ d.note[n].status = "NONE"
  BY DEF Good, CanCreate
<1>2. x \in Row /\ x.status = "DRAFT"
  BY DEF Row
<1>3. Created(d, n, l, delta) = e
  BY DEF Created
<1> HIDE DEF x
<1>4. /\ e \in Database /\ e.note[n] = x /\ \A m \in No \ {n} : e.note[m] = d.note[m]
      /\ e.stock = d.stock /\ e.returned = d.returned /\ e.order = d.order /\ e.request = d.request
  BY <1>1, <1>2 DEF Database, Row
<1> HIDE DEF e
<1>5. \A k, p : Corrected(e, k, p) = Corrected(d, k, p)
  <2> TAKE k, p
  <2>1. PostedNotes(e, k, p) = PostedNotes(d, k, p) /\ n \notin PostedNotes(d, k, p)
    BY <1>1, <1>2, <1>4 DEF PostedNotes
  <2>2. \A m \in PostedNotes(d, k, p) : e.note[m] = d.note[m]
    BY <1>4, <2>1, PostedNotesFinite
  <2> QED BY <2>1, <2>2, CorrectedSame
<1>6. Within(e) /\ Tells(e)
  BY <1>4, <1>5 DEF Good, Within, Tells, Effective, EffectiveReturned
<1>7. Covered(e)
  BY <1>4 DEF Good, Covered, Reserved, Combined
<1>8. Good(e)
  BY <1>4, <1>6, <1>7 DEF Good
<1> QED BY <1>2, <1>3, <1>4, <1>8

\* What posting makes of the stock and of the note, before requests and
\* orders are looked at.
LEMMA MovedType ==
  ASSUME NEW d \in Database, NEW n \in No, d.note[n].status = "DRAFT",
         InStock(StockAfter(d, n[1], d.note[n].delta))
  PROVE  LET e == [d EXCEPT !.note[n].status = "POSTED", !.stock = StockAfter(d, n[1], d.note[n].delta)]
         IN  /\ e \in Database
             /\ e.stock = StockAfter(d, n[1], d.note[n].delta)
             /\ e.note[n].status = "POSTED"
             /\ e.note[n].line = d.note[n].line /\ e.note[n].delta = d.note[n].delta
             /\ \A m \in No \ {n} : e.note[m] = d.note[m]
             /\ e.returned = d.returned /\ e.order = d.order /\ e.request = d.request
<1> DEFINE x == d.note[n]
           y == [x EXCEPT !.status = "POSTED"]
           s == StockAfter(d, n[1], x.delta)
           e == [d EXCEPT !.note[n].status = "POSTED", !.stock = s]
<1>1. x \in Row
  BY DEF Database, NoNote, Row
<1>2. y \in Row /\ y.status = "POSTED" /\ y.line = x.line /\ y.delta = x.delta
  BY <1>1 DEF Row
<1>3. s \in [hr : Nat, general : Nat]
  <2>1. d.stock.hr \in Int /\ d.stock.general \in Int /\ x.delta \in Int
    BY DeltaType DEF Database
  <2>2. Effect(n[1]).hr \in {-1, 0, 1} /\ Effect(n[1]).general \in {-1, 0, 1}
    BY DEF Effect
  <2>3. Effect(n[1]).hr * x.delta \in Int /\ Effect(n[1]).general * x.delta \in Int
    BY <2>1, <2>2
  <2>4. s = [hr |-> s.hr, general |-> s.general] /\ s.hr \in Int /\ s.general \in Int
    BY <2>1, <2>3 DEF StockAfter
  <2>5. s.hr >= 0 /\ s.general >= 0
    BY DEF InStock
  <2> QED BY <2>4, <2>5
<1>4. e = [d EXCEPT !.note = [d.note EXCEPT ![n] = y], !.stock = s]
  BY DEF Database
<1> HIDE DEF x, y, s, e
<1>5. [d.note EXCEPT ![n] = y] \in [No -> {NoNote} \cup Row]
  BY <1>2 DEF Database, Row
<1>6. /\ e \in Database /\ e.stock = s /\ e.note = [d.note EXCEPT ![n] = y]
      /\ e.returned = d.returned /\ e.order = d.order /\ e.request = d.request
  BY <1>3, <1>4, <1>5 DEF Database, Row
<1>7. e.note[n] = y /\ \A m \in No \ {n} : e.note[m] = d.note[m]
  BY <1>6 DEF Database
<1> QED BY <1>2, <1>6, <1>7 DEF x, s, e

\* No request is left uncovered.
LEMMA UncoveredCovers ==
  ASSUME NEW d \in Database, NEW k,
         k \in {"HR_ISSUE", "WAREHOUSE_TRANSFER"} => Covered(d)
  PROVE  LET e == Uncovered(d, k)
         IN  /\ e \in Database /\ Covered(e)
             /\ e.note = d.note /\ e.returned = d.returned /\ e.order = d.order
<1>1. Combined(d) \in Nat /\ Reserved(d) \in Nat
  BY ReservedType, StockType
<1>2. CASE k \in {"HR_ISSUE", "WAREHOUSE_TRANSFER"} \/ Combined(d) >= Reserved(d)
  <2>1. Uncovered(d, k) = d
    BY <1>2 DEF Uncovered
  <2> QED BY <1>1, <1>2, <2>1 DEF Covered
<1>3. CASE ~(k \in {"HR_ISSUE", "WAREHOUSE_TRANSFER"} \/ Combined(d) >= Reserved(d))
  <2> DEFINE q == [r \in Request |->
               IF d.request[r] = "SUBMITTED" THEN "INVENTORY_REVIEW_REQUIRED" ELSE d.request[r]]
             e == [d EXCEPT !.request = q]
  <2>1. Uncovered(d, k) = e
    BY <1>3 DEF Uncovered
  <2>2. q \in [Request -> {"DRAFT", "SUBMITTED", "INVENTORY_REVIEW_REQUIRED"}]
    BY DEF Database
  <2>3. \A r \in Request : q[r] # "SUBMITTED"
    OBVIOUS
  <2> HIDE DEF q
  <2>4. /\ e \in Database /\ e.request = q /\ e.stock = d.stock
        /\ e.note = d.note /\ e.returned = d.returned /\ e.order = d.order
    BY <2>2 DEF Database
  <2> HIDE DEF e
  <2>5. Reserved(e) = 0 /\ Combined(e) = Combined(d)
    BY <2>3, <2>4, NothingReserved DEF Combined
  <2> QED BY <1>1, <2>1, <2>4, <2>5 DEF Covered
<1> QED BY <1>2, <1>3

LEMMA ReconciledTells ==
  ASSUME NEW d \in Database, NEW k, NEW l \in Line
  PROVE  LET e == Reconciled(d, k, l)
         IN  /\ e \in Database
             /\ e.note = d.note /\ e.returned = d.returned /\ e.stock = d.stock /\ e.request = d.request
             /\ \A p \in Line : k # "PURCHASE_RECEIPT" \/ p # l => e.order[p] = d.order[p]
             /\ k = "PURCHASE_RECEIPT" =>
                  (e.order[l] = "RECEIVED" <=> Effective(d, k, l) >= Limit[l])
<1>1. CASE k # "PURCHASE_RECEIPT"
  BY <1>1 DEF Reconciled
<1>2. CASE k = "PURCHASE_RECEIPT"
  <2> DEFINE t == IF Effective(d, k, l) >= Limit[l] THEN "RECEIVED"
                  ELSE IF d.order[l] = "RECEIVED" THEN "REOPENED" ELSE "PARTIALLY_RECEIVED"
             e == [d EXCEPT !.order[l] = t]
  <2>1. Reconciled(d, k, l) = e
    BY <1>2 DEF Reconciled, Database
  <2>2. t \in {"PARTIALLY_RECEIVED", "RECEIVED", "REOPENED"} /\ (t = "RECEIVED" <=> Effective(d, k, l) >= Limit[l])
    OBVIOUS
  <2> HIDE DEF t
  <2>3. /\ e \in Database /\ e.order[l] = t /\ \A p \in Line \ {l} : e.order[p] = d.order[p]
        /\ e.note = d.note /\ e.returned = d.returned /\ e.stock = d.stock /\ e.request = d.request
    BY <2>2 DEF Database
  <2> QED BY <1>2, <2>1, <2>2, <2>3
<1> QED BY <1>1, <1>2

LEMMA PostedKeeps ==
  ASSUME NEW d, Good(d), NEW n \in No, CanPost(d, n)
  PROVE  LET e == Posted(d, n)
         IN  Good(e) /\ e.note[n].status = "POSTED" /\ \A m \in No \ {n} : e.note[m] = d.note[m]
<1> DEFINE k == n[1]
           x == d.note[n]
           moved == [d EXCEPT !.note[n].status = "POSTED", !.stock = StockAfter(d, k, x.delta)]
           u == Uncovered(moved, k)
           e == Reconciled(u, k, x.line)
<1>1. d \in Database /\ Within(d) /\ Covered(d) /\ Tells(d)
  BY DEF Good
<1>2. /\ x.status = "DRAFT" /\ Allowed(d, k, x.line, x.delta)
      /\ IssueCovered(d, k, x.delta) /\ InStock(StockAfter(d, k, x.delta))
  BY DEF CanPost
<1>3. x.line \in Line /\ x.delta \in Int
  BY <1>1, <1>2, DeltaType DEF Database, NoNote
<1>4. Posted(d, n) = e
  BY DEF Posted
<1>5. /\ moved \in Database /\ moved.stock = StockAfter(d, k, x.delta)
      /\ moved.note[n].status = "POSTED" /\ moved.note[n].line = x.line /\ moved.note[n].delta = x.delta
      /\ \A m \in No \ {n} : moved.note[m] = d.note[m]
      /\ moved.returned = d.returned /\ moved.order = d.order /\ moved.request = d.request
  BY <1>1, <1>2, MovedType
<1> HIDE DEF moved
<1>6. k \in {"HR_ISSUE", "WAREHOUSE_TRANSFER"} => Covered(moved)
  <2>1. Reserved(moved) = Reserved(d)
    BY <1>5 DEF Reserved
  <2>2. d.stock.hr \in Int /\ d.stock.general \in Int /\ Reserved(d) \in Int
    <3>1. d.stock.hr \in Nat /\ d.stock.general \in Nat
      BY <1>1, StockType
    <3>2. Reserved(d) \in Nat
      BY ReservedType
    <3> QED BY <3>1, <3>2
  <2>3. CASE k = "HR_ISSUE"
    <3>1. Effect(k).hr = -1 /\ Effect(k).general = 0
      BY <2>3 DEF Effect
    <3>2. Combined(moved) = Combined(d) - x.delta
      BY <1>3, <1>5, <2>2, <3>1 DEF Combined, StockAfter
    <3> QED BY <1>2, <2>1, <2>3, <3>2 DEF IssueCovered, Covered, Combined
  <2>4. CASE k = "WAREHOUSE_TRANSFER"
    <3>1. Effect(k).hr = 1 /\ Effect(k).general = -1
      BY <2>4 DEF Effect
    <3>2. Combined(moved) = Combined(d)
      BY <1>3, <1>5, <2>2, <3>1 DEF Combined, StockAfter
    <3> QED BY <1>1, <2>1, <3>2 DEF Covered
  <2> QED BY <2>3, <2>4
<1>7. /\ u \in Database /\ Covered(u)
      /\ u.note = moved.note /\ u.returned = d.returned /\ u.order = d.order
  BY <1>5, <1>6, UncoveredCovers
<1> HIDE DEF u
<1>8. /\ e \in Database
      /\ e.note = u.note /\ e.returned = u.returned /\ e.stock = u.stock /\ e.request = u.request
      /\ \A p \in Line : k # "PURCHASE_RECEIPT" \/ p # x.line => e.order[p] = u.order[p]
      /\ k = "PURCHASE_RECEIPT" => (e.order[x.line] = "RECEIVED" <=> Effective(u, k, x.line) >= Limit[x.line])
  BY <1>3, <1>7, ReconciledTells
<1> HIDE DEF e
<1>9. \A j, l : /\ Corrected(e, j, l) = IF j = k /\ l = x.line THEN Corrected(d, j, l) + x.delta
                                                               ELSE Corrected(d, j, l)
                /\ Corrected(u, j, l) = Corrected(e, j, l)
  <2> TAKE j, l
  <2>1. Corrected(e, j, l) = IF j = k /\ l = x.line THEN Corrected(d, j, l) + x.delta ELSE Corrected(d, j, l)
    BY <1>1, <1>2, <1>5, <1>7, <1>8, CorrectedPosted, SMTT(30)
  <2>2. PostedNotes(u, j, l) = PostedNotes(e, j, l)
    BY <1>8 DEF PostedNotes
  <2>3. Corrected(u, j, l) = Corrected(e, j, l)
    BY <1>8, <2>2, CorrectedSame
  <2> QED BY <2>1, <2>3
<1> HIDE DEF k, x
<1>10. Within(e)
  <2> SUFFICES ASSUME NEW l \in Line
               PROVE  /\ Effective(e, "HR_ISSUE", l) >= 0 /\ EffectiveReturned(e, l) >= 0
                      /\ \A j \in {"WAREHOUSE_TRANSFER", "PURCHASE_RECEIPT"} : Effective(e, j, l) \in 0 .. Limit[l]
    BY DEF Within
  <2>1. /\ Effective(d, "HR_ISSUE", l) >= 0 /\ EffectiveReturned(d, l) >= 0
        /\ \A j \in {"WAREHOUSE_TRANSFER", "PURCHASE_RECEIPT"} : Effective(d, j, l) \in 0 .. Limit[l]
    BY <1>1 DEF Within
  <2>2. Original[l] \in Nat /\ Limit[l] \in Nat /\ d.returned[l] \in Nat /\ e.returned = d.returned
    BY <1>1, <1>7, <1>8, CorrectionConstants DEF Database
  <2>3. \A j : Corrected(d, j, l) \in Int
    BY <1>1, CorrectedType
  <2>4. Effective(e, "HR_ISSUE", l) >= 0
    BY <1>2, <1>3, <1>9, <2>1, <2>2, <2>3 DEF Allowed, Effective
  <2>5. EffectiveReturned(e, l) >= 0
    BY <1>2, <1>3, <1>9, <2>1, <2>2, <2>3 DEF Allowed, EffectiveReturned
  <2>6. ASSUME NEW j \in {"WAREHOUSE_TRANSFER", "PURCHASE_RECEIPT"}
        PROVE  Effective(e, j, l) \in 0 .. Limit[l]
    BY <1>2, <1>3, <1>9, <2>1, <2>2, <2>3 DEF Allowed, Effective
  <2> QED BY <2>4, <2>5, <2>6
<1>11. Covered(e)
  BY <1>7, <1>8 DEF Covered, Reserved, Combined
<1>12. Tells(e)
  <2> SUFFICES ASSUME NEW l \in Line
               PROVE  e.order[l] = "RECEIVED" <=> Effective(e, "PURCHASE_RECEIPT", l) >= Limit[l]
    BY DEF Tells
  <2>1. CASE k = "PURCHASE_RECEIPT" /\ l = x.line
    BY <1>8, <1>9, <2>1 DEF Effective
  <2>2. CASE ~(k = "PURCHASE_RECEIPT" /\ l = x.line)
    BY <1>1, <1>7, <1>8, <1>9, <2>2 DEF Tells, Effective
  <2> QED BY <2>1, <2>2
<1>13. e.note[n].status = "POSTED" /\ \A m \in No \ {n} : e.note[m] = d.note[m]
  BY <1>5, <1>7, <1>8
<1>14. Good(e)
  BY <1>8, <1>10, <1>11, <1>12 DEF Good
<1> QED BY <1>4, <1>13, <1>14

LEMMA PostReturnKeeps ==
  ASSUME Good(db), NEW l \in Line, PostReturn(l)
  PROVE  Good(db')
<1> DEFINE b == db.returned[l] + 1
           h == db.stock.hr + 1
           e == [db EXCEPT !.returned[l] = b, !.stock.hr = h]
<1>1. db \in Database /\ Within(db) /\ Covered(db) /\ Tells(db)
  BY DEF Good
<1>2. db.returned[l] \in Nat /\ db.stock.hr \in Nat /\ db.stock.general \in Nat
  BY <1>1 DEF Database
<1>3. db' = e
  BY <1>1 DEF PostReturn, Database
<1>4. b \in Nat /\ h \in Nat
  BY <1>2
<1> HIDE DEF b, h
<1>5. /\ e \in Database /\ e.note = db.note /\ e.order = db.order /\ e.request = db.request
      /\ e.stock.hr = h /\ e.stock.general = db.stock.general
      /\ e.returned[l] = b /\ \A p \in Line \ {l} : e.returned[p] = db.returned[p]
  BY <1>1, <1>4 DEF Database
<1> HIDE DEF e
<1>6. \A j, p : Corrected(e, j, p) = Corrected(db, j, p) /\ Corrected(db, j, p) \in Int
  <2> TAKE j, p
  <2>1. PostedNotes(e, j, p) = PostedNotes(db, j, p)
    BY <1>5 DEF PostedNotes
  <2> QED BY <1>1, <1>5, <2>1, CorrectedSame, CorrectedType
<1>7. Within(e)
  <2>1. \A p \in Line : EffectiveReturned(e, p) >= 0
    BY <1>1, <1>2, <1>5, <1>6 DEF Within, EffectiveReturned, b
  <2> QED BY <1>1, <1>6, <2>1 DEF Within, Effective
<1>8. Covered(e)
  <2>1. Reserved(e) = Reserved(db) /\ Reserved(db) \in Nat
    BY <1>5, ReservedType DEF Reserved
  <2> QED BY <1>1, <1>2, <1>5, <2>1 DEF Covered, Combined, h
<1>9. Tells(e)
  BY <1>1, <1>5, <1>6 DEF Tells, Effective
<1> QED BY <1>3, <1>5, <1>7, <1>8, <1>9 DEF Good

LEMMA SubmitKeeps ==
  ASSUME Good(db), NEW r \in Request, Submit(r)
  PROVE  Good(db')
<1> DEFINE e == [db EXCEPT !.request[r] = "SUBMITTED"]
           S(d) == {q \in Request : d.request[q] = "SUBMITTED"}
<1>1. db \in Database /\ Within(db) /\ Covered(db) /\ Tells(db)
  BY DEF Good
<1>2. db' = e /\ db.request[r] = "DRAFT" /\ Reserved(db) < Combined(db)
  BY DEF Submit
<1>3. /\ e \in Database /\ e.note = db.note /\ e.order = db.order /\ e.stock = db.stock /\ e.returned = db.returned
      /\ e.request[r] = "SUBMITTED" /\ \A q \in Request \ {r} : e.request[q] = db.request[q]
  BY <1>1 DEF Database
<1> HIDE DEF e
<1>4. \A j, p : Corrected(e, j, p) = Corrected(db, j, p)
  <2> TAKE j, p
  <2>1. PostedNotes(e, j, p) = PostedNotes(db, j, p)
    BY <1>3 DEF PostedNotes
  <2> QED BY <1>3, <2>1, CorrectedSame
<1>5. Within(e) /\ Tells(e)
  BY <1>1, <1>3, <1>4 DEF Within, Tells, Effective, EffectiveReturned
<1>6. Covered(e)
  <2>1. S(e) = S(db) \cup {r} /\ r \notin S(db)
    BY <1>2, <1>3
  <2>2. IsFiniteSet(S(db)) /\ Reserved(db) \in Nat
    BY ReservedType
  <2>3. Reserved(e) = Cardinality(S(e)) /\ Reserved(db) = Cardinality(S(db))
    BY DEF Reserved
  <2> HIDE DEF S
  <2>4. Cardinality(S(db) \cup {r}) = Cardinality(S(db)) + 1
    BY <2>1, <2>2, FS_AddElement
  <2>5. Reserved(e) = Reserved(db) + 1
    BY <2>1, <2>3, <2>4
  <2>6. Combined(e) = Combined(db) /\ Combined(db) \in Nat
    BY <1>1, <1>3 DEF Combined, Database
  <2> QED BY <1>2, <2>2, <2>5, <2>6 DEF Covered
<1> QED BY <1>2, <1>3, <1>5, <1>6 DEF Good

LEMMA NextKeeps == Good(db) /\ [Next]_db => Good(db')
<1> SUFFICES ASSUME Good(db), [Next]_db PROVE Good(db')
  OBVIOUS
<1>1. ASSUME NEW n \in No, NEW l \in Line, NEW delta \in Delta, Create(n, l, delta)
      PROVE  Good(db')
  BY <1>1, CreatedKeeps DEF Create
<1>2. ASSUME NEW n \in No, NEW l \in Line, NEW delta \in Delta, Complete(n, l, delta)
      PROVE  Good(db')
  <2>1. Good(Created(db, n, l, delta))
    BY <1>2, CreatedKeeps DEF Complete
  <2> QED BY <1>2, <2>1, PostedKeeps DEF Complete
<1>3. ASSUME NEW n \in No, Post(n) PROVE Good(db')
  BY <1>3, PostedKeeps DEF Post
<1> QED BY <1>1, <1>2, <1>3, PostReturnKeeps, SubmitKeeps DEF Next

-----------------------------------------------------------------------------
(* The theorems                                                            *)

\* The inductive invariant.
Inv == Good(db)

LEMMA Invariance == Spec => []Inv
<1>1. Init => Inv
  BY InitialIsGood DEF Inv
<1>2. Inv /\ [Next]_db => Inv'
  BY NextKeeps DEF Inv
<1> QED BY <1>1, <1>2, PTL DEF Spec

(* The tables keep their types, whatever is drafted, posted, completed,    *)
(* returned and submitted: no correction takes the stock of a warehouse    *)
(* below nothing.                                                          *)
THEOREM TypeCorrect == Spec => []TypeOK
<1>1. Inv => TypeOK
  BY DEF Inv, Good, TypeOK
<1> QED BY <1>1, Invariance, PTL

(* For any number of corrections of any quantities, drafted and posted in  *)
(* any order: an issue and its returns never come to less than nothing,    *)
(* nor a transfer or a receipt to that or to more than was asked for.      *)
THEOREM EffectiveKeepsWithinLimits == Spec => []EffectiveWithinLimits
<1>1. Inv => EffectiveWithinLimits
  BY DEF Inv, Good, Within, EffectiveWithinLimits
<1> QED BY <1>1, Invariance, PTL

(* For any number of requests: the stock covers all that is reserved.      *)
THEOREM ReservationsStayCovered == Spec => []ReservationsCovered
<1>1. Inv => ReservationsCovered
  BY DEF Inv, Good, Covered, ReservationsCovered
<1> QED BY <1>1, Invariance, PTL

(* For any quantities: an order is RECEIVED when, and only when, its       *)
(* receipt as corrected is all that was ordered.                           *)
THEOREM OrdersTellReceipts == Spec => []OrderTellsReceipt
<1>1. Inv => OrderTellsReceipt
  BY DEF Inv, Good, Tells, OrderTellsReceipt
<1> QED BY <1>1, Invariance, PTL

-----------------------------------------------------------------------------
(* The panels: their tables                                                *)

St(d, n) == d.note[n].status
Tables(d, C, F) == [db |-> d, commands |-> C, forms |-> F]
Command(op, n, key, print) == [op |-> op, kind |-> n[1], key |-> key, print |-> print, no |-> n]

\* Command c is the one that operation op of panel k left under the key.
Under(c, op, k, key) == c.op = op /\ c.kind = k /\ c.key = key
By(C, op, k, key, n) == \E c \in C : Under(c, op, k, key) /\ c.no = n
Unused(C, op, k, key) == \A c \in C : ~Under(c, op, k, key)
Prints(C, k, key, print) == \A c \in C : Under(c, "CREATE", k, key) => c.print = print

CommandSound(d, F, c) ==
  /\ c.op \in {"CREATE", "POST"} /\ c.no \in No /\ c.key \in Nat
  /\ c.kind = c.no[1] /\ F[c.no] # 0
  /\ c.op = "POST" => St(d, c.no) = "POSTED"

\* A key is used once, for what is on record and, if it was to post it, is
\* posted.
Journal(d, C, F) ==
  /\ \A c \in C : CommandSound(d, F, c)
  /\ \A c, e \in C : Under(c, e.op, e.kind, e.key) => c = e

\* Every correction that came of a form is on record.
Store(d, C, F) ==
  /\ Good(d) /\ F \in [No -> Nat]
  /\ \A n \in No : F[n] # 0 => St(d, n) # "NONE"
  /\ Journal(d, C, F)

\* What a call of panel k may be, when the corrections have come of forms F.
Ops == {"create", "draft", "complete", "post", "finish", "stuck"}
IsCall(c, k, F) ==
  /\ DOMAIN c = {"op", "no", "line", "delta", "form", "keys", "print", "postPrint"}
  /\ c.op \in Ops /\ c.no \in No /\ c.no[1] = k /\ c.line \in Line
  /\ c.form \in Nat \ {0} /\ c.keys \in Keys
  /\ c.op \in {"create", "draft", "complete"} => c.delta \in Delta /\ c.keys.create # None
  /\ c.op \in {"draft", "complete", "post", "finish"} => c.keys.post # None
  /\ c.op \in {"post", "finish"} => F[c.no] # 0

LEMMA PanelNumbers ==
  /\ MaxNo \in Nat /\ 1 <= MaxNo /\ MaxKeys \in Nat
  /\ None \notin Nat /\ None \notin No
BY CorrectionConstants, PanelConstants

LEMMA TablesIs ==
  ASSUME NEW d, NEW C, NEW F, NEW n, NEW error
  PROVE  /\ Tables(d, C, F).db = d /\ Tables(d, C, F).commands = C /\ Tables(d, C, F).forms = F
         /\ Done(Tables(d, C, F), n).at = Tables(d, C, F)
         /\ Done(Tables(d, C, F), n).no = n /\ Done(Tables(d, C, F), n).error = "none"
         /\ Refused(Tables(d, C, F), error).at = Tables(d, C, F)
         /\ Refused(Tables(d, C, F), error).error = error
BY DEF Tables, Done, Refused

LEMMA RememberIs ==
  ASSUME NEW d, NEW C, NEW F, NEW op, NEW n, NEW key, NEW print
  PROVE  Remember(Tables(d, C, F), op, n, key, print) = Tables(d, C \cup {Command(op, n, key, print)}, F)
<1>1. PICK x : x = Tables(d, C, F)
  OBVIOUS
<1>2. PICK S : S = C \cup {Command(op, n, key, print)}
  OBVIOUS
<1>3. x = [db |-> d, commands |-> C, forms |-> F]
  BY <1>1 DEF Tables
<1>4. Remember(x, op, n, key, print) = [x EXCEPT !.commands = S]
  BY <1>2, <1>3 DEF Remember, Command
<1>5. [x EXCEPT !.commands = S] = [db |-> d, commands |-> S, forms |-> F]
  BY <1>3
<1> QED BY <1>1, <1>2, <1>4, <1>5 DEF Tables

LEMMA KeysAre ==
  /\ DOMAIN NoKeys = {"create", "post"} /\ NoKeys \in Keys
  /\ NoKeys.create = None /\ NoKeys.post = None
  /\ \A keys \in Keys :
       /\ keys.create \in Nat \cup {None} /\ keys.post \in Nat \cup {None}
       /\ [keys EXCEPT !.create = None] \in Keys /\ [keys EXCEPT !.post = None] \in Keys
       /\ [keys EXCEPT !.create = None].create = None /\ [keys EXCEPT !.create = None].post = keys.post
       /\ [keys EXCEPT !.post = None].post = None /\ [keys EXCEPT !.post = None].create = keys.create
<1>1. DOMAIN NoKeys = {"create", "post"} /\ NoKeys.create = None /\ NoKeys.post = None
  BY DEF NoKeys
<1>2. NoKeys \in Keys
  BY <1>1 DEF NoKeys, Keys
<1> QED BY <1>1, <1>2 DEF Keys

LEMMA CommandIs ==
  ASSUME NEW op, NEW n, NEW key, NEW print, NEW c, c = Command(op, n, key, print)
  PROVE  /\ c.op = op /\ c.kind = n[1] /\ c.key = key /\ c.print = print /\ c.no = n
         /\ \A op2, k2, key2 : Under(c, op2, k2, key2) <=> op = op2 /\ n[1] = k2 /\ key = key2
BY DEF Command, Under

LEMMA CallIs ==
  ASSUME NEW k, NEW F, NEW c, IsCall(c, k, F)
  PROVE  /\ c.op \in Ops /\ c.no \in No /\ c.no[1] = k /\ c.line \in Line /\ c.form \in Nat /\ c.form # 0
         /\ c.keys \in Keys
         /\ c.op \in {"create", "draft", "complete"} => c.delta \in Delta /\ c.keys.create \in Nat
         /\ c.op \in {"draft", "complete", "post", "finish"} => c.keys.post \in Nat
         /\ c.op \in {"post", "finish"} => F[c.no] # 0
<1>1. c.keys \in Keys
  BY DEF IsCall
<1>2. c.keys.create \in Nat \cup {None} /\ c.keys.post \in Nat \cup {None}
  BY <1>1, KeysAre
<1> QED BY <1>2 DEF IsCall

-----------------------------------------------------------------------------
(* What the transactions do to them                                        *)

\* A key has not been used for anything, and is now.
Keyed(C, C2, op, n, key, print) ==
  Unused(C, op, n[1], key) /\ C2 = C \cup {Command(op, n, key, print)}

\* The correction of a call is drafted ...
Drafts(d, C, F, d2, C2, F2, c) ==
  /\ CanCreate(d, c.no) /\ d2 = Created(d, c.no, c.line, c.delta)
  /\ F2 = [F EXCEPT ![c.no] = c.form]
  /\ Keyed(C, C2, "CREATE", c.no, c.keys.create, c.print)

\* ... and correction n is posted by it.
Books(d, C, F, d2, C2, F2, c, n) ==
  /\ CanPost(d, n) /\ d2 = Posted(d, n) /\ F2 = F
  /\ Keyed(C, C2, "POST", n, c.keys.post, c.postPrint)

\* What Once may answer.
LEMMA OnceIs ==
  ASSUME NEW d, NEW C, NEW F, NEW op, NEW n, NEW key, NEW print, NEW fresh,
         NEW o, o = Once(Tables(d, C, F), op, n, key, print, fresh)
  PROVE  \/ o = fresh /\ Unused(C, op, n[1], key)
         \/ o.error = "none" /\ o.at = Tables(d, C, F) /\ By(C, op, n[1], key, o.no)
         \/ /\ o.error # "none" /\ o.at = Tables(d, C, F)
            /\ \E c \in C : Under(c, op, n[1], key) /\ c.print # print
<1> DEFINE x == Tables(d, C, F)
           prior == {c \in C : c.op = op /\ c.kind = n[1] /\ c.key = key}
<1>1. x.commands = C
  BY TablesIs
<1>2. CASE prior = {}
  <2>1. o = fresh
    BY <1>1, <1>2 DEF Once
  <2> QED BY <1>2, <2>1 DEF Unused, Under
<1>3. CASE prior # {}
  <2>1. PICK c : c = CHOOSE e \in prior : TRUE
    OBVIOUS
  <2>2. c \in C /\ Under(c, op, n[1], key)
    BY <1>3, <2>1 DEF Under
  <2>3. o = IF c.print = print THEN Done(x, c.no) ELSE Refused(x, "conflict")
    BY <1>1, <1>3, <2>1 DEF Once
  <2>4. CASE c.print = print
    BY <2>2, <2>3, <2>4, TablesIs DEF By
  <2>5. CASE c.print # print
    BY <2>2, <2>3, <2>5, TablesIs
  <2> QED BY <2>4, <2>5
<1> QED BY <1>2, <1>3

LEMMA CreateIs ==
  ASSUME NEW d, NEW C, NEW F, NEW k, NEW c, IsCall(c, k, F),
         NEW o, o = CreateTx(Tables(d, C, F), c)
  PROVE  \/ /\ o.error # "none" /\ o.at = Tables(d, C, F)
            /\ Unused(C, "CREATE", k, c.keys.create) \/ ~Prints(C, k, c.keys.create, c.print)
         \/ o.error = "none" /\ o.at = Tables(d, C, F) /\ By(C, "CREATE", k, c.keys.create, o.no)
         \/ /\ o.error = "none" /\ o.no = c.no
            /\ \E d2, C2, F2 : o.at = Tables(d2, C2, F2) /\ Drafts(d, C, F, d2, C2, F2, c)
<1>0. PICK x : x = Tables(d, C, F)
  OBVIOUS
<1> DEFINE d2 == Created(d, c.no, c.line, c.delta)
           F2 == [F EXCEPT ![c.no] = c.form]
           C2 == C \cup {Command("CREATE", c.no, c.keys.create, c.print)}
           y == Remember([x EXCEPT !.db = Created(x.db, c.no, c.line, c.delta), !.forms[c.no] = c.form],
                         "CREATE", c.no, c.keys.create, c.print)
           fresh == IF ~CanCreate(x.db, c.no) THEN Refused(x, "duplicate") ELSE Done(y, c.no)
<1>1. o = Once(x, "CREATE", c.no, c.keys.create, c.print, fresh)
  BY <1>0 DEF CreateTx
<1>2. c.no[1] = k /\ x.db = d
  BY <1>0, CallIs, TablesIs
<1>3. y = Tables(d2, C2, F2)
  <2> HIDE DEF d2
  <2>1. x = [db |-> d, commands |-> C, forms |-> F]
    BY <1>0 DEF Tables
  <2>2. PICK n, f : n = c.no /\ f = c.form
    OBVIOUS
  <2>3. [x EXCEPT !.db = d2, !.forms[n] = f] = [[x EXCEPT !.db = d2] EXCEPT !.forms[n] = f]
    BY <2>1
  <2>4. PICK z : z = [db |-> d2, commands |-> C, forms |-> F]
    OBVIOUS
  <2>5. [x EXCEPT !.db = d2] = z
    BY <2>1, <2>4
  <2>6. [z EXCEPT !.forms[n] = f] = [db |-> d2, commands |-> C, forms |-> [F EXCEPT ![n] = f]]
    BY <2>4
  <2>7. [x EXCEPT !.db = d2, !.forms[c.no] = c.form] = Tables(d2, C, F2)
    BY <2>2, <2>3, <2>5, <2>6 DEF Tables, F2
  <2>8. y = Remember(Tables(d2, C, F2), "CREATE", c.no, c.keys.create, c.print)
    BY <1>2, <2>7 DEF d2
  <2> QED BY <2>8, RememberIs
<1> HIDE DEF y
<1>4. CASE o = fresh /\ Unused(C, "CREATE", k, c.keys.create)
  <2>1. CASE ~CanCreate(d, c.no)
    <3>1. o = Refused(x, "duplicate")
      BY <1>2, <1>4, <2>1
    <3>2. o.error = "duplicate" /\ o.at = x
      BY <1>0, <3>1, TablesIs
    <3> QED BY <1>0, <1>4, <3>2
  <2>2. CASE CanCreate(d, c.no)
    <3>1. o = Done(Tables(d2, C2, F2), c.no)
      BY <1>2, <1>3, <1>4, <2>2
    <3>2. o.error = "none" /\ o.no = c.no /\ o.at = Tables(d2, C2, F2)
      BY <3>1, TablesIs
    <3>3. Drafts(d, C, F, d2, C2, F2, c)
      BY <1>2, <1>4, <2>2 DEF Drafts, Keyed
    <3> HIDE DEF d2, C2, F2
    <3> QED BY <3>2, <3>3
  <2> QED BY <2>1, <2>2
<1> HIDE DEF fresh
<1>5. \/ o = fresh /\ Unused(C, "CREATE", c.no[1], c.keys.create)
      \/ o.error = "none" /\ o.at = x /\ By(C, "CREATE", c.no[1], c.keys.create, o.no)
      \/ /\ o.error # "none" /\ o.at = x
         /\ \E e \in C : Under(e, "CREATE", c.no[1], c.keys.create) /\ e.print # c.print
  BY <1>0, <1>1, OnceIs
<1> QED BY <1>0, <1>2, <1>4, <1>5 DEF Prints

LEMMA PostIs ==
  ASSUME NEW d, NEW C, NEW F, NEW c, NEW n, NEW o, o = PostTx(Tables(d, C, F), c, n)
  PROVE  \/ o.error # "none" /\ o.at = Tables(d, C, F)
         \/ o.error = "none" /\ o.at = Tables(d, C, F) /\ By(C, "POST", n[1], c.keys.post, o.no)
         \/ /\ o.error = "none" /\ o.no = n
            /\ \E d2, C2, F2 : o.at = Tables(d2, C2, F2) /\ Books(d, C, F, d2, C2, F2, c, n)
<1>0. PICK x : x = Tables(d, C, F)
  OBVIOUS
<1> DEFINE d2 == Posted(d, n)
           C2 == C \cup {Command("POST", n, c.keys.post, c.postPrint)}
           y == Remember([x EXCEPT !.db = Posted(x.db, n)], "POST", n, c.keys.post, c.postPrint)
           fresh == IF ~CanPost(x.db, n) THEN Refused(x, "refused") ELSE Done(y, n)
<1>1. o = Once(x, "POST", n, c.keys.post, c.postPrint, fresh)
  BY <1>0 DEF PostTx
<1>2. x.db = d
  BY <1>0, TablesIs
<1>3. y = Tables(d2, C2, F)
  <2> HIDE DEF d2
  <2>1. [x EXCEPT !.db = d2] = Tables(d2, C, F)
    BY <1>0 DEF Tables
  <2>2. y = Remember(Tables(d2, C, F), "POST", n, c.keys.post, c.postPrint)
    BY <1>2, <2>1 DEF d2
  <2> QED BY <2>2, RememberIs
<1> HIDE DEF y
<1>4. CASE o = fresh /\ Unused(C, "POST", n[1], c.keys.post)
  <2>1. CASE ~CanPost(d, n)
    <3>1. o = Refused(x, "refused")
      BY <1>2, <1>4, <2>1
    <3>2. o.error = "refused" /\ o.at = x
      BY <1>0, <3>1, TablesIs
    <3> QED BY <1>0, <3>2
  <2>2. CASE CanPost(d, n)
    <3>1. o = Done(Tables(d2, C2, F), n)
      BY <1>2, <1>3, <1>4, <2>2
    <3>2. o.error = "none" /\ o.no = n /\ o.at = Tables(d2, C2, F)
      BY <3>1, TablesIs
    <3>3. Books(d, C, F, d2, C2, F, c, n)
      BY <1>4, <2>2 DEF Books, Keyed
    <3> HIDE DEF d2, C2
    <3> QED BY <3>2, <3>3
  <2> QED BY <2>1, <2>2
<1> HIDE DEF fresh
<1>5. \/ o = fresh /\ Unused(C, "POST", n[1], c.keys.post)
      \/ o.error = "none" /\ o.at = x /\ By(C, "POST", n[1], c.keys.post, o.no)
      \/ o.error # "none" /\ o.at = x
  BY <1>0, <1>1, OnceIs
<1> QED BY <1>0, <1>4, <1>5

-----------------------------------------------------------------------------
(* How the tables may change                                               *)

\* The panel of kind k sees no change.
Agrees(k, d, C, F, d2, C2, F2) ==
  /\ \A n \in No : n[1] = k => F2[n] = F[n] /\ (F[n] # 0 => St(d2, n) = St(d, n))
  /\ \A c : c.kind = k => (c \in C <=> c \in C2)

\* A call of the panel of kind k changes what is that panel's.
Follows(k, d, C, F, d2, C2, F2) ==
  /\ Store(d2, C2, F2) /\ C \subseteq C2
  /\ \A n \in No : F[n] # 0 => F2[n] = F[n]
  /\ \A j : j # k => Agrees(j, d, C, F, d2, C2, F2)

LEMMA StillFollows ==
  ASSUME NEW d, NEW C, NEW F, Store(d, C, F), NEW k
  PROVE  Follows(k, d, C, F, d, C, F)
BY DEF Follows, Agrees

LEMMA FollowsTwice ==
  ASSUME NEW k, NEW d, NEW C, NEW F, NEW d1, NEW C1, NEW F1, NEW d2, NEW C2, NEW F2,
         F \in [No -> Nat], Follows(k, d, C, F, d1, C1, F1), Follows(k, d1, C1, F1, d2, C2, F2)
  PROVE  Follows(k, d, C, F, d2, C2, F2)
<1>1. Store(d2, C2, F2) /\ C \subseteq C2
  BY DEF Follows
<1>2. \A n \in No : F[n] # 0 => F2[n] = F[n]
  BY DEF Follows
<1>3. ASSUME NEW j, j # k PROVE Agrees(j, d, C, F, d2, C2, F2)
  <2>1. Agrees(j, d, C, F, d1, C1, F1) /\ Agrees(j, d1, C1, F1, d2, C2, F2)
    BY <1>3 DEF Follows
  <2> QED BY <2>1 DEF Agrees
<1> QED BY <1>1, <1>2, <1>3 DEF Follows

\* What came of a form stays that form's, and what is posted stays posted.
Lasts(d, F, d2, F2) ==
  \A n \in No :
    /\ F[n] # 0 => F2[n] = F[n]
    /\ St(d, n) = "POSTED" => St(d2, n) = "POSTED"

\* Of the journal, a key has become that of correction n, and nothing else.
Adds(C, C2, op, n, key, print) ==
  /\ Unused(C, op, n[1], key) /\ C \subseteq C2
  /\ \A c : c.kind # n[1] => (c \in C <=> c \in C2)
  /\ By(C2, op, n[1], key, n)
  /\ \A c \in C2 : Under(c, op, n[1], key) => c.no = n /\ c.print = print
  /\ \A e \in C2 : e.kind = n[1] => e \in C \/ e.key = key
  /\ \A op2, k2, key2 : op2 # op =>
       \A c : c \in C2 /\ Under(c, op2, k2, key2) <=> c \in C /\ Under(c, op2, k2, key2)

LEMMA KeyedKeeps ==
  ASSUME NEW d, NEW C, NEW F, Journal(d, C, F), NEW d2, NEW F2, Lasts(d, F, d2, F2),
         NEW op \in {"CREATE", "POST"}, NEW n \in No, NEW key \in Nat, NEW print, NEW C2,
         Keyed(C, C2, op, n, key, print),
         F2[n] # 0, op = "POST" => St(d2, n) = "POSTED"
  PROVE  Journal(d2, C2, F2) /\ Adds(C, C2, op, n, key, print)
<1>1. PICK new : new = Command(op, n, key, print)
  OBVIOUS
<1>2. C2 = C \cup {new} /\ Unused(C, op, n[1], key)
  BY <1>1 DEF Keyed
<1>3. /\ new.op = op /\ new.kind = n[1] /\ new.key = key /\ new.print = print /\ new.no = n
      /\ \A op2, k2, key2 : Under(new, op2, k2, key2) <=> op = op2 /\ n[1] = k2 /\ key = key2
  BY <1>1, CommandIs
<1>4. CommandSound(d2, F2, new)
  BY <1>3 DEF CommandSound
<1>5. ASSUME NEW c \in C PROVE CommandSound(d2, F2, c)
  <2>1. CommandSound(d, F, c)
    BY DEF Journal
  <2> QED BY <2>1 DEF CommandSound, Lasts
<1>6. ASSUME NEW c \in C2, NEW e \in C2, Under(c, e.op, e.kind, e.key)
      PROVE  c = e
  <2>1. CASE c = new /\ e # new
    BY <1>2, <1>3, <1>6, <2>1 DEF Unused, Under
  <2>2. CASE c # new /\ e = new
    BY <1>2, <1>3, <1>6, <2>2 DEF Unused, Under
  <2>3. CASE c # new /\ e # new
    BY <1>2, <1>6, <2>3 DEF Journal
  <2> QED BY <2>1, <2>2, <2>3
<1>7. By(C2, op, n[1], key, n)
  BY <1>2, <1>3 DEF By
<1>8. \A c \in C2 : Under(c, op, n[1], key) => c.no = n /\ c.print = print
  BY <1>2, <1>3 DEF Unused
<1>9. \A op2, k2, key2 : op2 # op => \A c : c \in C2 /\ Under(c, op2, k2, key2) <=> c \in C /\ Under(c, op2, k2, key2)
  BY <1>2, <1>3
<1>10. \A c : c.kind # n[1] => (c \in C <=> c \in C2)
  BY <1>2, <1>3
<1>11. Journal(d2, C2, F2)
  BY <1>2, <1>4, <1>5, <1>6 DEF Journal
<1>12. \A c \in C2 : c.kind = n[1] => c \in C \/ c.key = key
  BY <1>2, <1>3
<1> QED BY <1>2, <1>7, <1>8, <1>9, <1>10, <1>11, <1>12 DEF Adds

\* Of the keys of an operation, the same are used for the same.
SameKeys(C, C2, op) == \A k, key, c : c \in C2 /\ Under(c, op, k, key) <=> c \in C /\ Under(c, op, k, key)

\* What a draft leaves ...
DraftLeaves(d, C, F, d2, C2, F2, k, c) ==
  /\ F[c.no] = 0 /\ F2[c.no] = c.form /\ St(d2, c.no) = "DRAFT"
  /\ \A n \in No \ {c.no} : F2[n] = F[n] /\ St(d2, n) = St(d, n)
  /\ Unused(C, "CREATE", k, c.keys.create)
  /\ By(C2, "CREATE", k, c.keys.create, c.no)
  /\ \A e \in C2 : Under(e, "CREATE", k, c.keys.create) => e.no = c.no /\ e.print = c.print
  /\ SameKeys(C, C2, "POST")
  /\ \A e \in C2 : e.kind = k => e \in C \/ e.key = c.keys.create

\* ... and what a posting leaves.
BookLeaves(d, C, F, d2, C2, F2, k, key, n) ==
  /\ F2 = F
  /\ St(d, n) = "DRAFT" /\ St(d2, n) = "POSTED" /\ \A m \in No \ {n} : St(d2, m) = St(d, m)
  /\ By(C2, "POST", k, key, n)
  /\ \A e \in C2 : Under(e, "POST", k, key) => e.no = n
  /\ SameKeys(C, C2, "CREATE")
  /\ \A e \in C2 : e.kind = k => e \in C \/ e.key = key

LEMMA DraftsFollows ==
  ASSUME NEW d, NEW C, NEW F, Store(d, C, F), NEW k, NEW c, IsCall(c, k, F),
         c.op \in {"create", "draft", "complete"},
         NEW d2, NEW C2, NEW F2, Drafts(d, C, F, d2, C2, F2, c)
  PROVE  Follows(k, d, C, F, d2, C2, F2) /\ DraftLeaves(d, C, F, d2, C2, F2, k, c)
<1>1. /\ c.no \in No /\ c.no[1] = k /\ c.line \in Line /\ c.form \in Nat /\ c.form # 0
      /\ c.delta \in Delta /\ c.keys.create \in Nat
  BY CallIs
<1>2. /\ CanCreate(d, c.no) /\ d2 = Created(d, c.no, c.line, c.delta)
      /\ F2 = [F EXCEPT ![c.no] = c.form]
      /\ Keyed(C, C2, "CREATE", c.no, c.keys.create, c.print)
  BY DEF Drafts
<1>3. St(d, c.no) = "NONE" /\ F[c.no] = 0
  BY <1>1, <1>2 DEF CanCreate, St, Store
<1>4. /\ Good(d2) /\ St(d2, c.no) = "DRAFT" /\ \A n \in No \ {c.no} : St(d2, n) = St(d, n)
  <2>1. Good(d)
    BY DEF Store
  <2> QED BY <1>1, <1>2, <2>1, CreatedKeeps DEF St
<1>5. F2 \in [No -> Nat] /\ F2[c.no] = c.form /\ \A n \in No \ {c.no} : F2[n] = F[n]
  BY <1>1, <1>2 DEF Store
<1>6. Journal(d2, C2, F2) /\ Adds(C, C2, "CREATE", c.no, c.keys.create, c.print)
  <2>1. Lasts(d, F, d2, F2)
    BY <1>3, <1>4, <1>5 DEF Lasts
  <2>2. Journal(d, C, F)
    BY DEF Store
  <2>3. PICK key, print : key = c.keys.create /\ print = c.print
    OBVIOUS
  <2>4. key \in Nat /\ Keyed(C, C2, "CREATE", c.no, key, print) /\ F2[c.no] # 0
    BY <1>1, <1>2, <1>5, <2>3
  <2> QED BY <1>1, <2>1, <2>2, <2>3, <2>4, KeyedKeeps
<1>7. Store(d2, C2, F2)
  BY <1>1, <1>3, <1>4, <1>5, <1>6 DEF Store
<1>8. Follows(k, d, C, F, d2, C2, F2)
  <2>1. ASSUME NEW j, j # k PROVE Agrees(j, d, C, F, d2, C2, F2)
    BY <1>1, <1>3, <1>4, <1>5, <1>6, <2>1 DEF Agrees, Adds
  <2> QED BY <1>3, <1>5, <1>6, <1>7, <2>1 DEF Follows, Adds
<1> QED BY <1>1, <1>3, <1>4, <1>5, <1>6, <1>8 DEF Adds, DraftLeaves, SameKeys

LEMMA BooksFollows ==
  ASSUME NEW d, NEW C, NEW F, Store(d, C, F), NEW k, NEW c, NEW key \in Nat, key = c.keys.post,
         NEW n \in No, n[1] = k, F[n] # 0,
         NEW d2, NEW C2, NEW F2, Books(d, C, F, d2, C2, F2, c, n)
  PROVE  Follows(k, d, C, F, d2, C2, F2) /\ BookLeaves(d, C, F, d2, C2, F2, k, key, n)
<1>1. /\ CanPost(d, n) /\ d2 = Posted(d, n) /\ F2 = F
      /\ Keyed(C, C2, "POST", n, c.keys.post, c.postPrint)
  BY DEF Books
<1>2. St(d, n) = "DRAFT"
  BY <1>1 DEF CanPost, St
<1>3. Good(d2) /\ St(d2, n) = "POSTED" /\ \A m \in No \ {n} : St(d2, m) = St(d, m)
  <2>1. Good(d)
    BY DEF Store
  <2> QED BY <1>1, <2>1, PostedKeeps DEF St
<1>4. Journal(d2, C2, F2) /\ Adds(C, C2, "POST", n, key, c.postPrint)
  <2>1. Lasts(d, F, d2, F2)
    BY <1>1, <1>3 DEF Lasts
  <2>2. Journal(d, C, F)
    BY DEF Store
  <2>3. PICK print : print = c.postPrint
    OBVIOUS
  <2>4. Keyed(C, C2, "POST", n, key, print) /\ F2[n] # 0
    BY <1>1, <2>3
  <2> QED BY <1>3, <2>1, <2>2, <2>3, <2>4, KeyedKeeps
<1>5. Store(d2, C2, F2)
  BY <1>1, <1>2, <1>3, <1>4 DEF Store
<1>6. Follows(k, d, C, F, d2, C2, F2)
  <2>1. ASSUME NEW j, j # k PROVE Agrees(j, d, C, F, d2, C2, F2)
    BY <1>1, <1>3, <1>4, <2>1 DEF Agrees, Adds
  <2> QED BY <1>1, <1>4, <1>5, <2>1 DEF Follows, Adds
<1> QED BY <1>1, <1>2, <1>3, <1>4, <1>6 DEF Adds, BookLeaves, SameKeys

-----------------------------------------------------------------------------
(* What a call comes to                                                    *)

\* The correction that a call posts: its own, or the one its key has drafted.
Target(C, k, c, n) ==
  /\ n \in No
  /\ \/ c.op \in {"post", "finish"} /\ n = c.no
     \/ c.op = "complete" /\ By(C, "CREATE", k, c.keys.create, n)

DraftsAlone(d, C, F, d2, C2, F2, c) ==
  c.op \in {"create", "draft", "complete"} /\ Drafts(d, C, F, d2, C2, F2, c)
BooksTarget(d, C, F, d2, C2, F2, k, c) ==
  \E n : Target(C, k, c, n) /\ Books(d, C, F, d2, C2, F2, c, n)
DraftsAndBooks(d, C, F, d2, C2, F2, c) ==
  c.op = "complete" /\ \E d1, C1, F1 : Drafts(d, C, F, d1, C1, F1, c) /\ Books(d1, C1, F1, d2, C2, F2, c, c.no)

Happens(d, C, F, d2, C2, F2, k, c) ==
  \/ d2 = d /\ C2 = C /\ F2 = F
  \/ DraftsAlone(d, C, F, d2, C2, F2, c)
  \/ BooksTarget(d, C, F, d2, C2, F2, k, c)
  \/ DraftsAndBooks(d, C, F, d2, C2, F2, c)

\* A call that is answered with correction n has made it, or posted it.
Answers(d, C, k, c, n) ==
  /\ c.op \in {"create", "draft"} => By(C, "CREATE", k, c.keys.create, n)
  /\ c.op \in {"post", "finish"} => By(C, "POST", k, c.keys.post, n)
  /\ c.op = "complete" => \/ By(C, "POST", k, c.keys.post, n)
                          \/ By(C, "CREATE", k, c.keys.create, n) /\ St(d, n) = "POSTED"

\* A call that would draft a correction and is refused finds none under its
\* key that has been posted.
Refuses(d, C, k, c) ==
  c.op \in {"create", "draft", "complete"} =>
    \/ Unused(C, "CREATE", k, c.keys.create)
    \/ ~Prints(C, k, c.keys.create, c.print)
    \/ c.op = "complete" /\ \E n : By(C, "CREATE", k, c.keys.create, n) /\ St(d, n) # "POSTED"

Comes(d, C, F, k, c, o) ==
  \/ o.error # "none" /\ o.at = Tables(d, C, F) /\ Refuses(d, C, k, c)
  \/ /\ o.error = "none"
     /\ \E d2, C2, F2 :
          o.at = Tables(d2, C2, F2) /\ Happens(d, C, F, d2, C2, F2, k, c) /\ Answers(d2, C2, k, c, o.no)

LEMMA ByIs ==
  ASSUME NEW d, NEW C, NEW F, Store(d, C, F), NEW op, NEW k, NEW key, NEW n, By(C, op, k, key, n)
  PROVE  /\ n \in No /\ n[1] = k /\ F[n] # 0
         /\ op = "POST" => St(d, n) = "POSTED"
         /\ key \in Nat
         /\ \A m : By(C, op, k, key, m) => m = n
<1>1. PICK c \in C : Under(c, op, k, key) /\ c.no = n
  BY DEF By
<1>2. CommandSound(d, F, c)
  BY DEF Store, Journal
<1>3. ASSUME NEW m, By(C, op, k, key, m) PROVE m = n
  <2>1. PICK e \in C : Under(e, op, k, key) /\ e.no = m
    BY <1>3 DEF By
  <2>2. Under(c, e.op, e.kind, e.key)
    BY <1>1, <2>1 DEF Under
  <2> QED BY <1>1, <2>1, <2>2 DEF Store, Journal
<1> QED BY <1>1, <1>2, <1>3 DEF CommandSound, Under

LEMMA CompleteIs ==
  ASSUME NEW d, NEW C, NEW F, Store(d, C, F), NEW k, NEW c, IsCall(c, k, F), c.op = "complete",
         NEW o, o = CompleteTx(Tables(d, C, F), c)
  PROVE  Comes(d, C, F, k, c, o)
<1> DEFINE x == Tables(d, C, F)
<1>1. PICK made : made = CreateTx(x, c)
  OBVIOUS
<1>2. PICK done : done = PostTx(made.at, c, made.no)
  OBVIOUS
<1>3. o = IF made.error # "none" THEN made
          ELSE IF made.at.db.note[made.no].status = "POSTED" THEN made
          ELSE IF done.error # "none" THEN Refused(x, done.error) ELSE done
  BY <1>1, <1>2 DEF CompleteTx
<1>4. CASE /\ made.error # "none" /\ made.at = x
           /\ Unused(C, "CREATE", k, c.keys.create) \/ ~Prints(C, k, c.keys.create, c.print)
  <2>1. o = made
    BY <1>3, <1>4
  <2> QED BY <1>4, <2>1 DEF Comes, Refuses
<1>5. CASE made.error = "none" /\ made.at = x /\ By(C, "CREATE", k, c.keys.create, made.no)
  <2>1. PICK n : n = made.no
    OBVIOUS
  <2>2. n \in No /\ n[1] = k /\ Target(C, k, c, n)
    BY <1>5, <2>1, ByIs DEF Target
  <2>3. made.at.db.note[made.no].status = St(d, n)
    BY <1>5, <2>1, TablesIs DEF St
  <2>4. CASE St(d, n) = "POSTED"
    <3>1. o = made
      BY <1>3, <1>5, <2>3, <2>4
    <3>2. Answers(d, C, k, c, o.no)
      BY <1>5, <2>1, <2>4, <3>1 DEF Answers
    <3> QED BY <1>5, <3>1, <3>2 DEF Comes, Happens
  <2>5. CASE St(d, n) # "POSTED" /\ done.error # "none"
    <3>1. o = Refused(x, done.error)
      BY <1>3, <1>5, <2>3, <2>5
    <3>2. o.error # "none" /\ o.at = x
      BY <2>5, <3>1, TablesIs
    <3>3. Refuses(d, C, k, c)
      BY <1>5, <2>1, <2>5 DEF Refuses
    <3> QED BY <3>2, <3>3 DEF Comes
  <2>6. CASE St(d, n) # "POSTED" /\ done.error = "none"
    <3>1. o = done
      BY <1>3, <1>5, <2>3, <2>6
    <3>2. done = PostTx(x, c, n)
      BY <1>2, <1>5, <2>1
    <3>3. \/ done.at = x /\ By(C, "POST", k, c.keys.post, done.no)
          \/ /\ done.no = n
             /\ \E d2, C2, F2 : done.at = Tables(d2, C2, F2) /\ Books(d, C, F, d2, C2, F2, c, n)
      BY <2>2, <2>6, <3>2, PostIs
    <3>4. CASE done.at = x /\ By(C, "POST", k, c.keys.post, done.no)
      BY <2>6, <3>1, <3>4 DEF Comes, Happens, Answers
    <3>5. CASE /\ done.no = n
               /\ \E d2, C2, F2 : done.at = Tables(d2, C2, F2) /\ Books(d, C, F, d2, C2, F2, c, n)
      <4>1. PICK d2, C2, F2 : done.at = Tables(d2, C2, F2) /\ Books(d, C, F, d2, C2, F2, c, n)
        BY <3>5
      <4>2. By(C2, "POST", k, c.keys.post, n)
        <5>1. c.keys.post \in Nat
          BY CallIs
        <5>2. F[n] # 0
          BY <1>5, <2>1, ByIs
        <5>3. PICK key \in Nat : key = c.keys.post
          BY <5>1
        <5>4. BookLeaves(d, C, F, d2, C2, F2, k, key, n)
          BY <2>2, <4>1, <5>2, <5>3, BooksFollows
        <5> QED BY <5>3, <5>4 DEF BookLeaves
      <4>3. Happens(d, C, F, d2, C2, F2, k, c)
        BY <2>2, <4>1 DEF Happens, BooksTarget
      <4>4. Answers(d2, C2, k, c, o.no)
        BY <3>1, <3>5, <4>2 DEF Answers
      <4> QED BY <2>6, <3>1, <4>1, <4>3, <4>4 DEF Comes
    <3> QED BY <3>3, <3>4, <3>5
  <2> QED BY <2>4, <2>5, <2>6
<1>6. CASE /\ made.error = "none" /\ made.no = c.no
           /\ \E d1, C1, F1 : made.at = Tables(d1, C1, F1) /\ Drafts(d, C, F, d1, C1, F1, c)
  <2>1. PICK d1, C1, F1 : made.at = Tables(d1, C1, F1) /\ Drafts(d, C, F, d1, C1, F1, c)
    BY <1>6
  <2>2. /\ Follows(k, d, C, F, d1, C1, F1)
        /\ F1[c.no] = c.form /\ St(d1, c.no) = "DRAFT"
        /\ Unused(C, "CREATE", k, c.keys.create)
    BY <2>1, DraftsFollows DEF DraftLeaves
  <2>3. made.at.db.note[made.no].status # "POSTED"
    BY <1>6, <2>1, <2>2, TablesIs DEF St
  <2>4. c.no \in No /\ c.no[1] = k /\ c.keys.post \in Nat /\ c.form # 0
    BY CallIs
  <2>5. CASE done.error # "none"
    <3>1. o = Refused(x, done.error)
      BY <1>3, <1>6, <2>3, <2>5
    <3>2. o.error # "none" /\ o.at = x
      BY <2>5, <3>1, TablesIs
    <3>3. Refuses(d, C, k, c)
      BY <2>2 DEF Refuses
    <3> QED BY <3>2, <3>3 DEF Comes
  <2>6. CASE done.error = "none"
    <3>1. o = done
      BY <1>3, <1>6, <2>3, <2>6
    <3>2. done = PostTx(Tables(d1, C1, F1), c, c.no)
      BY <1>2, <1>6, <2>1
    <3>3. \/ done.at = Tables(d1, C1, F1) /\ By(C1, "POST", k, c.keys.post, done.no)
          \/ /\ done.no = c.no
             /\ \E d2, C2, F2 : done.at = Tables(d2, C2, F2) /\ Books(d1, C1, F1, d2, C2, F2, c, c.no)
      BY <2>4, <2>6, <3>2, PostIs
    <3>4. CASE done.at = Tables(d1, C1, F1) /\ By(C1, "POST", k, c.keys.post, done.no)
      <4>1. Happens(d, C, F, d1, C1, F1, k, c)
        BY <2>1 DEF Happens, DraftsAlone
      <4>2. Answers(d1, C1, k, c, o.no)
        BY <3>1, <3>4 DEF Answers
      <4> QED BY <2>6, <3>1, <3>4, <4>1, <4>2 DEF Comes
    <3>5. CASE /\ done.no = c.no
               /\ \E d2, C2, F2 : done.at = Tables(d2, C2, F2) /\ Books(d1, C1, F1, d2, C2, F2, c, c.no)
      <4>1. PICK d2, C2, F2 : done.at = Tables(d2, C2, F2) /\ Books(d1, C1, F1, d2, C2, F2, c, c.no)
        BY <3>5
      <4>2. By(C2, "POST", k, c.keys.post, c.no)
        <5>1. Store(d1, C1, F1)
          BY <2>2 DEF Follows
        <5>2. PICK key \in Nat, n \in No : key = c.keys.post /\ n = c.no
          BY <2>4
        <5>3. n[1] = k /\ F1[n] # 0 /\ Books(d1, C1, F1, d2, C2, F2, c, n)
          BY <2>2, <2>4, <4>1, <5>2
        <5>4. BookLeaves(d1, C1, F1, d2, C2, F2, k, key, n)
          BY <5>1, <5>2, <5>3, BooksFollows
        <5> QED BY <5>2, <5>4 DEF BookLeaves
      <4>3. Happens(d, C, F, d2, C2, F2, k, c)
        BY <2>1, <4>1 DEF Happens, DraftsAndBooks
      <4>4. Answers(d2, C2, k, c, o.no)
        BY <3>1, <3>5, <4>2 DEF Answers
      <4> QED BY <2>6, <3>1, <4>1, <4>3, <4>4 DEF Comes
    <3> QED BY <3>3, <3>4, <3>5
  <2> QED BY <2>5, <2>6
<1> QED BY <1>1, <1>4, <1>5, <1>6, CreateIs

LEMMA TransactionIs ==
  ASSUME NEW d, NEW C, NEW F, Store(d, C, F), NEW k, NEW c, IsCall(c, k, F), c.op # "stuck",
         NEW o, o = Transaction(Tables(d, C, F), c)
  PROVE  Comes(d, C, F, k, c, o)
<1> DEFINE x == Tables(d, C, F)
<1>0. c.op \in Ops /\ c.no \in No /\ c.no[1] = k
  BY CallIs
<1>1. CASE c.op = "complete"
  <2>1. o = CompleteTx(x, c)
    BY <1>1 DEF Transaction
  <2> QED BY <1>1, <2>1, CompleteIs
<1>2. CASE c.op \in {"create", "draft"}
  <2>1. o = CreateTx(x, c)
    BY <1>2 DEF Transaction
  <2>2. \/ /\ o.error # "none" /\ o.at = x
           /\ Unused(C, "CREATE", k, c.keys.create) \/ ~Prints(C, k, c.keys.create, c.print)
        \/ o.error = "none" /\ o.at = x /\ By(C, "CREATE", k, c.keys.create, o.no)
        \/ /\ o.error = "none" /\ o.no = c.no
           /\ \E d2, C2, F2 : o.at = Tables(d2, C2, F2) /\ Drafts(d, C, F, d2, C2, F2, c)
    BY <2>1, CreateIs
  <2>3. CASE /\ o.error # "none" /\ o.at = x
             /\ Unused(C, "CREATE", k, c.keys.create) \/ ~Prints(C, k, c.keys.create, c.print)
    BY <2>3 DEF Comes, Refuses
  <2>4. CASE o.error = "none" /\ o.at = x /\ By(C, "CREATE", k, c.keys.create, o.no)
    <3>1. Answers(d, C, k, c, o.no)
      BY <1>2, <2>4 DEF Answers
    <3> QED BY <2>4, <3>1 DEF Comes, Happens
  <2>5. CASE /\ o.error = "none" /\ o.no = c.no
             /\ \E d2, C2, F2 : o.at = Tables(d2, C2, F2) /\ Drafts(d, C, F, d2, C2, F2, c)
    <3>1. PICK d2, C2, F2 : o.at = Tables(d2, C2, F2) /\ Drafts(d, C, F, d2, C2, F2, c)
      BY <2>5
    <3>2. By(C2, "CREATE", k, c.keys.create, c.no)
      BY <1>2, <3>1, DraftsFollows DEF DraftLeaves
    <3>3. Answers(d2, C2, k, c, o.no)
      BY <1>2, <2>5, <3>2 DEF Answers
    <3>4. Happens(d, C, F, d2, C2, F2, k, c)
      BY <1>2, <3>1 DEF Happens, DraftsAlone
    <3> QED BY <2>5, <3>1, <3>3, <3>4 DEF Comes
  <2> QED BY <2>2, <2>3, <2>4, <2>5
<1>3. CASE c.op \in {"post", "finish"}
  <2>1. o = PostTx(x, c, c.no)
    BY <1>3 DEF Transaction
  <2>2. PICK n \in No : n = c.no
    BY <1>0
  <2>3. PICK key \in Nat : key = c.keys.post
    BY <1>3, CallIs
  <2>4. n[1] = k /\ F[n] # 0 /\ Target(C, k, c, n)
    BY <1>0, <1>3, <2>2, CallIs DEF Target
  <2>5. \/ o.error # "none" /\ o.at = x
        \/ o.error = "none" /\ o.at = x /\ By(C, "POST", k, key, o.no)
        \/ /\ o.error = "none" /\ o.no = n
           /\ \E d2, C2, F2 : o.at = Tables(d2, C2, F2) /\ Books(d, C, F, d2, C2, F2, c, n)
    BY <2>1, <2>2, <2>3, <2>4, PostIs
  <2>6. CASE o.error # "none" /\ o.at = x
    BY <1>3, <2>6 DEF Comes, Refuses
  <2>7. CASE o.error = "none" /\ o.at = x /\ By(C, "POST", k, key, o.no)
    <3>1. Answers(d, C, k, c, o.no)
      BY <1>3, <2>3, <2>7 DEF Answers
    <3> QED BY <2>7, <3>1 DEF Comes, Happens
  <2>8. CASE /\ o.error = "none" /\ o.no = n
             /\ \E d2, C2, F2 : o.at = Tables(d2, C2, F2) /\ Books(d, C, F, d2, C2, F2, c, n)
    <3>1. PICK d2, C2, F2 : o.at = Tables(d2, C2, F2) /\ Books(d, C, F, d2, C2, F2, c, n)
      BY <2>8
    <3>2. BookLeaves(d, C, F, d2, C2, F2, k, key, n)
      BY <2>3, <2>4, <3>1, BooksFollows
    <3>3. Answers(d2, C2, k, c, o.no)
      BY <1>3, <2>3, <2>8, <3>2 DEF Answers, BookLeaves
    <3>4. Happens(d, C, F, d2, C2, F2, k, c)
      BY <2>4, <3>1 DEF Happens, BooksTarget
    <3> QED BY <2>8, <3>1, <3>3, <3>4 DEF Comes
  <2> QED BY <2>5, <2>6, <2>7, <2>8
<1> QED BY <1>0, <1>1, <1>2, <1>3 DEF Ops

LEMMA TargetIs ==
  ASSUME NEW d, NEW C, NEW F, Store(d, C, F), NEW k, NEW c, IsCall(c, k, F), NEW n, Target(C, k, c, n)
  PROVE  n \in No /\ n[1] = k /\ F[n] # 0 /\ c.keys.post \in Nat
<1>1. n \in No
  BY DEF Target
<1>2. c.op \in {"post", "finish", "complete"}
  BY DEF Target
<1>3. c.keys.post \in Nat
  BY <1>2, CallIs
<1>4. CASE c.op \in {"post", "finish"} /\ n = c.no
  BY <1>1, <1>3, <1>4, CallIs
<1>5. CASE By(C, "CREATE", k, c.keys.create, n)
  BY <1>1, <1>3, <1>5, ByIs
<1> QED BY <1>4, <1>5 DEF Target

\* The steps of a call, one after another.
LEMMA DraftThenBook ==
  ASSUME NEW d, NEW C, NEW F, Store(d, C, F), NEW k, NEW c, IsCall(c, k, F),
         NEW d2, NEW C2, NEW F2, DraftsAndBooks(d, C, F, d2, C2, F2, c)
  PROVE  \E d1, C1, F1 :
           /\ DraftsAlone(d, C, F, d1, C1, F1, c) /\ BooksTarget(d1, C1, F1, d2, C2, F2, k, c)
           /\ Follows(k, d, C, F, d1, C1, F1) /\ IsCall(c, k, F1)
<1>1. PICK d1, C1, F1 : Drafts(d, C, F, d1, C1, F1, c) /\ Books(d1, C1, F1, d2, C2, F2, c, c.no)
  BY DEF DraftsAndBooks
<1>2. c.op = "complete"
  BY DEF DraftsAndBooks
<1>3. Follows(k, d, C, F, d1, C1, F1) /\ By(C1, "CREATE", k, c.keys.create, c.no)
  BY <1>1, <1>2, DraftsFollows DEF DraftLeaves
<1>4. IsCall(c, k, F1)
  BY <1>2 DEF IsCall
<1>5. Target(C1, k, c, c.no)
  BY <1>2, <1>3, CallIs DEF Target
<1> QED BY <1>1, <1>2, <1>3, <1>4, <1>5 DEF DraftsAlone, BooksTarget

LEMMA HappensFollows ==
  ASSUME NEW d, NEW C, NEW F, Store(d, C, F), NEW k, NEW c, IsCall(c, k, F),
         NEW d2, NEW C2, NEW F2, Happens(d, C, F, d2, C2, F2, k, c)
  PROVE  Follows(k, d, C, F, d2, C2, F2)
<1>1. ASSUME NEW d0, NEW C0, NEW F0, Store(d0, C0, F0), IsCall(c, k, F0),
             BooksTarget(d0, C0, F0, d2, C2, F2, k, c)
      PROVE  Follows(k, d0, C0, F0, d2, C2, F2)
  <2>1. PICK n : Target(C0, k, c, n) /\ Books(d0, C0, F0, d2, C2, F2, c, n)
    BY <1>1 DEF BooksTarget
  <2>2. n \in No /\ n[1] = k /\ F0[n] # 0 /\ c.keys.post \in Nat
    BY <1>1, <2>1, TargetIs
  <2>3. PICK key \in Nat : key = c.keys.post
    BY <2>2
  <2> QED BY <1>1, <2>1, <2>2, <2>3, BooksFollows
<1>2. CASE d2 = d /\ C2 = C /\ F2 = F
  BY <1>2, StillFollows
<1>3. CASE DraftsAlone(d, C, F, d2, C2, F2, c)
  BY <1>3, DraftsFollows DEF DraftsAlone
<1>4. CASE BooksTarget(d, C, F, d2, C2, F2, k, c)
  BY <1>1, <1>4
<1>5. CASE DraftsAndBooks(d, C, F, d2, C2, F2, c)
  <2>1. PICK d1, C1, F1 :
          /\ BooksTarget(d1, C1, F1, d2, C2, F2, k, c)
          /\ Follows(k, d, C, F, d1, C1, F1) /\ IsCall(c, k, F1)
    BY <1>5, DraftThenBook
  <2>2. Store(d1, C1, F1) /\ F \in [No -> Nat]
    BY <2>1 DEF Follows, Store
  <2>3. Follows(k, d1, C1, F1, d2, C2, F2)
    BY <1>1, <2>1, <2>2
  <2> QED BY <2>1, <2>2, <2>3, FollowsTwice
<1> QED BY <1>2, <1>3, <1>4, <1>5 DEF Happens

-----------------------------------------------------------------------------
(* What a panel may hold, and how it changes                               *)

Fields == {"line", "delta", "no", "history", "reading", "note", "shown", "unresolved", "asking",
           "call", "told", "keys", "id", "print", "form", "drawn"}
TellWords == {"nothing", "done", "drafted", "failed", "unknown", "recovered", "none"}

Shaped(v) ==
  /\ DOMAIN v = Fields
  /\ v.line \in Line \cup {None} /\ v.delta \in Delta \cup {None} /\ v.no \in 1 .. MaxNo
  /\ v.history \subseteq No /\ v.note \in No \cup {None} /\ v.shown \in {"NONE", "DRAFT", "POSTED"}
  /\ {v.reading, v.unresolved, v.asking} \subseteq BOOLEAN
  /\ v.keys \in Keys /\ v.id \in No \cup {None} /\ v.drawn \in 0 .. MaxKeys
  /\ v.form \in Nat \ {0} /\ v.told \in TellWords

\* What it holds, when the corrections have come of forms F.
Sound(v, k, F) ==
  /\ Shaped(v)
  /\ (v.shown = "NONE") = (v.note = None)
  /\ v.id # None => v.id[1] = k /\ F[v.id] # 0
  /\ v.note # None => v.note = v.id
  /\ v.call # NoCall => IsCall(v.call, k, F)

\* What is entered is as it was; so is what is shown; so is everything else.
SameEntry(v, w) ==
  w.line = v.line /\ w.delta = v.delta /\ w.no = v.no /\ w.history = v.history /\ w.reading = v.reading
SameShown(v, w) == w.note = v.note /\ w.shown = v.shown /\ w.id = v.id
SameRest(v, w) == w.form = v.form /\ w.drawn = v.drawn

\* ChooseLine
Chose(v, w, l) ==
  /\ DOMAIN w = Fields /\ Open(v) /\ v.line # l
  /\ w.id = None /\ w.line = l /\ w.delta = None /\ w.no = 1 /\ w.reading = TRUE /\ w.told = "nothing"
  /\ w.form = (IF v.line = None THEN v.form ELSE v.form + 1)
  /\ w.history = v.history /\ w.note = v.note /\ w.shown = v.shown /\ w.unresolved = FALSE
  /\ w.asking = v.asking /\ w.call = v.call /\ w.keys = NoKeys /\ w.drawn = v.drawn

\* EnterDelta, EnterNumber
Entered(v, w) ==
  /\ DOMAIN w = Fields /\ Open(v) /\ v.line # None
  /\ w.delta \in Delta \cup {v.delta} /\ w.no \in 1 .. MaxNo
  /\ w.line = v.line /\ w.history = v.history /\ w.reading = v.reading
  /\ SameShown(v, w) /\ SameRest(v, w)
  /\ w.unresolved = FALSE /\ w.keys = NoKeys /\ w.asking = v.asking /\ w.call = v.call /\ w.told = v.told

\* HistoryArrives
Read(v, w) ==
  /\ DOMAIN w = Fields /\ w.history \subseteq No /\ w.reading = FALSE
  /\ w.line = v.line /\ w.delta = v.delta /\ w.no = v.no
  /\ SameShown(v, w) /\ SameRest(v, w)
  /\ w.unresolved = v.unresolved /\ w.keys = v.keys /\ w.asking = v.asking /\ w.call = v.call
  /\ w.told = v.told

\* CreateDraft, PostDraft, CompleteCorrection
IsDrawn(v, w, x) ==
  \/ w.keys[x] = v.keys[x]
  \/ v.keys[x] = None /\ w.keys[x] = v.drawn + 1 /\ w.drawn = v.drawn + 1
IsPressed(v, w, k, op, c) ==
  /\ DOMAIN c = {"op", "no", "line", "delta", "form", "keys", "print", "postPrint"}
  /\ c.op = op /\ c.no = Number(k, v) /\ c.line = v.line /\ c.delta = v.delta /\ c.form = v.form
  /\ c.keys = w.keys /\ c.print = <<c.no, c.line, c.delta>>
Pressed(v, w, k, op, used) ==
  /\ DOMAIN w = Fields /\ v.call = NoCall /\ v.line # None /\ Numbered(k, v)
  /\ w.keys \in Keys /\ IsDrawn(v, w, "create") /\ IsDrawn(v, w, "post")
  /\ \A x \in used : w.keys[x] # None
  /\ w.drawn \in {v.drawn, v.drawn + 1} /\ w.drawn <= MaxKeys
  /\ IsPressed(v, w, k, op, w.call)
  /\ SameEntry(v, w) /\ SameShown(v, w) /\ w.form = v.form
  /\ w.unresolved = v.unresolved /\ w.asking = v.asking /\ w.told = "nothing"

\* StartAnother
Another(v, w) ==
  /\ DOMAIN w = Fields /\ v.call = NoCall /\ v.note # None
  /\ w.id = None /\ w.line = None /\ w.note = None /\ w.shown = "NONE" /\ w.delta = None /\ w.no = 1
  /\ w.form = v.form + 1 /\ w.told = "nothing" /\ w.unresolved = FALSE /\ w.keys = NoKeys
  /\ w.history = v.history /\ w.reading = v.reading /\ w.asking = v.asking /\ w.call = v.call
  /\ w.drawn = v.drawn

\* The end of a call that shows correction n ...
Shows(v, w, n, shown, keys, told) ==
  /\ DOMAIN w = Fields /\ w.call = NoCall
  /\ w.note = n /\ w.shown = shown /\ w.id = n /\ w.keys = keys /\ w.told = told
  /\ w.unresolved \in BOOLEAN /\ w.asking = v.asking
  /\ SameEntry(v, w) /\ SameRest(v, w)

\* ... of one that shows none ...
Fails(v, w, unresolved, keys, told) ==
  /\ DOMAIN w = Fields /\ w.call = NoCall
  /\ w.keys = keys /\ w.told = told /\ w.unresolved = unresolved /\ w.asking = v.asking
  /\ SameShown(v, w) /\ SameEntry(v, w) /\ SameRest(v, w)

\* ... and a call that goes on, or never ends.
Turns(v, w, op, n) ==
  /\ DOMAIN w = Fields
  /\ w.keys = v.keys /\ w.told = v.told /\ w.unresolved = v.unresolved /\ w.asking = v.asking
  /\ SameShown(v, w) /\ SameEntry(v, w) /\ SameRest(v, w)
  /\ DOMAIN w.call = DOMAIN v.call /\ w.call.op = op /\ w.call.no = n
  /\ w.call.line = v.call.line /\ w.call.delta = v.call.delta /\ w.call.form = v.call.form
  /\ w.call.keys = v.call.keys /\ w.call.print = v.call.print

\* Reload
Mounts(v, w) ==
  /\ DOMAIN w = Fields
  /\ w.line = None /\ w.delta = None /\ w.no = 1 /\ w.history = {} /\ w.reading = FALSE
  /\ w.note = None /\ w.shown = "NONE" /\ w.unresolved = TRUE /\ w.asking = TRUE /\ w.call = NoCall
  /\ w.told = "nothing" /\ w.keys = v.keys /\ w.id = v.id /\ SameRest(v, w)

\* Recovered, StatusFails
Looked(v, w) ==
  /\ DOMAIN w = Fields /\ v.asking /\ w.asking = FALSE
  /\ w.delta = v.delta /\ w.no = v.no /\ w.history = v.history /\ w.call = v.call /\ SameRest(v, w)
Finds(v, w, n, shown, l) ==
  /\ Looked(v, w) /\ w.unresolved = FALSE /\ w.keys = v.keys /\ w.told = "recovered"
  /\ w.note = n /\ w.shown = shown /\ w.id = n /\ w.line = l /\ w.reading = TRUE
FindsNone(v, w) ==
  /\ Looked(v, w) /\ w.unresolved = FALSE /\ w.keys = NoKeys /\ w.told = "none"
  /\ w.note = v.note /\ w.shown = v.shown /\ w.id = None /\ w.line = v.line /\ w.reading = v.reading
Opens(v, w) ==
  /\ Looked(v, w) /\ w.unresolved = FALSE /\ v.keys = NoKeys /\ v.id = None /\ w.keys = v.keys
  /\ w.told = v.told /\ SameShown(v, w) /\ w.line = v.line /\ w.reading = v.reading
StaysLocked(v, w) ==
  /\ Looked(v, w) /\ w.unresolved = TRUE /\ w.keys = v.keys
  /\ w.told = v.told /\ SameShown(v, w) /\ w.line = v.line /\ w.reading = v.reading

\* Panel k changes from v to w.
Becomes(k, v, w) == v = panel[k] /\ panel' = [panel EXCEPT ![k] = w] /\ w = panel'[k]
Panels == panel = [k \in Kind |-> panel[k]] /\ \A k \in Kind : Sound(panel[k], k, forms)

LEMMA BecomesIs ==
  ASSUME NEW k \in Kind, Panels, NEW new, Set(k, new)
  PROVE  \E v : Becomes(k, v, new) /\ Sound(v, k, forms)
BY DEF Becomes, Panels, Set

LEMMA ResetIs ==
  ASSUME NEW v, DOMAIN v = Fields, NEW u, u = Reset(v)
  PROVE  /\ DOMAIN u = Fields /\ u.unresolved = FALSE /\ u.keys = NoKeys /\ u.print = None
         /\ SameEntry(v, u) /\ SameShown(v, u) /\ SameRest(v, u)
         /\ u.asking = v.asking /\ u.call = v.call /\ u.told = v.told
<1>1. u = [v EXCEPT !.unresolved = FALSE, !.keys = NoKeys, !.print = None]
  BY DEF Reset
<1> QED BY <1>1 DEF Fields, SameEntry, SameShown, SameRest

-----------------------------------------------------------------------------
(* What the actions do to the panel                                        *)

LEMMA ChooseLineIs ==
  ASSUME NEW k \in Kind, NEW l \in Line, Panels, ChooseLine(k, l)
  PROVE  \E v, w : Becomes(k, v, w) /\ Sound(v, k, forms) /\ Chose(v, w, l)
<1>1. PICK w : w = [Reset(panel[k]) EXCEPT !.id = None, !.line = l, !.delta = None, !.no = 1,
                      !.reading = TRUE, !.told = "nothing",
                      !.form = IF panel[k].line = None THEN @ ELSE @ + 1]
  OBVIOUS
<1>2. Set(k, w) /\ Open(panel[k]) /\ panel[k].line # l
  BY <1>1 DEF ChooseLine, Local
<1>3. PICK v : Becomes(k, v, w) /\ Sound(v, k, forms)
  BY <1>2, BecomesIs
<1>4. v = panel[k] /\ DOMAIN v = Fields
  BY <1>3 DEF Becomes, Sound, Shaped
<1>5. PICK u, f : u = Reset(v) /\ f = IF v.line = None THEN v.form ELSE v.form + 1
  OBVIOUS
<1>6. /\ DOMAIN u = Fields /\ u.unresolved = FALSE /\ u.keys = NoKeys
      /\ SameEntry(v, u) /\ SameShown(v, u) /\ SameRest(v, u) /\ u.asking = v.asking /\ u.call = v.call
  BY <1>4, <1>5, ResetIs
<1>7. w = [u EXCEPT !.id = None, !.line = l, !.delta = None, !.no = 1, !.reading = TRUE,
                    !.told = "nothing", !.form = f]
  BY <1>1, <1>4, <1>5, <1>6 DEF SameRest
<1>8. DOMAIN w = Fields
  BY <1>6, <1>7
<1>9. /\ w.id = None /\ w.line = l /\ w.delta = None /\ w.no = 1 /\ w.reading = TRUE
      /\ w.told = "nothing" /\ w.form = f
  BY <1>6, <1>7 DEF Fields
<1>10. /\ w.history = u.history /\ w.note = u.note /\ w.shown = u.shown /\ w.unresolved = u.unresolved
       /\ w.asking = u.asking /\ w.call = u.call /\ w.keys = u.keys /\ w.drawn = u.drawn
  BY <1>6, <1>7 DEF Fields
<1>11. Chose(v, w, l)
  BY <1>2, <1>4, <1>5, <1>6, <1>8, <1>9, <1>10 DEF Chose, SameEntry, SameShown, SameRest
<1> QED BY <1>3, <1>11

LEMMA EnterDeltaIs ==
  ASSUME NEW k \in Kind, NEW delta \in Delta, Panels, EnterDelta(k, delta)
  PROVE  \E v, w : Becomes(k, v, w) /\ Sound(v, k, forms) /\ Entered(v, w)
<1>1. PICK w : w = [Reset(panel[k]) EXCEPT !.delta = delta]
  OBVIOUS
<1>2. Set(k, w) /\ Open(panel[k]) /\ panel[k].line # None
  BY <1>1 DEF EnterDelta, Local
<1>3. PICK v : Becomes(k, v, w) /\ Sound(v, k, forms)
  BY <1>2, BecomesIs
<1>4. v = panel[k] /\ DOMAIN v = Fields /\ v.no \in 1 .. MaxNo
  BY <1>3 DEF Becomes, Sound, Shaped
<1>5. PICK u : u = Reset(v)
  OBVIOUS
<1>6. /\ DOMAIN u = Fields /\ u.unresolved = FALSE /\ u.keys = NoKeys
      /\ SameEntry(v, u) /\ SameShown(v, u) /\ SameRest(v, u)
      /\ u.asking = v.asking /\ u.call = v.call /\ u.told = v.told
  BY <1>4, <1>5, ResetIs
<1>7. w = [u EXCEPT !.delta = delta]
  BY <1>1, <1>4, <1>5
<1>8. /\ DOMAIN w = Fields /\ w.delta = delta
      /\ w.line = u.line /\ w.no = u.no /\ w.history = u.history /\ w.reading = u.reading
      /\ w.note = u.note /\ w.shown = u.shown /\ w.id = u.id /\ w.form = u.form /\ w.drawn = u.drawn
      /\ w.unresolved = u.unresolved /\ w.keys = u.keys /\ w.asking = u.asking /\ w.call = u.call
      /\ w.told = u.told
  BY <1>6, <1>7 DEF Fields
<1>9. Entered(v, w)
  BY <1>2, <1>4, <1>6, <1>8 DEF Entered, SameEntry, SameShown, SameRest
<1> QED BY <1>3, <1>9

LEMMA EnterNumberIs ==
  ASSUME NEW k \in Kind, Panels, EnterNumber(k)
  PROVE  \E v, w : Becomes(k, v, w) /\ Sound(v, k, forms) /\ Entered(v, w)
<1>1. PICK w : w = [Reset(panel[k]) EXCEPT !.no = @ + 1]
  OBVIOUS
<1>2. Set(k, w) /\ Open(panel[k]) /\ panel[k].line # None /\ panel[k].no < MaxNo
  BY <1>1 DEF EnterNumber, Local
<1>3. PICK v : Becomes(k, v, w) /\ Sound(v, k, forms)
  BY <1>2, BecomesIs
<1>4. v = panel[k] /\ DOMAIN v = Fields /\ v.no \in 1 .. MaxNo
  BY <1>3 DEF Becomes, Sound, Shaped
<1>5. PICK u : u = Reset(v)
  OBVIOUS
<1>6. /\ DOMAIN u = Fields /\ u.unresolved = FALSE /\ u.keys = NoKeys
      /\ SameEntry(v, u) /\ SameShown(v, u) /\ SameRest(v, u)
      /\ u.asking = v.asking /\ u.call = v.call /\ u.told = v.told
  BY <1>4, <1>5, ResetIs
<1>7. w = [u EXCEPT !.no = u.no + 1]
  BY <1>1, <1>4, <1>5, <1>6
<1>8. /\ DOMAIN w = Fields /\ w.no = u.no + 1
      /\ w.line = u.line /\ w.delta = u.delta /\ w.history = u.history /\ w.reading = u.reading
      /\ w.note = u.note /\ w.shown = u.shown /\ w.id = u.id /\ w.form = u.form /\ w.drawn = u.drawn
      /\ w.unresolved = u.unresolved /\ w.keys = u.keys /\ w.asking = u.asking /\ w.call = u.call
      /\ w.told = u.told
  BY <1>6, <1>7 DEF Fields
<1>9. w.no \in 1 .. MaxNo
  BY <1>2, <1>4, <1>6, <1>8, PanelNumbers DEF SameEntry
<1>10. Entered(v, w)
  BY <1>2, <1>4, <1>6, <1>8, <1>9 DEF Entered, SameEntry, SameShown, SameRest
<1> QED BY <1>3, <1>10

LEMMA HistoryArrivesIs ==
  ASSUME NEW k \in Kind, Panels, HistoryArrives(k)
  PROVE  \E v, w : Becomes(k, v, w) /\ Sound(v, k, forms) /\ Read(v, w)
<1>1. PICK h : h = {n \in No : n[1] = k /\ db.note[n].line = panel[k].line}
  OBVIOUS
<1>2. PICK w : w = [panel[k] EXCEPT !.reading = FALSE, !.history = h]
  OBVIOUS
<1>3. Set(k, w)
  BY <1>1, <1>2 DEF HistoryArrives, Local
<1>4. PICK v : Becomes(k, v, w) /\ Sound(v, k, forms)
  BY <1>3, BecomesIs
<1>5. v = panel[k] /\ DOMAIN v = Fields
  BY <1>4 DEF Becomes, Sound, Shaped
<1>6. /\ DOMAIN w = Fields /\ w.reading = FALSE /\ w.history = h
      /\ w.line = v.line /\ w.delta = v.delta /\ w.no = v.no
      /\ w.note = v.note /\ w.shown = v.shown /\ w.id = v.id /\ w.form = v.form /\ w.drawn = v.drawn
      /\ w.unresolved = v.unresolved /\ w.keys = v.keys /\ w.asking = v.asking /\ w.call = v.call
      /\ w.told = v.told
  BY <1>2, <1>5 DEF Fields
<1>7. Read(v, w)
  BY <1>1, <1>6 DEF Read, SameShown, SameRest
<1> QED BY <1>4, <1>7

LEMMA StartAnotherIs ==
  ASSUME NEW k \in Kind, Panels, StartAnother(k)
  PROVE  \E v, w : Becomes(k, v, w) /\ Sound(v, k, forms) /\ Another(v, w)
<1>1. PICK w : w = [Reset(panel[k]) EXCEPT !.id = None, !.line = None, !.note = None, !.shown = "NONE",
                      !.delta = None, !.no = 1, !.form = @ + 1, !.told = "nothing"]
  OBVIOUS
<1>2. Set(k, w) /\ panel[k].call = NoCall /\ panel[k].note # None
  BY <1>1 DEF StartAnother, Local
<1>3. PICK v : Becomes(k, v, w) /\ Sound(v, k, forms)
  BY <1>2, BecomesIs
<1>4. v = panel[k] /\ DOMAIN v = Fields
  BY <1>3 DEF Becomes, Sound, Shaped
<1>5. PICK u, f : u = Reset(v) /\ f = v.form + 1
  OBVIOUS
<1>6. /\ DOMAIN u = Fields /\ u.unresolved = FALSE /\ u.keys = NoKeys
      /\ SameEntry(v, u) /\ SameShown(v, u) /\ SameRest(v, u) /\ u.asking = v.asking /\ u.call = v.call
  BY <1>4, <1>5, ResetIs
<1>7. w = [u EXCEPT !.id = None, !.line = None, !.note = None, !.shown = "NONE",
                    !.delta = None, !.no = 1, !.form = f, !.told = "nothing"]
  BY <1>1, <1>4, <1>5, <1>6 DEF SameRest
<1>8. DOMAIN w = Fields
  BY <1>6, <1>7
<1>9. /\ w.id = None /\ w.line = None /\ w.note = None /\ w.shown = "NONE" /\ w.delta = None
      /\ w.no = 1 /\ w.form = f /\ w.told = "nothing"
  BY <1>6, <1>7 DEF Fields
<1>10. /\ w.history = u.history /\ w.reading = u.reading /\ w.unresolved = u.unresolved
       /\ w.asking = u.asking /\ w.call = u.call /\ w.keys = u.keys /\ w.drawn = u.drawn
  BY <1>6, <1>7 DEF Fields
<1>11. Another(v, w)
  BY <1>2, <1>4, <1>5, <1>6, <1>8, <1>9, <1>10 DEF Another, SameEntry, SameShown, SameRest
<1> QED BY <1>3, <1>11

LEMMA ReloadIs ==
  ASSUME NEW k \in Kind, Panels, Reload(k)
  PROVE  \E v, w : Becomes(k, v, w) /\ Sound(v, k, forms) /\ Mounts(v, w)
<1>1. PICK w : w = Mounted(panel[k])
  OBVIOUS
<1>2. Set(k, w)
  BY <1>1 DEF Reload
<1>3. PICK v : Becomes(k, v, w) /\ Sound(v, k, forms)
  BY <1>2, BecomesIs
<1>4. v = panel[k]
  BY <1>3 DEF Becomes
<1>5. Mounts(v, w)
  BY <1>1, <1>4 DEF Mounts, Mounted, Fields, SameRest
<1> QED BY <1>3, <1>5

LEMMA StatusFailsIs ==
  ASSUME NEW k \in Kind, Panels, StatusFails(k)
  PROVE  \E v, w : Becomes(k, v, w) /\ Sound(v, k, forms) /\ StaysLocked(v, w)
<1>1. PICK w : w = [panel[k] EXCEPT !.asking = FALSE, !.unresolved = TRUE]
  OBVIOUS
<1>2. Set(k, w) /\ panel[k].asking
  BY <1>1 DEF StatusFails
<1>3. PICK v : Becomes(k, v, w) /\ Sound(v, k, forms)
  BY <1>2, BecomesIs
<1>4. v = panel[k] /\ DOMAIN v = Fields
  BY <1>3 DEF Becomes, Sound, Shaped
<1>5. StaysLocked(v, w)
  BY <1>1, <1>2, <1>4 DEF StaysLocked, Looked, SameShown, SameRest, Fields
<1> QED BY <1>3, <1>5

\* What the status tells of a panel.
FoundUnder(C, k, v, n) ==
  \/ v.id # None /\ n = v.id
  \/ v.id = None /\ By(C, "CREATE", k, v.keys.create, n)
  \/ v.id = None /\ Unused(C, "CREATE", k, v.keys.create) /\ By(C, "POST", k, v.keys.post, n)
FoundNone(C, k, v) == v.id = None /\ Unused(C, "CREATE", k, v.keys.create)

LEMMA FoundIs ==
  ASSUME NEW k \in Kind, NEW v, NEW n, n = Found(k, v), v.id \in No \cup {None},
         Store(db, commands, forms)
  PROVE  \/ n # None /\ FoundUnder(commands, k, v, n)
         \/ n = None /\ FoundNone(commands, k, v)
<1>1. PICK A : A = {c.no : c \in {c \in commands : c.op = "CREATE" /\ c.kind = k /\ c.key = v.keys.create}}
  OBVIOUS
<1>2. PICK B : B = {c.no : c \in {c \in commands : c.op = "POST" /\ c.kind = k /\ c.key = v.keys.post}}
  OBVIOUS
<1>3. \A m : m \in A <=> By(commands, "CREATE", k, v.keys.create, m)
  BY <1>1 DEF By, Under
<1>4. \A m : m \in B <=> By(commands, "POST", k, v.keys.post, m)
  BY <1>2 DEF By, Under
<1>5. PICK S : S = IF A # {} THEN A ELSE B
  OBVIOUS
<1>6. n = IF v.id # None THEN v.id ELSE IF S = {} THEN None ELSE CHOOSE m \in S : TRUE
  BY <1>1, <1>2, <1>5 DEF Found
<1>7. A = {} => Unused(commands, "CREATE", k, v.keys.create)
  BY <1>1 DEF Unused, Under
<1>8. CASE v.id # None
  BY <1>6, <1>8 DEF FoundUnder
<1>9. CASE v.id = None /\ S # {}
  <2>1. n \in S
    BY <1>6, <1>9
  <2>2. CASE A # {}
    <3>1. By(commands, "CREATE", k, v.keys.create, n)
      BY <1>3, <1>5, <2>1, <2>2
    <3>2. n \in No
      BY <3>1, ByIs
    <3> QED BY <1>9, <3>1, <3>2, PanelNumbers DEF FoundUnder
  <2>3. CASE A = {}
    <3>1. By(commands, "POST", k, v.keys.post, n)
      BY <1>4, <1>5, <2>1, <2>3
    <3>2. n \in No
      BY <3>1, ByIs
    <3> QED BY <1>7, <1>9, <2>3, <3>1, <3>2, PanelNumbers DEF FoundUnder
  <2> QED BY <2>2, <2>3
<1>10. CASE v.id = None /\ S = {}
  BY <1>5, <1>6, <1>7, <1>10 DEF FoundNone
<1> QED BY <1>8, <1>9, <1>10

LEMMA RecoveredIs ==
  ASSUME NEW k \in Kind, Panels, Store(db, commands, forms), Recovered(k)
  PROVE  \E v, w : /\ Becomes(k, v, w) /\ Sound(v, k, forms)
                   /\ \/ Opens(v, w)
                      \/ \E n : /\ n # None /\ FoundUnder(commands, k, v, n)
                                /\ Finds(v, w, n, St(db, n), db.note[n].line)
                      \/ FindsNone(v, w) /\ FoundNone(commands, k, v)
<1>1. PICK p : p = panel[k]
  OBVIOUS
<1>2. PICK n : n = Found(k, p)
  OBVIOUS
<1>3. Sound(p, k, forms) /\ DOMAIN p = Fields /\ p.id \in No \cup {None}
  BY <1>1 DEF Panels, Sound, Shaped
<1>4. \/ n # None /\ FoundUnder(commands, k, p, n)
      \/ n = None /\ FoundNone(commands, k, p)
  BY <1>2, <1>3, FoundIs
<1>5. PICK a, b, c : /\ a = [p EXCEPT !.asking = FALSE, !.unresolved = FALSE]
                     /\ b = [Showing(p, [db |-> db], n) EXCEPT !.asking = FALSE, !.unresolved = FALSE,
                               !.line = db.note[n].line, !.reading = TRUE, !.told = "recovered"]
                     /\ c = [Reset(p) EXCEPT !.asking = FALSE, !.id = None, !.told = "none"]
  OBVIOUS
<1>6. p.asking
  BY <1>1 DEF Recovered
<1>7. \/ Set(k, a) /\ p.keys = NoKeys /\ p.id = None
      \/ Set(k, b) /\ n # None
      \/ Set(k, c) /\ n = None
  BY <1>1, <1>2, <1>5 DEF Recovered, Local
<1>8. ASSUME NEW w, Set(k, w) PROVE Becomes(k, p, w)
  BY <1>1, <1>8, BecomesIs DEF Becomes
<1>9. CASE Set(k, a) /\ p.keys = NoKeys /\ p.id = None
  <2>1. Opens(p, a)
    BY <1>3, <1>5, <1>6, <1>9 DEF Opens, Looked, SameShown, SameRest, Fields
  <2> QED BY <1>3, <1>8, <1>9, <2>1
<1>10. CASE Set(k, b) /\ n # None
  <2>1. PICK s, l, shown : /\ s = Showing(p, [db |-> db], n) /\ l = db.note[n].line
                           /\ shown = St(db, n)
    OBVIOUS
  <2>2. s = [p EXCEPT !.note = n, !.shown = shown, !.id = n]
    BY <2>1 DEF Showing, St
  <2>3. /\ DOMAIN s = Fields /\ s.note = n /\ s.shown = shown /\ s.id = n
        /\ s.line = p.line /\ s.delta = p.delta /\ s.no = p.no /\ s.history = p.history
        /\ s.reading = p.reading /\ s.form = p.form /\ s.drawn = p.drawn /\ s.call = p.call
        /\ s.keys = p.keys
    BY <1>3, <2>2 DEF Fields
  <2>4. b = [s EXCEPT !.asking = FALSE, !.unresolved = FALSE, !.line = l, !.reading = TRUE,
                      !.told = "recovered"]
    BY <1>5, <2>1
  <2>5. /\ DOMAIN b = Fields /\ b.asking = FALSE /\ b.unresolved = FALSE /\ b.line = l
        /\ b.reading = TRUE /\ b.told = "recovered"
    BY <2>3, <2>4 DEF Fields
  <2>6. /\ b.note = s.note /\ b.shown = s.shown /\ b.id = s.id /\ b.delta = s.delta /\ b.no = s.no
        /\ b.history = s.history /\ b.form = s.form /\ b.drawn = s.drawn /\ b.call = s.call
        /\ b.keys = s.keys
    BY <2>3, <2>4 DEF Fields
  <2>7. Finds(p, b, n, shown, l)
    BY <1>6, <2>3, <2>5, <2>6 DEF Finds, Looked, SameRest
  <2>8. FoundUnder(commands, k, p, n)
    BY <1>4, <1>10
  <2> QED BY <1>3, <1>8, <1>10, <2>1, <2>7, <2>8
<1>11. CASE Set(k, c) /\ n = None
  <2>1. PICK u : u = Reset(p)
    OBVIOUS
  <2>2. /\ DOMAIN u = Fields /\ u.unresolved = FALSE /\ u.keys = NoKeys
        /\ SameEntry(p, u) /\ SameShown(p, u) /\ SameRest(p, u) /\ u.call = p.call
    BY <1>3, <2>1, ResetIs
  <2>3. c = [u EXCEPT !.asking = FALSE, !.id = None, !.told = "none"]
    BY <1>5, <2>1
  <2>4. /\ DOMAIN c = Fields /\ c.asking = FALSE /\ c.id = None /\ c.told = "none"
        /\ c.line = u.line /\ c.delta = u.delta /\ c.no = u.no /\ c.history = u.history
        /\ c.reading = u.reading /\ c.note = u.note /\ c.shown = u.shown
        /\ c.form = u.form /\ c.drawn = u.drawn /\ c.call = u.call
        /\ c.unresolved = u.unresolved /\ c.keys = u.keys
    BY <2>2, <2>3 DEF Fields
  <2>5. FindsNone(p, c)
    BY <1>6, <2>2, <2>4 DEF FindsNone, Looked, SameEntry, SameShown, SameRest
  <2>6. FoundNone(commands, k, p)
    BY <1>4, <1>11
  <2> QED BY <1>3, <1>8, <1>11, <2>5, <2>6
<1> QED BY <1>7, <1>9, <1>10, <1>11

LEMMA HeldIs ==
  ASSUME NEW v, v.keys \in Keys, v.drawn \in Nat, NEW used \in SUBSET {"create", "post"},
         NEW keys, keys = Held(v, used)
  PROVE  /\ keys \in Keys
         /\ \A x \in {"create", "post"} :
              \/ keys[x] = v.keys[x]
              \/ v.keys[x] = None /\ keys[x] = v.drawn + 1 /\ keys # v.keys
         /\ \A x \in used : keys[x] # None
<1>0. DOMAIN NoKeys = {"create", "post"}
  BY KeysAre
<1>1. keys = [x \in {"create", "post"} |->
                IF x \in used /\ v.keys[x] = None THEN v.drawn + 1 ELSE v.keys[x]]
  BY <1>0 DEF Held
<1>2. v.keys \in [{"create", "post"} -> Nat \cup {None}]
  BY <1>0 DEF Keys
<1>3. v.drawn + 1 \in Nat /\ v.drawn + 1 # None
  BY PanelNumbers
<1>4. keys \in Keys
  BY <1>0, <1>1, <1>2, <1>3 DEF Keys
<1>5. ASSUME NEW x \in {"create", "post"}
      PROVE  \/ keys[x] = v.keys[x]
             \/ v.keys[x] = None /\ keys[x] = v.drawn + 1 /\ keys # v.keys
  BY <1>1, <1>3
<1>6. ASSUME NEW x \in used PROVE keys[x] # None
  BY <1>1, <1>3
<1> QED BY <1>4, <1>5, <1>6

LEMMA PressIs ==
  ASSUME NEW k \in Kind, Panels, NEW op, NEW used \in SUBSET {"create", "post"}, NEW print,
         Press(k, op, used, print)
  PROVE  \E v, w : Becomes(k, v, w) /\ Sound(v, k, forms) /\ Pressed(v, w, k, op, used)
<1>1. PICK p : p = panel[k]
  OBVIOUS
<1>2. Sound(p, k, forms) /\ DOMAIN p = Fields /\ p.keys \in Keys /\ p.drawn \in 0 .. MaxKeys
  BY <1>1 DEF Panels, Sound, Shaped
<1>3. PICK keys : keys = Held(p, used)
  OBVIOUS
<1>4. PICK drawn : drawn = IF keys = p.keys THEN p.drawn ELSE p.drawn + 1
  OBVIOUS
<1>5. PICK n, postPrint : /\ n = Number(k, p)
                          /\ postPrint = IF print = None THEN <<"document", Number(k, p)>> ELSE print
  OBVIOUS
<1>6. PICK c : c = [op |-> op, no |-> n, line |-> p.line, delta |-> p.delta, form |-> p.form,
                    keys |-> keys, print |-> <<n, p.line, p.delta>>, postPrint |-> postPrint]
  OBVIOUS
<1>7. PICK w : w = [p EXCEPT !.keys = keys, !.print = print, !.told = "nothing", !.drawn = drawn, !.call = c]
  OBVIOUS
<1>8. Set(k, w) /\ p.call = NoCall /\ p.line # None /\ Numbered(k, p) /\ (keys # p.keys => p.drawn < MaxKeys)
  BY <1>1, <1>2, <1>3, <1>4, <1>5, <1>6, <1>7 DEF Press, Local
<1>9. Becomes(k, p, w)
  BY <1>1, <1>8, BecomesIs DEF Becomes
<1>10. /\ keys \in Keys
       /\ \A x \in {"create", "post"} :
            keys[x] = p.keys[x] \/ (p.keys[x] = None /\ keys[x] = p.drawn + 1 /\ keys # p.keys)
       /\ \A x \in used : keys[x] # None
  <2>1. p.drawn \in Nat
    BY <1>2, PanelNumbers
  <2> QED BY <1>2, <1>3, <2>1, HeldIs
<1>11. /\ DOMAIN w = Fields /\ w.keys = keys /\ w.told = "nothing" /\ w.drawn = drawn /\ w.call = c
       /\ SameEntry(p, w) /\ SameShown(p, w) /\ w.form = p.form
       /\ w.unresolved = p.unresolved /\ w.asking = p.asking
  BY <1>2, <1>7 DEF Fields, SameEntry, SameShown
<1>12. IsPressed(p, w, k, op, c)
  BY <1>5, <1>6, <1>11 DEF IsPressed
<1>13. drawn \in {p.drawn, p.drawn + 1} /\ drawn <= MaxKeys
  BY <1>2, <1>4, <1>8, PanelNumbers
<1>14. IsDrawn(p, w, "create") /\ IsDrawn(p, w, "post")
  BY <1>4, <1>10, <1>11 DEF IsDrawn
<1>15. Pressed(p, w, k, op, used)
  BY <1>8, <1>10, <1>11, <1>12, <1>13, <1>14 DEF Pressed
<1> QED BY <1>2, <1>9, <1>15

LEMMA ButtonsAre ==
  ASSUME NEW k \in Kind, Panels, CreateDraft(k) \/ PostDraft(k) \/ CompleteCorrection(k)
  PROVE  \E v, w : /\ Becomes(k, v, w) /\ Sound(v, k, forms)
                   /\ \/ Pressed(v, w, k, "create", {"create"}) /\ v.delta # None /\ Open(v)
                      \/ Pressed(v, w, k, "post", {"post"}) /\ v.shown = "DRAFT"
                      \/ \E op \in {"draft", "complete"} :
                           /\ Pressed(v, w, k, op, {"create", "post"})
                           /\ v.delta # None /\ v.note = None
<1>1. ASSUME NEW v, NEW w, Becomes(k, v, w) PROVE v = panel[k]
  BY <1>1 DEF Becomes
<1>2. CASE CreateDraft(k)
  <2>1. Press(k, "create", {"create"}, panel[k].print) /\ panel[k].delta # None /\ Open(panel[k])
    BY <1>2 DEF CreateDraft
  <2>2. \E v, w : Becomes(k, v, w) /\ Sound(v, k, forms) /\ Pressed(v, w, k, "create", {"create"})
    BY <2>1, PressIs
  <2> QED BY <1>1, <2>1, <2>2
<1>3. CASE PostDraft(k)
  <2>1. Press(k, "post", {"post"}, panel[k].print) /\ panel[k].shown = "DRAFT"
    BY <1>3 DEF PostDraft
  <2>2. \E v, w : Becomes(k, v, w) /\ Sound(v, k, forms) /\ Pressed(v, w, k, "post", {"post"})
    BY <2>1, PressIs
  <2> QED BY <1>1, <2>1, <2>2
<1>4. CASE CompleteCorrection(k)
  <2>1. PICK op, print : /\ op = IF atomic THEN "complete" ELSE "draft"
                         /\ print = <<"key", Held(panel[k], DOMAIN NoKeys).post>>
    OBVIOUS
  <2>2. Press(k, op, {"create", "post"}, print) /\ panel[k].delta # None /\ panel[k].note = None
    BY <1>4, <2>1, KeysAre DEF CompleteCorrection
  <2>3. \E v, w : Becomes(k, v, w) /\ Sound(v, k, forms) /\ Pressed(v, w, k, op, {"create", "post"})
    BY <2>2, PressIs
  <2>4. op \in {"draft", "complete"}
    BY <2>1
  <2> QED BY <1>1, <2>2, <2>3, <2>4
<1> QED BY <1>2, <1>3, <1>4

\* Of the keys, some may be dropped.
Drops(v, keys) ==
  /\ keys \in Keys
  /\ \A x \in {"create", "post"} : keys[x] \in {None, v.keys[x]}

\* What a panel makes of the answer that correction n has been made or posted ...
Says(v, w, d, n) ==
  \/ v.call.op = "draft" /\ St(d, n) = "DRAFT" /\ Turns(v, w, "finish", n)
  \/ \E keys : /\ Drops(v, keys)
               /\ \/ v.call.op = "create" /\ Shows(v, w, n, St(d, n), keys, "drafted")
                  \/ v.call.op = "post" /\ Shows(v, w, n, St(d, n), keys, "done")
                  \/ /\ v.call.op \in {"draft", "complete", "finish"}
                     /\ v.call.op = "draft" => St(d, n) # "DRAFT"
                     /\ Shows(v, w, n, St(d, n), keys, "done")
\* ... of an error ...
Errs(v, w) ==
  \/ \E keys : Drops(v, keys) /\ v.call.op = "finish" /\ Shows(v, w, v.call.no, "DRAFT", keys, "failed")
  \/ v.call.op \in {"create", "post"} /\ Fails(v, w, v.unresolved, v.keys, "unknown")
  \/ v.call.op \in {"draft", "complete"} /\ Fails(v, w, FALSE, NoKeys, "failed")
\* ... and of what was thrown.
Throws(v, w) ==
  \/ \E keys : Drops(v, keys) /\ v.call.op = "finish" /\ Shows(v, w, v.call.no, "DRAFT", keys, "unknown")
  \/ v.call.op \in {"create", "post"} /\ Turns(v, w, "stuck", v.call.no)
  \/ v.call.op \in {"draft", "complete"} /\ Fails(v, w, TRUE, v.keys, "unknown")

Waiting(v, k, F) == Sound(v, k, F) /\ v.call # NoCall /\ v.call.op # "stuck"

LEMMA WaitingIs ==
  ASSUME NEW v, NEW k, NEW F, Waiting(v, k, F)
  PROVE  /\ DOMAIN v = Fields /\ v.keys \in Keys /\ {v.unresolved} \subseteq BOOLEAN
         /\ DOMAIN v.keys = {"create", "post"}
         /\ IsCall(v.call, k, F) /\ v.call.op \in Ops \ {"stuck"} /\ v.call.no \in No
         /\ DOMAIN v.call = {"op", "no", "line", "delta", "form", "keys", "print", "postPrint"}
BY KeysAre DEF Waiting, Sound, Shaped, IsCall, Keys

LEMMA ShowingIs ==
  ASSUME NEW v, DOMAIN v = Fields, NEW d, NEW C, NEW F, NEW n, NEW s, s = Showing(v, Tables(d, C, F), n)
  PROVE  /\ DOMAIN s = Fields /\ s.note = n /\ s.shown = St(d, n) /\ s.id = n
         /\ SameEntry(v, s) /\ SameRest(v, s)
         /\ s.keys = v.keys /\ s.told = v.told /\ s.unresolved = v.unresolved /\ s.asking = v.asking
         /\ s.call = v.call
<1>0. PICK x : x = Tables(d, C, F)
  OBVIOUS
<1>1. PICK shown : shown = St(d, n)
  OBVIOUS
<1>2. s = [v EXCEPT !.note = n, !.shown = shown, !.id = n]
  <2>1. x.db = d
    BY <1>0, TablesIs
  <2> QED BY <1>0, <1>1, <2>1 DEF Showing, St
<1> QED BY <1>1, <1>2 DEF Fields, SameEntry, SameRest

LEMMA DropsIs ==
  ASSUME NEW v, v.keys \in Keys
  PROVE  /\ Drops(v, v.keys) /\ Drops(v, NoKeys)
         /\ Drops(v, [v.keys EXCEPT !.create = None]) /\ Drops(v, [v.keys EXCEPT !.post = None])
<1>1. PICK K : K = v.keys
  OBVIOUS
<1>2. K \in [{"create", "post"} -> Nat \cup {None}]
  BY <1>1, KeysAre DEF Keys
<1>3. Drops(v, NoKeys) /\ Drops(v, K)
  BY <1>1, KeysAre DEF Drops
<1>4. PICK A : A = [K EXCEPT !.create = None]
  OBVIOUS
<1>5. PICK B : B = [K EXCEPT !.post = None]
  OBVIOUS
<1>6. A \in Keys /\ A["create"] = None /\ A["post"] = K["post"]
  BY <1>2, <1>4, KeysAre DEF Keys
<1>7. B \in Keys /\ B["post"] = None /\ B["create"] = K["create"]
  BY <1>2, <1>5, KeysAre DEF Keys
<1>8. Drops(v, A) /\ Drops(v, B)
  BY <1>1, <1>6, <1>7 DEF Drops
<1> QED BY <1>1, <1>3, <1>4, <1>5, <1>8

LEMMA ToldIs ==
  ASSUME NEW v, NEW k, NEW F, Waiting(v, k, F), NEW d, NEW C, NEW F2, NEW n,
         NEW w, w = Told(v, Tables(d, C, F2), n)
  PROVE  Says(v, w, d, n)
<1>1. /\ DOMAIN v = Fields /\ v.keys \in Keys /\ v.unresolved \in BOOLEAN
      /\ v.call.op \in Ops \ {"stuck"}
      /\ DOMAIN v.call = {"op", "no", "line", "delta", "form", "keys", "print", "postPrint"}
  BY WaitingIs
<1>2. PICK s : s = Showing(v, Tables(d, C, F2), n)
  OBVIOUS
<1>3. /\ DOMAIN s = Fields /\ s.note = n /\ s.shown = St(d, n) /\ s.id = n
      /\ SameEntry(v, s) /\ SameRest(v, s)
      /\ s.keys = v.keys /\ s.told = v.told /\ s.unresolved = v.unresolved /\ s.asking = v.asking
      /\ s.call = v.call
  BY <1>1, <1>2, ShowingIs
<1>4. CASE v.call.op = "draft" /\ s.shown = "DRAFT"
  <2>1. w = [v EXCEPT !.call.op = "finish", !.call.no = n]
    BY <1>2, <1>4 DEF Told
  <2>2. PICK a : a = [v.call EXCEPT !.op = "finish"]
    OBVIOUS
  <2>3. PICK b : b = [a EXCEPT !.no = n]
    OBVIOUS
  <2>4. PICK u : u = [v EXCEPT !.call.op = "finish"]
    OBVIOUS
  <2>5. w = [u EXCEPT !.call.no = n]
    BY <1>1, <2>1, <2>4
  <2>6. u = [v EXCEPT !.call = a]
    BY <2>2, <2>4
  <2>7. DOMAIN u = Fields /\ u.call = a
    BY <1>1, <2>6 DEF Fields
  <2>8. w = [u EXCEPT !.call = b]
    BY <2>3, <2>5, <2>7
  <2>9. /\ DOMAIN w = Fields /\ w.call = b
        /\ SameShown(v, w) /\ SameEntry(v, w) /\ SameRest(v, w)
        /\ w.keys = v.keys /\ w.told = v.told /\ w.unresolved = v.unresolved /\ w.asking = v.asking
    BY <1>1, <2>6, <2>7, <2>8 DEF SameEntry, SameShown, SameRest, Fields
  <2>10. Turns(v, w, "finish", n)
    BY <1>1, <2>2, <2>3, <2>9 DEF Turns
  <2> QED BY <1>3, <1>4, <2>10 DEF Says
<1>5. CASE v.call.op = "create"
  <2>1. PICK keys : keys = [s.keys EXCEPT !.create = None]
    OBVIOUS
  <2>2. w = [s EXCEPT !.call = NoCall, !.keys = keys, !.told = "drafted"]
    <3>1. w = [s EXCEPT !.call = NoCall, !.keys.create = None, !.told = "drafted"]
      BY <1>2, <1>5 DEF Told
    <3> QED BY <1>3, <2>1, <3>1
  <2>3. Shows(v, w, n, St(d, n), keys, "drafted")
    BY <1>1, <1>3, <2>2 DEF Shows, SameEntry, SameRest, Fields
  <2>4. Drops(v, keys)
    BY <1>1, <1>3, <2>1, DropsIs
  <2> QED BY <1>5, <2>3, <2>4 DEF Says
<1>6. CASE v.call.op = "post"
  <2>1. PICK keys : keys = [s.keys EXCEPT !.post = None]
    OBVIOUS
  <2>2. w = [s EXCEPT !.call = NoCall, !.keys = keys, !.print = None, !.unresolved = FALSE, !.told = "done"]
    <3>1. w = [s EXCEPT !.call = NoCall, !.keys.post = None, !.print = None, !.unresolved = FALSE, !.told = "done"]
      BY <1>2, <1>6 DEF Told
    <3> QED BY <1>3, <2>1, <3>1
  <2>3. Shows(v, w, n, St(d, n), keys, "done")
    BY <1>1, <1>3, <2>2 DEF Shows, SameEntry, SameRest, Fields
  <2>4. Drops(v, keys)
    BY <1>1, <1>3, <2>1, DropsIs
  <2> QED BY <1>6, <2>3, <2>4 DEF Says
<1>7. CASE /\ v.call.op \in {"draft", "complete", "finish"}
           /\ ~(v.call.op = "draft" /\ s.shown = "DRAFT")
  <2>1. PICK u : u = Reset(s)
    OBVIOUS
  <2>2. w = [u EXCEPT !.call = NoCall, !.told = "done"]
    BY <1>2, <1>7, <2>1 DEF Told
  <2>3. /\ DOMAIN u = Fields /\ u.unresolved = FALSE /\ u.keys = NoKeys
        /\ SameEntry(s, u) /\ SameShown(s, u) /\ SameRest(s, u) /\ u.asking = s.asking
    BY <1>3, <2>1, ResetIs
  <2>4. Shows(v, w, n, St(d, n), NoKeys, "done")
    BY <1>1, <1>3, <2>2, <2>3 DEF Shows, SameEntry, SameShown, SameRest, Fields
  <2>5. Drops(v, NoKeys)
    BY <1>1, DropsIs
  <2> QED BY <1>3, <1>7, <2>4, <2>5 DEF Says
<1> QED BY <1>1, <1>4, <1>5, <1>6, <1>7 DEF Ops

LEMMA DraftedIs ==
  ASSUME NEW v, NEW k, NEW F, Waiting(v, k, F), NEW d, NEW C, NEW F2, NEW told,
         NEW w, w = Drafted(v, Tables(d, C, F2), told)
  PROVE  \E keys : Drops(v, keys) /\ Shows(v, w, v.call.no, "DRAFT", keys, told)
<1>1. DOMAIN v = Fields /\ v.keys \in Keys
  BY WaitingIs
<1>2. PICK s, n : s = Showing(v, Tables(d, C, F2), n) /\ n = v.call.no
  OBVIOUS
<1>3. /\ DOMAIN s = Fields /\ s.note = n /\ s.id = n /\ SameEntry(v, s) /\ SameRest(v, s)
      /\ s.keys = v.keys /\ s.asking = v.asking
  BY <1>1, <1>2, ShowingIs
<1>4. PICK keys : keys = [s.keys EXCEPT !.create = None]
  OBVIOUS
<1>5. w = [s EXCEPT !.shown = "DRAFT", !.keys = keys, !.unresolved = FALSE, !.call = NoCall, !.told = told]
  <2>1. w = [s EXCEPT !.shown = "DRAFT", !.keys.create = None, !.unresolved = FALSE, !.call = NoCall, !.told = told]
    BY <1>2 DEF Drafted
  <2> QED BY <1>3, <1>4, <2>1
<1>6. Shows(v, w, n, "DRAFT", keys, told)
  BY <1>3, <1>5 DEF Shows, SameEntry, SameRest, Fields
<1>7. Drops(v, keys)
  BY <1>1, <1>3, <1>4, DropsIs
<1> QED BY <1>2, <1>6, <1>7

LEMMA ToldErrorIs ==
  ASSUME NEW v, NEW k, NEW F, Waiting(v, k, F), NEW d, NEW C, NEW F2,
         NEW w, w = ToldError(v, Tables(d, C, F2))
  PROVE  Errs(v, w)
<1>1. DOMAIN v = Fields /\ v.keys \in Keys /\ v.call.op \in Ops \ {"stuck"}
  BY WaitingIs
<1>2. CASE v.call.op = "finish"
  <2>1. w = Drafted(v, Tables(d, C, F2), "failed")
    BY <1>2 DEF ToldError
  <2> QED BY <1>2, <2>1, DraftedIs DEF Errs
<1>3. CASE v.call.op \in {"create", "post"}
  <2>1. w = [v EXCEPT !.call = NoCall, !.told = "unknown"]
    BY <1>3 DEF ToldError
  <2>2. Fails(v, w, v.unresolved, v.keys, "unknown")
    BY <1>1, <2>1 DEF Fails, SameEntry, SameShown, SameRest, Fields
  <2> QED BY <1>3, <2>2 DEF Errs
<1>4. CASE v.call.op \in {"draft", "complete"}
  <2>1. PICK u : u = Reset(v)
    OBVIOUS
  <2>2. w = [u EXCEPT !.call = NoCall, !.told = "failed"]
    BY <1>4, <2>1 DEF ToldError
  <2>3. /\ DOMAIN u = Fields /\ u.unresolved = FALSE /\ u.keys = NoKeys
        /\ SameEntry(v, u) /\ SameShown(v, u) /\ SameRest(v, u) /\ u.asking = v.asking
    BY <1>1, <2>1, ResetIs
  <2>4. Fails(v, w, FALSE, NoKeys, "failed")
    BY <2>2, <2>3 DEF Fails, SameEntry, SameShown, SameRest, Fields
  <2> QED BY <1>4, <2>4 DEF Errs
<1> QED BY <1>1, <1>2, <1>3, <1>4 DEF Ops

LEMMA ToldThrownIs ==
  ASSUME NEW v, NEW k, NEW F, Waiting(v, k, F), NEW d, NEW C, NEW F2,
         NEW w, w = ToldThrown(v, Tables(d, C, F2))
  PROVE  Throws(v, w)
<1>1. /\ DOMAIN v = Fields /\ v.keys \in Keys /\ v.call.op \in Ops \ {"stuck"}
      /\ DOMAIN v.call = {"op", "no", "line", "delta", "form", "keys", "print", "postPrint"}
  BY WaitingIs
<1>2. CASE v.call.op = "finish"
  <2>1. w = Drafted(v, Tables(d, C, F2), "unknown")
    BY <1>2 DEF ToldThrown
  <2> QED BY <1>2, <2>1, DraftedIs DEF Throws
<1>3. CASE v.call.op \in {"create", "post"}
  <2>1. w = [v EXCEPT !.call.op = "stuck"]
    BY <1>3 DEF ToldThrown
  <2>2. Turns(v, w, "stuck", v.call.no)
    BY <1>1, <2>1 DEF Turns, SameEntry, SameShown, SameRest, Fields
  <2> QED BY <1>3, <2>2 DEF Throws
<1>4. CASE v.call.op \in {"draft", "complete"}
  <2>1. w = [v EXCEPT !.call = NoCall, !.unresolved = TRUE, !.told = "unknown"]
    BY <1>4 DEF ToldThrown
  <2>2. Fails(v, w, TRUE, v.keys, "unknown")
    BY <1>1, <2>1 DEF Fails, SameEntry, SameShown, SameRest, Fields
  <2> QED BY <1>4, <2>2 DEF Throws
<1> QED BY <1>1, <1>2, <1>3, <1>4 DEF Ops

\* A call of panel k happens to the tables, or they stay.
Reached(k, c) == Happens(db, commands, forms, db', commands', forms', k, c)
Stays == db' = db /\ commands' = commands /\ forms' = forms

LEMMA StaysIs ==
  ASSUME NEW k, NEW c, Stays
  PROVE  Reached(k, c)
BY DEF Stays, Reached, Happens

LEMMA ReachesIs ==
  ASSUME NEW d, NEW C, NEW F, NEW x, x = Tables(d, C, F), Reaches(x)
  PROVE  db' = d /\ commands' = C /\ forms' = F
BY DEF Tables, Reaches

LEMMA NowIs == Now = Tables(db, commands, forms)
BY DEF Now, Tables

LEMMA CallingIs ==
  ASSUME NEW k \in Kind, Panels, Store(db, commands, forms), Calling(k), NEW new, Set(k, new)
  PROVE  \E v : /\ v = panel[k] /\ Becomes(k, v, new) /\ Waiting(v, k, forms) /\ IsCall(v.call, k, forms)
                /\ Comes(db, commands, forms, k, v.call, Transaction(Now, v.call))
<1>1. PICK v : v = panel[k] /\ Becomes(k, v, new) /\ Sound(v, k, forms)
  BY BecomesIs DEF Becomes
<1>2. Waiting(v, k, forms)
  BY <1>1 DEF Waiting, Calling
<1>3. IsCall(v.call, k, forms)
  BY <1>2, WaitingIs
<1>4. PICK c : c = v.call
  OBVIOUS
<1>5. c.op # "stuck" /\ IsCall(c, k, forms)
  BY <1>2, <1>3, <1>4 DEF Waiting
<1>6. PICK o : o = Transaction(Tables(db, commands, forms), c)
  OBVIOUS
<1>7. Comes(db, commands, forms, k, c, o)
  BY <1>5, <1>6, TransactionIs
<1> QED BY <1>1, <1>2, <1>3, <1>4, <1>6, <1>7, NowIs

LEMMA AnsweredIs ==
  ASSUME NEW k \in Kind, Panels, Store(db, commands, forms), Answered(k)
  PROVE  \E v, w : /\ Becomes(k, v, w) /\ Waiting(v, k, forms)
                   /\ \/ Stays /\ Refuses(db, commands, k, v.call) /\ Errs(v, w)
                      \/ /\ Reached(k, v.call)
                         /\ \E n : Answers(db', commands', k, v.call, n) /\ Says(v, w, db', n)
<1>1. PICK x : x = Transaction(Now, panel[k].call)
  OBVIOUS
<1>2. PICK w : w = IF x.error = "none" THEN Told(panel[k], x.at, x.no) ELSE ToldError(panel[k], x.at)
  OBVIOUS
<1>3. Calling(k) /\ Set(k, w) /\ Reaches(x.at)
  BY <1>1, <1>2 DEF Answered
<1>4. PICK v : /\ v = panel[k] /\ Becomes(k, v, w) /\ Waiting(v, k, forms)
               /\ Comes(db, commands, forms, k, v.call, Transaction(Now, v.call))
  BY <1>3, CallingIs
<1>5. Comes(db, commands, forms, k, v.call, x)
  BY <1>1, <1>4
<1>6. CASE x.error # "none" /\ x.at = Tables(db, commands, forms) /\ Refuses(db, commands, k, v.call)
  <2>1. w = ToldError(v, Tables(db, commands, forms))
    BY <1>2, <1>4, <1>6
  <2>2. Errs(v, w)
    BY <1>4, <2>1, ToldErrorIs
  <2>3. Stays
    BY <1>3, <1>6, ReachesIs DEF Stays
  <2> QED BY <1>4, <1>6, <2>2, <2>3
<1>7. CASE /\ x.error = "none"
           /\ \E d2, C2, F2 : /\ x.at = Tables(d2, C2, F2)
                              /\ Happens(db, commands, forms, d2, C2, F2, k, v.call)
                              /\ Answers(d2, C2, k, v.call, x.no)
  <2>1. PICK d2, C2, F2 : /\ x.at = Tables(d2, C2, F2)
                          /\ Happens(db, commands, forms, d2, C2, F2, k, v.call)
                          /\ Answers(d2, C2, k, v.call, x.no)
    BY <1>7
  <2>2. db' = d2 /\ commands' = C2 /\ forms' = F2
    BY <1>3, <2>1, ReachesIs
  <2>3. PICK n : n = x.no
    OBVIOUS
  <2>4. w = Told(v, Tables(d2, C2, F2), n)
    BY <1>2, <1>4, <1>7, <2>1, <2>3
  <2>5. Says(v, w, d2, n)
    BY <1>4, <2>4, ToldIs
  <2>6. Reached(k, v.call)
    BY <2>1, <2>2 DEF Reached
  <2> QED BY <1>4, <2>1, <2>2, <2>3, <2>5, <2>6
<1> QED BY <1>5, <1>6, <1>7 DEF Comes

\* Where a call that is sent may leave the tables.
LEMMA SentIs ==
  ASSUME NEW k, NEW c, Comes(db, commands, forms, k, c, Transaction(Now, c)),
         NEW x \in {Now, Transaction(Now, c).at}
  PROVE  \E d2, C2, F2 : x = Tables(d2, C2, F2) /\ Happens(db, commands, forms, d2, C2, F2, k, c)
<1>1. PICK o : o = Transaction(Now, c)
  OBVIOUS
<1>2. Happens(db, commands, forms, db, commands, forms, k, c)
  BY DEF Happens
<1>3. CASE x = Tables(db, commands, forms)
  BY <1>2, <1>3
<1>4. CASE x = o.at /\ x # Tables(db, commands, forms)
  <2>1. Comes(db, commands, forms, k, c, o)
    BY <1>1
  <2> QED BY <1>4, <2>1 DEF Comes
<1> QED BY <1>1, <1>3, <1>4, NowIs

LEMMA LostIs ==
  ASSUME NEW k \in Kind, Panels, Store(db, commands, forms), Lost(k)
  PROVE  \E v, w : /\ Becomes(k, v, w) /\ Waiting(v, k, forms) /\ Reached(k, v.call)
                   /\ \/ Throws(v, w)
                      \/ LossForms # {"thrown"} /\ LossForms # {} /\ Errs(v, w)
<1>1. PICK x \in {Now, Transaction(Now, panel[k].call).at}, loss \in LossForms :
        /\ Reaches(x)
        /\ Set(k, IF loss = "thrown" THEN ToldThrown(panel[k], x) ELSE ToldError(panel[k], x))
  BY DEF Lost
<1>2. PICK w : w = IF loss = "thrown" THEN ToldThrown(panel[k], x) ELSE ToldError(panel[k], x)
  OBVIOUS
<1>3. Calling(k) /\ Set(k, w)
  BY <1>1, <1>2 DEF Lost
<1>4. PICK v : /\ v = panel[k] /\ Becomes(k, v, w) /\ Waiting(v, k, forms)
               /\ Comes(db, commands, forms, k, v.call, Transaction(Now, v.call))
  BY <1>3, CallingIs
<1>5. PICK d2, C2, F2 : x = Tables(d2, C2, F2) /\ Happens(db, commands, forms, d2, C2, F2, k, v.call)
  BY <1>1, <1>4, SentIs
<1>6. Reached(k, v.call)
  BY <1>1, <1>5, ReachesIs DEF Reached
<1>7. CASE loss = "thrown"
  <2>1. w = ToldThrown(v, Tables(d2, C2, F2))
    BY <1>2, <1>4, <1>5, <1>7
  <2>2. Throws(v, w)
    BY <1>4, <2>1, ToldThrownIs
  <2> QED BY <1>4, <1>6, <2>2
<1>8. CASE loss # "thrown"
  <2>1. w = ToldError(v, Tables(d2, C2, F2))
    BY <1>2, <1>4, <1>5, <1>8
  <2>2. Errs(v, w)
    BY <1>4, <2>1, ToldErrorIs
  <2> QED BY <1>1, <1>4, <1>6, <1>8, <2>2
<1> QED BY <1>7, <1>8

\* A page that is reloaded may have had a call under way.
LEMMA ReloadReaches ==
  ASSUME NEW k \in Kind, Panels, Store(db, commands, forms), Reload(k)
  PROVE  Stays \/ (Waiting(panel[k], k, forms) /\ Reached(k, panel[k].call))
<1>0. PICK S : S = {Now} \cup (IF Calling(k) THEN {Transaction(Now, panel[k].call).at} ELSE {})
  OBVIOUS
<1>1. PICK x \in S : Reaches(x)
  BY <1>0 DEF Reload
<1>2. CASE x = Now
  <2>1. x = Tables(db, commands, forms)
    BY <1>2, NowIs
  <2> QED BY <1>1, <2>1, ReachesIs DEF Stays
<1>3. CASE x # Now
  <2>1. Calling(k) /\ x = Transaction(Now, panel[k].call).at
    BY <1>0, <1>1, <1>3
  <2>2. Set(k, Mounted(panel[k]))
    BY DEF Reload
  <2>3. PICK v : /\ v = panel[k] /\ Waiting(v, k, forms)
                 /\ Comes(db, commands, forms, k, v.call, Transaction(Now, v.call))
    BY <2>1, <2>2, CallingIs
  <2>4. PICK d2, C2, F2 : x = Tables(d2, C2, F2) /\ Happens(db, commands, forms, d2, C2, F2, k, v.call)
    BY <2>1, <2>3, SentIs
  <2>5. Reached(k, v.call)
    BY <1>1, <2>4, ReachesIs DEF Reached
  <2> QED BY <2>3, <2>5
<1> QED BY <1>2, <1>3

-----------------------------------------------------------------------------
(* The types of the panels                                                 *)

LEMMA SoundLasts ==
  ASSUME NEW v, NEW k, NEW F, Sound(v, k, F), NEW F2, \A n \in No : F[n] # 0 => F2[n] = F[n]
  PROVE  Sound(v, k, F2)
<1>1. v.id # None => v.id \in No /\ F2[v.id] # 0
  BY DEF Sound, Shaped
<1>2. v.call # NoCall => IsCall(v.call, k, F2)
  BY DEF Sound, IsCall
<1> QED BY <1>1, <1>2 DEF Sound

LEMMA NoneIs == None \notin Nat /\ None \notin No /\ NoKeys \in Keys /\ 1 \in 1 .. MaxNo
BY PanelNumbers, KeysAre

LEMMA ChoseSound ==
  ASSUME NEW v, NEW w, NEW k, NEW F, Sound(v, k, F), NEW l \in Line, Chose(v, w, l)
  PROVE  Sound(w, k, F)
<1>1. Shaped(w)
  <2>1. v.form \in Nat \ {0}
    BY DEF Shaped, Sound
  <2>2. w.form \in Nat \ {0}
    BY <2>1 DEF Chose
  <2>3. /\ DOMAIN w = Fields /\ w.line = l /\ w.delta = None /\ w.no = 1 /\ w.history = v.history
        /\ w.note = v.note /\ w.shown = v.shown /\ w.reading = TRUE /\ w.unresolved = FALSE
        /\ w.asking = v.asking /\ w.keys = NoKeys /\ w.id = None /\ w.drawn = v.drawn
        /\ w.told = "nothing"
    BY DEF Chose
  <2>4. Shaped(v)
    BY DEF Sound
  <2> QED BY <2>2, <2>3, <2>4, NoneIs DEF Shaped, TellWords
<1> QED BY <1>1 DEF Sound, Chose, Open

LEMMA EnteredSound ==
  ASSUME NEW v, NEW w, NEW k, NEW F, Sound(v, k, F), Entered(v, w)
  PROVE  Sound(w, k, F)
<1>1. Shaped(w)
  BY NoneIs DEF Shaped, Sound, Entered, SameShown, SameRest
<1> QED BY <1>1 DEF Sound, Entered, SameShown

LEMMA ReadSound ==
  ASSUME NEW v, NEW w, NEW k, NEW F, Sound(v, k, F), Read(v, w)
  PROVE  Sound(w, k, F)
<1>1. Shaped(w)
  BY DEF Shaped, Sound, Read, SameShown, SameRest
<1> QED BY <1>1 DEF Sound, Read, SameShown

LEMMA AnotherSound ==
  ASSUME NEW v, NEW w, NEW k, NEW F, Sound(v, k, F), Another(v, w)
  PROVE  Sound(w, k, F)
<1>1. Shaped(w)
  <2>1. v.form \in Nat \ {0}
    BY DEF Shaped, Sound
  <2>2. w.form \in Nat \ {0}
    BY <2>1 DEF Another
  <2> QED BY <2>2, NoneIs DEF Shaped, Sound, Another, TellWords
<1> QED BY <1>1 DEF Sound, Another

LEMMA MountsSound ==
  ASSUME NEW v, NEW w, NEW k, NEW F, Sound(v, k, F), Mounts(v, w)
  PROVE  Sound(w, k, F)
<1>1. Shaped(w)
  BY NoneIs DEF Shaped, Sound, Mounts, SameRest, TellWords
<1> QED BY <1>1 DEF Sound, Mounts

LEMMA LookedSound ==
  ASSUME NEW v, NEW w, NEW k, NEW F, Sound(v, k, F),
         (FindsNone(v, w) /\ v.id = None) \/ Opens(v, w) \/ StaysLocked(v, w)
  PROVE  Sound(w, k, F)
<1>1. CASE Opens(v, w)
  <2>1. Shaped(w)
    BY <1>1 DEF Shaped, Sound, Opens, Looked, SameShown, SameRest
  <2> QED BY <1>1, <2>1 DEF Sound, Opens, Looked, SameShown
<1>2. CASE StaysLocked(v, w)
  <2>1. Shaped(w)
    BY <1>2 DEF Shaped, Sound, StaysLocked, Looked, SameShown, SameRest
  <2> QED BY <1>2, <2>1 DEF Sound, StaysLocked, Looked, SameShown
<1>3. CASE FindsNone(v, w) /\ v.id = None
  <2>1. /\ DOMAIN w = Fields /\ w.line = v.line /\ w.delta = v.delta /\ w.no = v.no
        /\ w.history = v.history /\ w.note = v.note /\ w.shown = v.shown /\ w.reading = v.reading
        /\ w.unresolved = FALSE /\ w.asking = FALSE /\ w.keys = NoKeys /\ w.id = None
        /\ w.form = v.form /\ w.drawn = v.drawn /\ w.told = "none" /\ w.call = v.call
    BY <1>3 DEF FindsNone, Looked, SameRest
  <2>2. Shaped(v)
    BY DEF Sound
  <2>3. Shaped(w)
    BY <2>1, <2>2, NoneIs DEF Shaped, TellWords
  <2> QED BY <1>3, <2>1, <2>3 DEF Sound
<1> QED BY <1>1, <1>2, <1>3

LEMMA ShowsSound ==
  ASSUME NEW v, NEW w, NEW k, NEW F, Sound(v, k, F),
         NEW n \in No, n[1] = k, F[n] # 0, NEW shown \in {"DRAFT", "POSTED"},
         NEW keys, Drops(v, keys), NEW told \in TellWords, Shows(v, w, n, shown, keys, told)
  PROVE  Sound(w, k, F)
<1>1. Shaped(w)
  BY DEF Shaped, Sound, Shows, Drops, SameEntry, SameRest
<1> QED BY <1>1, NoneIs DEF Sound, Shows

LEMMA FailsSound ==
  ASSUME NEW v, NEW w, NEW k, NEW F, Sound(v, k, F),
         NEW unresolved \in BOOLEAN, NEW keys \in Keys, NEW told \in TellWords,
         Fails(v, w, unresolved, keys, told)
  PROVE  Sound(w, k, F)
<1>1. Shaped(w)
  BY DEF Shaped, Sound, Fails, SameEntry, SameShown, SameRest
<1> QED BY <1>1 DEF Sound, Fails, SameShown

LEMMA TurnsSound ==
  ASSUME NEW v, NEW w, NEW k, NEW F, Waiting(v, k, F), NEW n \in No, n[1] = k, NEW op, Turns(v, w, op, n),
         \/ op = "stuck"
         \/ op = "finish" /\ F[n] # 0 /\ v.call.keys.post # None
  PROVE  Sound(w, k, F)
<1>1. Sound(v, k, F) /\ IsCall(v.call, k, F)
  BY WaitingIs DEF Waiting
<1>2. Shaped(w)
  BY <1>1 DEF Shaped, Sound, Turns, SameEntry, SameShown, SameRest
<1>3. IsCall(w.call, k, F)
  BY <1>1 DEF IsCall, Turns, Ops
<1> QED BY <1>1, <1>2, <1>3 DEF Sound, Turns, SameShown

LEMMA NumberIs ==
  ASSUME NEW k \in Kind, NEW v, NEW F, Sound(v, k, F), Numbered(k, v)
  PROVE  /\ Number(k, v) \in No /\ Number(k, v)[1] = k
         /\ v.note # None => Number(k, v) = v.note
         /\ v.note = None /\ k \notin Derived => Number(k, v) = <<k, v.no>>
<1>1. CASE v.note # None
  BY <1>1 DEF Number, Sound, Shaped
<1>2. CASE v.note = None /\ k \in Derived
  <2>1. PICK S : S = Free(v.history, k)
    OBVIOUS
  <2>2. S \subseteq Nat /\ S \subseteq 1 .. MaxNo /\ S # {}
    BY <1>2, <2>1, PanelNumbers DEF Free, Numbered
  <2>3. IsFiniteSet(S) /\ S \subseteq Int
    <3>1. PICK I : I = 1 .. MaxNo
      OBVIOUS
    <3>2. IsFiniteSet(I)
      BY <3>1, PanelNumbers, FS_Interval
    <3>3. S \subseteq I /\ S \subseteq Int
      BY <2>2, <3>1
    <3> QED BY <3>2, <3>3, FS_Subset
  <2>4. \E x \in S : \A y \in S : x <= y
    BY <2>2, <2>3, LeastMember
  <2>5. PICK m : m = Min(S)
    OBVIOUS
  <2>6. m \in S
    BY <2>4, <2>5 DEF Min
  <2>7. Number(k, v) = <<k, m>>
    BY <1>2, <2>1, <2>5 DEF Number
  <2>8. m \in 1 .. MaxNo
    BY <2>2, <2>6
  <2> QED BY <1>2, <2>7, <2>8 DEF No
<1>3. CASE v.note = None /\ k \notin Derived
  <2>1. v.no \in 1 .. MaxNo
    BY DEF Sound, Shaped
  <2> QED BY <1>3, <2>1 DEF Number, No
<1> QED BY <1>1, <1>2, <1>3

LEMMA PressedSound ==
  ASSUME NEW k \in Kind, NEW v, NEW w, NEW F, Sound(v, k, F), NEW op, NEW used, Pressed(v, w, k, op, used),
         \/ op = "create" /\ used = {"create"} /\ v.delta # None
         \/ op = "post" /\ used = {"post"} /\ v.shown = "DRAFT"
         \/ op \in {"draft", "complete"} /\ used = {"create", "post"} /\ v.delta # None
  PROVE  Sound(w, k, F)
<1>1. Number(k, v) \in No /\ Number(k, v)[1] = k /\ (v.note # None => Number(k, v) = v.note)
  BY NumberIs DEF Pressed
<1>2. w.drawn \in 0 .. MaxKeys
  BY PanelNumbers DEF Sound, Shaped, Pressed
<1>3. Shaped(w)
  BY <1>2 DEF Sound, Shaped, Pressed, SameEntry, SameShown, TellWords
<1>4. PICK c : c = w.call
  OBVIOUS
<1>5. IsPressed(v, w, k, op, c) /\ v.line # None
  BY <1>4 DEF Pressed
<1>6. op = "post" => F[c.no] # 0
  BY <1>1, <1>5 DEF IsPressed, Sound
<1>7. /\ op \in {"create", "draft", "complete"} => w.keys["create"] # None
      /\ op \in {"post", "draft", "complete"} => w.keys["post"] # None
  BY DEF Pressed
<1>8. IsCall(c, k, F)
  BY <1>1, <1>3, <1>5, <1>6, <1>7 DEF IsCall, IsPressed, Sound, Shaped, Ops
<1> QED BY <1>3, <1>4, <1>8 DEF Sound, Pressed, SameShown

LEMMA StIs ==
  ASSUME NEW d, Good(d), NEW n \in No
  PROVE  /\ St(d, n) \in {"NONE", "DRAFT", "POSTED"}
         /\ St(d, n) # "NONE" => d.note[n].line \in Line
<1>1. PICK x : x = d.note[n]
  OBVIOUS
<1>2. x \in {NoNote} \cup Row
  <2>1. d \in Database
    BY DEF Good
  <2> QED BY <1>1, <2>1 DEF Database, Row
<1>3. x.status \in {"NONE", "DRAFT", "POSTED"} /\ (x.status # "NONE" => x.line \in Line)
  BY <1>2 DEF Row, NoNote
<1> QED BY <1>1, <1>3 DEF St

LEMMA AnswersIs ==
  ASSUME NEW d, NEW C, NEW F, Store(d, C, F), NEW k, NEW c, c.op \in Ops \ {"stuck"},
         NEW n, Answers(d, C, k, c, n)
  PROVE  /\ n \in No /\ n[1] = k /\ F[n] # 0 /\ St(d, n) \in {"DRAFT", "POSTED"}
         /\ c.op \in {"post", "finish", "complete"} => St(d, n) = "POSTED"
<1>1. /\ n \in No /\ n[1] = k /\ F[n] # 0
      /\ c.op \in {"post", "finish", "complete"} => St(d, n) = "POSTED"
  <2>1. CASE By(C, "CREATE", k, c.keys.create, n)
    <3>1. n \in No /\ n[1] = k /\ F[n] # 0
      BY <2>1, ByIs
    <3>2. CASE By(C, "POST", k, c.keys.post, n)
      BY <3>1, <3>2, ByIs
    <3>3. CASE ~By(C, "POST", k, c.keys.post, n)
      BY <3>1, <3>3 DEF Answers
    <3> QED BY <3>2, <3>3
  <2>2. CASE By(C, "POST", k, c.keys.post, n)
    BY <2>2, ByIs
  <2> QED BY <2>1, <2>2 DEF Answers, Ops
<1>2. St(d, n) # "NONE" /\ Good(d)
  BY <1>1 DEF Store
<1> QED BY <1>1, <1>2, StIs

LEMMA SaysSound ==
  ASSUME NEW v, NEW w, NEW k, NEW F, Waiting(v, k, F), NEW d, NEW C, Store(d, C, F),
         NEW n, Answers(d, C, k, v.call, n), Says(v, w, d, n)
  PROVE  Sound(w, k, F)
<1>1. Sound(v, k, F) /\ IsCall(v.call, k, F) /\ v.call.op \in Ops \ {"stuck"}
  BY WaitingIs DEF Waiting
<1>2. n \in No /\ n[1] = k /\ F[n] # 0 /\ St(d, n) \in {"DRAFT", "POSTED"}
  BY <1>1, AnswersIs
<1>3. CASE v.call.op = "draft" /\ Turns(v, w, "finish", n)
  <2>1. v.call.keys.post # None
    BY <1>1, <1>3 DEF IsCall
  <2> QED BY <1>2, <1>3, <2>1, TurnsSound
<1>4. CASE \E keys, told : Drops(v, keys) /\ told \in TellWords /\ Shows(v, w, n, St(d, n), keys, told)
  BY <1>1, <1>2, <1>4, ShowsSound
<1>5. "done" \in TellWords /\ "drafted" \in TellWords
  BY DEF TellWords
<1> QED BY <1>3, <1>4, <1>5 DEF Says

LEMMA EndsSound ==
  ASSUME NEW v, NEW w, NEW k, NEW F, Waiting(v, k, F), Errs(v, w) \/ Throws(v, w)
  PROVE  Sound(w, k, F)
<1>1. /\ Sound(v, k, F) /\ IsCall(v.call, k, F) /\ v.unresolved \in BOOLEAN /\ v.keys \in Keys
  BY WaitingIs DEF Waiting
<1>2. v.call.no \in No /\ v.call.no[1] = k
  BY <1>1 DEF IsCall
<1>3. {"failed", "unknown"} \subseteq TellWords
  BY DEF TellWords
<1>4. CASE \E keys, told : /\ Drops(v, keys) /\ told \in {"failed", "unknown"} /\ v.call.op = "finish"
                           /\ Shows(v, w, v.call.no, "DRAFT", keys, told)
  <2>1. F[v.call.no] # 0
    BY <1>1, <1>4 DEF IsCall
  <2>2. PICK n \in No : n = v.call.no
    BY <1>2
  <2>3. PICK keys, told : Drops(v, keys) /\ told \in TellWords /\ Shows(v, w, n, "DRAFT", keys, told)
    BY <1>3, <1>4, <2>2
  <2> QED BY <1>1, <1>2, <2>1, <2>2, <2>3, ShowsSound
<1>5. CASE \E unresolved \in BOOLEAN, keys \in Keys, told \in {"failed", "unknown"} :
             Fails(v, w, unresolved, keys, told)
  BY <1>1, <1>3, <1>5, FailsSound
<1>6. CASE Turns(v, w, "stuck", v.call.no)
  BY <1>2, <1>6, TurnsSound
<1> QED BY <1>1, <1>4, <1>5, <1>6, KeysAre DEF Errs, Throws

-----------------------------------------------------------------------------
(* The tables and the panels keep their types                              *)

TypeInv == Store(db, commands, forms) /\ Panels

FollowsNow(k) == Follows(k, db, commands, forms, db', commands', forms')

LEMMA StaysFollows ==
  ASSUME TypeInv, NEW k, Stays
  PROVE  FollowsNow(k) /\ forms' = forms
BY StillFollows DEF TypeInv, Stays, FollowsNow

LEMMA ReachedFollows ==
  ASSUME TypeInv, NEW k, NEW c, IsCall(c, k, forms), Reached(k, c)
  PROVE  FollowsNow(k)
BY HappensFollows DEF TypeInv, Reached, FollowsNow

\* What comes of a step of panel k.
Moved(k) ==
  \E v, w : Becomes(k, v, w) /\ Sound(v, k, forms) /\ Sound(w, k, forms') /\ FollowsNow(k)

LEMMA LocalTypes ==
  ASSUME TypeInv, NEW k, Stays, NEW v, NEW w, Becomes(k, v, w), Sound(v, k, forms), Sound(w, k, forms)
  PROVE  Moved(k)
BY StaysFollows DEF Moved

LEMMA CallTypes ==
  ASSUME TypeInv, NEW k, NEW v, NEW w, Becomes(k, v, w), Waiting(v, k, forms), Reached(k, v.call),
         Sound(w, k, forms) \/ Sound(w, k, forms')
  PROVE  Moved(k)
<1>1. IsCall(v.call, k, forms) /\ Sound(v, k, forms)
  BY WaitingIs DEF Waiting
<1>2. FollowsNow(k)
  BY <1>1, ReachedFollows
<1>3. Sound(w, k, forms')
  BY <1>2, SoundLasts DEF FollowsNow, Follows
<1> QED BY <1>1, <1>2, <1>3 DEF Moved

LEMMA StepTypes ==
  ASSUME TypeInv, NEW k \in Kind, PanelStep(k)
  PROVE  Moved(k)
<1>0. Panels /\ Store(db, commands, forms)
  BY DEF TypeInv
<1>1. ASSUME NEW l \in Line, ChooseLine(k, l) PROVE Moved(k)
  <2>1. PICK v, w : Becomes(k, v, w) /\ Sound(v, k, forms) /\ Chose(v, w, l)
    BY <1>0, <1>1, ChooseLineIs
  <2>2. Stays
    BY <1>1 DEF ChooseLine, Local, Stays
  <2>3. Sound(w, k, forms)
    BY <2>1, ChoseSound
  <2> QED BY <2>1, <2>2, <2>3, LocalTypes
<1>2. ASSUME NEW delta \in Delta, EnterDelta(k, delta) PROVE Moved(k)
  <2>1. PICK v, w : Becomes(k, v, w) /\ Sound(v, k, forms) /\ Entered(v, w)
    BY <1>0, <1>2, EnterDeltaIs
  <2>2. Stays
    BY <1>2 DEF EnterDelta, Local, Stays
  <2>3. Sound(w, k, forms)
    BY <2>1, EnteredSound
  <2> QED BY <2>1, <2>2, <2>3, LocalTypes
<1>3. CASE EnterNumber(k)
  <2>1. PICK v, w : Becomes(k, v, w) /\ Sound(v, k, forms) /\ Entered(v, w)
    BY <1>0, <1>3, EnterNumberIs
  <2>2. Stays
    BY <1>3 DEF EnterNumber, Local, Stays
  <2>3. Sound(w, k, forms)
    BY <2>1, EnteredSound
  <2> QED BY <2>1, <2>2, <2>3, LocalTypes
<1>4. CASE HistoryArrives(k)
  <2>1. PICK v, w : Becomes(k, v, w) /\ Sound(v, k, forms) /\ Read(v, w)
    BY <1>0, <1>4, HistoryArrivesIs
  <2>2. Stays
    BY <1>4 DEF HistoryArrives, Local, Stays
  <2>3. Sound(w, k, forms)
    BY <2>1, ReadSound
  <2> QED BY <2>1, <2>2, <2>3, LocalTypes
<1>5. CASE CreateDraft(k) \/ PostDraft(k) \/ CompleteCorrection(k)
  <2>1. PICK v, w : /\ Becomes(k, v, w) /\ Sound(v, k, forms)
                    /\ \/ Pressed(v, w, k, "create", {"create"}) /\ v.delta # None
                       \/ Pressed(v, w, k, "post", {"post"}) /\ v.shown = "DRAFT"
                       \/ \E op \in {"draft", "complete"} :
                            Pressed(v, w, k, op, {"create", "post"}) /\ v.delta # None
    BY <1>0, <1>5, ButtonsAre
  <2>2. Stays
    BY <1>5 DEF CreateDraft, PostDraft, CompleteCorrection, Press, Local, Stays
  <2>3. Sound(w, k, forms)
    BY <2>1, PressedSound
  <2> QED BY <2>1, <2>2, <2>3, LocalTypes
<1>6. CASE StartAnother(k)
  <2>1. PICK v, w : Becomes(k, v, w) /\ Sound(v, k, forms) /\ Another(v, w)
    BY <1>0, <1>6, StartAnotherIs
  <2>2. Stays
    BY <1>6 DEF StartAnother, Local, Stays
  <2>3. Sound(w, k, forms)
    BY <2>1, AnotherSound
  <2> QED BY <2>1, <2>2, <2>3, LocalTypes
<1>7. CASE Answered(k)
  <2>1. PICK v, w : /\ Becomes(k, v, w) /\ Waiting(v, k, forms)
                    /\ \/ Stays /\ Errs(v, w)
                       \/ /\ Reached(k, v.call)
                          /\ \E n : Answers(db', commands', k, v.call, n) /\ Says(v, w, db', n)
    BY <1>0, <1>7, AnsweredIs
  <2>2. CASE Stays /\ Errs(v, w)
    <3>1. Sound(w, k, forms) /\ Reached(k, v.call)
      BY <2>1, <2>2, EndsSound, StaysIs
    <3> QED BY <2>1, <3>1, CallTypes
  <2>3. CASE /\ Reached(k, v.call)
             /\ \E n : Answers(db', commands', k, v.call, n) /\ Says(v, w, db', n)
    <3>1. PICK n : Answers(db', commands', k, v.call, n) /\ Says(v, w, db', n)
      BY <2>3
    <3>2. FollowsNow(k)
      BY <2>1, <2>3, WaitingIs, ReachedFollows
    <3>3. PICK d, C, F : d = db' /\ C = commands' /\ F = forms'
      OBVIOUS
    <3>4. Store(d, C, F) /\ \A n2 \in No : forms[n2] # 0 => F[n2] = forms[n2]
      BY <3>2, <3>3 DEF FollowsNow, Follows
    <3>5. Waiting(v, k, F)
      BY <2>1, <3>4, SoundLasts DEF Waiting
    <3>6. Sound(w, k, F)
      BY <3>1, <3>3, <3>4, <3>5, SaysSound
    <3> QED BY <2>1, <2>3, <3>3, <3>6, CallTypes
  <2> QED BY <2>1, <2>2, <2>3
<1>8. CASE Lost(k)
  <2>1. PICK v, w : /\ Becomes(k, v, w) /\ Waiting(v, k, forms) /\ Reached(k, v.call)
                    /\ Throws(v, w) \/ Errs(v, w)
    BY <1>0, <1>8, LostIs
  <2>2. Sound(w, k, forms)
    BY <2>1, EndsSound
  <2> QED BY <2>1, <2>2, CallTypes
<1>9. CASE Reload(k)
  <2>1. PICK v, w : Becomes(k, v, w) /\ Sound(v, k, forms) /\ Mounts(v, w)
    BY <1>0, <1>9, ReloadIs
  <2>2. Sound(w, k, forms)
    BY <2>1, MountsSound
  <2>3. Stays \/ (Waiting(v, k, forms) /\ Reached(k, v.call))
    BY <1>0, <1>9, <2>1, ReloadReaches DEF Becomes
  <2> QED BY <2>1, <2>2, <2>3, LocalTypes, CallTypes
<1>10. CASE Recovered(k)
  <2>1. PICK v, w : /\ Becomes(k, v, w) /\ Sound(v, k, forms)
                    /\ \/ Opens(v, w)
                       \/ \E n : /\ n # None /\ FoundUnder(commands, k, v, n)
                                 /\ Finds(v, w, n, St(db, n), db.note[n].line)
                       \/ FindsNone(v, w) /\ FoundNone(commands, k, v)
    BY <1>0, <1>10, RecoveredIs
  <2>2. Stays
    BY <1>10 DEF Recovered, Local, Stays
  <2>3. CASE Opens(v, w) \/ (FindsNone(v, w) /\ FoundNone(commands, k, v))
    <3>1. Sound(w, k, forms)
      BY <2>1, <2>3, LookedSound DEF FoundNone
    <3> QED BY <2>1, <2>2, <3>1, LocalTypes
  <2>4. CASE \E n : /\ n # None /\ FoundUnder(commands, k, v, n)
                    /\ Finds(v, w, n, St(db, n), db.note[n].line)
    <3>1. PICK n : /\ n # None /\ FoundUnder(commands, k, v, n)
                   /\ Finds(v, w, n, St(db, n), db.note[n].line)
      BY <2>4
    <3>2. n \in No /\ n[1] = k /\ forms[n] # 0
      <4>1. v.id # None => v.id \in No /\ v.id[1] = k /\ forms[v.id] # 0
        BY <2>1 DEF Sound, Shaped
      <4> QED BY <1>0, <3>1, <4>1, ByIs DEF FoundUnder
    <3>3. PICK shown, l : shown = St(db, n) /\ l = db.note[n].line
      OBVIOUS
    <3>4. shown \in {"DRAFT", "POSTED"} /\ l \in Line
      BY <1>0, <3>2, <3>3, StIs DEF Store
    <3>5. Finds(v, w, n, shown, l)
      BY <3>1, <3>3
    <3>6. Shaped(w)
      BY <2>1, <3>2, <3>4, <3>5 DEF Shaped, Sound, Finds, Looked, SameRest, TellWords
    <3>7. Sound(w, k, forms)
      BY <2>1, <3>2, <3>4, <3>5, <3>6, NoneIs DEF Sound, Finds, Looked
    <3> QED BY <2>1, <2>2, <3>7, LocalTypes
  <2> QED BY <2>1, <2>3, <2>4
<1>11. CASE StatusFails(k)
  <2>1. PICK v, w : Becomes(k, v, w) /\ Sound(v, k, forms) /\ StaysLocked(v, w)
    BY <1>0, <1>11, StatusFailsIs
  <2>2. Stays
    BY <1>11 DEF StatusFails, Stays
  <2>3. Sound(w, k, forms)
    BY <2>1, LookedSound
  <2> QED BY <2>1, <2>2, <2>3, LocalTypes
<1> QED BY <1>1, <1>2, <1>3, <1>4, <1>5, <1>6, <1>7, <1>8, <1>9, <1>10, <1>11 DEF PanelStep

LEMMA MovedTypes ==
  ASSUME TypeInv, NEW k \in Kind, Moved(k)
  PROVE  TypeInv'
<1>1. PICK v, w : Becomes(k, v, w) /\ Sound(w, k, forms') /\ FollowsNow(k)
  BY DEF Moved
<1>2. Store(db', commands', forms')
  BY <1>1 DEF FollowsNow, Follows
<1>3. panel' = [j \in Kind |-> panel'[j]] /\ panel'[k] = w /\ \A j \in Kind \ {k} : panel'[j] = panel[j]
  BY <1>1 DEF TypeInv, Panels, Becomes
<1>4. ASSUME NEW j \in Kind PROVE Sound(panel'[j], j, forms')
  <2>1. CASE j = k
    BY <1>1, <1>3, <2>1
  <2>2. CASE j # k
    <3>1. Sound(panel[j], j, forms)
      BY DEF TypeInv, Panels
    <3>2. \A n \in No : forms[n] # 0 => forms'[n] = forms[n]
      BY <1>1 DEF FollowsNow, Follows
    <3>3. Sound(panel[j], j, forms')
      BY <3>1, <3>2, SoundLasts
    <3> QED BY <1>3, <2>2, <3>3
  <2> QED BY <2>1, <2>2
<1> QED BY <1>2, <1>3, <1>4 DEF TypeInv, Panels

\* Other users leave what came of the forms alone.
LEMMA OthersFollow ==
  ASSUME TypeInv, Others
  PROVE  /\ commands' = commands /\ forms' = forms /\ panel' = panel
         /\ Store(db', commands, forms)
         /\ \A k \in Kind : Agrees(k, db, commands, forms, db', commands, forms)
<1>1. Next /\ commands' = commands /\ forms' = forms /\ panel' = panel
  BY DEF Others
<1>2. Store(db, commands, forms) /\ Good(db)
  BY DEF TypeInv, Store
<1>3. Good(db')
  BY <1>1, <1>2, NextKeeps
<1>4. \A n \in No : forms[n] # 0 => St(db', n) = St(db, n)
  BY DEF Others, St
<1>5. \A c \in commands : CommandSound(db', forms, c)
  BY <1>2, <1>4 DEF Store, Journal, CommandSound
<1>6. Store(db', commands, forms)
  BY <1>2, <1>3, <1>4, <1>5 DEF Store, Journal
<1> QED BY <1>1, <1>4, <1>6 DEF Agrees

LEMMA OthersTypes ==
  ASSUME TypeInv, Others
  PROVE  TypeInv'
BY OthersFollow DEF TypeInv, Panels

LEMMA InitTypes ==
  ASSUME PanelInit
  PROVE  TypeInv
<1>1. Good(db)
  BY InitialIsGood DEF PanelInit
<1>2. Store(db, commands, forms)
  BY <1>1 DEF PanelInit, Store, Journal
<1>3. PICK v : v = Mounted(Kept)
  OBVIOUS
<1>4. /\ DOMAIN v = Fields
      /\ v.line = None /\ v.delta = None /\ v.no = 1 /\ v.history = {} /\ v.reading = FALSE
      /\ v.note = None /\ v.shown = "NONE" /\ v.unresolved = TRUE /\ v.asking = TRUE /\ v.call = NoCall
      /\ v.told = "nothing" /\ v.keys = NoKeys /\ v.id = None /\ v.form = 1 /\ v.drawn = 0
  BY <1>3 DEF Mounted, Kept, Fields
<1>5. Shaped(v)
  <2>1. 0 \in 0 .. MaxKeys /\ 1 \in Nat \ {0}
    BY PanelNumbers
  <2> QED BY <1>4, <2>1, NoneIs DEF Shaped, TellWords
<1>6. ASSUME NEW k \in Kind PROVE Sound(v, k, forms)
  BY <1>4, <1>5 DEF Sound
<1>7. panel = [k \in Kind |-> v]
  BY <1>3 DEF PanelInit
<1> QED BY <1>2, <1>6, <1>7 DEF TypeInv, Panels

LEMMA NextTypes == TypeInv /\ [PanelNext]_vars => TypeInv'
<1> SUFFICES ASSUME TypeInv, [PanelNext]_vars PROVE TypeInv'
  OBVIOUS
<1>1. CASE Others
  BY <1>1, OthersTypes
<1>2. ASSUME NEW k \in Kind, PanelStep(k) PROVE TypeInv'
  BY <1>2, StepTypes, MovedTypes
<1>3. CASE UNCHANGED vars
  BY <1>3 DEF vars, TypeInv, Panels
<1> QED BY <1>1, <1>2, <1>3 DEF PanelNext

LEMMA PanelTypes == PanelSpec => []TypeInv
BY InitTypes, NextTypes, PTL DEF PanelSpec

(* What the panels hold keeps its type, for any kinds of correction, derive*)
(* they the number or not, any number of losses and of reloads, and however*)
(* a loss shows: no key is anything but a number, and no number that is    *)
(* derived is one that there is not.                                       *)
THEOREM PanelsKeepTypes == PanelSpec => []PanelTypeOK
<1>1. TypeInv => PanelTypeOK
  <2> SUFFICES ASSUME TypeInv PROVE PanelTypeOK
    OBVIOUS
  <2>1. \A c \in commands : c.op \in {"CREATE", "POST"} /\ c.no \in No /\ c.key \in Nat
    BY DEF TypeInv, Store, Journal, CommandSound
  <2>2. forms \in [No -> Nat]
    BY DEF TypeInv, Store
  <2>3. ASSUME NEW k \in Kind, NEW v, v = panel[k]
        PROVE  /\ v.line \in Line \cup {None} /\ v.delta \in Delta \cup {None}
               /\ v.no \in 1 .. MaxNo /\ v.history \subseteq No /\ v.note \in No \cup {None}
               /\ v.shown \in {"NONE", "DRAFT", "POSTED"} /\ (v.shown = "NONE") = (v.note = None)
               /\ {v.reading, v.unresolved, v.asking} \subseteq BOOLEAN
               /\ v.keys \in Keys /\ v.id \in No \cup {None} /\ v.drawn \in 0 .. MaxKeys
               /\ v.told \in {"nothing", "done", "drafted", "failed", "unknown", "recovered", "none"}
               /\ v.call # NoCall => v.call.no \in No /\ v.call.keys \in Keys
    <3>1. Sound(v, k, forms)
      BY <2>3 DEF TypeInv, Panels
    <3>2. v.call # NoCall => v.call.no \in No /\ v.call.keys \in Keys
      BY <3>1 DEF Sound, IsCall
    <3> QED BY <3>1, <3>2 DEF Sound, Shaped, TellWords
  <2> QED BY <2>1, <2>2, <2>3 DEF PanelTypeOK
<1> QED BY <1>1, PanelTypes, PTL

-----------------------------------------------------------------------------
(* The panels do to the database what the transactions allow               *)

\* What a call does: nothing, or what one transaction does.
Does(d, d2) ==
  \/ d2 = d
  \/ \E n \in No, l \in Line, delta \in Delta : CanCreate(d, n) /\ d2 = Created(d, n, l, delta)
  \/ \E n \in No, l \in Line, delta \in Delta :
       /\ CanCreate(d, n) /\ CanPost(Created(d, n, l, delta), n)
       /\ d2 = Posted(Created(d, n, l, delta), n)
  \/ \E n \in No : CanPost(d, n) /\ d2 = Posted(d, n)

LEMMA HappensDoes ==
  ASSUME NEW d, NEW C, NEW F, Store(d, C, F), NEW k, NEW c, IsCall(c, k, F),
         NEW d2, NEW C2, NEW F2, Happens(d, C, F, d2, C2, F2, k, c)
  PROVE  Does(d, d2)
<1>1. c.no \in No /\ c.line \in Line /\ (c.op \in {"create", "draft", "complete"} => c.delta \in Delta)
  BY CallIs
<1>2. CASE d2 = d
  BY <1>2 DEF Does
<1>3. CASE DraftsAlone(d, C, F, d2, C2, F2, c)
  BY <1>1, <1>3 DEF Does, DraftsAlone, Drafts
<1>4. CASE BooksTarget(d, C, F, d2, C2, F2, k, c)
  BY <1>4 DEF Does, BooksTarget, Target, Books
<1>5. CASE DraftsAndBooks(d, C, F, d2, C2, F2, c)
  <2>1. PICK d1, C1, F1 : Drafts(d, C, F, d1, C1, F1, c) /\ Books(d1, C1, F1, d2, C2, F2, c, c.no)
    BY <1>5 DEF DraftsAndBooks
  <2>2. PICK n \in No, l \in Line, delta \in Delta : n = c.no /\ l = c.line /\ delta = c.delta
    BY <1>1, <1>5 DEF DraftsAndBooks
  <2>3. CanCreate(d, n) /\ d1 = Created(d, n, l, delta)
    BY <2>1, <2>2 DEF Drafts
  <2>4. CanPost(d1, n) /\ d2 = Posted(d1, n)
    BY <2>1, <2>2 DEF Books
  <2> QED BY <2>3, <2>4 DEF Does
<1> QED BY <1>2, <1>3, <1>4, <1>5 DEF Happens

LEMMA StepDoes ==
  ASSUME TypeInv, NEW k \in Kind, PanelStep(k)
  PROVE  Does(db, db')
<1>0. Panels /\ Store(db, commands, forms)
  BY DEF TypeInv
<1>1. ASSUME NEW c, IsCall(c, k, forms), Reached(k, c) PROVE Does(db, db')
  BY <1>0, <1>1, HappensDoes DEF Reached
<1>2. CASE db' = db
  BY <1>2 DEF Does
<1>3. CASE Answered(k)
  <2>1. PICK v, w : Waiting(v, k, forms) /\ (Stays \/ Reached(k, v.call))
    BY <1>0, <1>3, AnsweredIs
  <2> QED BY <1>1, <1>2, <2>1, WaitingIs DEF Stays
<1>4. CASE Lost(k)
  <2>1. PICK v, w : Waiting(v, k, forms) /\ Reached(k, v.call)
    BY <1>0, <1>4, LostIs
  <2> QED BY <1>1, <2>1, WaitingIs
<1>5. CASE Reload(k)
  <2>1. Stays \/ (Waiting(panel[k], k, forms) /\ Reached(k, panel[k].call))
    BY <1>0, <1>5, ReloadReaches
  <2> QED BY <1>1, <1>2, <2>1, WaitingIs DEF Stays
<1>6. CASE \/ \E l \in Line : ChooseLine(k, l)
           \/ \E delta \in Delta : EnterDelta(k, delta)
           \/ EnterNumber(k) \/ HistoryArrives(k) \/ StartAnother(k) \/ Recovered(k)
  BY <1>2, <1>6 DEF ChooseLine, EnterDelta, EnterNumber, HistoryArrives, StartAnother, Recovered, Local
<1>7. CASE CreateDraft(k) \/ PostDraft(k) \/ CompleteCorrection(k) \/ StatusFails(k)
  BY <1>2, <1>7 DEF CreateDraft, PostDraft, CompleteCorrection, Press, StatusFails, Local
<1> QED BY <1>3, <1>4, <1>5, <1>6, <1>7 DEF PanelStep

\* Where there is a number left, there are notes left.
LEMMA NotesAreLeft ==
  ASSUME Cardinality(No) <= MaxNotes, NEW n \in No, CanCreate(db, n)
  PROVE  MoreNotes
<1>1. PICK S : S = {m \in No : db.note[m].status # "NONE"}
  OBVIOUS
<1>2. PICK T : T = No \ {n}
  OBVIOUS
<1>3. S \subseteq T
  BY <1>1, <1>2 DEF CanCreate
<1>4. /\ IsFiniteSet(T) /\ Cardinality(T) = Cardinality(No) - 1
      /\ Cardinality(No) \in Nat
  BY <1>2, NoFinite, FS_RemoveElement, FS_CardinalityType
<1>5. Cardinality(S) <= Cardinality(T) /\ Cardinality(S) \in Nat
  BY <1>3, <1>4, FS_Subset, FS_CardinalityType
<1>6. MaxNotes \in Nat
  BY CorrectionConstants
<1> QED BY <1>1, <1>4, <1>5, <1>6 DEF MoreNotes

(* Presses, retries, lost answers and reloads included, the panels do to   *)
(* the database only what the transactions allow, one of them at a time:   *)
(* a call that is repeated does nothing, and a completion is done as a     *)
(* whole or not at all.  The bound on the notes is to leave all the numbers*)
(* free, as the panels know of no such bound.                              *)
THEOREM PanelsPostAsSpecified ==
  ASSUME Cardinality(No) <= MaxNotes
  PROVE  PanelSpec => PostsAsSpecified
<1>1. PanelInit => Init
  BY DEF PanelInit
<1>2. TypeInv /\ [PanelNext]_vars => [Next]_db
  <2> SUFFICES ASSUME TypeInv, [PanelNext]_vars PROVE [Next]_db
    OBVIOUS
  <2>1. CASE Others \/ UNCHANGED vars
    BY <2>1 DEF Others, vars
  <2>2. ASSUME NEW k \in Kind, PanelStep(k) PROVE [Next]_db
    <3>1. Does(db, db')
      BY <2>2, StepDoes
    <3>2. ASSUME NEW n \in No, CanCreate(db, n) PROVE MoreNotes
      BY <3>2, NotesAreLeft
    <3>3. CASE db' = db
      BY <3>3
    <3>4. ASSUME NEW n \in No, NEW l \in Line, NEW delta \in Delta,
                 CanCreate(db, n), db' = Created(db, n, l, delta)
          PROVE  Next
      BY <3>2, <3>4 DEF Create, Next
    <3>5. ASSUME NEW n \in No, NEW l \in Line, NEW delta \in Delta,
                 CanCreate(db, n), CanPost(Created(db, n, l, delta), n),
                 db' = Posted(Created(db, n, l, delta), n)
          PROVE  Next
      BY <3>2, <3>5 DEF Complete, Next
    <3>6. ASSUME NEW n \in No, CanPost(db, n), db' = Posted(db, n) PROVE Next
      BY <3>6 DEF Post, Next
    <3> QED BY <3>1, <3>3, <3>4, <3>5, <3>6 DEF Does
  <2> QED BY <2>1, <2>2 DEF PanelNext
<1> QED BY <1>1, <1>2, PanelTypes, PTL DEF PanelSpec, PostsAsSpecified, Spec

(* So EffectiveWithinLimits, the reservations and the status of the orders *)
(* are kept under the panels too, with any bound on the notes.             *)
THEOREM PanelsKeepLimits ==
  PanelSpec => [](EffectiveWithinLimits /\ ReservationsCovered /\ OrderTellsReceipt)
<1>1. TypeInv => EffectiveWithinLimits /\ ReservationsCovered /\ OrderTellsReceipt
  BY DEF TypeInv, Store, Good, Within, Covered, Tells, EffectiveWithinLimits, ReservationsCovered,
         OrderTellsReceipt
<1> QED BY <1>1, PanelTypes, PTL

-----------------------------------------------------------------------------
(* One correction for each form, of a panel whose number is typed          *)

\* A correction of the form that is posted.
OfForm(d, F, k, form, n) == n \in No /\ n[1] = k /\ F[n] = form /\ St(d, n) = "POSTED"
Nothing(d, F, k, form) == \A n : ~OfForm(d, F, k, form, n)
Single(d, F, k) ==
  \A form \in Nat \ {0} : \A n, m : OfForm(d, F, k, form, n) /\ OfForm(d, F, k, form, m) => n = m

\* The forms and the keys that are yet to come have not been used.
Bounds(C, F, k, v) ==
  /\ \A n \in No : n[1] = k => F[n] <= v.form
  /\ \A c \in C : c.kind = k => c.key <= v.drawn
  /\ \A x \in {"create", "post"} : v.keys[x] # None => v.keys[x] <= v.drawn

\* The id that is kept, and what was done under the keys, is of the form.
Mine(C, F, k, v) ==
  /\ v.id # None => F[v.id] = v.form
  /\ \A n : By(C, "CREATE", k, v.keys.create, n) => F[n] = v.form
  /\ \A n : By(C, "POST", k, v.keys.post, n) => F[n] = v.form

\* What the form has posted is what the id tells, or the key.
Sure(d, C, F, k, v) ==
  \A n : OfForm(d, F, k, v.form, n) =>
           \/ v.id # None /\ n = v.id
           \/ v.id = None /\ By(C, "CREATE", k, v.keys.create, n)

Tracks(d, C, F, k, v) ==
  Bounds(C, F, k, v) /\ Mine(C, F, k, v) /\ Sure(d, C, F, k, v) /\ Single(d, F, k)

\* What is entered in a panel.
Entry(k, v) == <<<<k, v.no>>, v.line, v.delta>>

\* Panel v, with a call under way ...
Called(C, k, v, c) ==
  /\ v.told = "nothing" /\ v.line # None /\ ~v.asking
  /\ c.op # "stuck" => c.keys = v.keys
  /\ c.op \in {"create", "draft", "complete", "finish"} => v.note = None /\ v.id = None
  /\ c.op \in {"create", "draft", "complete"} =>
       /\ c.form = v.form /\ c.print = Entry(k, v)
       /\ Prints(C, k, v.keys.create, Entry(k, v))
  /\ c.op = "post" => c.no = v.note /\ v.note # None
  /\ c.op = "finish" => By(C, "CREATE", k, v.keys.create, c.no)
  /\ v.note = None => v.id = None

\* ... and with none.
Resting(C, k, v) ==
  /\ Open(v) => v.id = None /\ Unused(C, "CREATE", k, v.keys.create)
  /\ v.note = None /\ v.line # None => v.id = None /\ Prints(C, k, v.keys.create, Entry(k, v))
  /\ v.asking => v.line = None /\ v.note = None /\ v.unresolved /\ v.told = "nothing"

Honest(d, F, k, v) ==
  /\ v.told = "done" => OfForm(d, F, k, v.form, v.note)
  /\ v.told \in {"failed", "none"} => Nothing(d, F, k, v.form)

Careful(d, C, F, k, v) ==
  /\ Tracks(d, C, F, k, v) /\ Honest(d, F, k, v)
  /\ v.call = NoCall => Resting(C, k, v)
  /\ v.call # NoCall => Called(C, k, v, v.call)
  /\ v.call # NoCall /\ v.call.op = "finish" => St(d, v.call.no) = "DRAFT"

LEMMA FormIs ==
  ASSUME NEW v, NEW k, NEW F, Sound(v, k, F)
  PROVE  /\ v.form \in Nat /\ v.form # 0 /\ v.drawn \in Nat /\ v.keys \in Keys /\ v.unresolved \in BOOLEAN
         /\ v.asking \in BOOLEAN
         /\ v.id # None => v.id \in No /\ v.id[1] = k /\ F[v.id] # 0
         /\ v.note # None => v.note = v.id
BY PanelNumbers DEF Sound, Shaped

LEMMA NoKeyUsed ==
  ASSUME NEW d, NEW C, NEW F, Store(d, C, F), NEW k
  PROVE  \A op : Unused(C, op, k, None) /\ \A n : ~By(C, op, k, None, n)
<1>1. \A c \in C : c.key # None
  BY PanelNumbers DEF Store, Journal, CommandSound
<1> QED BY <1>1 DEF Unused, By, Under

LEMMA UnusedIs ==
  ASSUME NEW C, NEW op, NEW k, NEW key, Unused(C, op, k, key)
  PROVE  /\ \A n : ~By(C, op, k, key, n)
         /\ op = "CREATE" => \A print : Prints(C, k, key, print)
BY DEF Unused, By, Prints

\* A call of the panel that has reached the database leaves the panel as
\* sure as it was.
LEMMA DraftTracks ==
  ASSUME NEW d, NEW C, NEW F, Store(d, C, F), NEW k, NEW v, Waiting(v, k, F),
         Tracks(d, C, F, k, v), Called(C, k, v, v.call),
         NEW d2, NEW C2, NEW F2, DraftsAlone(d, C, F, d2, C2, F2, v.call)
  PROVE  Tracks(d2, C2, F2, k, v) /\ Called(C2, k, v, v.call)
<1>0. PICK c : c = v.call
  OBVIOUS
<1>1. IsCall(c, k, F) /\ Sound(v, k, F)
  BY <1>0, WaitingIs DEF Waiting
<1>2. c.op \in {"create", "draft", "complete"} /\ Drafts(d, C, F, d2, C2, F2, c)
  BY <1>0 DEF DraftsAlone
<1>3. /\ v.form \in Nat /\ v.form # 0 /\ c.no \in No /\ c.no[1] = k
  BY <1>1, FormIs, CallIs
<1>4. /\ v.note = None /\ v.id = None /\ c.keys = v.keys /\ c.form = v.form /\ c.print = Entry(k, v)
  BY <1>0, <1>2 DEF Called
<1>5. Follows(k, d, C, F, d2, C2, F2) /\ DraftLeaves(d, C, F, d2, C2, F2, k, c)
  BY <1>1, <1>2, DraftsFollows
<1>6. PICK key : key = v.keys.create
  OBVIOUS
<1>7. /\ F[c.no] = 0 /\ F2[c.no] = v.form /\ St(d2, c.no) = "DRAFT"
      /\ \A n \in No \ {c.no} : F2[n] = F[n] /\ St(d2, n) = St(d, n)
      /\ By(C2, "CREATE", k, key, c.no)
      /\ \A e \in C2 : Under(e, "CREATE", k, key) => e.no = c.no /\ e.print = c.print
      /\ SameKeys(C, C2, "POST")
      /\ \A e \in C2 : e.kind = k => e \in C \/ e.key = key
      /\ C \subseteq C2
  BY <1>4, <1>5, <1>6 DEF DraftLeaves, Follows
<1>8. \A form, n : form # 0 => (OfForm(d2, F2, k, form, n) => OfForm(d, F, k, form, n))
  BY <1>7 DEF OfForm
<1>9. Bounds(C2, F2, k, v)
  <2>1. key # None => key <= v.drawn
    BY <1>6 DEF Tracks, Bounds
  <2>2. key # None
    BY <1>1, <1>2, <1>4, <1>6 DEF IsCall
  <2> QED BY <1>3, <1>7, <2>1, <2>2 DEF Tracks, Bounds
<1>10. Mine(C2, F2, k, v)
  <2>1. \A n : By(C2, "CREATE", k, key, n) => n = c.no
    BY <1>7 DEF By
  <2>2. \A n, p : By(C2, "POST", k, p, n) => By(C, "POST", k, p, n)
    BY <1>7 DEF By, SameKeys
  <2>3. ASSUME NEW n, By(C2, "POST", k, v.keys.post, n) PROVE F2[n] = v.form
    <3>1. By(C, "POST", k, v.keys.post, n)
      BY <2>2, <2>3
    <3>2. n \in No /\ F[n] # 0 /\ F[n] = v.form
      BY <3>1, ByIs DEF Tracks, Mine
    <3> QED BY <1>7, <3>2
  <2> QED BY <1>4, <1>6, <1>7, <2>1, <2>3 DEF Mine
<1>11. \A n : By(C, "CREATE", k, key, n) => By(C2, "CREATE", k, key, n)
  BY <1>7 DEF By
<1>12. Sure(d2, C2, F2, k, v)
  BY <1>3, <1>6, <1>8, <1>11 DEF Tracks, Sure
<1>13. Single(d2, F2, k)
  BY <1>8 DEF Tracks, Single
<1>14. Prints(C2, k, key, c.print)
  BY <1>7 DEF Prints
<1>15. Called(C2, k, v, c)
  BY <1>0, <1>2, <1>4, <1>6, <1>14 DEF Called
<1> QED BY <1>0, <1>9, <1>10, <1>12, <1>13, <1>15 DEF Tracks

LEMMA BookTracks ==
  ASSUME NEW d, NEW C, NEW F, Store(d, C, F), NEW k, NEW v, Waiting(v, k, F),
         Tracks(d, C, F, k, v), Called(C, k, v, v.call),
         NEW d2, NEW C2, NEW F2, BooksTarget(d, C, F, d2, C2, F2, k, v.call)
  PROVE  Tracks(d2, C2, F2, k, v) /\ Called(C2, k, v, v.call)
<1>0. PICK c : c = v.call
  OBVIOUS
<1>1. IsCall(c, k, F) /\ Sound(v, k, F)
  BY <1>0, WaitingIs DEF Waiting
<1>2. PICK n : Target(C, k, c, n) /\ Books(d, C, F, d2, C2, F2, c, n)
  BY <1>0 DEF BooksTarget
<1>3. /\ n \in No /\ n[1] = k /\ F[n] # 0 /\ c.keys.post \in Nat
      /\ v.form \in Nat /\ v.form # 0
  BY <1>1, <1>2, TargetIs, FormIs
<1>4. /\ c.op \in {"post", "finish", "complete"} /\ c.keys = v.keys
  BY <1>0, <1>2 DEF Target, Called
<1>5. PICK key \in Nat : key = c.keys.post
  BY <1>3
<1>6. Follows(k, d, C, F, d2, C2, F2) /\ BookLeaves(d, C, F, d2, C2, F2, k, key, n)
  BY <1>2, <1>3, <1>5, BooksFollows
<1>7. /\ F2 = F /\ St(d2, n) = "POSTED" /\ \A m \in No \ {n} : St(d2, m) = St(d, m)
      /\ \A e \in C2 : Under(e, "POST", k, key) => e.no = n
      /\ SameKeys(C, C2, "CREATE")
      /\ \A e \in C2 : e.kind = k => e \in C \/ e.key = key
      /\ Store(d2, C2, F2)
  BY <1>6 DEF BookLeaves, Follows
<1>8. \A m, p : By(C2, "CREATE", k, p, m) <=> By(C, "CREATE", k, p, m)
  BY <1>7 DEF By, SameKeys
\* What is posted is what the panel is sure of.
<1>9. \/ v.id # None /\ n = v.id
      \/ v.id = None /\ By(C, "CREATE", k, v.keys.create, n)
  <2>1. CASE c.op = "post"
    <3>1. n = v.note /\ v.note # None
      BY <1>0, <1>2, <2>1 DEF Target, Called
    <3> QED BY <1>1, <3>1, FormIs
  <2>2. CASE c.op = "finish"
    BY <1>0, <1>2, <2>2 DEF Target, Called
  <2>3. CASE c.op = "complete"
    BY <1>0, <1>2, <1>4, <2>3 DEF Target, Called
  <2> QED BY <1>4, <2>1, <2>2, <2>3
<1>10. F[n] = v.form
  BY <1>9 DEF Tracks, Mine
<1>11. Bounds(C2, F2, k, v)
  <2>1. key = v.keys["post"] /\ key # None
    BY <1>4, <1>5, PanelNumbers
  <2> QED BY <1>7, <2>1 DEF Tracks, Bounds
<1>12. Mine(C2, F2, k, v)
  <2>1. \A m : By(C2, "POST", k, key, m) => m = n
    BY <1>7 DEF By
  <2> QED BY <1>4, <1>5, <1>7, <1>8, <1>10, <2>1 DEF Tracks, Mine
<1>13. Sure(d2, C2, F2, k, v)
  <2> SUFFICES ASSUME NEW m, OfForm(d2, F2, k, v.form, m)
               PROVE  \/ v.id # None /\ m = v.id
                      \/ v.id = None /\ By(C2, "CREATE", k, v.keys.create, m)
    BY DEF Sure
  <2>1. CASE m = n
    BY <1>8, <1>9, <2>1
  <2>2. CASE m # n
    <3>1. OfForm(d, F, k, v.form, m)
      BY <1>7, <2>2 DEF OfForm
    <3> QED BY <1>8, <3>1 DEF Tracks, Sure
  <2> QED BY <2>1, <2>2
<1>14. Single(d2, F2, k)
  <2> SUFFICES ASSUME NEW form \in Nat \ {0}, NEW m1, NEW m2,
                      OfForm(d2, F2, k, form, m1), OfForm(d2, F2, k, form, m2)
               PROVE  m1 = m2
    BY DEF Single
  <2>1. CASE form = v.form
    <3>1. ASSUME v.id = None PROVE m1 = m2
      <4>1. By(C2, "CREATE", k, v.keys.create, m1) /\ By(C2, "CREATE", k, v.keys.create, m2)
        BY <1>13, <2>1, <3>1 DEF Sure
      <4> QED BY <1>7, <4>1, ByIs
    <3> QED BY <1>13, <2>1, <3>1 DEF Sure
  <2>2. CASE form # v.form
    <3>1. OfForm(d, F, k, form, m1) /\ OfForm(d, F, k, form, m2)
      BY <1>7, <1>10, <2>2 DEF OfForm
    <3> QED BY <3>1 DEF Tracks, Single
  <2> QED BY <2>1, <2>2
<1>15. Called(C2, k, v, c)
  <2>1. \A p, print : Prints(C, k, p, print) => Prints(C2, k, p, print)
    BY <1>7 DEF Prints, SameKeys
  <2> QED BY <1>0, <1>8, <2>1 DEF Called
<1> QED BY <1>0, <1>11, <1>12, <1>13, <1>14, <1>15 DEF Tracks

LEMMA HappensTracks ==
  ASSUME NEW d, NEW C, NEW F, Store(d, C, F), NEW k, NEW v, Waiting(v, k, F),
         Tracks(d, C, F, k, v), Called(C, k, v, v.call),
         NEW d2, NEW C2, NEW F2, Happens(d, C, F, d2, C2, F2, k, v.call)
  PROVE  Tracks(d2, C2, F2, k, v) /\ Called(C2, k, v, v.call)
<1>1. CASE d2 = d /\ C2 = C /\ F2 = F
  BY <1>1
<1>2. CASE DraftsAlone(d, C, F, d2, C2, F2, v.call)
  BY <1>2, DraftTracks
<1>3. CASE BooksTarget(d, C, F, d2, C2, F2, k, v.call)
  BY <1>3, BookTracks
<1>4. CASE DraftsAndBooks(d, C, F, d2, C2, F2, v.call)
  <2>1. IsCall(v.call, k, F) /\ Sound(v, k, F)
    BY WaitingIs DEF Waiting
  <2>2. PICK d1, C1, F1 :
          /\ DraftsAlone(d, C, F, d1, C1, F1, v.call) /\ BooksTarget(d1, C1, F1, d2, C2, F2, k, v.call)
          /\ Follows(k, d, C, F, d1, C1, F1)
    BY <1>4, <2>1, DraftThenBook
  <2>3. Store(d1, C1, F1) /\ \A n \in No : F[n] # 0 => F1[n] = F[n]
    BY <2>2 DEF Follows
  <2>4. Tracks(d1, C1, F1, k, v) /\ Called(C1, k, v, v.call)
    BY <2>2, DraftTracks
  <2>5. Waiting(v, k, F1)
    BY <2>1, <2>3, SoundLasts DEF Waiting
  <2> QED BY <2>2, <2>3, <2>4, <2>5, BookTracks
<1> QED BY <1>1, <1>2, <1>3, <1>4 DEF Happens

-----------------------------------------------------------------------------
(* What a panel does leaves it as careful as it was                        *)

\* The form and the count of the keys are as they were, and no key is new.
LEMMA TracksOn ==
  ASSUME NEW d, NEW C, NEW F, Store(d, C, F), NEW k, NEW v, Tracks(d, C, F, k, v),
         NEW w, SameRest(v, w), Drops(v, w.keys),
         w.id # None => F[w.id] = v.form, Sure(d, C, F, k, w)
  PROVE  Tracks(d, C, F, k, w)
<1>1. /\ w.form = v.form /\ w.drawn = v.drawn
      /\ w.keys.create \in {None, v.keys.create} /\ w.keys.post \in {None, v.keys.post}
  BY DEF SameRest, Drops
<1>2. Bounds(C, F, k, w)
  BY <1>1 DEF Tracks, Bounds
<1>3. ASSUME NEW n, By(C, "CREATE", k, w.keys.create, n) PROVE F[n] = w.form
  <2>1. w.keys.create # None
    BY <1>3, NoKeyUsed
  <2> QED BY <1>1, <1>3, <2>1 DEF Tracks, Mine
<1>4. ASSUME NEW n, By(C, "POST", k, w.keys.post, n) PROVE F[n] = w.form
  <2>1. w.keys.post # None
    BY <1>4, NoKeyUsed
  <2> QED BY <1>1, <1>4, <2>1 DEF Tracks, Mine
<1>5. Mine(C, F, k, w)
  BY <1>1, <1>3, <1>4 DEF Mine
<1> QED BY <1>2, <1>5 DEF Tracks

\* No key and no id is held, and nothing of the form has been posted.
LEMMA TracksAnew ==
  ASSUME NEW d, NEW C, NEW F, Store(d, C, F), NEW k, NEW v, Tracks(d, C, F, k, v),
         v.form \in Nat, NEW w, w.keys = NoKeys, w.id = None, w.drawn = v.drawn,
         \/ w.form = v.form /\ Nothing(d, F, k, v.form)
         \/ w.form = v.form + 1
  PROVE  Tracks(d, C, F, k, w) /\ Nothing(d, F, k, w.form)
<1>1. w.keys["create"] = None /\ w.keys["post"] = None
  BY KeysAre
<1>2. \A n \in No : n[1] = k => F[n] <= v.form /\ F[n] \in Nat
  BY DEF Tracks, Bounds, Store
<1>3. Bounds(C, F, k, w)
  BY <1>1, <1>2 DEF Tracks, Bounds
<1>4. Mine(C, F, k, w)
  BY <1>1, NoKeyUsed DEF Mine
<1>5. Nothing(d, F, k, w.form)
  <2>1. CASE w.form = v.form /\ Nothing(d, F, k, v.form)
    BY <2>1
  <2>2. CASE w.form = v.form + 1
    <3>1. \A n \in No : n[1] = k => F[n] # w.form
      BY <1>2, <2>2
    <3> QED BY <3>1 DEF Nothing, OfForm
  <2> QED BY <2>1, <2>2
<1>6. Sure(d, C, F, k, w)
  BY <1>5 DEF Nothing, Sure
<1> QED BY <1>3, <1>4, <1>5, <1>6 DEF Tracks

\* An open panel has nothing posted.
LEMMA OpenIsNothing ==
  ASSUME NEW d, NEW C, NEW F, Store(d, C, F), NEW k, NEW v, Sure(d, C, F, k, v),
         v.id = None, Unused(C, "CREATE", k, v.keys.create)
  PROVE  Nothing(d, F, k, v.form)
BY UnusedIs DEF Sure, Nothing

LEMMA ShowsCareful ==
  ASSUME NEW d, NEW C, NEW F, Store(d, C, F), NEW k, NEW v, Tracks(d, C, F, k, v), ~v.asking,
         NEW n \in No, F[n] = v.form, \A m : OfForm(d, F, k, v.form, m) => m = n,
         NEW w, NEW shown, NEW keys, Drops(v, keys), NEW told,
         Shows(v, w, n, shown, keys, told),
         told = "done" => OfForm(d, F, k, v.form, n),
         told \in {"failed", "none"} => Nothing(d, F, k, v.form)
  PROVE  Careful(d, C, F, k, w)
<1>1. /\ w.call = NoCall /\ w.note = n /\ w.id = n /\ w.keys = keys /\ w.told = told /\ ~w.asking
      /\ SameRest(v, w) /\ w.form = v.form
  BY DEF Shows, SameRest
<1>2. n # None
  BY PanelNumbers
<1>3. Sure(d, C, F, k, w)
  BY <1>1, <1>2 DEF Sure
<1>4. Tracks(d, C, F, k, w)
  BY <1>1, <1>3, TracksOn
<1>5. Honest(d, F, k, w)
  BY <1>1 DEF Honest
<1>6. Resting(C, k, w)
  BY <1>1, <1>2 DEF Resting, Open
<1> QED BY <1>1, <1>4, <1>5, <1>6 DEF Careful

LEMMA FailsCareful ==
  ASSUME NEW d, NEW C, NEW F, Store(d, C, F), NEW k, NEW v, Tracks(d, C, F, k, v), ~v.asking,
         v.keys \in Keys, v.note = None => v.id = None /\ Prints(C, k, v.keys.create, Entry(k, v)),
         NEW w, NEW unresolved, NEW keys, NEW told, Fails(v, w, unresolved, keys, told),
         \/ keys = v.keys /\ told = "unknown"
         \/ keys = NoKeys /\ told = "failed" /\ Nothing(d, F, k, v.form),
         ~unresolved /\ v.note = None => Unused(C, "CREATE", k, keys.create)
  PROVE  Careful(d, C, F, k, w)
<1>1. /\ w.call = NoCall /\ w.note = v.note /\ w.id = v.id /\ w.keys = keys /\ w.told = told /\ ~w.asking
      /\ SameRest(v, w) /\ w.form = v.form /\ w.unresolved = unresolved /\ Entry(k, w) = Entry(k, v)
  BY DEF Fails, SameRest, SameShown, SameEntry, Entry
<1>2. Drops(v, w.keys)
  BY <1>1, DropsIs
<1>3. Sure(d, C, F, k, w)
  BY <1>1 DEF Tracks, Sure, Nothing
<1>4. w.id # None => F[w.id] = v.form
  BY <1>1 DEF Tracks, Mine
<1>5. Tracks(d, C, F, k, w)
  BY <1>1, <1>2, <1>3, <1>4, TracksOn
<1>6. Honest(d, F, k, w)
  BY <1>1 DEF Honest
<1>7. \A print : Prints(C, k, NoKeys.create, print)
  BY KeysAre, NoKeyUsed, UnusedIs
<1>8. Resting(C, k, w)
  <2>1. v.note = None => Prints(C, k, keys.create, Entry(k, w))
    BY <1>1, <1>7
  <2> QED BY <1>1, <2>1 DEF Resting, Open
<1> QED BY <1>1, <1>5, <1>6, <1>8 DEF Careful

LEMMA TurnsCareful ==
  ASSUME NEW d, NEW C, NEW F, Store(d, C, F), NEW k, NEW v, Waiting(v, k, F),
         Tracks(d, C, F, k, v), Called(C, k, v, v.call),
         NEW w, NEW op, NEW n, Turns(v, w, op, n),
         \/ op = "stuck"
         \/ /\ op = "finish" /\ v.call.op = "draft"
            /\ By(C, "CREATE", k, v.keys.create, n) /\ St(d, n) = "DRAFT"
  PROVE  Careful(d, C, F, k, w)
<1>1. /\ v.call.op # "stuck" /\ v.keys \in Keys
  BY WaitingIs
<1>2. PICK c : c = w.call
  OBVIOUS
<1>3. PICK b : b = v.call
  OBVIOUS
<1>4. /\ c.op = op /\ c.no = n /\ c.keys = b.keys
      /\ DOMAIN c = DOMAIN b /\ w.keys = v.keys /\ w.told = v.told /\ w.asking = v.asking
      /\ w.note = v.note /\ w.id = v.id /\ SameRest(v, w) /\ w.form = v.form /\ w.line = v.line
  BY <1>2, <1>3 DEF Turns, SameShown, SameRest, SameEntry
<1>5. /\ v.told = "nothing" /\ v.line # None /\ ~v.asking /\ b.keys = v.keys
      /\ b.op = "draft" => v.note = None /\ v.id = None
      /\ v.note = None => v.id = None
  BY <1>1, <1>3 DEF Called
<1>6. Tracks(d, C, F, k, w)
  <2>1. Drops(v, w.keys)
    BY <1>1, <1>4, DropsIs
  <2>2. Sure(d, C, F, k, w)
    BY <1>4 DEF Tracks, Sure
  <2>3. w.id # None => F[w.id] = v.form
    BY <1>4 DEF Tracks, Mine
  <2> QED BY <1>4, <2>1, <2>2, <2>3, TracksOn
<1>7. Honest(d, F, k, w)
  BY <1>4, <1>5 DEF Honest
<1>8. c # NoCall
  BY <1>4 DEF NoCall
<1>9. Called(C, k, w, c)
  BY <1>3, <1>4, <1>5 DEF Called
<1>10. c.op = "finish" => St(d, c.no) = "DRAFT"
  BY <1>4
<1> QED BY <1>2, <1>6, <1>7, <1>8, <1>9, <1>10 DEF Careful

LEMMA MountsCareful ==
  ASSUME NEW d, NEW C, NEW F, Store(d, C, F), NEW k, NEW v, Tracks(d, C, F, k, v), v.keys \in Keys,
         NEW w, Mounts(v, w)
  PROVE  Careful(d, C, F, k, w)
<1>1. /\ w.call = NoCall /\ w.note = None /\ w.id = v.id /\ w.keys = v.keys /\ w.told = "nothing"
      /\ w.asking /\ w.unresolved /\ w.line = None /\ SameRest(v, w) /\ w.form = v.form
  BY DEF Mounts, SameRest
<1>2. Tracks(d, C, F, k, w)
  <2>1. Drops(v, w.keys)
    BY <1>1, DropsIs
  <2>2. Sure(d, C, F, k, w)
    BY <1>1 DEF Tracks, Sure
  <2>3. w.id # None => F[w.id] = v.form
    BY <1>1 DEF Tracks, Mine
  <2> QED BY <1>1, <2>1, <2>2, <2>3, TracksOn
<1>3. Honest(d, F, k, w)
  BY <1>1 DEF Honest
<1>4. Resting(C, k, w)
  BY <1>1 DEF Resting, Open
<1> QED BY <1>1, <1>2, <1>3, <1>4 DEF Careful

\* The call has been answered, with n.
LEMMA SaysCareful ==
  ASSUME NEW d, NEW C, NEW F, Store(d, C, F), NEW k, NEW v, Waiting(v, k, F),
         Tracks(d, C, F, k, v), Called(C, k, v, v.call),
         NEW n, Answers(d, C, k, v.call, n), NEW w, Says(v, w, d, n)
  PROVE  Careful(d, C, F, k, w)
<1>1. PICK c : c = v.call
  OBVIOUS
<1>2. c.op \in Ops \ {"stuck"} /\ Answers(d, C, k, c, n) /\ Called(C, k, v, c)
  BY <1>1, WaitingIs
<1>3. /\ n \in No /\ n[1] = k /\ F[n] # 0 /\ St(d, n) \in {"DRAFT", "POSTED"}
      /\ c.op \in {"post", "finish", "complete"} => St(d, n) = "POSTED"
  BY <1>2, AnswersIs
<1>4. c.keys = v.keys /\ ~v.asking /\ (c.op \in {"create", "draft"} => v.id = None)
  BY <1>2 DEF Called
<1>5. F[n] = v.form
  <2>1. By(C, "CREATE", k, v.keys.create, n) \/ By(C, "POST", k, v.keys.post, n)
    BY <1>2, <1>4 DEF Answers, Ops
  <2> QED BY <2>1 DEF Tracks, Mine
<1>6. v.form \in Nat \ {0}
  BY FormIs DEF Waiting
<1>7. ASSUME NEW m, OfForm(d, F, k, v.form, m) PROVE m = n
  <2>1. CASE St(d, n) = "POSTED"
    <3>1. OfForm(d, F, k, v.form, n)
      BY <1>3, <1>5, <2>1 DEF OfForm
    <3> QED BY <1>6, <1>7, <3>1 DEF Tracks, Single
  <2>2. CASE St(d, n) # "POSTED"
    <3>1. c.op \in {"create", "draft"}
      BY <1>2, <1>3, <2>2 DEF Ops
    <3>2. By(C, "CREATE", k, v.keys.create, n)
      BY <1>2, <1>4, <3>1 DEF Answers
    <3>3. By(C, "CREATE", k, v.keys.create, m)
      BY <1>4, <1>7, <3>1 DEF Tracks, Sure
    <3> QED BY <3>2, <3>3, ByIs
  <2> QED BY <2>1, <2>2
<1>8. St(d, n) = "POSTED" => OfForm(d, F, k, v.form, n)
  BY <1>3, <1>5 DEF OfForm
<1>9. CASE c.op = "draft" /\ St(d, n) = "DRAFT" /\ Turns(v, w, "finish", n)
  <2>1. By(C, "CREATE", k, v.keys.create, n)
    BY <1>2, <1>4, <1>9 DEF Answers
  <2> QED BY <1>1, <1>9, <2>1, TurnsCareful
<1>10. CASE \E keys, told : /\ Drops(v, keys) /\ Shows(v, w, n, St(d, n), keys, told)
                            /\ told \in {"done", "drafted"} /\ (told = "done" => St(d, n) = "POSTED")
  BY <1>3, <1>4, <1>5, <1>7, <1>8, <1>10, ShowsCareful
<1>11. ASSUME NEW keys, Drops(v, keys), c.op = "create", Shows(v, w, n, St(d, n), keys, "drafted")
       PROVE  Careful(d, C, F, k, w)
  BY <1>10, <1>11
<1>12. ASSUME NEW keys, Drops(v, keys), c.op \in {"post", "draft", "complete", "finish"},
              c.op = "draft" => St(d, n) # "DRAFT", Shows(v, w, n, St(d, n), keys, "done")
       PROVE  Careful(d, C, F, k, w)
  <2>1. St(d, n) = "POSTED"
    BY <1>3, <1>12
  <2> QED BY <1>10, <1>12, <2>1
<1> QED BY <1>1, <1>9, <1>11, <1>12 DEF Says

\* The call has been refused, and nothing has been done.
LEMMA ErrsCareful ==
  ASSUME NEW d, NEW C, NEW F, Store(d, C, F), NEW k, NEW v, Waiting(v, k, F),
         Careful(d, C, F, k, v), Refuses(d, C, k, v.call), NEW w, Errs(v, w)
  PROVE  Careful(d, C, F, k, w)
<1>0. Tracks(d, C, F, k, v) /\ v.keys \in Keys
  BY WaitingIs DEF Careful
<1>1. PICK c : c = v.call
  OBVIOUS
<1>2. /\ c.op \in Ops \ {"stuck"} /\ c.no \in No /\ Refuses(d, C, k, c) /\ Called(C, k, v, c)
      /\ c.op = "finish" => St(d, c.no) = "DRAFT"
  BY <1>1, WaitingIs DEF Careful, Waiting
<1>3. c.keys = v.keys /\ ~v.asking /\ (v.note = None => v.id = None)
  BY <1>2 DEF Called
<1>4. ASSUME c.op = "finish", NEW keys, Drops(v, keys), Shows(v, w, c.no, "DRAFT", keys, "failed")
      PROVE  Careful(d, C, F, k, w)
  <2>1. PICK n \in No : n = c.no
    BY <1>2
  <2>2. By(C, "CREATE", k, v.keys.create, n) /\ v.id = None /\ St(d, n) = "DRAFT"
    BY <1>2, <1>4, <2>1 DEF Called
  <2>3. F[n] = v.form
    BY <1>0, <2>2 DEF Tracks, Mine
  <2>4. ASSUME NEW m, OfForm(d, F, k, v.form, m) PROVE m = n
    <3>1. By(C, "CREATE", k, v.keys.create, m)
      BY <1>0, <2>2, <2>4 DEF Tracks, Sure
    <3> QED BY <2>2, <3>1, ByIs
  <2>5. Nothing(d, F, k, v.form)
    BY <2>2, <2>4 DEF Nothing, OfForm
  <2>6. Shows(v, w, n, "DRAFT", keys, "failed")
    BY <1>4, <2>1
  <2> QED BY <1>0, <1>3, <1>4, <2>3, <2>4, <2>5, <2>6, ShowsCareful
<1>5. CASE c.op \in {"create", "draft", "complete"}
  <2>1. v.note = None /\ v.id = None /\ Prints(C, k, v.keys.create, Entry(k, v)) /\ c.print = Entry(k, v)
    BY <1>2, <1>5 DEF Called
  <2>2. \/ Unused(C, "CREATE", k, v.keys.create)
        \/ c.op = "complete" /\ \E n : By(C, "CREATE", k, v.keys.create, n) /\ St(d, n) # "POSTED"
    BY <1>2, <1>3, <1>5, <2>1 DEF Refuses
  <2>3. Nothing(d, F, k, v.form)
    <3>1. CASE Unused(C, "CREATE", k, v.keys.create)
      BY <1>0, <2>1, <3>1, OpenIsNothing DEF Tracks
    <3>2. CASE \E n : By(C, "CREATE", k, v.keys.create, n) /\ St(d, n) # "POSTED"
      <4>1. PICK n : By(C, "CREATE", k, v.keys.create, n) /\ St(d, n) # "POSTED"
        BY <3>2
      <4>2. ASSUME NEW m, OfForm(d, F, k, v.form, m) PROVE FALSE
        <5>1. By(C, "CREATE", k, v.keys.create, m)
          BY <1>0, <2>1, <4>2 DEF Tracks, Sure
        <5>2. m = n
          BY <4>1, <5>1, ByIs
        <5> QED BY <4>1, <4>2, <5>2 DEF OfForm
      <4> QED BY <4>2 DEF Nothing
    <3> QED BY <2>2, <3>1, <3>2
  <2>4. CASE c.op = "create" /\ Fails(v, w, v.unresolved, v.keys, "unknown")
    <3>1. Unused(C, "CREATE", k, v.keys.create)
      BY <2>2, <2>4
    <3> QED BY <1>0, <1>3, <2>1, <2>4, <3>1, FailsCareful
  <2>5. CASE Fails(v, w, FALSE, NoKeys, "failed")
    <3>1. Unused(C, "CREATE", k, NoKeys.create)
      BY NoKeyUsed, KeysAre
    <3> QED BY <1>0, <1>3, <2>1, <2>3, <2>5, <3>1, FailsCareful
  <2> QED BY <1>1, <1>5, <2>4, <2>5 DEF Errs
<1>6. CASE c.op = "post" /\ Fails(v, w, v.unresolved, v.keys, "unknown")
  <2>1. v.note # None
    BY <1>2, <1>6 DEF Called
  <2> QED BY <1>0, <1>3, <1>6, <2>1, FailsCareful
<1> QED BY <1>1, <1>2, <1>4, <1>5, <1>6 DEF Errs, Ops

\* The answer has been lost.
LEMMA ThrowsCareful ==
  ASSUME NEW d, NEW C, NEW F, Store(d, C, F), NEW k, NEW v, Waiting(v, k, F),
         Tracks(d, C, F, k, v), Called(C, k, v, v.call), NEW w, Throws(v, w)
  PROVE  Careful(d, C, F, k, w)
<1>1. PICK c : c = v.call
  OBVIOUS
<1>2. c.op \in Ops \ {"stuck"} /\ c.no \in No /\ Called(C, k, v, c) /\ v.keys \in Keys
  BY <1>1, WaitingIs
<1>3. ~v.asking
  BY <1>2 DEF Called
<1>4. ASSUME c.op = "finish", NEW keys, Drops(v, keys), Shows(v, w, c.no, "DRAFT", keys, "unknown")
      PROVE  Careful(d, C, F, k, w)
  <2>1. PICK n \in No : n = c.no
    BY <1>2
  <2>2. By(C, "CREATE", k, v.keys.create, n) /\ v.id = None
    BY <1>2, <1>4, <2>1 DEF Called
  <2>3. F[n] = v.form
    BY <2>2 DEF Tracks, Mine
  <2>4. ASSUME NEW m, OfForm(d, F, k, v.form, m) PROVE m = n
    <3>1. By(C, "CREATE", k, v.keys.create, m)
      BY <2>2, <2>4 DEF Tracks, Sure
    <3> QED BY <2>2, <3>1, ByIs
  <2>5. Shows(v, w, n, "DRAFT", keys, "unknown")
    BY <1>4, <2>1
  <2> QED BY <1>3, <1>4, <2>3, <2>4, <2>5, ShowsCareful
<1>5. CASE Turns(v, w, "stuck", v.call.no)
  BY <1>5, TurnsCareful
<1>6. CASE c.op \in {"draft", "complete"} /\ Fails(v, w, TRUE, v.keys, "unknown")
  <2>1. v.id = None /\ Prints(C, k, v.keys.create, Entry(k, v))
    BY <1>2, <1>6 DEF Called
  <2> QED BY <1>2, <1>3, <1>6, <2>1, FailsCareful
<1> QED BY <1>1, <1>4, <1>5, <1>6 DEF Throws

\* What the panel does alone.
LEMMA ChoseCareful ==
  ASSUME NEW d, NEW C, NEW F, Store(d, C, F), NEW k, NEW v, Sound(v, k, F), Careful(d, C, F, k, v),
         NEW w, NEW l \in Line, Chose(v, w, l)
  PROVE  Careful(d, C, F, k, w)
<1>1. /\ v.form \in Nat /\ Tracks(d, C, F, k, v)
      /\ v.call = NoCall /\ v.note = None /\ ~v.unresolved /\ Resting(C, k, v)
  BY FormIs DEF Careful, Chose, Open
<1>2. v.id = None /\ Unused(C, "CREATE", k, v.keys.create) /\ ~v.asking
  BY <1>1 DEF Resting, Open
<1>3. Nothing(d, F, k, v.form)
  BY <1>1, <1>2, OpenIsNothing DEF Tracks
<1>4. /\ w.keys = NoKeys /\ w.id = None /\ w.drawn = v.drawn /\ w.note = None /\ w.call = NoCall
      /\ w.told = "nothing" /\ ~w.asking /\ w.form \in {v.form, v.form + 1}
  BY <1>1, <1>2 DEF Chose
<1>5. Tracks(d, C, F, k, w)
  BY <1>1, <1>3, <1>4, TracksAnew
<1>6. Unused(C, "CREATE", k, w.keys.create)
  BY <1>4, NoKeyUsed, KeysAre
<1>7. Resting(C, k, w)
  BY <1>4, <1>6, UnusedIs DEF Resting
<1> QED BY <1>4, <1>5, <1>7 DEF Careful, Honest

LEMMA EnteredCareful ==
  ASSUME NEW d, NEW C, NEW F, Store(d, C, F), NEW k, NEW v, Sound(v, k, F), Careful(d, C, F, k, v),
         NEW w, Entered(v, w)
  PROVE  Careful(d, C, F, k, w)
<1>1. /\ v.form \in Nat /\ Tracks(d, C, F, k, v) /\ Honest(d, F, k, v)
      /\ v.call = NoCall /\ v.note = None /\ ~v.unresolved /\ Resting(C, k, v)
  BY FormIs DEF Careful, Entered, Open
<1>2. v.id = None /\ Unused(C, "CREATE", k, v.keys.create) /\ ~v.asking
  BY <1>1 DEF Resting, Open
<1>3. Nothing(d, F, k, v.form)
  BY <1>1, <1>2, OpenIsNothing DEF Tracks
<1>4. /\ w.keys = NoKeys /\ w.id = None /\ w.drawn = v.drawn /\ w.note = v.note /\ w.call = NoCall
      /\ w.told = v.told /\ ~w.asking /\ w.form = v.form
  BY <1>1, <1>2 DEF Entered, SameShown, SameRest
<1>5. Tracks(d, C, F, k, w)
  BY <1>1, <1>3, <1>4, TracksAnew
<1>6. Unused(C, "CREATE", k, w.keys.create)
  BY <1>4, NoKeyUsed, KeysAre
<1>7. Resting(C, k, w)
  BY <1>4, <1>6, UnusedIs DEF Resting
<1>8. Honest(d, F, k, w)
  BY <1>1, <1>4 DEF Honest
<1> QED BY <1>4, <1>5, <1>7, <1>8 DEF Careful

LEMMA ReadCareful ==
  ASSUME NEW d, NEW C, NEW F, NEW k, NEW v, Careful(d, C, F, k, v), NEW w, Read(v, w)
  PROVE  Careful(d, C, F, k, w)
<1>1. /\ w.line = v.line /\ Entry(k, w) = Entry(k, v) /\ w.note = v.note /\ w.id = v.id
      /\ w.form = v.form /\ w.drawn = v.drawn /\ w.unresolved = v.unresolved /\ w.keys = v.keys
      /\ w.asking = v.asking /\ w.call = v.call /\ w.told = v.told
  BY DEF Read, SameShown, SameRest, Entry
<1>2. Tracks(d, C, F, k, w)
  BY <1>1 DEF Careful, Tracks, Bounds, Mine, Sure
<1>3. Honest(d, F, k, w)
  BY <1>1 DEF Careful, Honest
<1>4. w.call = NoCall => Resting(C, k, w)
  BY <1>1 DEF Careful, Resting, Open
<1>5. w.call # NoCall => Called(C, k, w, w.call)
  BY <1>1 DEF Careful, Called
<1> QED BY <1>1, <1>2, <1>3, <1>4, <1>5 DEF Careful

LEMMA AnotherCareful ==
  ASSUME NEW d, NEW C, NEW F, Store(d, C, F), NEW k, NEW v, Sound(v, k, F), Careful(d, C, F, k, v),
         NEW w, Another(v, w)
  PROVE  Careful(d, C, F, k, w)
<1>1. v.form \in Nat /\ Tracks(d, C, F, k, v) /\ v.call = NoCall /\ v.note # None /\ Resting(C, k, v)
  BY FormIs DEF Careful, Another
<1>2. /\ w.keys = NoKeys /\ w.id = None /\ w.drawn = v.drawn /\ w.note = None /\ w.line = None
      /\ w.call = NoCall /\ w.told = "nothing" /\ ~w.asking /\ w.form = v.form + 1
  BY <1>1 DEF Another, Resting
<1>3. Tracks(d, C, F, k, w)
  BY <1>1, <1>2, TracksAnew
<1>4. Unused(C, "CREATE", k, w.keys.create)
  BY <1>2, NoKeyUsed, KeysAre
<1>5. Resting(C, k, w)
  BY <1>2, <1>4 DEF Resting
<1> QED BY <1>2, <1>3, <1>5 DEF Careful, Honest

\* What the panel does when it has looked for its call.
LEMMA LookedCareful ==
  ASSUME NEW d, NEW C, NEW F, Store(d, C, F), NEW k, NEW v, Sound(v, k, F), Careful(d, C, F, k, v),
         NEW w, Opens(v, w) \/ StaysLocked(v, w) \/ (FindsNone(v, w) /\ FoundNone(C, k, v))
  PROVE  Careful(d, C, F, k, w)
<1>1. v.asking /\ v.keys \in Keys /\ v.form \in Nat
  BY FormIs DEF Opens, StaysLocked, FindsNone, Looked
<1>2. v.call = NoCall /\ Tracks(d, C, F, k, v)
  BY <1>1 DEF Careful, Called
<1>3. v.line = None /\ v.note = None /\ v.told = "nothing"
  BY <1>1, <1>2 DEF Careful, Resting
<1>4. ~w.asking /\ w.call = NoCall /\ w.line = None /\ w.note = None /\ SameRest(v, w) /\ w.form = v.form
      /\ w.drawn = v.drawn
  BY <1>2, <1>3 DEF Opens, StaysLocked, FindsNone, Looked, SameShown, SameRest
<1>5. \A op : Unused(C, op, k, NoKeys.create)
  BY NoKeyUsed, KeysAre
<1>6. CASE Opens(v, w) \/ StaysLocked(v, w)
  <2>1. w.keys = v.keys /\ w.id = v.id /\ w.told = "nothing"
    BY <1>3, <1>6 DEF Opens, StaysLocked, SameShown
  <2>2. Tracks(d, C, F, k, w)
    <3>1. Drops(v, w.keys)
      BY <1>1, <2>1, DropsIs
    <3>2. Sure(d, C, F, k, w)
      BY <1>2, <1>4, <2>1 DEF Tracks, Sure
    <3>3. w.id # None => F[w.id] = v.form
      BY <1>2, <2>1 DEF Tracks, Mine
    <3> QED BY <1>2, <1>4, <3>1, <3>2, <3>3, TracksOn
  <2>3. ~w.unresolved => w.id = None /\ w.keys = NoKeys
    BY <1>6, <2>1 DEF Opens, StaysLocked
  <2>4. Resting(C, k, w)
    BY <1>4, <1>5, <2>3 DEF Resting, Open
  <2> QED BY <1>4, <2>1, <2>2, <2>4 DEF Careful, Honest
<1>7. CASE FindsNone(v, w) /\ FoundNone(C, k, v)
  <2>1. w.keys = NoKeys /\ w.id = None /\ w.told = "none"
    BY <1>7 DEF FindsNone
  <2>2. Nothing(d, F, k, v.form)
    BY <1>2, <1>7, OpenIsNothing DEF FoundNone, Tracks
  <2>3. Tracks(d, C, F, k, w) /\ Nothing(d, F, k, w.form)
    BY <1>1, <1>2, <1>4, <2>1, <2>2, TracksAnew
  <2>4. Resting(C, k, w)
    BY <1>4, <1>5, <2>1 DEF Resting
  <2> QED BY <1>4, <2>1, <2>3, <2>4 DEF Careful, Honest
<1> QED BY <1>6, <1>7

LEMMA FindsCareful ==
  ASSUME NEW d, NEW C, NEW F, Store(d, C, F), NEW k, NEW v, Sound(v, k, F), Careful(d, C, F, k, v),
         NEW n, FoundUnder(C, k, v, n), n # None, NEW w, NEW shown, NEW l, Finds(v, w, n, shown, l)
  PROVE  Careful(d, C, F, k, w)
<1>1. v.asking /\ v.keys \in Keys
  BY FormIs DEF Finds, Looked
<1>2. v.call = NoCall /\ Tracks(d, C, F, k, v)
  BY <1>1 DEF Careful, Called
<1>3. /\ ~w.asking /\ w.call = NoCall /\ w.note = n /\ w.id = n /\ w.keys = v.keys
      /\ w.told = "recovered" /\ SameRest(v, w) /\ w.form = v.form
  BY <1>2 DEF Finds, Looked, SameRest
<1>4. F[n] = v.form
  BY <1>2 DEF FoundUnder, Tracks, Mine
<1>5. ASSUME NEW m, OfForm(d, F, k, v.form, m) PROVE m = n
  <2>1. CASE v.id # None
    BY <1>2, <1>5, <2>1 DEF FoundUnder, Tracks, Sure
  <2>2. CASE v.id = None
    <3>1. By(C, "CREATE", k, v.keys.create, m)
      BY <1>2, <1>5, <2>2 DEF Tracks, Sure
    <3>2. By(C, "CREATE", k, v.keys.create, n)
      BY <2>2, <3>1, UnusedIs DEF FoundUnder
    <3> QED BY <3>1, <3>2, ByIs
  <2> QED BY <2>1, <2>2
<1>6. Sure(d, C, F, k, w)
  BY <1>3, <1>5 DEF Sure
<1>7. Tracks(d, C, F, k, w)
  <2>1. Drops(v, w.keys)
    BY <1>1, <1>3, DropsIs
  <2> QED BY <1>2, <1>3, <1>4, <1>6, <2>1, TracksOn
<1>8. Resting(C, k, w)
  BY <1>3 DEF Resting, Open
<1> QED BY <1>3, <1>7, <1>8 DEF Careful, Honest

\* A button is pressed.
LEMMA PressedCareful ==
  ASSUME NEW d, NEW C, NEW F, Store(d, C, F), NEW k \in Kind \ Derived,
         NEW v, Sound(v, k, F), Careful(d, C, F, k, v),
         NEW w, NEW op, NEW used, Pressed(v, w, k, op, used),
         \/ op = "create" /\ Open(v)
         \/ op = "post" /\ v.shown = "DRAFT"
         \/ op \in {"draft", "complete"} /\ v.note = None
  PROVE  Careful(d, C, F, k, w)
<1>1. /\ v.call = NoCall /\ v.line # None /\ Tracks(d, C, F, k, v) /\ Resting(C, k, v) /\ v.drawn \in Nat
      /\ v.keys \in Keys
  BY FormIs DEF Careful, Pressed
<1>2. /\ w.form = v.form /\ w.id = v.id /\ w.note = v.note /\ w.line = v.line /\ w.asking = v.asking
      /\ w.told = "nothing" /\ Entry(k, w) = Entry(k, v) /\ w.drawn \in {v.drawn, v.drawn + 1}
      /\ IsDrawn(v, w, "create") /\ IsDrawn(v, w, "post")
  BY DEF Pressed, SameEntry, SameShown, Entry
<1>3. PICK old : old = v.keys
  OBVIOUS
<1>4. PICK new : new = w.keys
  OBVIOUS
<1>5. \A x \in {"create", "post"} :
        \/ new[x] = old[x]
        \/ old[x] = None /\ new[x] = v.drawn + 1 /\ w.drawn = v.drawn + 1
  BY <1>2, <1>3, <1>4 DEF IsDrawn
<1>6. /\ \A n \in No : n[1] = k => F[n] <= v.form
      /\ \A c \in C : c.kind = k => c.key <= v.drawn /\ c.key \in Nat
      /\ \A x \in {"create", "post"} : old[x] # None => old[x] <= v.drawn /\ old[x] \in Nat
  <2>1. \A x \in {"create", "post"} : old[x] # None => old[x] \in Nat
    BY <1>1, <1>3, KeysAre
  <2> QED BY <1>1, <1>3, <2>1 DEF Tracks, Bounds, Store, Journal, CommandSound
<1>7. Bounds(C, F, k, w)
  <2>1. \A c \in C : c.kind = k => c.key <= w.drawn
    BY <1>1, <1>2, <1>6
  <2>2. \A x \in {"create", "post"} : new[x] # None => new[x] <= w.drawn
    BY <1>1, <1>2, <1>5, <1>6
  <2> QED BY <1>2, <1>4, <1>6, <2>1, <2>2 DEF Bounds
\* A key that is new has not been used.
<1>8. \A o, x : x \in {"create", "post"} /\ new[x] # old[x] => Unused(C, o, k, new[x])
  BY <1>1, <1>5, <1>6 DEF Unused, Under
<1>9. Mine(C, F, k, w)
  <2>1. \A n : By(C, "CREATE", k, new.create, n) => F[n] = v.form
    BY <1>1, <1>3, <1>8, UnusedIs DEF Tracks, Mine
  <2>2. \A n : By(C, "POST", k, new.post, n) => F[n] = v.form
    BY <1>1, <1>3, <1>8, UnusedIs DEF Tracks, Mine
  <2> QED BY <1>1, <1>2, <1>4, <2>1, <2>2 DEF Tracks, Mine
<1>10. Sure(d, C, F, k, w)
  <2>1. \A n : By(C, "CREATE", k, old.create, n) => new.create = old.create
    BY <1>5, NoKeyUsed
  <2> QED BY <1>1, <1>2, <1>3, <1>4, <2>1 DEF Tracks, Sure
<1>11. Tracks(d, C, F, k, w)
  BY <1>1, <1>7, <1>9, <1>10 DEF Tracks
<1>12. v.note = None => v.id = None /\ Prints(C, k, new.create, Entry(k, v))
  <2>1. v.note = None => v.id = None /\ Prints(C, k, old.create, Entry(k, v))
    BY <1>1, <1>3 DEF Resting
  <2> QED BY <1>8, <2>1, UnusedIs
<1>13. PICK c : c = w.call
  OBVIOUS
<1>14. /\ c.op = op /\ c.no = Number(k, v) /\ c.line = v.line /\ c.delta = v.delta /\ c.form = v.form
       /\ c.keys = w.keys /\ c.print = <<c.no, c.line, c.delta>>
  BY <1>13 DEF Pressed, IsPressed
<1>15. /\ v.note # None => Number(k, v) = v.note
       /\ v.note = None => Number(k, v) = <<k, v.no>>
  BY NumberIs DEF Pressed
<1>16. /\ op \in {"create", "draft", "complete"} => v.note = None
       /\ op = "post" => v.note # None
       /\ op \in {"create", "draft", "complete", "post"}
  BY DEF Open, Sound
<1>17. v.note = None => c.print = Entry(k, w)
  BY <1>2, <1>14, <1>15 DEF Entry
<1>18. ~w.asking
  BY <1>1, <1>2 DEF Resting
<1>19. Called(C, k, w, c)
  BY <1>1, <1>2, <1>4, <1>12, <1>14, <1>15, <1>16, <1>17, <1>18 DEF Called
<1>20. c # NoCall /\ c.op # "finish"
  BY <1>14, <1>16 DEF NoCall
<1>21. Honest(d, F, k, w)
  BY <1>2 DEF Honest
<1> QED BY <1>11, <1>13, <1>19, <1>20, <1>21 DEF Careful

\* What others do, and the other panels, does not concern the panel.
LEMMA AgreesCareful ==
  ASSUME NEW d, NEW C, NEW F, Store(d, C, F), NEW k, NEW v, Sound(v, k, F), Careful(d, C, F, k, v),
         NEW d2, NEW C2, NEW F2, Agrees(k, d, C, F, d2, C2, F2)
  PROVE  Careful(d2, C2, F2, k, v)
<1>1. /\ v.form # 0 /\ v.form \in Nat
      /\ v.id # None => v.id \in No /\ v.id[1] = k
  BY FormIs
<1>2. /\ \A n \in No : n[1] = k => F2[n] = F[n] /\ (F[n] # 0 => St(d2, n) = St(d, n))
      /\ \A c : c.kind = k => (c \in C <=> c \in C2)
  BY DEF Agrees
<1>3. /\ \A op, key, n : By(C2, op, k, key, n) <=> By(C, op, k, key, n)
      /\ \A op, key : Unused(C2, op, k, key) <=> Unused(C, op, k, key)
      /\ \A key, print : Prints(C2, k, key, print) <=> Prints(C, k, key, print)
  BY <1>2 DEF By, Unused, Prints, Under
<1>4. \A form, n : form # 0 => (OfForm(d2, F2, k, form, n) <=> OfForm(d, F, k, form, n))
  BY <1>2 DEF OfForm
<1>5. Tracks(d, C, F, k, v) /\ Honest(d, F, k, v)
  BY DEF Careful
<1>6. Bounds(C2, F2, k, v)
  BY <1>2, <1>5 DEF Tracks, Bounds
<1>7. Mine(C2, F2, k, v)
  <2>1. ASSUME NEW op, NEW key, NEW n, By(C, op, k, key, n) PROVE F2[n] = F[n]
    <3>1. n \in No /\ n[1] = k
      BY <2>1, ByIs
    <3> QED BY <1>2, <3>1
  <2>2. v.id # None => F2[v.id] = F[v.id]
    BY <1>1, <1>2
  <2> QED BY <1>3, <1>5, <2>1, <2>2 DEF Tracks, Mine
<1>8. PICK form : form = v.form
  OBVIOUS
<1>9. \A n : OfForm(d2, F2, k, form, n) <=> OfForm(d, F, k, form, n)
  BY <1>1, <1>4, <1>8
<1>10. Sure(d2, C2, F2, k, v)
  <2>1. Sure(d, C, F, k, v)
    BY <1>5 DEF Tracks
  <2> SUFFICES ASSUME NEW n, OfForm(d2, F2, k, form, n)
               PROVE  \/ v.id # None /\ n = v.id
                      \/ v.id = None /\ By(C2, "CREATE", k, v.keys.create, n)
    BY <1>8 DEF Sure
  <2>2. OfForm(d, F, k, form, n)
    BY <1>9
  <2>3. \/ v.id # None /\ n = v.id
        \/ v.id = None /\ By(C, "CREATE", k, v.keys.create, n)
    BY <1>8, <2>1, <2>2 DEF Sure
  <2> QED BY <1>3, <2>3
<1>11. Single(d2, F2, k)
  BY <1>4, <1>5 DEF Tracks, Single
<1>12. Honest(d2, F2, k, v)
  BY <1>5, <1>8, <1>9 DEF Honest, Nothing
<1>13. v.call = NoCall => Resting(C2, k, v)
  BY <1>3 DEF Careful, Resting
<1>14. v.call # NoCall => Called(C2, k, v, v.call)
  <2>1. PICK c : c = v.call
    OBVIOUS
  <2>2. v.call # NoCall => Called(C, k, v, c)
    BY <2>1 DEF Careful
  <2>3. Called(C, k, v, c) => Called(C2, k, v, c)
    BY <1>3 DEF Called
  <2> QED BY <2>1, <2>2, <2>3
<1>15. ASSUME v.call # NoCall, v.call.op = "finish" PROVE St(d2, v.call.no) = "DRAFT"
  <2>1. PICK c : c = v.call
    OBVIOUS
  <2>2. IsCall(c, k, F) /\ c.op = "finish" /\ St(d, c.no) = "DRAFT"
    BY <1>15, <2>1 DEF Careful, Sound
  <2>3. c.no \in No /\ c.no[1] = k /\ F[c.no] # 0
    BY <2>2, CallIs
  <2> QED BY <1>2, <2>1, <2>2, <2>3
<1> QED BY <1>6, <1>7, <1>10, <1>11, <1>12, <1>13, <1>14, <1>15 DEF Careful, Tracks

CarefulNow(k) == Careful(db, commands, forms, k, panel[k])
CarefulNext(k) == Careful(db', commands', forms', k, panel'[k])

LEMMA LocalCareful ==
  ASSUME NEW k, NEW v, NEW w, Becomes(k, v, w), Stays, Careful(db, commands, forms, k, w)
  PROVE  CarefulNext(k)
BY DEF Becomes, Stays, CarefulNext

\* After a call has reached the tables, or has not.
LEMMA CallCareful ==
  ASSUME TypeInv, NEW k, NEW v, Waiting(v, k, forms), Careful(db, commands, forms, k, v),
         Reached(k, v.call)
  PROVE  \E d, C, F :
           /\ d = db' /\ C = commands' /\ F = forms'
           /\ Store(d, C, F) /\ Waiting(v, k, F) /\ Tracks(d, C, F, k, v) /\ Called(C, k, v, v.call)
<1>1. PICK d, C, F : d = db' /\ C = commands' /\ F = forms'
  OBVIOUS
<1>2. IsCall(v.call, k, forms) /\ Sound(v, k, forms) /\ v.call # NoCall
  BY WaitingIs DEF Waiting
<1>3. Store(db, commands, forms) /\ Tracks(db, commands, forms, k, v) /\ Called(commands, k, v, v.call)
  BY <1>2 DEF TypeInv, Careful
<1>4. Happens(db, commands, forms, d, C, F, k, v.call)
  BY <1>1 DEF Reached
<1>5. Follows(k, db, commands, forms, d, C, F)
  BY <1>2, <1>3, <1>4, HappensFollows
<1>6. Store(d, C, F) /\ \A n \in No : forms[n] # 0 => F[n] = forms[n]
  BY <1>5 DEF Follows
<1>7. Waiting(v, k, F)
  BY <1>2, <1>6, SoundLasts DEF Waiting
<1>8. Tracks(d, C, F, k, v) /\ Called(C, k, v, v.call)
  BY <1>3, <1>4, HappensTracks
<1> QED BY <1>1, <1>6, <1>7, <1>8

LEMMA StepCareful ==
  ASSUME TypeInv, LossForms \subseteq {"thrown"}, NEW k \in Kind \ Derived, CarefulNow(k), PanelStep(k)
  PROVE  CarefulNext(k)
<1>0. Panels /\ Store(db, commands, forms)
  BY DEF TypeInv
<1>1. ASSUME NEW v, NEW w, Becomes(k, v, w) PROVE Careful(db, commands, forms, k, v) /\ panel'[k] = w /\ v = panel[k]
  BY <1>1 DEF Becomes, CarefulNow
<1>2. ASSUME NEW l \in Line, ChooseLine(k, l) PROVE CarefulNext(k)
  <2>1. PICK v, w : Becomes(k, v, w) /\ Sound(v, k, forms) /\ Chose(v, w, l)
    BY <1>0, <1>2, ChooseLineIs
  <2>2. Stays
    BY <1>2 DEF ChooseLine, Local, Stays
  <2>3. Careful(db, commands, forms, k, w)
    BY <1>0, <1>1, <2>1, ChoseCareful
  <2> QED BY <2>1, <2>2, <2>3, LocalCareful
<1>3. CASE (\E delta \in Delta : EnterDelta(k, delta)) \/ EnterNumber(k)
  <2>1. PICK v, w : Becomes(k, v, w) /\ Sound(v, k, forms) /\ Entered(v, w)
    BY <1>0, <1>3, EnterDeltaIs, EnterNumberIs
  <2>2. Stays
    BY <1>3 DEF EnterDelta, EnterNumber, Local, Stays
  <2>3. Careful(db, commands, forms, k, w)
    BY <1>0, <1>1, <2>1, EnteredCareful
  <2> QED BY <2>1, <2>2, <2>3, LocalCareful
<1>4. CASE HistoryArrives(k)
  <2>1. PICK v, w : Becomes(k, v, w) /\ Sound(v, k, forms) /\ Read(v, w)
    BY <1>0, <1>4, HistoryArrivesIs
  <2>2. Stays
    BY <1>4 DEF HistoryArrives, Local, Stays
  <2>3. Careful(db, commands, forms, k, w)
    BY <1>1, <2>1, ReadCareful
  <2> QED BY <2>1, <2>2, <2>3, LocalCareful
<1>5. CASE CreateDraft(k) \/ PostDraft(k) \/ CompleteCorrection(k)
  <2>1. PICK v, w : /\ Becomes(k, v, w) /\ Sound(v, k, forms)
                    /\ \/ Pressed(v, w, k, "create", {"create"}) /\ v.delta # None /\ Open(v)
                       \/ Pressed(v, w, k, "post", {"post"}) /\ v.shown = "DRAFT"
                       \/ \E op \in {"draft", "complete"} :
                            /\ Pressed(v, w, k, op, {"create", "post"})
                            /\ v.delta # None /\ v.note = None
    BY <1>0, <1>5, ButtonsAre
  <2>2. Stays
    BY <1>5 DEF CreateDraft, PostDraft, CompleteCorrection, Press, Local, Stays
  <2>3. Careful(db, commands, forms, k, w)
    BY <1>0, <1>1, <2>1, PressedCareful
  <2> QED BY <2>1, <2>2, <2>3, LocalCareful
<1>6. CASE StartAnother(k)
  <2>1. PICK v, w : Becomes(k, v, w) /\ Sound(v, k, forms) /\ Another(v, w)
    BY <1>0, <1>6, StartAnotherIs
  <2>2. Stays
    BY <1>6 DEF StartAnother, Local, Stays
  <2>3. Careful(db, commands, forms, k, w)
    BY <1>0, <1>1, <2>1, AnotherCareful
  <2> QED BY <2>1, <2>2, <2>3, LocalCareful
<1>7. CASE Answered(k)
  <2>1. PICK v, w : /\ Becomes(k, v, w) /\ Waiting(v, k, forms)
                    /\ \/ Stays /\ Refuses(db, commands, k, v.call) /\ Errs(v, w)
                       \/ /\ Reached(k, v.call)
                          /\ \E n : Answers(db', commands', k, v.call, n) /\ Says(v, w, db', n)
    BY <1>0, <1>7, AnsweredIs
  <2>2. CASE Stays /\ Refuses(db, commands, k, v.call) /\ Errs(v, w)
    <3>1. Careful(db, commands, forms, k, w)
      BY <1>0, <1>1, <2>1, <2>2, ErrsCareful
    <3> QED BY <2>1, <2>2, <3>1, LocalCareful
  <2>3. CASE /\ Reached(k, v.call)
             /\ \E n : Answers(db', commands', k, v.call, n) /\ Says(v, w, db', n)
    <3>1. PICK n : Answers(db', commands', k, v.call, n) /\ Says(v, w, db', n)
      BY <2>3
    <3>2. PICK d, C, F : /\ d = db' /\ C = commands' /\ F = forms'
                         /\ Store(d, C, F) /\ Waiting(v, k, F) /\ Tracks(d, C, F, k, v)
                         /\ Called(C, k, v, v.call)
      BY <1>1, <2>1, <2>3, CallCareful
    <3>3. Careful(d, C, F, k, w)
      BY <3>1, <3>2, SaysCareful
    <3> QED BY <1>1, <2>1, <3>2, <3>3 DEF CarefulNext
  <2> QED BY <2>1, <2>2, <2>3
<1>8. CASE Lost(k)
  <2>1. PICK v, w : /\ Becomes(k, v, w) /\ Waiting(v, k, forms) /\ Reached(k, v.call)
                    /\ \/ Throws(v, w)
                       \/ LossForms # {"thrown"} /\ LossForms # {} /\ Errs(v, w)
    BY <1>0, <1>8, LostIs
  <2>2. Throws(v, w)
    BY <2>1
  <2>3. PICK d, C, F : /\ d = db' /\ C = commands' /\ F = forms'
                       /\ Store(d, C, F) /\ Waiting(v, k, F) /\ Tracks(d, C, F, k, v)
                       /\ Called(C, k, v, v.call)
    BY <1>1, <2>1, CallCareful
  <2>4. Careful(d, C, F, k, w)
    BY <2>2, <2>3, ThrowsCareful
  <2> QED BY <1>1, <2>1, <2>3, <2>4 DEF CarefulNext
<1>9. CASE Reload(k)
  <2>1. PICK v, w : Becomes(k, v, w) /\ Sound(v, k, forms) /\ Mounts(v, w)
    BY <1>0, <1>9, ReloadIs
  <2>2. v.keys \in Keys /\ Careful(db, commands, forms, k, v)
    BY <1>1, <2>1, FormIs
  <2>3. CASE Stays
    <3>1. Careful(db, commands, forms, k, w)
      BY <1>0, <2>1, <2>2, MountsCareful DEF Careful
    <3> QED BY <2>1, <2>3, <3>1, LocalCareful
  <2>4. CASE Waiting(v, k, forms) /\ Reached(k, v.call)
    <3>1. PICK d, C, F : /\ d = db' /\ C = commands' /\ F = forms'
                         /\ Store(d, C, F) /\ Tracks(d, C, F, k, v)
      BY <2>2, <2>4, CallCareful
    <3>2. Careful(d, C, F, k, w)
      BY <2>1, <2>2, <3>1, MountsCareful
    <3> QED BY <1>1, <2>1, <3>1, <3>2 DEF CarefulNext
  <2> QED BY <1>0, <1>9, <1>1, <2>1, <2>3, <2>4, ReloadReaches
<1>10. CASE Recovered(k)
  <2>1. PICK v, w : /\ Becomes(k, v, w) /\ Sound(v, k, forms)
                    /\ \/ Opens(v, w)
                       \/ \E n : /\ n # None /\ FoundUnder(commands, k, v, n)
                                 /\ Finds(v, w, n, St(db, n), db.note[n].line)
                       \/ FindsNone(v, w) /\ FoundNone(commands, k, v)
    BY <1>0, <1>10, RecoveredIs
  <2>2. Stays
    BY <1>10 DEF Recovered, Local, Stays
  <2>3. Careful(db, commands, forms, k, w)
    BY <1>0, <1>1, <2>1, LookedCareful, FindsCareful
  <2> QED BY <2>1, <2>2, <2>3, LocalCareful
<1>11. CASE StatusFails(k)
  <2>1. PICK v, w : Becomes(k, v, w) /\ Sound(v, k, forms) /\ StaysLocked(v, w)
    BY <1>0, <1>11, StatusFailsIs
  <2>2. Stays
    BY <1>11 DEF StatusFails, Stays
  <2>3. Careful(db, commands, forms, k, w)
    BY <1>0, <1>1, <2>1, LookedCareful
  <2> QED BY <2>1, <2>2, <2>3, LocalCareful
<1> QED BY <1>2, <1>3, <1>4, <1>5, <1>6, <1>7, <1>8, <1>9, <1>10, <1>11 DEF PanelStep

-----------------------------------------------------------------------------
(* The panels whose number is typed are safe                               *)

SafeInv == TypeInv /\ \A k \in Kind \ Derived : CarefulNow(k)

LEMMA InitCareful ==
  ASSUME PanelInit
  PROVE  SafeInv
<1>1. TypeInv
  BY InitTypes
<1>2. PICK v : v = Mounted(Kept)
  OBVIOUS
<1>3. /\ v.line = None /\ v.note = None /\ v.unresolved = TRUE /\ v.call = NoCall
      /\ v.told = "nothing" /\ v.keys = NoKeys /\ v.id = None /\ v.form = 1 /\ v.drawn = 0
  BY <1>2 DEF Mounted, Kept
<1>4. PICK d, C, F : d = db /\ C = commands /\ F = forms
  OBVIOUS
<1>5. C = {} /\ \A n \in No : F[n] = 0
  BY <1>4 DEF PanelInit
<1>6. ASSUME NEW k PROVE Careful(d, C, F, k, v)
  <2>1. \A form, n : form # 0 => ~OfForm(d, F, k, form, n)
    BY <1>5 DEF OfForm
  <2>2. \A op, key, n : ~By(C, op, k, key, n)
    BY <1>5 DEF By
  <2>3. v.keys["create"] = None /\ v.keys["post"] = None
    BY <1>3, KeysAre
  <2>4. Bounds(C, F, k, v)
    BY <1>3, <1>5, <2>3 DEF Bounds
  <2>5. Mine(C, F, k, v)
    BY <1>3, <2>2 DEF Mine
  <2>6. Sure(d, C, F, k, v)
    BY <1>3, <2>1 DEF Sure
  <2>7. Single(d, F, k)
    BY <2>1 DEF Single
  <2>8. Resting(C, k, v)
    BY <1>3 DEF Resting, Open
  <2> QED BY <1>3, <2>4, <2>5, <2>6, <2>7, <2>8 DEF Careful, Tracks, Honest
<1>7. \A k \in Kind : panel[k] = v
  BY <1>2 DEF PanelInit
<1> QED BY <1>1, <1>4, <1>6, <1>7 DEF SafeInv, CarefulNow

LEMMA OthersCareful ==
  ASSUME TypeInv, Others, NEW k \in Kind, CarefulNow(k)
  PROVE  CarefulNext(k)
<1>1. /\ commands' = commands /\ forms' = forms /\ panel' = panel
      /\ Agrees(k, db, commands, forms, db', commands, forms)
  BY OthersFollow
<1>2. PICK v : v = panel[k]
  OBVIOUS
<1>3. Store(db, commands, forms) /\ Sound(v, k, forms) /\ Careful(db, commands, forms, k, v)
  BY <1>2 DEF TypeInv, Panels, CarefulNow
<1>4. PICK d : d = db'
  OBVIOUS
<1>5. Careful(d, commands, forms, k, v)
  BY <1>1, <1>3, <1>4, AgreesCareful
<1> QED BY <1>1, <1>2, <1>4, <1>5 DEF CarefulNext

\* What panel j does is nothing to panel k.
LEMMA OtherPanelCareful ==
  ASSUME TypeInv, NEW j \in Kind, PanelStep(j), NEW k \in Kind \ {j}, CarefulNow(k)
  PROVE  CarefulNext(k)
<1>1. PICK u, w : Becomes(j, u, w) /\ FollowsNow(j)
  BY StepTypes DEF Moved
<1>2. PICK v : v = panel[k]
  OBVIOUS
<1>3. panel'[k] = v
  BY <1>1, <1>2 DEF Becomes, TypeInv, Panels
<1>4. Store(db, commands, forms) /\ Sound(v, k, forms) /\ Careful(db, commands, forms, k, v)
  BY <1>2 DEF TypeInv, Panels, CarefulNow
<1>5. PICK d, C, F : d = db' /\ C = commands' /\ F = forms'
  OBVIOUS
<1>6. Agrees(k, db, commands, forms, d, C, F)
  BY <1>1, <1>5 DEF FollowsNow, Follows
<1>7. Careful(d, C, F, k, v)
  BY <1>4, <1>6, AgreesCareful
<1> QED BY <1>3, <1>5, <1>7 DEF CarefulNext

LEMMA NextCareful ==
  ASSUME LossForms \subseteq {"thrown"}, SafeInv, [PanelNext]_vars
  PROVE  SafeInv'
<1>1. TypeInv'
  BY NextTypes DEF SafeInv
<1>2. TypeInv
  BY DEF SafeInv
<1>3. ASSUME NEW k \in Kind \ Derived PROVE CarefulNext(k)
  <2>1. CarefulNow(k)
    BY DEF SafeInv
  <2>2. CASE Others
    BY <1>2, <2>1, <2>2, OthersCareful
  <2>3. ASSUME NEW j \in Kind, PanelStep(j) PROVE CarefulNext(k)
    <3>1. CASE j = k
      BY <1>2, <2>1, <2>3, <3>1, StepCareful
    <3>2. CASE j # k
      BY <1>2, <2>1, <2>3, <3>2, OtherPanelCareful
    <3> QED BY <3>1, <3>2
  <2>4. CASE UNCHANGED vars
    BY <2>1, <2>4 DEF vars, CarefulNow, CarefulNext
  <2> QED BY <2>2, <2>3, <2>4 DEF PanelNext
<1>4. \A k \in Kind \ Derived : CarefulNow(k)'
  BY <1>3 DEF CarefulNow, CarefulNext
<1> QED BY <1>1, <1>4 DEF SafeInv

\* What the invariant says of the panel of kind k.
PostsOnce(k) == \A form \in 1 .. panel[k].form : Cardinality(PostedOf(k, form)) <= 1
TellsTheTruth(k) ==
  /\ panel[k].told = "done" => panel[k].note \in PostedOf(k, panel[k].form)
  /\ panel[k].told \in {"failed", "none"} => PostedOf(k, panel[k].form) = {}

LEMMA CarefulIsSafe ==
  ASSUME SafeInv, NEW k \in Kind \ Derived
  PROVE  PostsOnce(k) /\ TellsTheTruth(k)
<1>1. PICK v : v = panel[k]
  OBVIOUS
<1>2. Sound(v, k, forms) /\ Careful(db, commands, forms, k, v)
  BY <1>1 DEF SafeInv, TypeInv, Panels, CarefulNow
<1>3. \A form, n : n \in PostedOf(k, form) <=> OfForm(db, forms, k, form, n)
  BY DEF PostedOf, OfForm, St
<1>4. ASSUME NEW form \in 1 .. v.form PROVE Cardinality(PostedOf(k, form)) <= 1
  <2>1. form \in Nat \ {0}
    BY <1>2, FormIs
  <2>2. PICK S : S = PostedOf(k, form)
    OBVIOUS
  <2>3. \A n, m \in S : n = m
    BY <1>2, <1>3, <2>1, <2>2 DEF Careful, Tracks, Single
  <2>4. CASE S = {}
    BY <2>2, <2>4, FS_EmptySet
  <2>5. CASE S # {}
    <3>1. PICK n : n \in S
      BY <2>5
    <3>2. S = {n}
      BY <2>3, <3>1
    <3> QED BY <2>2, <3>2, FS_Singleton
  <2> QED BY <2>4, <2>5
<1>5. Honest(db, forms, k, v)
  BY <1>2 DEF Careful
<1>6. TellsTheTruth(k)
  BY <1>1, <1>3, <1>5 DEF TellsTheTruth, Honest, Nothing
<1> QED BY <1>1, <1>4, <1>6 DEF PostsOnce

(* A panel whose number is typed, beside any number of others of which the *)
(* number may be derived: where the browser throws when an answer is lost, *)
(* it posts what the user meant as one correction at most once, and tells  *)
(* the truth of it.                                                        *)
THEOREM TypedPanelsAreSafe ==
  ASSUME LossForms \subseteq {"thrown"}
  PROVE  PanelSpec => [](\A k \in Kind \ Derived : PostsOnce(k) /\ TellsTheTruth(k))
<1>1. PanelInit => SafeInv
  BY InitCareful
<1>2. SafeInv /\ [PanelNext]_vars => SafeInv'
  BY NextCareful
<1>3. SafeInv => \A k \in Kind \ Derived : PostsOnce(k) /\ TellsTheTruth(k)
  BY CarefulIsSafe
<1> QED BY <1>1, <1>2, <1>3, PTL DEF PanelSpec

(* Where every number is typed, no form is posted twice: a press again, a  *)
(* reload and an answer that is lost find the correction they have made.   *)
THEOREM FormsPostOnce ==
  ASSUME LossForms \subseteq {"thrown"}, Derived = {}
  PROVE  PanelSpec => []OneCorrectionPerForm
<1>1. (\A k \in Kind \ Derived : PostsOnce(k) /\ TellsTheTruth(k)) => OneCorrectionPerForm
  BY DEF OneCorrectionPerForm, PostsOnce
<1> QED BY <1>1, TypedPanelsAreSafe, PTL

(* ... and what the panel says of its correction is so.                    *)
THEOREM PanelsTellTheTruth ==
  ASSUME LossForms \subseteq {"thrown"}, Derived = {}
  PROVE  PanelSpec => []ToldTheTruth
<1>1. (\A k \in Kind \ Derived : PostsOnce(k) /\ TellsTheTruth(k)) => ToldTheTruth
  BY DEF ToldTheTruth, TellsTheTruth
<1> QED BY <1>1, TypedPanelsAreSafe, PTL
=============================================================================
