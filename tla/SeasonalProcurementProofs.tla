---------------------- MODULE SeasonalProcurementProofs ----------------------
(***************************************************************************)
(* Theorems about SeasonalProcurement, for any number of revisions, orders,*)
(* receipts, screens and desks, and any quantities.                        *)
(***************************************************************************)
EXTENDS SeasonalProcurement, SumLemmas

-----------------------------------------------------------------------------
(* What the sums over receipts and orders come to                          *)

LEMMA PostedToFinite ==
  ASSUME NEW d, NEW o
  PROVE  PostedTo(d, o) \subseteq Receipt /\ IsFiniteSet(PostedTo(d, o))
<1>1. PostedTo(d, o) \subseteq Receipt
  BY DEF PostedTo
<1> QED BY <1>1, FS_Subset, ProcurementConstants

LEMMA AcceptedType ==
  ASSUME NEW d \in Purchase, NEW o
  PROVE  Accepted(d, o) \in Int /\ AcceptedAtFirst(d, o) \in Int
<1> DEFINE f == [r \in Receipt |-> d.receipt[r].entry.accepted]
           g == [r \in Receipt |-> d.receipt[r].entry.accepted + d.receipt[r].corrected.accepted]
<1>1. \A r \in Receipt : f[r] \in Int /\ g[r] \in Int
  BY DEF Purchase, ReceiptRow, Quantities
<1> HIDE DEF f, g
<1>2. SumFunctionOnSet(f, PostedTo(d, o)) \in Int /\ SumFunctionOnSet(g, PostedTo(d, o)) \in Int
  BY <1>1, PostedToFinite, SumType
<1> QED BY <1>2 DEF f, g, Accepted, AcceptedAtFirst

\* What has been accepted of an order depends on its posted receipts only.
LEMMA AcceptedSame ==
  ASSUME NEW d, NEW e, NEW o, PostedTo(e, o) = PostedTo(d, o),
         \A r \in PostedTo(d, o) : /\ e.receipt[r].entry = d.receipt[r].entry
                                   /\ e.receipt[r].corrected = d.receipt[r].corrected
  PROVE  Accepted(e, o) = Accepted(d, o) /\ AcceptedAtFirst(e, o) = AcceptedAtFirst(d, o)
<1> DEFINE f(x) == [r \in Receipt |-> x.receipt[r].entry.accepted]
           g(x) == [r \in Receipt |-> x.receipt[r].entry.accepted + x.receipt[r].corrected.accepted]
<1>1. \A r \in PostedTo(d, o) : f(e)[r] = f(d)[r] /\ g(e)[r] = g(d)[r]
  BY PostedToFinite
<1> HIDE DEF f, g
<1>2. /\ SumFunctionOnSet(f(e), PostedTo(d, o)) = SumFunctionOnSet(f(d), PostedTo(d, o))
      /\ SumFunctionOnSet(g(e), PostedTo(d, o)) = SumFunctionOnSet(g(d), PostedTo(d, o))
  BY <1>1, PostedToFinite, SumSame
<1> QED BY <1>2 DEF f, g, Accepted, AcceptedAtFirst

LEMMA NothingAccepted ==
  ASSUME NEW d, NEW o, PostedTo(d, o) = {}
  PROVE  Accepted(d, o) = 0
BY SumEmpty DEF Accepted

\* A receipt that is posted adds what it accepted and what of it was corrected.
LEMMA AcceptedPosted ==
  ASSUME NEW d \in Purchase, NEW e \in Purchase, NEW o, NEW r \in Receipt \ PostedTo(d, o),
         PostedTo(e, o) = PostedTo(d, o) \cup {r},
         \A s \in Receipt : /\ e.receipt[s].entry = d.receipt[s].entry
                            /\ e.receipt[s].corrected = d.receipt[s].corrected
  PROVE  Accepted(e, o) =
           Accepted(d, o) + d.receipt[r].entry.accepted + d.receipt[r].corrected.accepted
<1> DEFINE g(x) == [s \in Receipt |-> x.receipt[s].entry.accepted + x.receipt[s].corrected.accepted]
           P == PostedTo(d, o)
<1>1. g(e) = g(d)
  OBVIOUS
<1>2. \A s \in Receipt : g(d)[s] \in Int
  BY DEF Purchase, ReceiptRow, Quantities
<1>3. g(d)[r] = d.receipt[r].entry.accepted + d.receipt[r].corrected.accepted
  OBVIOUS
<1>4. Accepted(e, o) = SumFunctionOnSet(g(e), P \cup {r}) /\ Accepted(d, o) = SumFunctionOnSet(g(d), P)
  BY DEF Accepted
<1>5. IsFiniteSet(P) /\ P \subseteq Receipt /\ r \notin P
  BY PostedToFinite
<1> HIDE DEF g, P
<1>6. SumFunctionOnSet(g(d), P \cup {r}) = g(d)[r] + SumFunctionOnSet(g(d), P)
  BY <1>2, <1>5, SumAdd
<1>7. Accepted(d, o) \in Int /\ d.receipt[r].entry.accepted \in Int /\ d.receipt[r].corrected.accepted \in Int
  BY AcceptedType, SMTT(30) DEF Purchase, ReceiptRow, Quantities
<1> QED BY <1>1, <1>3, <1>4, <1>6, <1>7, SMTT(30)

\* A correction of a posted receipt changes what was accepted by as much.
LEMMA AcceptedCorrected ==
  ASSUME NEW d \in Purchase, NEW e \in Purchase, NEW o, NEW r \in PostedTo(d, o), NEW c \in Int,
         PostedTo(e, o) = PostedTo(d, o),
         \A s \in Receipt : e.receipt[s].entry = d.receipt[s].entry,
         \A s \in Receipt \ {r} : e.receipt[s].corrected = d.receipt[s].corrected,
         e.receipt[r].corrected.accepted = d.receipt[r].corrected.accepted + c
  PROVE  Accepted(e, o) = Accepted(d, o) + c
<1> DEFINE g(x) == [s \in Receipt |-> x.receipt[s].entry.accepted + x.receipt[s].corrected.accepted]
           P == PostedTo(d, o)
<1>1. IsFiniteSet(P) /\ P \subseteq Receipt /\ r \in Receipt
  BY PostedToFinite
<1>2. \A s \in P : g(d)[s] \in Int /\ g(e)[s] \in Int
  BY <1>1 DEF Purchase, ReceiptRow, Quantities
<1>3. \A s \in P \ {r} : g(d)[s] = g(e)[s]
  BY <1>1
<1>4. g(e)[r] = g(d)[r] + c
  BY <1>1 DEF Purchase, ReceiptRow, Quantities
<1>5. Accepted(e, o) = SumFunctionOnSet(g(e), P) /\ Accepted(d, o) = SumFunctionOnSet(g(d), P)
  BY DEF Accepted
<1> HIDE DEF g, P
<1>6. SumFunctionOnSet(g(e), P) = SumFunctionOnSet(g(d), P) - g(d)[r] + g(e)[r]
  <2>1. r \in P
    BY DEF P
  <2> QED BY <1>1, <1>2, <1>3, <2>1, SumChange
<1>7. g(d)[r] \in Int /\ Accepted(d, o) \in Int
  BY <1>2, AcceptedType DEF P
<1> QED BY <1>4, <1>5, <1>6, <1>7

\* Corrections that only take back leave no more than was posted.
LEMMA AcceptedNotAboveFirst ==
  ASSUME NEW d \in Purchase, NEW o, \A r \in Receipt : d.receipt[r].corrected.accepted <= 0
  PROVE  Accepted(d, o) <= AcceptedAtFirst(d, o)
<1> DEFINE f == [r \in Receipt |-> d.receipt[r].entry.accepted]
           g == [r \in Receipt |-> d.receipt[r].entry.accepted + d.receipt[r].corrected.accepted]
<1>1. \A r \in Receipt : f[r] \in Int /\ g[r] \in Int /\ g[r] <= f[r]
  BY DEF Purchase, ReceiptRow, Quantities
<1> HIDE DEF f, g
<1>2. SumFunctionOnSet(g, PostedTo(d, o)) <= SumFunctionOnSet(f, PostedTo(d, o))
  BY <1>1, PostedToFinite, SumMonotone
<1> QED BY <1>2 DEF f, g, Accepted, AcceptedAtFirst

LEMMA TakesType ==
  ASSUME NEW d \in Purchase, NEW o \in Order
  PROVE  /\ Takes(d, o, Accepted(d, o)) \in Int
         /\ Takes(d, o, AcceptedAtFirst(d, o)) \in Int
BY AcceptedType DEF Takes, Purchase

LEMMA AllocatedType ==
  ASSUME NEW d \in Purchase
  PROVE  Allocated(d) \in Int /\ AllocatedAsCorrected(d) \in Int
<1> DEFINE f == [o \in Order |-> Takes(d, o, AcceptedAtFirst(d, o))]
           g == [o \in Order |-> Takes(d, o, Accepted(d, o))]
<1>1. \A o \in Order : f[o] \in Int /\ g[o] \in Int
  BY TakesType
<1>2. DOMAIN f = Order /\ DOMAIN g = Order
  OBVIOUS
<1> HIDE DEF f, g
<1>3. SumFunctionOnSet(f, Order) \in Int /\ SumFunctionOnSet(g, Order) \in Int
  BY <1>1, SumType, ProcurementConstants
<1> QED BY <1>2, <1>3 DEF f, g, Allocated, AllocatedAsCorrected, SumFunction

\* Orders that take no more each take no more together.
LEMMA AllocatedMonotone ==
  ASSUME NEW d \in Purchase, NEW e \in Purchase,
         \A o \in Order : Takes(e, o, Accepted(e, o)) <= Takes(d, o, Accepted(d, o))
  PROVE  AllocatedAsCorrected(e) <= AllocatedAsCorrected(d)
<1> DEFINE g(x) == [o \in Order |-> Takes(x, o, Accepted(x, o))]
<1>1. \A o \in Order : g(d)[o] \in Int /\ g(e)[o] \in Int /\ g(e)[o] <= g(d)[o]
  BY TakesType
<1>2. DOMAIN g(d) = Order /\ DOMAIN g(e) = Order
  OBVIOUS
<1>3. AllocatedAsCorrected(d) = SumFunction(g(d)) /\ AllocatedAsCorrected(e) = SumFunction(g(e))
  BY DEF AllocatedAsCorrected
<1> HIDE DEF g
<1>4. SumFunctionOnSet(g(e), Order) <= SumFunctionOnSet(g(d), Order)
  BY <1>1, SumMonotone, ProcurementConstants
<1> QED BY <1>2, <1>3, <1>4 DEF SumFunction

LEMMA AllocatedNotAboveFirst ==
  ASSUME NEW d \in Purchase, \A r \in Receipt : d.receipt[r].corrected.accepted <= 0
  PROVE  AllocatedAsCorrected(d) <= Allocated(d)
<1> DEFINE f == [o \in Order |-> Takes(d, o, AcceptedAtFirst(d, o))]
           g == [o \in Order |-> Takes(d, o, Accepted(d, o))]
<1>1. \A o \in Order : f[o] \in Int /\ g[o] \in Int /\ g[o] <= f[o]
  BY TakesType, AcceptedNotAboveFirst DEF Takes
<1>2. DOMAIN f = Order /\ DOMAIN g = Order
  OBVIOUS
<1>3. Allocated(d) = SumFunction(f) /\ AllocatedAsCorrected(d) = SumFunction(g)
  BY DEF Allocated, AllocatedAsCorrected
<1> HIDE DEF f, g
<1>4. SumFunctionOnSet(g, Order) <= SumFunctionOnSet(f, Order)
  BY <1>1, SumMonotone, ProcurementConstants
<1> QED BY <1>2, <1>3, <1>4 DEF SumFunction

\* One order takes another quantity.
LEMMA AllocatedChange ==
  ASSUME NEW d \in Purchase, NEW e \in Purchase, NEW o \in Order,
         \A p \in Order \ {o} : Takes(e, p, Accepted(e, p)) = Takes(d, p, Accepted(d, p))
  PROVE  AllocatedAsCorrected(e) =
           AllocatedAsCorrected(d) - Takes(d, o, Accepted(d, o)) + Takes(e, o, Accepted(e, o))
<1> DEFINE g(x) == [p \in Order |-> Takes(x, p, Accepted(x, p))]
<1>1. \A p \in Order : g(d)[p] \in Int /\ g(e)[p] \in Int
  BY TakesType
<1>2. \A p \in Order \ {o} : g(d)[p] = g(e)[p]
  OBVIOUS
<1>3. DOMAIN g(d) = Order /\ DOMAIN g(e) = Order
  OBVIOUS
<1>4. AllocatedAsCorrected(d) = SumFunction(g(d)) /\ AllocatedAsCorrected(e) = SumFunction(g(e))
  BY DEF AllocatedAsCorrected
<1>5. g(d)[o] = Takes(d, o, Accepted(d, o)) /\ g(e)[o] = Takes(e, o, Accepted(e, o))
  OBVIOUS
<1> HIDE DEF g
<1>6. SumFunctionOnSet(g(e), Order) = SumFunctionOnSet(g(d), Order) - g(d)[o] + g(e)[o]
  BY <1>1, <1>2, SumChange, ProcurementConstants
<1> QED BY <1>3, <1>4, <1>5, <1>6 DEF SumFunction

LEMMA NothingAllocated ==
  ASSUME NEW d, \A o \in Order : d.order[o].status = "NONE"
  PROVE  AllocatedAsCorrected(d) = 0
<1> DEFINE g == [o \in Order |-> Takes(d, o, Accepted(d, o))]
<1>1. \A o \in Order : g[o] = 0
  BY DEF Takes
<1>2. DOMAIN g = Order
  OBVIOUS
<1>3. AllocatedAsCorrected(d) = SumFunction(g)
  BY DEF AllocatedAsCorrected
<1> HIDE DEF g
<1> QED BY <1>1, <1>2, <1>3, SumZero, ProcurementConstants DEF SumFunction

-----------------------------------------------------------------------------
(* What is always so of the database: the parts of the invariant           *)

\* A receipt there is belongs to an order that was made, and an order was
\* made under a limit.
Refers(d) ==
  /\ \A r \in Receipt : d.receipt[r].status # "NONE" =>
       /\ d.receipt[r].order \in Order
       /\ d.order[d.receipt[r].order].status # "NONE"
  /\ \A o \in Order : d.order[o].status # "NONE" => d.limit # Nobody

\* OrderTellsProgress and WithinOrderAndLimit of any state of the database.
Tells(d) ==
  \A o \in Order : d.order[o].status \notin Ended \cup {"NONE"} =>
    (d.order[o].status = "RECEIVED" <=> Complete(d, o))

OnlyTakenBack(d) == \A r \in Receipt : d.receipt[r].corrected.accepted <= 0

Within(d) ==
  ~d.added =>
    /\ OnlyTakenBack(d)
    /\ \A o \in Order : Accepted(d, o) <= d.order[o].quantity
    /\ d.limit # Nobody => AllocatedAsCorrected(d) <= d.limit

Good(d) == d \in Purchase /\ Refers(d) /\ Tells(d) /\ Within(d)

\* What is cancelled has received nothing.
CancelledIsEmpty(d) ==
  \A o \in Order : d.order[o].status = "CANCELLED" => PostedTo(d, o) = {}

\* What any step does to orders that have ended, or end with it.
Final(d, e) ==
  \A o \in Order :
    IF d.order[o].status \in Ended
      THEN e.order[o] = d.order[o] /\ PostedTo(e, o) = PostedTo(d, o)
      ELSE e.order[o].status = "CANCELLED" => PostedTo(e, o) = {}

-----------------------------------------------------------------------------
(* Each transaction of purchasing keeps them                               *)

\* The orders and the limit change, the receipts do not.
LEMMA SameReceipts ==
  ASSUME NEW d, NEW e, e.receipt = d.receipt
  PROVE  \A o \in Order : /\ PostedTo(e, o) = PostedTo(d, o)
                          /\ Accepted(e, o) = Accepted(d, o)
                          /\ AcceptedAtFirst(e, o) = AcceptedAtFirst(d, o)
<1> TAKE o \in Order
<1>1. PostedTo(e, o) = PostedTo(d, o)
  BY DEF PostedTo
<1> QED BY <1>1, AcceptedSame

\* The purchase with another status of one of its orders.
WithStatus(d, o, s) == [d EXCEPT !.order[o].status = s]

\* What such a change leaves: everything but that status.
OnlyStatus(d, o, s, e) ==
  /\ e \in Purchase
  /\ e.receipt = d.receipt /\ e.added = d.added /\ e.limit = d.limit
  /\ e.order[o].status = s /\ e.order[o].quantity = d.order[o].quantity
  /\ \A p \in Order \ {o} : e.order[p] = d.order[p]

LEMMA StatusChange ==
  ASSUME NEW d \in Purchase, NEW o \in Order, NEW s \in OrderStatus,
         NEW e, e = WithStatus(d, o, s)
  PROVE  OnlyStatus(d, o, s, e)
BY DEF Purchase, WithStatus, OnlyStatus

LEMMA ReceiptChange ==
  ASSUME NEW d \in Purchase, NEW r \in Receipt, NEW x \in ReceiptRow
  PROVE  LET e == [d EXCEPT !.receipt[r] = x]
         IN  /\ e \in Purchase
             /\ e.order = d.order /\ e.added = d.added /\ e.limit = d.limit
             /\ e.general = d.general /\ e.changes = d.changes
             /\ e.receipt[r] = x
             /\ \A s \in Receipt \ {r} : e.receipt[s] = d.receipt[s]
BY DEF Purchase

LEMMA DecideKeeps ==
  ASSUME NEW d, Good(d), NEW q \in Quantity, d.limit = Nobody
  PROVE  Good([d EXCEPT !.limit = q]) /\ Final(d, [d EXCEPT !.limit = q])
<1> DEFINE e == [d EXCEPT !.limit = q]
<1>1. d \in Purchase /\ Refers(d) /\ Tells(d) /\ Within(d)
  BY DEF Good
<1>2. e \in Purchase /\ e.receipt = d.receipt /\ e.order = d.order /\ e.added = d.added /\ e.limit = q
  BY <1>1 DEF Purchase
<1>3. \A o \in Order : d.order[o].status = "NONE"
  BY <1>1 DEF Refers
<1> HIDE DEF e
<1>4. AllocatedAsCorrected(e) = 0
  BY <1>2, <1>3, NothingAllocated
<1>5. Refers(e)
  BY <1>1, <1>2, <1>3 DEF Refers
<1>6. Tells(e)
  BY <1>2, <1>3 DEF Tells
<1>7. Within(e)
  BY <1>1, <1>2, <1>4, SameReceipts, ProcurementConstants DEF Within, OnlyTakenBack
<1>8. Final(d, e)
  BY <1>2 DEF Final, PostedTo, Ended
<1> QED BY <1>2, <1>5, <1>6, <1>7, <1>8 DEF Good, e

LEMMA ChangeLimitKeeps ==
  ASSUME NEW d, Good(d), NEW q \in Quantity, Allocated(d) <= q
  PROVE  Good([d EXCEPT !.limit = q]) /\ Final(d, [d EXCEPT !.limit = q])
<1> DEFINE e == [d EXCEPT !.limit = q]
<1>1. d \in Purchase /\ Refers(d) /\ Tells(d) /\ Within(d)
  BY DEF Good
<1>2. e \in Purchase /\ e.receipt = d.receipt /\ e.order = d.order /\ e.added = d.added /\ e.limit = q
  BY <1>1 DEF Purchase
<1> HIDE DEF e
<1>3. \A o \in Order : Accepted(e, o) = Accepted(d, o) /\ Takes(e, o, Accepted(e, o)) = Takes(d, o, Accepted(d, o))
  BY <1>2, SameReceipts DEF Takes
<1>4. AllocatedAsCorrected(e) <= AllocatedAsCorrected(d)
  BY <1>1, <1>2, <1>3, TakesType, AllocatedMonotone
<1>5. Refers(e)
  BY <1>1, <1>2, ProcurementConstants DEF Refers
<1>6. Tells(e)
  BY <1>1, <1>2, <1>3 DEF Tells, Complete
<1>7. ASSUME ~d.added PROVE AllocatedAsCorrected(e) <= q
  <2>1. AllocatedAsCorrected(d) <= Allocated(d)
    BY <1>1, <1>7, AllocatedNotAboveFirst DEF Within, OnlyTakenBack
  <2> QED BY <1>1, <1>2, <1>4, <2>1, AllocatedType, ProcurementConstants
<1>8. Within(e)
  BY <1>1, <1>2, <1>3, <1>7 DEF Within, OnlyTakenBack
<1>9. Final(d, e)
  BY <1>2 DEF Final, PostedTo, Ended
<1> QED BY <1>2, <1>5, <1>6, <1>8, <1>9 DEF Good, e

LEMMA CreateOrderKeeps ==
  ASSUME NEW d, Good(d), NEW o \in Order, NEW q \in Quantity,
         d.limit # Nobody, q > 0, d.order[o].status = "NONE", Allocated(d) + q <= d.limit
  PROVE  LET n == [d EXCEPT !.order[o] = [status |-> "ORDERED", quantity |-> q]]
         IN  Good(n) /\ Final(d, n)
<1> DEFINE e == [d EXCEPT !.order[o] = [status |-> "ORDERED", quantity |-> q]]
<1>1. d \in Purchase /\ Refers(d) /\ Tells(d) /\ Within(d)
  BY DEF Good
<1>2. /\ e \in Purchase /\ e.receipt = d.receipt /\ e.added = d.added /\ e.limit = d.limit
      /\ e.order[o] = [status |-> "ORDERED", quantity |-> q]
      /\ \A p \in Order \ {o} : e.order[p] = d.order[p]
  BY <1>1, ProcurementConstants DEF Purchase, OrderStatus, Open
<1> HIDE DEF e
<1>3. \A p \in Order : Accepted(e, p) = Accepted(d, p)
  BY <1>2, SameReceipts
<1>4. PostedTo(d, o) = {} /\ Accepted(d, o) = 0
  <2>1. PostedTo(d, o) = {}
    BY <1>1 DEF PostedTo, Refers
  <2> QED BY <2>1, NothingAccepted
<1>5. AllocatedAsCorrected(e) = AllocatedAsCorrected(d) + q
  <2>1. \A p \in Order \ {o} : Takes(e, p, Accepted(e, p)) = Takes(d, p, Accepted(d, p))
    BY <1>2, <1>3 DEF Takes
  <2>2. Takes(e, o, Accepted(e, o)) = q /\ Takes(d, o, Accepted(d, o)) = 0
    BY <1>2 DEF Takes
  <2> QED BY <1>1, <1>2, <2>1, <2>2, AllocatedChange, AllocatedType, ProcurementConstants
<1>6. Refers(e)
  BY <1>1, <1>2 DEF Refers
<1>7. Tells(e)
  <2> SUFFICES ASSUME NEW p \in Order, e.order[p].status \notin Ended \cup {"NONE"}
               PROVE  e.order[p].status = "RECEIVED" <=> Complete(e, p)
    BY DEF Tells
  <2>1. CASE p = o
    BY <1>2, <1>3, <1>4, <2>1, ProcurementConstants DEF Complete
  <2>2. CASE p # o
    BY <1>1, <1>2, <1>3, <2>2 DEF Tells, Complete
  <2> QED BY <2>1, <2>2
<1>8. Within(e)
  <2> SUFFICES ASSUME ~d.added
               PROVE  /\ OnlyTakenBack(e)
                      /\ \A p \in Order : Accepted(e, p) <= e.order[p].quantity
                      /\ AllocatedAsCorrected(e) <= e.limit
    BY <1>2 DEF Within
  <2>1. OnlyTakenBack(d) /\ OnlyTakenBack(e)
    BY <1>1, <1>2 DEF Within, OnlyTakenBack
  <2>2. AllocatedAsCorrected(d) <= Allocated(d)
    BY <1>1, <2>1, AllocatedNotAboveFirst DEF OnlyTakenBack
  <2>3. AllocatedAsCorrected(e) <= e.limit
    <3>1. d.limit \in Nat /\ q \in Nat
      BY <1>1, ProcurementConstants DEF Purchase
    <3> QED BY <1>1, <1>2, <1>5, <2>2, <3>1, AllocatedType
  <2>4. ASSUME NEW p \in Order PROVE Accepted(e, p) <= e.order[p].quantity
    BY <1>1, <1>2, <1>3, <1>4, ProcurementConstants DEF Within
  <2> QED BY <2>1, <2>3, <2>4
<1>9. Final(d, e)
  BY <1>2 DEF Final, PostedTo, Ended
<1> QED BY <1>2, <1>6, <1>7, <1>8, <1>9 DEF Good, e

LEMMA ChangeQuantityKeeps ==
  ASSUME NEW d, Good(d), NEW o \in Order, NEW q \in Quantity, NEW s \in OrderStatus,
         d.order[o].status \notin Ended \cup {"NONE"}, Accepted(d, o) <= q,
         Allocated([d EXCEPT !.order[o].quantity = q]) <= d.limit,
         s = IF d.order[o].status = "RECEIVED" /\ q > Accepted(d, o) THEN "REOPENED"
             ELSE IF q = Accepted(d, o) THEN "RECEIVED" ELSE d.order[o].status
  PROVE  LET n == [[d EXCEPT !.order[o].quantity = q] EXCEPT !.order[o].status = s]
         IN  Good(n) /\ Final(d, n)
<1> DEFINE m == [d EXCEPT !.order[o].quantity = q]
           e == [m EXCEPT !.order[o].status = s]
<1>1. d \in Purchase /\ Refers(d) /\ Tells(d) /\ Within(d)
  BY DEF Good
<1>2. /\ m \in Purchase /\ m.receipt = d.receipt /\ m.added = d.added /\ m.limit = d.limit
      /\ m.order[o].status = d.order[o].status /\ m.order[o].quantity = q
      /\ \A p \in Order \ {o} : m.order[p] = d.order[p]
  BY <1>1, ProcurementConstants DEF Purchase
<1> HIDE DEF m
<1>3. /\ e \in Purchase /\ e.receipt = d.receipt /\ e.added = d.added /\ e.limit = d.limit
      /\ e.order[o].status = s /\ e.order[o].quantity = q
      /\ \A p \in Order \ {o} : e.order[p] = d.order[p]
  <2>1. e = WithStatus(m, o, s)
    BY DEF WithStatus
  <2> HIDE DEF e
  <2>2. OnlyStatus(m, o, s, e)
    BY <1>2, <2>1, StatusChange
  <2> QED BY <1>2, <2>2 DEF OnlyStatus
<1> HIDE DEF e
<1>4. \A p \in Order : Accepted(e, p) = Accepted(d, p) /\ Accepted(m, p) = Accepted(d, p)
  BY <1>2, <1>3, SameReceipts
<1>5. s \notin Ended \cup {"NONE"}
  BY DEF Ended
<1>6. Accepted(d, o) \in Int /\ q \in Nat
  BY <1>1, AcceptedType, ProcurementConstants
<1>7. Refers(e)
  BY <1>1, <1>3, <1>5 DEF Refers
<1>8. Tells(e)
  <2> SUFFICES ASSUME NEW p \in Order, e.order[p].status \notin Ended \cup {"NONE"}
               PROVE  e.order[p].status = "RECEIVED" <=> Complete(e, p)
    BY DEF Tells
  <2>1. CASE p = o
    BY <1>3, <1>4, <1>6, <2>1 DEF Complete
  <2>2. CASE p # o
    BY <1>1, <1>3, <1>4, <2>2 DEF Tells, Complete
  <2> QED BY <2>1, <2>2
<1>9. Within(e)
  <2> SUFFICES ASSUME ~d.added, d.limit # Nobody
               PROVE  AllocatedAsCorrected(e) <= d.limit
    BY <1>1, <1>3, <1>4 DEF Within, OnlyTakenBack
  <2>1. AllocatedAsCorrected(m) <= Allocated(m)
    BY <1>1, <1>2, AllocatedNotAboveFirst DEF Within, OnlyTakenBack
  <2>2. \A p \in Order : Takes(e, p, Accepted(e, p)) = Takes(m, p, Accepted(m, p))
    BY <1>2, <1>3, <1>4, <1>5 DEF Takes, Ended
  <2>3. AllocatedAsCorrected(e) <= AllocatedAsCorrected(m)
    BY <1>2, <1>3, <2>2, TakesType, AllocatedMonotone
  <2>4. d.limit \in Nat
    BY <1>1, ProcurementConstants DEF Purchase
  <2>5. Allocated(m) <= d.limit
    BY DEF m
  <2> QED BY <1>2, <1>3, <2>1, <2>3, <2>4, <2>5, AllocatedType
<1>10. Final(d, e)
  BY <1>3, <1>5 DEF Final, PostedTo, Ended
<1> QED BY <1>3, <1>7, <1>8, <1>9, <1>10 DEF Good, e, m

LEMMA EndOrderKeeps ==
  ASSUME NEW d, Good(d), NEW o \in Order, d.order[o].status \in Open, NEW s \in Ended,
         PostedTo(d, o) # {} => s # "CANCELLED"
  PROVE  Good([d EXCEPT !.order[o].status = s]) /\ Final(d, [d EXCEPT !.order[o].status = s])
<1> DEFINE e == [d EXCEPT !.order[o].status = s]
<1>1. d \in Purchase /\ Refers(d) /\ Tells(d) /\ Within(d)
  BY DEF Good
<1>2. /\ e \in Purchase /\ e.receipt = d.receipt /\ e.added = d.added /\ e.limit = d.limit
      /\ e.order[o] = [status |-> s, quantity |-> d.order[o].quantity]
      /\ \A p \in Order \ {o} : e.order[p] = d.order[p]
  BY <1>1 DEF Purchase, OrderStatus
<1> HIDE DEF e
<1>3. \A p \in Order : Accepted(e, p) = Accepted(d, p)
  BY <1>2, SameReceipts
<1>4. Refers(e)
  BY <1>1, <1>2 DEF Refers, Ended, Open
<1>5. Tells(e)
  BY <1>1, <1>2, <1>3 DEF Tells, Complete
<1>6. Within(e)
  <2> SUFFICES ASSUME ~d.added, d.limit # Nobody
               PROVE  AllocatedAsCorrected(e) <= d.limit
    BY <1>1, <1>2, <1>3 DEF Within, OnlyTakenBack
  <2>1. Accepted(d, o) <= d.order[o].quantity /\ d.order[o].quantity \in Nat
    BY <1>1 DEF Within, Purchase
  <2>2. Takes(e, o, Accepted(e, o)) <= Takes(d, o, Accepted(d, o))
    BY <1>1, <1>2, <1>3, <2>1, AcceptedType DEF Takes, Ended, Open
  <2>3. \A p \in Order \ {o} : Takes(e, p, Accepted(e, p)) = Takes(d, p, Accepted(d, p))
    BY <1>2, <1>3 DEF Takes
  <2>4. AllocatedAsCorrected(e) <= AllocatedAsCorrected(d)
    BY <1>1, <1>2, <2>2, <2>3, TakesType, AllocatedMonotone
  <2>5. d.limit \in Nat /\ AllocatedAsCorrected(d) <= d.limit
    BY <1>1, ProcurementConstants DEF Purchase, Within
  <2> QED BY <1>1, <1>2, <2>4, <2>5, AllocatedType
<1>7. Final(d, e)
  BY <1>2 DEF Final, PostedTo, Open, Ended
<1> QED BY <1>2, <1>4, <1>5, <1>6, <1>7 DEF Good, e

-----------------------------------------------------------------------------
(* Each transaction of receipts keeps them                                 *)

\* A receipt that is not posted before or after changes nothing that counts.
LEMMA DraftChangeKeeps ==
  ASSUME NEW d, Good(d), NEW e \in Purchase, NEW r \in Receipt,
         e.order = d.order, e.limit = d.limit, e.added = d.added,
         d.receipt[r].status # "POSTED", e.receipt[r].status = "DRAFT",
         e.receipt[r].order \in Order, d.order[e.receipt[r].order].status # "NONE",
         e.receipt[r].corrected \in {d.receipt[r].corrected, NoEntry},
         \A s \in Receipt \ {r} : e.receipt[s] = d.receipt[s]
  PROVE  Good(e) /\ Final(d, e)
<1>1. d \in Purchase /\ Refers(d) /\ Tells(d) /\ Within(d)
  BY DEF Good
<1>2. \A o \in Order : PostedTo(e, o) = PostedTo(d, o) /\ Accepted(e, o) = Accepted(d, o)
  <2> TAKE o \in Order
  <2>1. PostedTo(e, o) = PostedTo(d, o) /\ r \notin PostedTo(d, o)
    BY DEF PostedTo
  <2>2. Accepted(e, o) = Accepted(d, o)
    BY <2>1, PostedToFinite, AcceptedSame
  <2> QED BY <2>1, <2>2
<1>3. Refers(e)
  BY <1>1 DEF Refers
<1>4. Tells(e)
  BY <1>1, <1>2 DEF Tells, Complete
<1>5. OnlyTakenBack(d) => OnlyTakenBack(e)
  BY DEF OnlyTakenBack, NoEntry
<1>6. AllocatedAsCorrected(e) <= AllocatedAsCorrected(d)
  BY <1>1, <1>2, TakesType, AllocatedMonotone DEF Takes
<1>7. Within(e)
  <2>1. d.limit # Nobody => d.limit \in Nat
    BY <1>1, ProcurementConstants DEF Purchase
  <2> QED BY <1>1, <1>2, <1>5, <1>6, <2>1, AllocatedType DEF Within
<1>8. Final(d, e)
  BY <1>2 DEF Final, Ended
<1> QED BY <1>3, <1>4, <1>7, <1>8 DEF Good

LEMMA DraftedKeeps ==
  ASSUME NEW d, Good(d), NEW r \in Receipt, NEW o \in Order, NEW q \in Quantities(Nat),
         CanDraft(d, r, o)
  PROVE  Good(Drafted(d, r, o, q)) /\ Final(d, Drafted(d, r, o, q))
<1> DEFINE x == [status |-> "DRAFT", order |-> o, entry |-> q, corrected |-> NoEntry]
           e == [d EXCEPT !.receipt[r] = x]
<1>1. d \in Purchase
  BY DEF Good
<1>2. x \in ReceiptRow /\ x.status = "DRAFT" /\ x.order = o /\ x.corrected = NoEntry
  BY DEF ReceiptRow, NoEntry, Quantities
<1>3. Drafted(d, r, o, q) = e
  BY DEF Drafted
<1> HIDE DEF x
<1>4. /\ e \in Purchase /\ e.order = d.order /\ e.limit = d.limit /\ e.added = d.added
      /\ e.receipt[r] = x
      /\ \A s \in Receipt \ {r} : e.receipt[s] = d.receipt[s]
  BY <1>1, <1>2, ReceiptChange
<1>5. d.receipt[r].status = "NONE" /\ d.order[o].status # "NONE"
  BY DEF CanDraft, Open
<1> HIDE DEF e
<1>6. Good(e) /\ Final(d, e)
  BY <1>2, <1>4, <1>5, DraftChangeKeeps
<1> QED BY <1>3, <1>6

LEMMA UpdatedKeeps ==
  ASSUME NEW d, Good(d), NEW r \in Receipt, NEW q \in Quantities(Nat), CanUpdate(d, r)
  PROVE  Good(Updated(d, r, q)) /\ Final(d, Updated(d, r, q))
<1> DEFINE e == Updated(d, r, q)
<1>1. d \in Purchase /\ Refers(d)
  BY DEF Good
<1>2. /\ e \in Purchase /\ e.order = d.order /\ e.limit = d.limit /\ e.added = d.added
      /\ e.receipt[r].status = d.receipt[r].status /\ e.receipt[r].order = d.receipt[r].order
      /\ e.receipt[r].corrected = d.receipt[r].corrected
      /\ \A s \in Receipt \ {r} : e.receipt[s] = d.receipt[s]
  <2> DEFINE x == [d.receipt[r] EXCEPT !.entry = q]
             f == [d EXCEPT !.receipt[r] = x]
  <2>1. /\ x \in ReceiptRow /\ x.status = d.receipt[r].status /\ x.order = d.receipt[r].order
        /\ x.corrected = d.receipt[r].corrected
    BY <1>1 DEF Purchase, ReceiptRow
  <2>2. e = f
    BY <1>1 DEF Updated, Purchase
  <2> HIDE DEF e, x
  <2>3. /\ f \in Purchase /\ f.order = d.order /\ f.limit = d.limit /\ f.added = d.added
        /\ f.receipt[r] = x
        /\ \A s \in Receipt \ {r} : f.receipt[s] = d.receipt[s]
    BY <1>1, <2>1, ReceiptChange
  <2> QED BY <2>1, <2>2, <2>3
<1>3. d.receipt[r].status = "DRAFT"
  BY DEF CanUpdate
<1>4. d.receipt[r].order \in Order /\ d.order[d.receipt[r].order].status # "NONE"
  BY <1>1, <1>3 DEF Refers
<1> HIDE DEF e
<1>5. Good(e) /\ Final(d, e)
  BY <1>2, <1>3, <1>4, DraftChangeKeeps
<1> QED BY <1>5 DEF e

LEMMA PostedKeeps ==
  ASSUME NEW d, Good(d), NEW r \in Receipt, CanPost(d, r)
  PROVE  Good(Posted(d, r)) /\ Final(d, Posted(d, r))
<1> DEFINE o == d.receipt[r].order
           x == [d.receipt[r] EXCEPT !.status = "POSTED"]
           n == [d EXCEPT !.receipt[r] = x]
           m == [d EXCEPT !.receipt[r].status = "POSTED", !.general = @ + d.receipt[r].entry.accepted]
           e == [m EXCEPT !.order[o].status = Progress(m, o)]
<1>1. d \in Purchase /\ Refers(d) /\ Tells(d) /\ Within(d)
  BY DEF Good
<1>2. d.receipt[r].status = "DRAFT" /\ d.order[o].status \in Open /\ o \in Order
  BY <1>1 DEF CanPost, OpenForReceipt, Refers
<1>3. d.receipt[r].entry.accepted <= d.order[o].quantity - Accepted(d, o)
  BY DEF CanPost
<1>4. /\ m \in Purchase /\ m.order = d.order /\ m.limit = d.limit /\ m.added = d.added
      /\ \A s \in Receipt : /\ m.receipt[s].entry = d.receipt[s].entry
                            /\ m.receipt[s].corrected = d.receipt[s].corrected
                            /\ m.receipt[s].order = d.receipt[s].order
                            /\ m.receipt[s].status = IF s = r THEN "POSTED" ELSE d.receipt[s].status
  <2>1. d.receipt[r] \in ReceiptRow /\ d.general + d.receipt[r].entry.accepted \in Nat
    BY <1>1 DEF Purchase, ReceiptRow, Quantities
  <2>2. /\ x \in ReceiptRow /\ x.status = "POSTED" /\ x.entry = d.receipt[r].entry
        /\ x.corrected = d.receipt[r].corrected /\ x.order = d.receipt[r].order
    BY <2>1 DEF ReceiptRow
  <2>3. m = [n EXCEPT !.general = d.general + d.receipt[r].entry.accepted]
    BY <1>1 DEF Purchase
  <2> HIDE DEF x, m
  <2>4. /\ n \in Purchase /\ n.order = d.order /\ n.limit = d.limit /\ n.added = d.added
        /\ n.receipt[r] = x
        /\ \A s \in Receipt \ {r} : n.receipt[s] = d.receipt[s]
    BY <1>1, <2>2, ReceiptChange
  <2> HIDE DEF n
  <2>5. m \in Purchase /\ m.order = n.order /\ m.limit = n.limit /\ m.added = n.added /\ m.receipt = n.receipt
    BY <2>1, <2>3, <2>4 DEF Purchase
  <2> QED BY <2>2, <2>4, <2>5
<1>5. Progress(m, o) \in {"RECEIVED", "PARTIALLY_RECEIVED"}
  BY DEF Progress
<1> HIDE DEF m
<1>6. /\ e \in Purchase /\ e.receipt = m.receipt /\ e.limit = d.limit /\ e.added = d.added
      /\ e.order[o].status = Progress(m, o) /\ e.order[o].quantity = d.order[o].quantity
      /\ \A p \in Order \ {o} : e.order[p] = d.order[p]
  <2> DEFINE t == Progress(m, o)
  <2>1. t \in OrderStatus
    BY <1>5 DEF OrderStatus, Open
  <2>2. e = WithStatus(m, o, t)
    BY DEF WithStatus
  <2> HIDE DEF t, e
  <2>3. m \in Purchase /\ o \in Order
    BY <1>2, <1>4
  <2>4. OnlyStatus(m, o, t, e)
    BY <2>1, <2>2, <2>3, StatusChange
  <2> QED BY <1>4, <2>4 DEF t, OnlyStatus
<1> HIDE DEF e
<1>7. PostedTo(m, o) = PostedTo(d, o) \cup {r} /\ r \notin PostedTo(d, o)
  BY <1>2, <1>4 DEF PostedTo
<1>8. ASSUME NEW p \in Order \ {o}
      PROVE  Accepted(m, p) = Accepted(d, p)
  <2>1. PostedTo(m, p) = PostedTo(d, p)
    BY <1>2, <1>4, <1>8 DEF PostedTo
  <2> QED BY <1>4, <2>1, PostedToFinite, AcceptedSame
<1>9. Accepted(m, o) = Accepted(d, o) + d.receipt[r].entry.accepted + d.receipt[r].corrected.accepted
  BY <1>1, <1>4, <1>7, AcceptedPosted
<1>10. \A p \in Order : Accepted(e, p) = Accepted(m, p)
  BY <1>6, SameReceipts
<1>11. Refers(e)
  <2>1. \A p \in Order : e.order[p].status = "NONE" <=> d.order[p].status = "NONE"
    BY <1>2, <1>5, <1>6 DEF Open
  <2>2. \A s \in Receipt : /\ e.receipt[s].order = d.receipt[s].order
                           /\ e.receipt[s].status = "NONE" <=> d.receipt[s].status = "NONE"
    BY <1>2, <1>4, <1>6
  <2>3. Refers(d) /\ e.limit = d.limit
    BY <1>1, <1>6
  <2> QED BY <2>1, <2>2, <2>3 DEF Refers
<1>12. Tells(e)
  <2> SUFFICES ASSUME NEW p \in Order, e.order[p].status \notin Ended \cup {"NONE"}
               PROVE  e.order[p].status = "RECEIVED" <=> Complete(e, p)
    BY DEF Tells
  <2>1. CASE p = o
    BY <1>4, <1>6, <1>10, <2>1 DEF Complete, Progress
  <2>2. CASE p # o
    BY <1>1, <1>6, <1>8, <1>10, <2>2 DEF Tells, Complete
  <2> QED BY <2>1, <2>2
<1>13. Within(e)
  <2> SUFFICES ASSUME ~d.added
               PROVE  /\ OnlyTakenBack(e)
                      /\ \A p \in Order : Accepted(e, p) <= e.order[p].quantity
                      /\ d.limit # Nobody => AllocatedAsCorrected(e) <= d.limit
    BY <1>6 DEF Within
  <2>1. OnlyTakenBack(d) /\ OnlyTakenBack(e)
    BY <1>1, <1>4, <1>6 DEF Within, OnlyTakenBack
  <2>2. Accepted(e, o) <= e.order[o].quantity
    <3>1. d.receipt[r].corrected.accepted <= 0
      BY <2>1 DEF OnlyTakenBack
    <3>2. /\ d.receipt[r].corrected.accepted \in Int /\ d.receipt[r].entry.accepted \in Int
          /\ Accepted(d, o) \in Int /\ d.order[o].quantity \in Int
      BY <1>1, <1>2, AcceptedType DEF Purchase, ReceiptRow, Quantities
    <3> QED BY <1>2, <1>3, <1>6, <1>9, <1>10, <3>1, <3>2
  <2>3. \A p \in Order \ {o} : Accepted(e, p) <= e.order[p].quantity
    BY <1>1, <1>6, <1>8, <1>10 DEF Within
  <2>4. ASSUME NEW p \in Order
        PROVE  Takes(e, p, Accepted(e, p)) = Takes(d, p, Accepted(d, p))
    <3>1. CASE p = o
      BY <1>2, <1>5, <1>6, <3>1 DEF Takes, Open
    <3>2. CASE p # o
      BY <1>6, <1>8, <1>10, <3>2 DEF Takes
    <3> QED BY <3>1, <3>2
  <2>5. AllocatedAsCorrected(e) <= AllocatedAsCorrected(d)
    BY <1>1, <1>6, <2>4, TakesType, AllocatedMonotone
  <2>6. d.limit # Nobody => d.limit \in Nat
    BY <1>1, ProcurementConstants DEF Purchase
  <2> QED BY <1>1, <1>6, <2>1, <2>2, <2>3, <2>5, <2>6, AllocatedType DEF Within
<1>14. Good(e)
  BY <1>6, <1>11, <1>12, <1>13 DEF Good
<1>15. Final(d, e)
  <2> SUFFICES ASSUME NEW p \in Order, d.order[p].status \in Ended
               PROVE  e.order[p] = d.order[p] /\ PostedTo(e, p) = PostedTo(d, p)
    BY <1>2, <1>5, <1>6 DEF Final, Ended
  <2>1. p # o
    BY <1>2 DEF Open, Ended
  <2> QED BY <1>2, <1>4, <1>6, <2>1 DEF PostedTo
<1> QED BY <1>14, <1>15 DEF e, m, Posted

\* What a correction makes of a database, and of the order of its receipt.
CorrectedBy(d, r, c) ==
  [d EXCEPT !.general = @ + c.accepted, !.changes = @ + 1, !.added = @ \/ c.accepted > 0,
            !.receipt[r].corrected = [f \in DOMAIN c |-> @[f] + c[f]]]
StatusAfter(m, o) ==
  LET status == m.order[o].status
  IN  IF status = "CLOSED_SHORT" THEN status
      ELSE IF Complete(m, o) THEN "RECEIVED"
      ELSE IF status = "RECEIVED" THEN "REOPENED" ELSE "PARTIALLY_RECEIVED"

LEMMA CorrectedKeeps ==
  ASSUME NEW d, Good(d), NEW r \in Receipt, NEW c \in Change, NEW m, NEW o,
         m = CorrectedBy(d, r, c), o = d.receipt[r].order,
         d.changes < MaxChanges, d.receipt[r].status = "POSTED", d.order[o].status # "CANCELLED",
         m.general >= 0, AllocatedAsCorrected(m) <= d.limit
  PROVE  LET n == [m EXCEPT !.order[o].status = StatusAfter(m, o)]
         IN  Good(n) /\ Final(d, n)
<1> DEFINE e == [m EXCEPT !.order[o].status = StatusAfter(m, o)]
<1>1. d \in Purchase /\ Refers(d) /\ Tells(d) /\ Within(d)
  BY DEF Good
<1>2. o \in Order /\ d.order[o].status # "NONE"
  BY <1>1 DEF Refers
<1>3. c \in [delivered : Int, accepted : Int, rejected : Int] /\ MaxChanges \in Nat
  BY ProcurementConstants
<1>4. /\ m \in Purchase /\ m.order = d.order /\ m.limit = d.limit
      /\ m.added = (d.added \/ c.accepted > 0)
      /\ \A s \in Receipt : /\ m.receipt[s].entry = d.receipt[s].entry
                            /\ m.receipt[s].order = d.receipt[s].order
                            /\ m.receipt[s].status = d.receipt[s].status
      /\ \A s \in Receipt \ {r} : m.receipt[s].corrected = d.receipt[s].corrected
      /\ m.receipt[r].corrected.accepted = d.receipt[r].corrected.accepted + c.accepted
  <2> DEFINE y == [f \in DOMAIN c |-> d.receipt[r].corrected[f] + c[f]]
             x == [d.receipt[r] EXCEPT !.corrected = y]
             n == [d EXCEPT !.receipt[r] = x]
             g == d.general + c.accepted
             b == (d.added \/ c.accepted > 0)
  <2>1. y \in Quantities(Int) /\ y.accepted = d.receipt[r].corrected.accepted + c.accepted
    <3>1. d.receipt[r].corrected \in [delivered : Int, accepted : Int, rejected : Int]
      BY <1>1 DEF Purchase, ReceiptRow, Quantities
    <3>2. DOMAIN c = {"delivered", "accepted", "rejected"}
      BY <1>3
    <3> QED BY <1>3, <3>1, <3>2 DEF Quantities
  <2>2. m = [d EXCEPT !.general = g, !.changes = d.changes + 1, !.added = b, !.receipt[r].corrected = y]
    BY <1>1 DEF CorrectedBy, Purchase
  <2> HIDE DEF y, b
  <2>3. m = [n EXCEPT !.general = g, !.changes = d.changes + 1, !.added = b]
    BY <1>1, <2>2 DEF Purchase
  <2>4. g \in Nat /\ d.changes + 1 \in 0 .. MaxChanges /\ b \in BOOLEAN
    <3>1. m.general = g
      BY <1>1, <2>2 DEF Purchase
    <3>2. b \in BOOLEAN
      BY DEF b
    <3> QED BY <1>1, <1>3, <3>1, <3>2 DEF Purchase
  <2>5. /\ x \in ReceiptRow /\ x.status = d.receipt[r].status /\ x.entry = d.receipt[r].entry
        /\ x.corrected = y /\ x.order = d.receipt[r].order
    BY <1>1, <2>1 DEF Purchase, ReceiptRow
  <2> HIDE DEF x, g
  <2>6. /\ n \in Purchase /\ n.order = d.order /\ n.limit = d.limit
        /\ n.receipt[r] = x
        /\ \A s \in Receipt \ {r} : n.receipt[s] = d.receipt[s]
    BY <1>1, <2>5, ReceiptChange
  <2> HIDE DEF n
  <2> DEFINE k == d.changes + 1
             h == [n EXCEPT !.general = g, !.changes = k, !.added = b]
  <2>7. m = h /\ k \in 0 .. MaxChanges
    BY <2>3, <2>4
  <2> HIDE DEF k
  <2>8. h \in Purchase /\ h.order = n.order /\ h.limit = n.limit /\ h.receipt = n.receipt /\ h.added = b
    BY <2>4, <2>6, <2>7 DEF Purchase
  <2> HIDE DEF h
  <2> QED BY <2>1, <2>5, <2>6, <2>7, <2>8 DEF b
<1>5. StatusAfter(m, o) \in {"RECEIVED", "PARTIALLY_RECEIVED", "REOPENED", "CLOSED_SHORT"}
  BY DEF StatusAfter
<1>6. /\ e \in Purchase /\ e.receipt = m.receipt /\ e.limit = d.limit /\ e.added = m.added
      /\ e.order[o].status = StatusAfter(m, o) /\ e.order[o].quantity = d.order[o].quantity
      /\ \A p \in Order \ {o} : e.order[p] = d.order[p]
  <2> DEFINE t == StatusAfter(m, o)
  <2>1. t \in OrderStatus
    BY <1>5 DEF OrderStatus, Open, Ended
  <2>2. e = WithStatus(m, o, t)
    BY DEF WithStatus
  <2> HIDE DEF t, e
  <2>3. m \in Purchase /\ o \in Order
    BY <1>2, <1>4
  <2>4. OnlyStatus(m, o, t, e)
    BY <2>1, <2>2, <2>3, StatusChange
  <2> QED BY <1>4, <2>4 DEF t, OnlyStatus
<1> HIDE DEF e
<1>7. \A p \in Order : PostedTo(m, p) = PostedTo(d, p)
  BY <1>4 DEF PostedTo
<1>8. ASSUME NEW p \in Order \ {o}
      PROVE  Accepted(m, p) = Accepted(d, p)
  <2>1. r \notin PostedTo(d, p)
    BY <1>8 DEF PostedTo
  <2> QED BY <1>4, <1>7, <2>1, PostedToFinite, AcceptedSame
<1>9. Accepted(m, o) = Accepted(d, o) + c.accepted
  <2>1. r \in PostedTo(d, o)
    BY DEF PostedTo
  <2> QED BY <1>1, <1>2, <1>3, <1>4, <1>7, <2>1, AcceptedCorrected
<1>10. \A p \in Order : Accepted(e, p) = Accepted(m, p)
  BY <1>6, SameReceipts
<1>11. Refers(e)
  <2>1. \A p \in Order : e.order[p].status = "NONE" <=> d.order[p].status = "NONE"
    BY <1>2, <1>5, <1>6 DEF Open
  <2>2. \A s \in Receipt : /\ e.receipt[s].order = d.receipt[s].order
                           /\ e.receipt[s].status = "NONE" <=> d.receipt[s].status = "NONE"
    BY <1>2, <1>4, <1>6
  <2>3. Refers(d) /\ e.limit = d.limit
    BY <1>1, <1>6
  <2> QED BY <2>1, <2>2, <2>3 DEF Refers
<1>12. Tells(e)
  <2> SUFFICES ASSUME NEW p \in Order, e.order[p].status \notin Ended \cup {"NONE"}
               PROVE  e.order[p].status = "RECEIVED" <=> Complete(e, p)
    BY DEF Tells
  <2>1. CASE p = o
    BY <1>4, <1>6, <1>10, <2>1 DEF Complete, StatusAfter, Ended
  <2>2. CASE p # o
    BY <1>1, <1>6, <1>8, <1>10, <2>2 DEF Tells, Complete
  <2> QED BY <2>1, <2>2
<1>13. Within(e)
  <2> SUFFICES ASSUME ~d.added, c.accepted <= 0
               PROVE  /\ OnlyTakenBack(e)
                      /\ \A p \in Order : Accepted(e, p) <= e.order[p].quantity
                      /\ AllocatedAsCorrected(e) <= d.limit
    <3>1. c.accepted \in Int /\ d.added \in BOOLEAN
      BY <1>1, <1>3 DEF Purchase
    <3>2. e.added = (d.added \/ c.accepted > 0)
      BY <1>4, <1>6
    <3>3. ~e.added => ~d.added /\ ~(c.accepted > 0)
      BY <3>2
    <3>4. ~(c.accepted > 0) => c.accepted <= 0
      BY <3>1
    <3> QED BY <1>6, <3>3, <3>4 DEF Within
  <2>1. OnlyTakenBack(e)
    <3>1. OnlyTakenBack(d)
      BY <1>1 DEF Within
    <3>2. d.receipt[r].corrected.accepted \in Int
      BY <1>1 DEF Purchase, ReceiptRow, Quantities
    <3>3. ASSUME NEW s \in Receipt, s # r
          PROVE  e.receipt[s].corrected = d.receipt[s].corrected
      BY <1>4, <1>6, <3>3
    <3>4. e.receipt[r].corrected.accepted = d.receipt[r].corrected.accepted + c.accepted
      BY <1>4, <1>6
    <3>5. e.receipt[r].corrected.accepted <= 0
      <4>1. d.receipt[r].corrected.accepted <= 0 /\ c.accepted \in Int
        BY <1>3, <3>1 DEF OnlyTakenBack
      <4> QED BY <3>2, <3>4, <4>1
    <3> QED BY <3>1, <3>3, <3>5 DEF OnlyTakenBack
  <2>2. Accepted(e, o) <= e.order[o].quantity
    <3>1. Accepted(d, o) \in Int /\ d.order[o].quantity \in Int
      BY <1>1, <1>2, AcceptedType DEF Purchase
    <3>2. Accepted(d, o) <= d.order[o].quantity
      BY <1>1, <1>2 DEF Within
    <3> QED BY <1>2, <1>3, <1>6, <1>9, <1>10, <3>1, <3>2
  <2>3. \A p \in Order \ {o} : Accepted(e, p) <= e.order[p].quantity
    BY <1>1, <1>6, <1>8, <1>10, SMTT(30) DEF Within
  <2>4. ASSUME NEW p \in Order
        PROVE  Takes(e, p, Accepted(e, p)) = Takes(m, p, Accepted(m, p))
    <3>1. CASE p = o
      <4>1. e.order[o].status = "CLOSED_SHORT" <=> m.order[o].status = "CLOSED_SHORT"
        BY <1>6 DEF StatusAfter
      <4>2. /\ e.order[o].status \notin {"NONE", "CANCELLED"} /\ m.order[o].status \notin {"NONE", "CANCELLED"}
            /\ e.order[o].quantity = m.order[o].quantity
        BY <1>2, <1>4, <1>5, <1>6
      <4> QED BY <1>10, <3>1, <4>1, <4>2 DEF Takes
    <3>2. CASE p # o
      BY <1>4, <1>6, <1>10, <3>2 DEF Takes
    <3> QED BY <3>1, <3>2
  <2>5. AllocatedAsCorrected(e) <= AllocatedAsCorrected(m)
    BY <1>4, <1>6, <2>4, TakesType, AllocatedMonotone
  <2>6. d.limit \in Nat
    BY <1>1, <1>2, ProcurementConstants DEF Purchase, Refers
  <2> QED BY <1>4, <1>6, <2>1, <2>2, <2>3, <2>5, <2>6, AllocatedType
<1>14. Final(d, e)
  <2> SUFFICES ASSUME NEW p \in Order, d.order[p].status \in Ended
               PROVE  e.order[p] = d.order[p] /\ PostedTo(e, p) = PostedTo(d, p)
    BY <1>5, <1>6 DEF Final, Ended
  <2>1. PostedTo(e, p) = PostedTo(m, p)
    BY <1>6 DEF PostedTo
  <2>2. CASE p # o
    BY <1>6, <1>7, <2>1, <2>2
  <2>3. CASE p = o
    <3>1. d.order[o].status = "CLOSED_SHORT"
      BY <2>3 DEF Ended
    <3>2. e.order[o].status = d.order[o].status
      BY <1>4, <1>6, <3>1 DEF StatusAfter
    <3>3. /\ e.order[o] \in [status : OrderStatus, quantity : Nat]
          /\ d.order[o] \in [status : OrderStatus, quantity : Nat]
      BY <1>1, <1>2, <1>6 DEF Purchase
    <3> QED BY <1>6, <1>7, <2>1, <2>3, <3>2, <3>3
  <2> QED BY <2>2, <2>3
<1> QED BY <1>6, <1>11, <1>12, <1>13, <1>14 DEF Good, e

-----------------------------------------------------------------------------
(* Every step of purchasing and of a desk keeps them                       *)

LEMMA NothingBought == Init => Good(purchase)
<1> SUFFICES ASSUME Init PROVE Good(purchase)
  OBVIOUS
<1>1. /\ purchase.limit = Nobody /\ purchase.added = FALSE
      /\ \A r \in Receipt : purchase.receipt[r] = NoReceipt
      /\ \A o \in Order : purchase.order[o] = [status |-> "NONE", quantity |-> 0]
  BY DEF Init, PurchaseInit
<1>2. purchase \in Purchase
  <2>1. NoReceipt \in ReceiptRow
    BY DEF NoReceipt, ReceiptRow, NoEntry, Quantities
  <2> HIDE DEF NoReceipt
  <2> QED BY <2>1, ProcurementConstants DEF Init, PurchaseInit, Purchase, OrderStatus
<1>3. \A o \in Order : Accepted(purchase, o) = 0
  <2> TAKE o \in Order
  <2>1. PostedTo(purchase, o) = {}
    BY <1>1 DEF PostedTo, NoReceipt
  <2> QED BY <2>1, NothingAccepted
<1>4. Refers(purchase) /\ Tells(purchase)
  BY <1>1 DEF Refers, Tells, NoReceipt
<1>5. Within(purchase)
  BY <1>1, <1>3 DEF Within, OnlyTakenBack, NoReceipt, NoEntry
<1> QED BY <1>2, <1>4, <1>5 DEF Good

LEMMA PurchaseStepKeeps ==
  ASSUME Good(purchase), PurchaseStep
  PROVE  Good(purchase') /\ Final(purchase, purchase')
<1>1. ASSUME NEW q \in Quantity, approval # None /\ Decide(q)
      PROVE  Good(purchase') /\ Final(purchase, purchase')
  BY <1>1, DecideKeeps DEF Decide, Becomes
<1>2. ASSUME NEW q \in Quantity, ChangeLimit(q)
      PROVE  Good(purchase') /\ Final(purchase, purchase')
  BY <1>2, ChangeLimitKeeps DEF ChangeLimit, Becomes
<1>3. ASSUME NEW q \in Quantity, NEW o \in Order, CreateOrder(o, q)
      PROVE  Good(purchase') /\ Final(purchase, purchase')
  BY <1>3, CreateOrderKeeps DEF CreateOrder, Becomes
<1>4. ASSUME NEW q \in Quantity, NEW o \in Order, ChangeQuantity(o, q)
      PROVE  Good(purchase') /\ Final(purchase, purchase')
  <2> DEFINE changed == [purchase EXCEPT !.order[o].quantity = q]
             old == purchase.order[o].status
             s == IF old = "RECEIVED" /\ q > Accepted(purchase, o) THEN "REOPENED"
                  ELSE IF q = Accepted(purchase, o) THEN "RECEIVED" ELSE old
  <2>1. /\ old \notin Ended \cup {"NONE"}
        /\ Accepted(purchase, o) <= q
        /\ Allocated(changed) <= purchase.limit
    BY <1>4 DEF ChangeQuantity
  <2>2. changed.order[o].status = old /\ old \in OrderStatus
    BY DEF Good, Purchase
  <2>3. purchase' = [changed EXCEPT !.order[o].status = s]
    BY <1>4, <2>2 DEF ChangeQuantity, Becomes
  <2>4. s \in OrderStatus
    BY <2>2 DEF OrderStatus, Open
  <2> QED BY <2>1, <2>3, <2>4, ChangeQuantityKeeps
<1>5. ASSUME NEW o \in Order, EndOrder(o)
      PROVE  Good(purchase') /\ Final(purchase, purchase')
  <2> DEFINE s == IF PostedTo(purchase, o) = {} THEN "CANCELLED" ELSE "CLOSED_SHORT"
  <2>1. purchase.order[o].status \in Open /\ purchase' = [purchase EXCEPT !.order[o].status = s]
    BY <1>5 DEF EndOrder, Becomes
  <2>2. s \in Ended /\ (PostedTo(purchase, o) # {} => s # "CANCELLED")
    BY DEF Ended
  <2> HIDE DEF s
  <2> QED BY <2>1, <2>2, EndOrderKeeps
<1>6. ASSUME NEW r \in Receipt, NEW c \in Change, CorrectReceipt(r, c)
      PROVE  Good(purchase') /\ Final(purchase, purchase')
  <2> DEFINE o == purchase.receipt[r].order
             m == CorrectedBy(purchase, r, c)
  <2>1. /\ purchase.changes < MaxChanges /\ purchase.receipt[r].status = "POSTED"
        /\ purchase.order[o].status # "CANCELLED"
        /\ m.general >= 0 /\ AllocatedAsCorrected(m) <= purchase.limit
    BY <1>6 DEF CorrectReceipt, CorrectedBy, InStock
  <2>2. m.order[o].status = purchase.order[o].status
    BY DEF CorrectedBy, Good, Purchase
  <2>3. purchase' = [m EXCEPT !.order[o].status = StatusAfter(m, o)]
    BY <1>6, <2>2 DEF CorrectReceipt, CorrectedBy, StatusAfter, Becomes
  <2> HIDE DEF m, o
  <2> QED BY <2>1, <2>3, CorrectedKeeps DEF m, o
<1>7. ASSUME Ship
      PROVE  Good(purchase') /\ Final(purchase, purchase')
  <2> DEFINE g == purchase.general - 1
             e == [purchase EXCEPT !.general = g]
  <2>1. purchase' = e
    BY <1>7 DEF Ship, Becomes
  <2>2. purchase \in Purchase /\ g \in Nat
    BY <1>7 DEF Good, Purchase, Ship
  <2> HIDE DEF g
  <2>3. /\ e \in Purchase /\ e.order = purchase.order /\ e.limit = purchase.limit
        /\ e.receipt = purchase.receipt /\ e.added = purchase.added
    BY <2>2 DEF Purchase
  <2> HIDE DEF e
  <2>4. \A o \in Order : Accepted(e, o) = Accepted(purchase, o) /\ PostedTo(e, o) = PostedTo(purchase, o)
    BY <2>3, SameReceipts
  <2>5. AllocatedAsCorrected(e) <= AllocatedAsCorrected(purchase)
    BY <2>2, <2>3, <2>4, TakesType, AllocatedMonotone DEF Takes
  <2>6. Refers(e) /\ Tells(e) /\ Final(purchase, e)
    BY <2>3, <2>4 DEF Good, Refers, Tells, Complete, Final, Ended
  <2>7. Within(e)
    <3>1. purchase.limit # Nobody => purchase.limit \in Nat
      BY <2>2, ProcurementConstants DEF Purchase
    <3> QED BY <2>2, <2>3, <2>4, <2>5, <3>1, AllocatedType DEF Good, Within, OnlyTakenBack
  <2> QED BY <2>1, <2>3, <2>6, <2>7 DEF Good
<1> QED BY <1>1, <1>2, <1>3, <1>4, <1>5, <1>6, <1>7 DEF PurchaseStep

\* What a desk shows.
Form == [order : Order \cup {Nobody}, receipt : Receipt \cup {None}, entry : Entry \cup {NoEntry}, posted : BOOLEAN]
Forms == [Desk -> Form]

LEMMA DeskStepKeeps ==
  ASSUME Good(purchase), form \in Forms, NEW k \in Desk, DeskStep(k)
  PROVE  Good(purchase') /\ Final(purchase, purchase') /\ form' \in Forms
<1>1. /\ form[k].order \in Order \cup {Nobody} /\ form[k].receipt \in Receipt \cup {None}
      /\ form[k].entry \in Entry \cup {NoEntry} /\ form[k].posted \in BOOLEAN
  BY DEF Forms, Form
<1>2. Entry \cup {NoEntry} \subseteq Quantities(Nat)
  BY ProcurementConstants DEF Quantities, NoEntry
<1>3. purchase' = purchase => Good(purchase') /\ Final(purchase, purchase')
  BY DEF Final, Ended
<1>4. ASSUME NEW v \in Form, Show(k, v) PROVE form' \in Forms
  BY <1>4 DEF Show, Forms
<1>5. ASSUME NEW o \in Order, ChooseOrder(k, o)
      PROVE  Good(purchase') /\ Final(purchase, purchase') /\ form' \in Forms
  <2>1. [Blank EXCEPT !.order = o] \in Form
    BY DEF Blank, Form
  <2> QED BY <1>3, <1>4, <1>5, <2>1 DEF ChooseOrder
<1>6. ASSUME NEW e \in Entry, Enter(k, e)
      PROVE  Good(purchase') /\ Final(purchase, purchase') /\ form' \in Forms
  <2>1. [form[k] EXCEPT !.entry = e] \in Form
    BY DEF Forms, Form
  <2> QED BY <1>3, <1>4, <1>6, <2>1 DEF Enter
<1>7. ASSUME CreateDraft(k)
      PROVE  Good(purchase') /\ Final(purchase, purchase') /\ form' \in Forms
  <2>1. PICK r \in Receipt :
          /\ form[k].order # Nobody /\ CanDraft(purchase, r, form[k].order)
          /\ purchase' = Drafted(purchase, r, form[k].order, form[k].entry)
          /\ Show(k, [form[k] EXCEPT !.receipt = r])
    BY <1>7 DEF CreateDraft, Unused, Becomes
  <2>2. [form[k] EXCEPT !.receipt = r] \in Form
    BY DEF Forms, Form
  <2>3. form[k].order \in Order /\ form[k].entry \in Quantities(Nat)
    BY <1>1, <1>2, <2>1
  <2>4. Good(purchase') /\ Final(purchase, purchase')
    BY <2>1, <2>3, DraftedKeeps
  <2> QED BY <1>4, <2>1, <2>2, <2>4
<1>8. ASSUME UpdateDraft(k)
      PROVE  Good(purchase') /\ Final(purchase, purchase') /\ form' \in Forms
  <2>1. /\ form[k].receipt # None /\ CanUpdate(purchase, form[k].receipt)
        /\ purchase' = Updated(purchase, form[k].receipt, form[k].entry) /\ form' = form
    BY <1>8 DEF UpdateDraft, Becomes
  <2>2. form[k].receipt \in Receipt /\ form[k].entry \in Quantities(Nat)
    BY <1>1, <1>2, <2>1
  <2>3. Good(purchase') /\ Final(purchase, purchase')
    BY <2>1, <2>2, UpdatedKeeps
  <2> QED BY <2>1, <2>3
<1>9. ASSUME CompleteNew(k)
      PROVE  Good(purchase') /\ Final(purchase, purchase') /\ form' \in Forms
  <2>1. PICK r \in Receipt :
          /\ form[k].order # Nobody /\ CanDraft(purchase, r, form[k].order)
          /\ CanPost(Drafted(purchase, r, form[k].order, form[k].entry), r)
          /\ purchase' = Posted(Drafted(purchase, r, form[k].order, form[k].entry), r)
          /\ Show(k, [form[k] EXCEPT !.receipt = r, !.posted = TRUE])
    BY <1>9 DEF CompleteNew, Unused, Becomes
  <2>2. [form[k] EXCEPT !.receipt = r, !.posted = TRUE] \in Form
    BY DEF Forms, Form
  <2>3. form[k].order \in Order /\ form[k].entry \in Quantities(Nat)
    BY <1>1, <1>2, <2>1
  <2> DEFINE m == Drafted(purchase, r, form[k].order, form[k].entry)
  <2>4. Good(m) /\ Final(purchase, m)
    BY <2>1, <2>3, DraftedKeeps
  <2> HIDE DEF m
  <2>5. Good(Posted(m, r)) /\ Final(m, Posted(m, r))
    BY <2>1, <2>4, PostedKeeps DEF m
  <2>6. Good(purchase') /\ Final(m, purchase')
    BY <2>1, <2>5 DEF m
  <2>7. Final(purchase, purchase')
    BY <2>4, <2>6 DEF Final
  <2> QED BY <1>4, <2>1, <2>2, <2>6, <2>7
<1>10. ASSUME CompleteDraft(k)
       PROVE  Good(purchase') /\ Final(purchase, purchase') /\ form' \in Forms
  <2>1. /\ form[k].receipt # None /\ CanPost(purchase, form[k].receipt)
        /\ purchase' = Posted(purchase, form[k].receipt)
        /\ Show(k, [form[k] EXCEPT !.posted = TRUE])
    BY <1>10 DEF CompleteDraft, Becomes
  <2>2. [form[k] EXCEPT !.posted = TRUE] \in Form
    BY DEF Forms, Form
  <2>3. form[k].receipt \in Receipt
    BY <1>1, <2>1
  <2>4. Good(purchase') /\ Final(purchase, purchase')
    BY <2>1, <2>3, PostedKeeps
  <2> QED BY <1>4, <2>1, <2>2, <2>4
<1>11. ASSUME StartNext(k)
       PROVE  Good(purchase') /\ Final(purchase, purchase') /\ form' \in Forms
  <2>1. Blank \in Form
    BY DEF Blank, Form
  <2> QED BY <1>3, <1>4, <1>11, <2>1 DEF StartNext
<1> QED BY <1>5, <1>6, <1>7, <1>8, <1>9, <1>10, <1>11 DEF DeskStep

-----------------------------------------------------------------------------
(* The approval                                                            *)

Submission == [status : {"PENDING", "RETURNED", "APPROVED"}, demand : Demand]
Campaign ==
  [status : {"OPEN", "HR_REVIEW", "PENDING_APPROVAL", "APPROVED"}, demand : Demand,
   submissions : Seq(Submission)]
Screens == [Screen -> [queue : SUBSET Revisions, selected : Revisions \cup {None}, lines : Demand \cup {None}]]

ApprovalTypeOK ==
  /\ campaign \in Campaign
  /\ approval \in [of : Revisions, quantity : Demand, shown : Demand] \cup {None}
  /\ ceo \in Screens

\* What waits for a decision is the last version.
LastIsPending ==
  \A s \in Pending : s = Len(campaign.submissions) /\ campaign.status = "PENDING_APPROVAL"

\* What is approved is as it was shown, and ends the campaign's reviews.
ApprovalIsLast ==
  approval # None =>
    /\ campaign.status = "APPROVED"
    /\ approval.quantity = approval.shown /\ approval.of = Len(campaign.submissions)

\* The lines on a screen are those of the version that is selected there.
LinesOfSelected ==
  \A w \in Screen : ceo[w].lines # None =>
    /\ ceo[w].selected \in Revisions
    /\ ceo[w].lines = campaign.submissions[ceo[w].selected].demand

ApprovalInv == ApprovalTypeOK /\ LastIsPending /\ ApprovalIsLast /\ LinesOfSelected

LEMMA NothingApproved == Init => ApprovalInv
<1> SUFFICES ASSUME Init PROVE ApprovalInv
  OBVIOUS
<1>1. /\ campaign \in Campaign /\ campaign.submissions = <<>> /\ approval = None
      /\ ceo = [w \in Screen |-> [queue |-> {}, selected |-> None, lines |-> None]]
  <2>1. <<>> \in Seq(Submission)
    OBVIOUS
  <2>2. /\ campaign \in [status : {"OPEN"}, demand : Demand, submissions : {<<>>}]
        /\ approval = None /\ ceo = [w \in Screen |-> [queue |-> {}, selected |-> None, lines |-> None]]
    BY DEF Init, ApprovalInit
  <2>3. campaign \in Campaign /\ campaign.submissions = <<>>
    BY <2>1, <2>2 DEF Campaign
  <2> QED BY <2>2, <2>3
<1>2. Revisions = {}
  BY <1>1 DEF Revisions
<1> QED BY <1>1, <1>2 DEF ApprovalInv, ApprovalTypeOK, Screens, LastIsPending, Pending, ApprovalIsLast, LinesOfSelected

\* Nothing but the state of the campaign and its versions is referred to.
LEMMA SameVersions ==
  ASSUME ApprovalInv, campaign'.submissions = campaign.submissions
  PROVE  /\ Revisions' = Revisions /\ Pending' = Pending
         /\ Revisions = 1 .. Len(campaign.submissions)
BY DEF ApprovalInv, ApprovalTypeOK, Campaign, Revisions, Pending

LEMMA VersionsTyped ==
  ASSUME ApprovalInv, NEW s \in Revisions
  PROVE  campaign.submissions[s] \in Submission
<1>1. campaign.submissions \in Seq(Submission)
  BY DEF ApprovalInv, ApprovalTypeOK, Campaign
<1> QED BY <1>1 DEF Revisions

LEMMA CloseCampaignKeeps == ApprovalInv /\ CloseCampaign => ApprovalInv'
<1> SUFFICES ASSUME ApprovalInv, CloseCampaign PROVE ApprovalInv'
  OBVIOUS
<1>1. /\ campaign' \in Campaign /\ campaign'.submissions = campaign.submissions
      /\ campaign.status = "OPEN" /\ approval' = approval /\ ceo' = ceo
  BY DEF ApprovalInv, ApprovalTypeOK, Campaign, CloseCampaign
<1>2. approval = None /\ Pending = {}
  BY <1>1 DEF ApprovalInv, ApprovalIsLast, LastIsPending
<1> QED BY <1>1, <1>2, SameVersions
        DEF ApprovalInv, ApprovalTypeOK, Screens, LastIsPending, ApprovalIsLast, LinesOfSelected

LEMMA CorrectDemandKeeps ==
  ASSUME ApprovalInv, NEW q \in Demand, CorrectDemand(q)
  PROVE  ApprovalInv'
<1>1. /\ campaign' \in Campaign /\ campaign'.submissions = campaign.submissions
      /\ campaign.status = "HR_REVIEW" /\ approval' = approval /\ ceo' = ceo
  BY DEF ApprovalInv, ApprovalTypeOK, Campaign, CorrectDemand
<1>2. approval = None /\ Pending = {}
  BY <1>1 DEF ApprovalInv, ApprovalIsLast, LastIsPending
<1> QED BY <1>1, <1>2, SameVersions
        DEF ApprovalInv, ApprovalTypeOK, Screens, LastIsPending, ApprovalIsLast, LinesOfSelected

LEMMA SubmitKeeps == ApprovalInv /\ Submit => ApprovalInv'
<1> SUFFICES ASSUME ApprovalInv, Submit PROVE ApprovalInv'
  OBVIOUS
<1> DEFINE old == campaign.submissions
           new == campaign'.submissions
           x == [status |-> "PENDING", demand |-> campaign.demand]
<1>1. /\ campaign \in Campaign /\ old \in Seq(Submission) /\ x \in Submission
      /\ campaign.status = "HR_REVIEW" /\ Pending = {}
      /\ approval' = approval /\ ceo' = ceo
  BY DEF ApprovalInv, ApprovalTypeOK, Campaign, Submission, Submit
<1> DEFINE longer == Append(old, x)
<1>2. campaign' \in Campaign /\ campaign'.status = "PENDING_APPROVAL" /\ new = longer
  <2>1. longer \in Seq(Submission)
    BY <1>1
  <2>2. campaign' = [campaign EXCEPT !.status = "PENDING_APPROVAL", !.submissions = longer]
    BY <1>1 DEF Submit, Campaign
  <2> HIDE DEF longer
  <2> QED BY <1>1, <2>1, <2>2 DEF Campaign
<1> HIDE DEF x
<1>3. /\ Len(new) = Len(old) + 1 /\ Len(old) \in Nat
      /\ Revisions = 1 .. Len(old) /\ Revisions' = 1 .. Len(old) + 1
      /\ \A s \in Revisions : new[s] = old[s]
  BY <1>1, <1>2 DEF Revisions
<1>4. Revisions \subseteq Revisions'
  BY <1>3
<1>5. approval = None
  BY <1>1 DEF ApprovalInv, ApprovalIsLast
<1>6. ApprovalTypeOK'
  BY <1>1, <1>2, <1>4, <1>5 DEF ApprovalInv, ApprovalTypeOK, Screens
<1>7. LastIsPending'
  <2> SUFFICES ASSUME NEW s \in Revisions', new[s].status = "PENDING"
               PROVE  s = Len(new)
    BY <1>2 DEF LastIsPending, Pending
  <2>1. s \in Revisions => new[s].status # "PENDING"
    BY <1>1, <1>3 DEF Pending
  <2> QED BY <1>3, <2>1
<1>8. ApprovalIsLast' /\ LinesOfSelected'
  BY <1>1, <1>3, <1>4, <1>5 DEF ApprovalInv, ApprovalIsLast, LinesOfSelected
<1> QED BY <1>6, <1>7, <1>8 DEF ApprovalInv

LEMMA ScreenKeeps ==
  ASSUME ApprovalInv, NEW w \in Screen, campaign' = campaign, approval' = approval,
         NEW v \in [queue : SUBSET Revisions, selected : Revisions \cup {None}, lines : Demand \cup {None}],
         v.lines # None => /\ v.selected \in Revisions
                           /\ v.lines = campaign.submissions[v.selected].demand,
         Sees(w, v)
  PROVE  ApprovalInv'
<1>1. Revisions' = Revisions /\ Pending' = Pending
  BY DEF Revisions, Pending
<1>2. ceo' \in Screens /\ ceo'[w] = v /\ \A u \in Screen \ {w} : ceo'[u] = ceo[u]
  BY DEF ApprovalInv, ApprovalTypeOK, Screens, Sees
<1>3. ApprovalTypeOK'
  BY <1>1, <1>2 DEF ApprovalInv, ApprovalTypeOK, Screens
<1>4. LinesOfSelected'
  BY <1>1, <1>2 DEF ApprovalInv, LinesOfSelected
<1> QED BY <1>1, <1>3, <1>4 DEF ApprovalInv, LastIsPending, ApprovalIsLast

LEMMA ReviewKeeps ==
  ASSUME ApprovalInv, NEW w \in Screen, NEW decision \in {"APPROVE", "RETURN"}, Review(w, decision)
  PROVE  ApprovalInv'
<1> DEFINE s == ceo[w].selected
           old == campaign.submissions
           status == IF decision = "APPROVE" THEN "APPROVED" ELSE "RETURNED"
           x == [old[s] EXCEPT !.status = status]
<1>1. /\ ceo[w].lines # None /\ s \in Pending /\ campaign.status = "PENDING_APPROVAL"
      /\ campaign' = [campaign EXCEPT !.submissions[s].status = status,
                        !.status = IF decision = "APPROVE" THEN "APPROVED" ELSE "HR_REVIEW"]
      /\ Sees(w, Without(ceo[w].queue \ {s}))
  BY DEF Review, Decided
<1>2. approval = None
  BY <1>1 DEF ApprovalInv, ApprovalIsLast
<1>3. /\ campaign \in Campaign /\ old \in Seq(Submission) /\ s \in Revisions
      /\ Revisions = 1 .. Len(old) /\ Len(old) \in Nat /\ s = Len(old)
      /\ \A p \in Pending : p = s
  BY <1>1 DEF ApprovalInv, ApprovalTypeOK, Campaign, LastIsPending, Pending, Revisions
<1>4. x \in Submission /\ x.status = status /\ x.demand = old[s].demand /\ status # "PENDING"
  <2>1. old[s] \in Submission
    BY <1>3, VersionsTyped
  <2> QED BY <2>1 DEF Submission
<1> DEFINE new == [old EXCEPT ![s] = x]
<1>5. campaign'.submissions = new
  BY <1>1, <1>3 DEF Campaign
<1> HIDE DEF x
<1>6. /\ new \in Seq(Submission) /\ Len(new) = Len(old) /\ DOMAIN new = DOMAIN old
      /\ new[s] = x /\ \A p \in Revisions \ {s} : new[p] = old[p]
  BY <1>3, <1>4
<1>7. /\ campaign' \in Campaign
      /\ campaign'.status = IF decision = "APPROVE" THEN "APPROVED" ELSE "HR_REVIEW"
  <2>1. /\ campaign'.demand = campaign.demand
        /\ DOMAIN campaign' = {"status", "demand", "submissions"}
        /\ campaign'.status = IF decision = "APPROVE" THEN "APPROVED" ELSE "HR_REVIEW"
    BY <1>1, <1>3 DEF Campaign
  <2>2. campaign' = [status |-> campaign'.status, demand |-> campaign'.demand,
                     submissions |-> campaign'.submissions]
    BY <1>1, <1>3 DEF Campaign
  <2> HIDE DEF new
  <2> QED BY <1>3, <1>5, <1>6, <2>1, <2>2 DEF Campaign
<1> HIDE DEF new
<1>8. Revisions' = Revisions /\ Pending' = {}
  <2>1. Revisions' = Revisions
    BY <1>5, <1>6 DEF Revisions
  <2>2. ASSUME NEW p \in Revisions PROVE new[p].status # "PENDING"
    BY <1>3, <1>4, <1>6 DEF Pending
  <2> QED BY <1>5, <2>1, <2>2 DEF Pending
<1>9. /\ ceo' \in Screens /\ ceo'[w].lines = None
      /\ \A u \in Screen \ {w} : ceo'[u] = ceo[u]
  BY <1>1 DEF ApprovalInv, ApprovalTypeOK, Screens, Sees, Without
<1>10. /\ approval' # None => campaign'.status = "APPROVED" /\ approval'.quantity = approval'.shown
                              /\ approval'.of = s
       /\ approval' \in [of : Revisions, quantity : Demand, shown : Demand] \cup {None}
  <2>1. ceo[w].lines = old[s].demand /\ old[s].demand \in Demand
    BY <1>1, <1>3, VersionsTyped DEF ApprovalInv, LinesOfSelected, Submission
  <2>2. CASE decision = "APPROVE"
    <3>1. approval' = [of |-> s, quantity |-> old[s].demand, shown |-> ceo[w].lines]
      BY <2>2 DEF Review, Decided
    <3> QED BY <1>3, <1>7, <2>1, <2>2, <3>1
  <2>3. CASE decision = "RETURN"
    BY <1>2, <2>3 DEF Review
  <2> QED BY <2>2, <2>3
<1>11. ApprovalTypeOK'
  BY <1>7, <1>8, <1>9, <1>10 DEF ApprovalTypeOK, Screens
<1>12. LinesOfSelected'
  <2> SUFFICES ASSUME NEW u \in Screen, ceo'[u].lines # None
               PROVE  /\ ceo'[u].selected \in Revisions
                      /\ ceo'[u].lines = new[ceo'[u].selected].demand
    BY <1>5, <1>8 DEF LinesOfSelected
  <2>1. ceo'[u] = ceo[u]
    BY <1>9
  <2>2. ceo[u].selected \in Revisions /\ ceo[u].lines = old[ceo[u].selected].demand
    BY <2>1 DEF ApprovalInv, LinesOfSelected
  <2>3. new[ceo[u].selected].demand = old[ceo[u].selected].demand
    BY <1>4, <1>6, <2>2
  <2> QED BY <2>1, <2>2, <2>3
<1>13. LastIsPending' /\ ApprovalIsLast'
  BY <1>3, <1>5, <1>6, <1>8, <1>10 DEF LastIsPending, ApprovalIsLast
<1> QED BY <1>11, <1>12, <1>13 DEF ApprovalInv

LEMMA ScreenStepKeeps ==
  ASSUME ApprovalInv, NEW w \in Screen, ScreenStep(w)
  PROVE  ApprovalInv'
<1> DEFINE Row == [queue : SUBSET Revisions, selected : Revisions \cup {None}, lines : Demand \cup {None}]
<1>1. ceo[w] \in Row /\ Pending \subseteq Revisions
  BY DEF ApprovalInv, ApprovalTypeOK, Screens, Pending
<1>2. ceo[w].lines # None =>
        ceo[w].selected \in Revisions /\ ceo[w].lines = campaign.submissions[ceo[w].selected].demand
  BY DEF ApprovalInv, LinesOfSelected
<1>3. CASE ReadQueue(w)
  <2> DEFINE v == IF ceo[w].selected \in Pending THEN [ceo[w] EXCEPT !.queue = Pending] ELSE Without(Pending)
  <2>1. v \in Row /\ (v.lines # None => v.lines = ceo[w].lines /\ v.selected = ceo[w].selected)
    BY <1>1 DEF Without
  <2>2. Sees(w, v) /\ campaign' = campaign /\ approval' = approval
    BY <1>3 DEF ReadQueue
  <2> HIDE DEF v
  <2> QED BY <1>2, <2>1, <2>2, ScreenKeeps
<1>4. ASSUME NEW s \in 1 .. MaxRevision, Select(w, s) PROVE ApprovalInv'
  <2> DEFINE v == [ceo[w] EXCEPT !.selected = s, !.lines = None]
  <2>1. v \in Row /\ v.lines = None
    BY <1>1, <1>4 DEF Select
  <2>2. Sees(w, v) /\ campaign' = campaign /\ approval' = approval
    BY <1>4 DEF Select
  <2> HIDE DEF v
  <2> QED BY <2>1, <2>2, ScreenKeeps
<1>5. CASE ReadLines(w)
  <2> DEFINE s == ceo[w].selected
             v == [ceo[w] EXCEPT !.lines = campaign.submissions[s].demand]
  <2>1. s \in Revisions
    BY <1>1, <1>5 DEF ReadLines
  <2>2. campaign.submissions[s].demand \in Demand
    BY <2>1, VersionsTyped DEF Submission
  <2>3. v \in Row /\ v.selected = s /\ v.lines = campaign.submissions[s].demand
    BY <1>1, <2>2
  <2>4. Sees(w, v) /\ campaign' = campaign /\ approval' = approval
    BY <1>5 DEF ReadLines
  <2> HIDE DEF v
  <2> QED BY <2>1, <2>3, <2>4, ScreenKeeps
<1> QED BY <1>3, <1>4, <1>5, ReviewKeeps DEF ScreenStep

LEMMA ApprovalStepKeeps == ApprovalInv /\ ApprovalNext => ApprovalInv'
BY CloseCampaignKeeps, SubmitKeeps, CorrectDemandKeeps, ScreenStepKeeps DEF ApprovalNext

-----------------------------------------------------------------------------
(* The theorems                                                            *)

\* The inductive invariant.
Inv == Good(purchase) /\ form \in Forms /\ ApprovalInv

LEMMA InitInv == Init => Inv
<1> SUFFICES ASSUME Init PROVE form \in Forms
  BY NothingBought, NothingApproved DEF Inv
<1>1. Blank \in Form
  BY DEF Blank, Form
<1> QED BY <1>1 DEF Init, Forms

LEMMA NextInv == Inv /\ [Next]_vars => Inv' /\ Final(purchase, purchase')
<1> SUFFICES ASSUME Inv, [Next]_vars PROVE Inv' /\ Final(purchase, purchase')
  OBVIOUS
<1>1. UNCHANGED approvalVars => ApprovalInv'
  BY DEF Inv, ApprovalInv, ApprovalTypeOK, Screens, LastIsPending, ApprovalIsLast, LinesOfSelected,
         Revisions, Pending, approvalVars
<1>2. UNCHANGED purchaseVars => Good(purchase') /\ form' \in Forms /\ Final(purchase, purchase')
  BY DEF Inv, purchaseVars, Final, Ended
<1>3. CASE ApprovalNext /\ UNCHANGED purchaseVars
  BY <1>2, <1>3, ApprovalStepKeeps DEF Inv
<1>4. CASE PurchaseStep /\ UNCHANGED approvalVars /\ UNCHANGED form
  BY <1>1, <1>4, PurchaseStepKeeps DEF Inv
<1>5. ASSUME NEW k \in Desk, DeskStep(k), UNCHANGED approvalVars
      PROVE  Inv' /\ Final(purchase, purchase')
  BY <1>1, <1>5, DeskStepKeeps DEF Inv
<1>6. CASE UNCHANGED vars
  BY <1>1, <1>2, <1>6 DEF Inv, vars, approvalVars, purchaseVars
<1> QED BY <1>3, <1>4, <1>5, <1>6 DEF Next

LEMMA InvImplies == Inv => TypeOK /\ ApprovedAsShown /\ OrderTellsProgress /\ WithinOrderAndLimit
<1> SUFFICES ASSUME Inv PROVE TypeOK /\ ApprovedAsShown /\ OrderTellsProgress /\ WithinOrderAndLimit
  OBVIOUS
<1>1. TypeOK
  BY DEF Inv, Good, ApprovalInv, ApprovalTypeOK, TypeOK, Campaign, Submission, Screens, Forms, Form
<1>2. ApprovedAsShown
  BY DEF Inv, ApprovalInv, ApprovalIsLast, LastIsPending, ApprovedAsShown
<1>3. OrderTellsProgress
  BY DEF Inv, Good, Tells, OrderTellsProgress
<1>4. WithinOrderAndLimit
  BY DEF Inv, Good, Within, WithinOrderAndLimit, AcceptedWithinOrdered
<1> QED BY <1>1, <1>2, <1>3, <1>4

LEMMA Invariance == Spec => []Inv
BY InitInv, NextInv, PTL DEF Spec

(* The tables and the panels keep their types, whatever is submitted,      *)
(* decided, ordered, received and corrected: no total of a receipt becomes *)
(* a negative number, no version is referred to that there is not.         *)
THEOREM TypeCorrect == Spec => []TypeOK
BY Invariance, InvImplies, PTL

(* For any number of screens and revisions: what is approved is what was   *)
(* shown to the CEO who approved it, and the last version submitted.       *)
THEOREM ApprovalIsWhatWasShown == Spec => []ApprovedAsShown
BY Invariance, InvImplies, PTL

(* For any number of orders, receipts and desks: an order says RECEIVED    *)
(* when, and only when, all of it has been accepted.                       *)
THEOREM OrdersTellProgress == Spec => []OrderTellsProgress
BY Invariance, InvImplies, PTL

(* For any quantities: while corrections only take back, no order is       *)
(* exceeded by what is accepted, nor the limit by all orders together.     *)
THEOREM OrdersWithinLimit == Spec => []WithinOrderAndLimit
BY Invariance, InvImplies, PTL

LEMMA CancelledStaysEmpty ==
  ASSUME NEW d, NEW e, Final(d, e), CancelledIsEmpty(d)
  PROVE  CancelledIsEmpty(e)
BY DEF Final, CancelledIsEmpty, Ended

(* An order that has been cancelled or closed short never changes again,   *)
(* no receipt is posted to it any more, and none has been posted to one    *)
(* that is cancelled.                                                      *)
THEOREM OrdersEndForGood == Spec => EndIsFinal
<1>1. Init => CancelledIsEmpty(purchase)
  BY DEF Init, PurchaseInit, CancelledIsEmpty
<1>2. Inv /\ CancelledIsEmpty(purchase) /\ [Next]_vars => CancelledIsEmpty(purchase)'
  BY NextInv, CancelledStaysEmpty
<1>3. Inv /\ CancelledIsEmpty(purchase) /\ [Next]_vars =>
        [\A o \in Order :
           /\ (purchase.order[o].status \in Ended =>
                 /\ purchase'.order[o] = purchase.order[o]
                 /\ PostedTo(purchase', o) = PostedTo(purchase, o))
           /\ (purchase'.order[o].status = "CANCELLED" => PostedTo(purchase', o) = {})]_purchase
  BY NextInv, <1>2 DEF Final, CancelledIsEmpty
<1> QED BY <1>1, <1>2, <1>3, Invariance, PTL DEF Spec, EndIsFinal
=============================================================================
