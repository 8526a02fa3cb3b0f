--------------------------- MODULE StocktakeProofs ---------------------------
(***************************************************************************)
(* Theorems about Stocktake, for any items, requests, panels and counts,   *)
(* and any number of keys, movements and lost answers: first what the      *)
(* transactions make of the tables, then what a panel knows of its form.   *)
(***************************************************************************)
EXTENDS Stocktake, SumLemmas

-----------------------------------------------------------------------------
(* Induction over the numbers up to N                                      *)

LEMMA IntervalInduction ==
  ASSUME NEW N \in Nat, NEW G, 0 \in G, \A n \in 1 .. N : n - 1 \in G => n \in G
  PROVE  \A n \in 0 .. N : n \in G
<1> DEFINE Bad == {n \in 0 .. N : n \notin G}
<1> SUFFICES ASSUME Bad # {} PROVE FALSE
  OBVIOUS
<1>1. IsFiniteSet(Bad)
  <2>1. IsFiniteSet(0 .. N)
    BY FS_Interval
  <2> QED BY <2>1, FS_Subset
<1>2. PICK m \in Bad : \A x \in Bad : m <= x
  <2>1. Bad \subseteq Int
    OBVIOUS
  <2> HIDE DEF Bad
  <2> QED BY <1>1, <2>1, LeastMember
<1>3. m \in 1 .. N /\ m - 1 \in 0 .. N /\ ~(m <= m - 1)
  BY <1>2
<1>4. m - 1 \in G
  BY <1>2, <1>3
<1> QED BY <1>2, <1>3, <1>4

-----------------------------------------------------------------------------
(* What is always so of the database                                       *)

StockRow == [qty : Nat, ver : Nat]
States == {"NONE", "ACTIVE", "CONFLICTED"}
DocRow == [status : {"NONE", "DRAFT", "STALE_COUNT", "POSTED"}, lines : DocLines, form : Nat \cup {None}]

\* TypeOK of the database, and that it is a record of its five tables.
Typed(d) ==
  /\ d \in [stock : [Item -> StockRow], reservation : [Request -> [Item -> States]],
            request : [Request -> {"DRAFT", "SUBMITTED", "INVENTORY_REVIEW_REQUIRED"}],
            doc : [No -> DocRow], commands : {d.commands}]
  /\ \A c \in d.commands : c.op \in {"CREATE", "UPDATE", "POST"} /\ c.no \in No

Covered(d) == \A i \in Item : Reserved(d, i) <= Combined(d, i)

\* A request that waits for its review holds nothing that could be shipped.
Orderly(d) ==
  \A r \in Request, i \in Item :
    /\ d.reservation[r][i] = "ACTIVE" => d.request[r] = "SUBMITTED"
    /\ d.reservation[r][i] = "CONFLICTED" => d.request[r] = "INVENTORY_REVIEW_REQUIRED"

Good(d) == Typed(d) /\ Covered(d) /\ Orderly(d)

\* NothingOverwritten of the step from d to e.
Posts(d, e) ==
  \A n \in No : d.doc[n].status # "POSTED" /\ e.doc[n].status = "POSTED" =>
    \A i \in Item : e.doc[n].lines[i] # None =>
      /\ e.stock[i].qty = e.doc[n].lines[i].counted
      /\ d.stock[i].ver = e.doc[n].lines[i].ver

LEMMA Constants ==
  /\ NItem \in Nat /\ MaxNo \in Nat /\ 1 <= MaxNo /\ MaxKeys \in Nat
  /\ IsFiniteSet(Request) /\ Wants \in [Request -> SUBSET Item]
  /\ AtFirst \in [Item -> Nat] /\ Elsewhere \in [Item -> Nat]
  /\ Counts \subseteq Nat
BY StocktakeConstants

-----------------------------------------------------------------------------
(* Reservations                                                            *)

Holders(d, i) == {r \in Request : d.reservation[r][i] = "ACTIVE"}

LEMMA ReservedType ==
  ASSUME NEW d, NEW i
  PROVE  IsFiniteSet(Holders(d, i)) /\ Reserved(d, i) = Cardinality(Holders(d, i)) /\ Reserved(d, i) \in Nat
<1>1. Holders(d, i) \subseteq Request
  BY DEF Holders
<1>2. IsFiniteSet(Holders(d, i))
  BY <1>1, Constants, FS_Subset
<1>3. Reserved(d, i) = Cardinality(Holders(d, i))
  BY DEF Reserved, Holders
<1> QED BY <1>2, <1>3, FS_CardinalityType

LEMMA CombinedType ==
  ASSUME NEW d, Typed(d), NEW i \in Item
  PROVE  Combined(d, i) \in Int /\ d.stock[i].qty \in Nat /\ d.stock[i].ver \in Nat /\ Elsewhere[i] \in Nat
<1>1. d.stock[i] \in StockRow
  BY DEF Typed
<1> QED BY <1>1, Constants DEF Combined, StockRow

\* Nothing is reserved that was not before.
OnlyReleased(d, e) ==
  \A r \in Request, i \in Item :
    e.reservation[r][i] = "ACTIVE" => d.reservation[r][i] = "ACTIVE"

LEMMA ReleasedReserves ==
  ASSUME NEW d, NEW e, OnlyReleased(d, e), NEW i \in Item
  PROVE  Reserved(e, i) <= Reserved(d, i)
<1>1. Holders(e, i) \subseteq Holders(d, i)
  BY DEF Holders, OnlyReleased
<1> QED BY <1>1, ReservedType, FS_Subset

LEMMA NobodyHolds ==
  ASSUME NEW d, NEW i, \A r \in Request : d.reservation[r][i] # "ACTIVE"
  PROVE  Reserved(d, i) = 0
<1>1. Holders(d, i) = {}
  BY DEF Holders
<1> QED BY <1>1, ReservedType, FS_EmptySet

\* One more request holds one more.
LEMMA OneMoreHolds ==
  ASSUME NEW d, NEW e, NEW r \in Request, NEW i \in Item,
         \A q \in Request \ {r} : e.reservation[q][i] = d.reservation[q][i]
  PROVE  /\ Reserved(e, i) <= Reserved(d, i) + 1
         /\ e.reservation[r][i] # "ACTIVE" => Reserved(e, i) <= Reserved(d, i)
<1>1. Holders(e, i) \subseteq Holders(d, i) \cup {r}
  BY DEF Holders
<1>2. /\ IsFiniteSet(Holders(d, i) \cup {r})
      /\ Cardinality(Holders(d, i) \cup {r}) <= Cardinality(Holders(d, i)) + 1
  <2>1. PICK H : H = Holders(d, i)
    OBVIOUS
  <2>2. IsFiniteSet(H) /\ Cardinality(H) \in Nat
    BY <2>1, ReservedType, FS_CardinalityType
  <2>3. /\ IsFiniteSet(H \cup {r})
        /\ Cardinality(H \cup {r}) = Cardinality(H) \/ Cardinality(H \cup {r}) = Cardinality(H) + 1
    BY <2>2, FS_AddElement
  <2> QED BY <2>1, <2>2, <2>3
<1>3. Reserved(e, i) <= Reserved(d, i) + 1
  <2>1. Cardinality(Holders(e, i)) <= Cardinality(Holders(d, i) \cup {r})
    BY <1>1, <1>2, FS_Subset
  <2>2. Cardinality(Holders(d, i) \cup {r}) \in Nat
    BY <1>2, FS_CardinalityType
  <2> QED BY <1>2, <2>1, <2>2, ReservedType
<1>4. e.reservation[r][i] # "ACTIVE" => Reserved(e, i) <= Reserved(d, i)
  <2> SUFFICES ASSUME e.reservation[r][i] # "ACTIVE" PROVE Reserved(e, i) <= Reserved(d, i)
    OBVIOUS
  <2>1. Holders(e, i) \subseteq Holders(d, i)
    BY DEF Holders
  <2> QED BY <2>1, ReservedType, FS_Subset
<1> QED BY <1>3, <1>4

-----------------------------------------------------------------------------
(* The conflicts of a shortage                                             *)

LEMMA ConflictKeeps ==
  ASSUME NEW d, Typed(d), Orderly(d), NEW i \in Item, NEW e, e = Conflict(d, i)
  PROVE  /\ Typed(e) /\ Orderly(e) /\ OnlyReleased(d, e)
         /\ e.stock = d.stock /\ e.doc = d.doc /\ e.commands = d.commands
         /\ Reserved(e, i) = 0
<1> DEFINE hit == {r \in Request : d.reservation[r][i] \in {"ACTIVE", "CONFLICTED"}}
           rv == [r \in Request |-> [j \in Item |->
                    IF r \in hit /\ d.reservation[r][j] = "ACTIVE" THEN "CONFLICTED" ELSE d.reservation[r][j]]]
           rq == [r \in Request |->
                    IF r \in hit /\ d.request[r] = "SUBMITTED" THEN "INVENTORY_REVIEW_REQUIRED" ELSE d.request[r]]
<1>1. e = [d EXCEPT !.reservation = rv, !.request = rq]
  BY DEF Conflict, Typed
<1>2. \A r \in Request, j \in Item :
        rv[r][j] = IF r \in hit /\ d.reservation[r][j] = "ACTIVE" THEN "CONFLICTED" ELSE d.reservation[r][j]
  OBVIOUS
<1>3. \A r \in Request :
        rq[r] = IF r \in hit /\ d.request[r] = "SUBMITTED" THEN "INVENTORY_REVIEW_REQUIRED" ELSE d.request[r]
  OBVIOUS
<1>4. rv \in [Request -> [Item -> States]]
  <2>1. \A r \in Request, j \in Item : d.reservation[r][j] \in States
    BY DEF Typed
  <2> QED BY <2>1 DEF States
<1>5. rq \in [Request -> {"DRAFT", "SUBMITTED", "INVENTORY_REVIEW_REQUIRED"}]
  BY DEF Typed
<1>6. \A r \in Request : d.reservation[r][i] \in {"ACTIVE", "CONFLICTED"} <=> r \in hit
  OBVIOUS
<1> HIDE DEF rv, rq, hit
<1>7. /\ e \in [stock : [Item -> StockRow], reservation : {rv}, request : {rq},
                doc : [No -> DocRow], commands : {d.commands}]
      /\ e.stock = d.stock /\ e.doc = d.doc /\ e.commands = d.commands
  BY <1>1 DEF Typed
<1>8. e.reservation = rv /\ e.request = rq
  BY <1>7
<1>9. Typed(e)
  BY <1>4, <1>5, <1>7 DEF Typed
<1>10. \A r \in Request : r \in hit => d.request[r] \in {"SUBMITTED", "INVENTORY_REVIEW_REQUIRED"}
  BY <1>6 DEF Orderly
<1>11. Orderly(e)
  <2> SUFFICES ASSUME NEW r \in Request, NEW j \in Item
               PROVE  /\ rv[r][j] = "ACTIVE" => rq[r] = "SUBMITTED"
                      /\ rv[r][j] = "CONFLICTED" => rq[r] = "INVENTORY_REVIEW_REQUIRED"
    BY <1>8 DEF Orderly
  <2>1. /\ d.reservation[r][j] = "ACTIVE" => d.request[r] = "SUBMITTED"
        /\ d.reservation[r][j] = "CONFLICTED" => d.request[r] = "INVENTORY_REVIEW_REQUIRED"
    BY DEF Orderly
  <2> QED BY <1>2, <1>3, <1>10, <2>1
<1>12. OnlyReleased(d, e)
  BY <1>2, <1>8 DEF OnlyReleased
<1>13. \A r \in Request : e.reservation[r][i] # "ACTIVE"
  BY <1>2, <1>6, <1>8
<1> QED BY <1>7, <1>9, <1>11, <1>12, <1>13, NobodyHolds

\* Uncovered goes through the items one by one.
Through(x, n, lines, items) ==
  IF n \in items /\ Short(x, n, lines[n]) THEN Conflict(x, n) ELSE x

IsUpTo(f, d, lines, items, N) ==
  f = [n \in 0 .. N |-> IF n = 0 THEN d ELSE Through(f[n - 1], n, lines, items)]

LEMMA UpToExists ==
  ASSUME NEW d, NEW lines, NEW items
  PROVE  \E f : IsUpTo(f, d, lines, items, NItem)
<1> DEFINE G == {n \in 0 .. NItem : \E f : IsUpTo(f, d, lines, items, n)}
<1>1. 0 \in G
  <2> DEFINE f == [n \in 0 .. 0 |-> d]
  <2>1. \A n \in 0 .. 0 : n = 0
    OBVIOUS
  <2>2. f = [n \in 0 .. 0 |-> IF n = 0 THEN d ELSE Through(f[n - 1], n, lines, items)]
    BY <2>1
  <2>3. IsUpTo(f, d, lines, items, 0)
    BY <2>2 DEF IsUpTo
  <2> QED BY <2>3, Constants
<1>2. ASSUME NEW n \in 1 .. NItem, n - 1 \in G
      PROVE  n \in G
  <2>1. PICK f : IsUpTo(f, d, lines, items, n - 1)
    BY <1>2
  <2> DEFINE g == [k \in 0 .. n |-> IF k = n THEN Through(f[n - 1], n, lines, items) ELSE f[k]]
  <2>2. \A k \in 0 .. n - 1 : f[k] = IF k = 0 THEN d ELSE Through(f[k - 1], k, lines, items)
    BY <2>1, Constants DEF IsUpTo
  <2>3. \A k \in 0 .. n - 1 : g[k] = f[k]
    BY Constants
  <2>4. g[n] = Through(f[n - 1], n, lines, items) /\ g[n - 1] = f[n - 1]
    BY <2>3, Constants
  <2>5. ASSUME NEW k \in 0 .. n
        PROVE  g[k] = IF k = 0 THEN d ELSE Through(g[k - 1], k, lines, items)
    <3>1. CASE k = n
      BY <2>4, <3>1
    <3>2. CASE k # n /\ k # 0
      <4>1. k \in 0 .. n - 1 /\ k - 1 \in 0 .. n - 1
        BY <3>2
      <4>2. g[k] = f[k] /\ g[k - 1] = f[k - 1] /\ f[k] = Through(f[k - 1], k, lines, items)
        BY <2>2, <2>3, <3>2, <4>1
      <4> QED BY <3>2, <4>2
    <3>3. CASE k = 0
      <4>1. 0 \in 0 .. n - 1 /\ 0 # n
        OBVIOUS
      <4> QED BY <2>2, <2>3, <3>3, <4>1
    <3> QED BY <3>1, <3>2, <3>3
  <2>6. \E S : g = [k \in 0 .. n |-> S[k]]
    <3>1. g = [k \in 0 .. n |-> g[k]]
      OBVIOUS
    <3> QED BY <3>1
  <2> HIDE DEF g
  <2>7. g = [k \in 0 .. n |-> IF k = 0 THEN d ELSE Through(g[k - 1], k, lines, items)]
    BY <2>5, <2>6
  <2> QED BY <2>7 DEF IsUpTo
<1> HIDE DEF G
<1>3. NItem \in G
  BY <1>1, <1>2, Constants, IntervalInduction
<1> QED BY <1>3 DEF G

LEMMA UncoveredIs ==
  ASSUME NEW d, NEW lines, NEW items
  PROVE  \E f : IsUpTo(f, d, lines, items, NItem) /\ Uncovered(d, lines, items) = f[NItem]
<1> DEFINE it == CHOOSE f : IsUpTo(f, d, lines, items, NItem)
<1>1. IsUpTo(it, d, lines, items, NItem)
  BY UpToExists
<1>2. Uncovered(d, lines, items) = it[NItem]
  BY DEF Uncovered, IsUpTo, Through
<1> QED BY <1>1, <1>2

\* What is so once the items up to n have been gone through.
Conflicted(x, d, lines, items, n) ==
  /\ Typed(x) /\ Orderly(x) /\ OnlyReleased(d, x)
  /\ x.stock = d.stock /\ x.doc = d.doc /\ x.commands = d.commands
  /\ \A j \in items : j <= n => Reserved(x, j) <= Elsewhere[j] + lines[j].counted

LEMMA UncoveredKeeps ==
  ASSUME NEW d, Typed(d), Orderly(d), NEW lines \in DocLines, NEW items \in SUBSET Item,
         \A i \in items : lines[i] # None /\ lines[i].book = d.stock[i].qty,
         NEW e, e = Uncovered(d, lines, items)
  PROVE  Conflicted(e, d, lines, items, NItem)
<1>1. PICK f : IsUpTo(f, d, lines, items, NItem) /\ e = f[NItem]
  BY UncoveredIs
<1> DEFINE G == {n \in 0 .. NItem : Conflicted(f[n], d, lines, items, n)}
<1>2. \A n \in 0 .. NItem : f[n] = IF n = 0 THEN d ELSE Through(f[n - 1], n, lines, items)
  BY <1>1, Constants DEF IsUpTo
<1>3. 0 \in G
  <2>1. f[0] = d /\ \A j \in items : ~(j <= 0)
    BY <1>2, Constants DEF Item
  <2> QED BY <2>1, Constants DEF Conflicted, OnlyReleased
<1>4. ASSUME NEW n \in 1 .. NItem, n - 1 \in G
      PROVE  n \in G
  <2> DEFINE x == f[n - 1]
             y == f[n]
  <2>1. Conflicted(x, d, lines, items, n - 1)
    BY <1>4
  <2>2. y = Through(x, n, lines, items)
    BY <1>2, Constants
  <2> SUFFICES Conflicted(y, d, lines, items, n)
    OBVIOUS
  <2> HIDE DEF x, y
  <2>3. n \in Item /\ \A j \in items : j \in Item /\ (j <= n => j = n \/ j <= n - 1)
    BY Constants DEF Item
  <2>4. CASE n \in items /\ Short(x, n, lines[n])
    <3>1. y = Conflict(x, n)
      BY <2>2, <2>4 DEF Through
    <3>2. /\ Typed(y) /\ Orderly(y) /\ OnlyReleased(x, y)
          /\ y.stock = x.stock /\ y.doc = x.doc /\ y.commands = x.commands
          /\ Reserved(y, n) = 0
      BY <2>1, <2>3, <3>1, ConflictKeeps DEF Conflicted
    <3>3. OnlyReleased(d, y)
      BY <2>1, <3>2 DEF Conflicted, OnlyReleased
    <3>4. ASSUME NEW j \in items, j <= n
          PROVE  Reserved(y, j) <= Elsewhere[j] + lines[j].counted
      <4>1. Elsewhere[j] \in Nat /\ lines[j].counted \in Nat
        <5>1. lines[j] \in [book : Nat, ver : Nat, counted : Nat, null : BOOLEAN]
          BY DEF DocLines
        <5> QED BY <5>1, Constants
      <4>2. CASE j = n
        BY <3>2, <4>1, <4>2
      <4>3. CASE j <= n - 1
        <5>1. Reserved(x, j) <= Elsewhere[j] + lines[j].counted
          BY <2>1, <4>3 DEF Conflicted
        <5>2. Reserved(y, j) <= Reserved(x, j)
          BY <3>2, ReleasedReserves
        <5>3. Reserved(y, j) \in Nat /\ Reserved(x, j) \in Nat
          BY ReservedType
        <5> QED BY <4>1, <5>1, <5>2, <5>3
      <4> QED BY <2>3, <3>4, <4>2, <4>3
    <3> QED BY <2>1, <3>2, <3>3, <3>4 DEF Conflicted
  <2>5. CASE ~(n \in items /\ Short(x, n, lines[n]))
    <3>1. y = x
      BY <2>2, <2>5 DEF Through
    <3>2. ASSUME n \in items
          PROVE  Reserved(x, n) <= Elsewhere[n] + lines[n].counted
      <4>1. ~(Combined(x, n) + lines[n].counted - lines[n].book < Reserved(x, n))
        BY <2>5, <3>2 DEF Short
      <4>2. lines[n] \in [book : Nat, ver : Nat, counted : Nat, null : BOOLEAN] /\ lines[n].book = d.stock[n].qty
        BY <2>3, <3>2 DEF DocLines
      <4>3. Combined(x, n) = lines[n].book + Elsewhere[n]
        BY <2>1, <4>2 DEF Conflicted, Combined
      <4>4. Elsewhere[n] \in Nat /\ lines[n].book \in Nat /\ lines[n].counted \in Nat /\ Reserved(x, n) \in Nat
        BY <2>3, <4>2, ReservedType, Constants
      <4> QED BY <4>1, <4>3, <4>4
    <3> QED BY <2>1, <2>3, <3>1, <3>2 DEF Conflicted
  <2> QED BY <2>4, <2>5
<1> HIDE DEF G
<1>5. NItem \in G
  BY <1>3, <1>4, Constants, IntervalInduction
<1> QED BY <1>1, <1>5 DEF G

-----------------------------------------------------------------------------
(* The transactions                                                        *)

Ops == {"create", "save", "recapture", "complete", "draft", "post"}

IsCall(c) ==
  c \in [op : Ops, no : No, form : Nat, saved : BOOLEAN, lines : SentLines, keys : Keys, print : {c.print}]

\* What a transaction may answer: it has done all of it, or nothing.
Answer(d, x) ==
  /\ x \in [db : {x.db}, no : No \cup {None}, error : {"none", "refused", "duplicate"}]
  /\ x.error = "none" => x.no \in No
  /\ x.error # "none" => x.db = d
  /\ Good(x.db)

\* It posts nothing.
OnlySaves(d, e) ==
  e.stock = d.stock /\ \A n \in No : e.doc[n].status = "POSTED" => d.doc[n].status = "POSTED"

Duplicate(d) == [Refused(d) EXCEPT !.error = "duplicate"]

LEMMA RefusedIs ==
  ASSUME NEW d, Good(d)
  PROVE  /\ Answer(d, Refused(d)) /\ Refused(d).db = d /\ Refused(d).error = "refused"
         /\ Answer(d, Duplicate(d)) /\ Duplicate(d).db = d /\ Duplicate(d).error = "duplicate"
BY DEF Answer, Refused, Duplicate

LEMMA DoneIs ==
  ASSUME NEW d, NEW e, Good(e), NEW no \in No
  PROVE  Answer(d, Done(e, no)) /\ Done(e, no).db = e /\ Done(e, no).error = "none" /\ Done(e, no).no = no
BY DEF Answer, Done

\* A key that has been used finds what was done then, and does nothing.
LEMMA OnceIs ==
  ASSUME NEW d, Good(d), NEW op, NEW n, NEW key, NEW print, NEW fresh
  PROVE  \/ Once(d, op, n, key, print, fresh) = fresh
         \/ Once(d, op, n, key, print, fresh) = Refused(d)
         \/ \E no \in No : Once(d, op, n, key, print, fresh) = Done(d, no)
<1> DEFINE prior == {c \in d.commands : c.op = op /\ c.no[1] = n[1] /\ c.key = key}
           c == CHOOSE c \in prior : TRUE
<1>1. CASE prior = {}
  BY <1>1 DEF Once
<1>2. CASE prior # {}
  <2>1. c \in prior
    BY <1>2
  <2>2. c.no \in No
    BY <2>1 DEF Good, Typed
  <2>3. Once(d, op, n, key, print, fresh) =
          IF c.print = print /\ c.succeeded THEN Done(d, c.no) ELSE Refused(d)
    BY <1>2 DEF Once
  <2> QED BY <2>2, <2>3
<1> QED BY <1>1, <1>2

LEMMA OnceAnswers ==
  ASSUME NEW d, Good(d), NEW op, NEW n, NEW key, NEW print, NEW fresh, Answer(d, fresh),
         NEW x, x = Once(d, op, n, key, print, fresh)
  PROVE  Answer(d, x) /\ (x = fresh \/ x.db = d)
<1>1. CASE x = fresh
  BY <1>1
<1>2. CASE x = Refused(d)
  BY <1>2, RefusedIs
<1>3. ASSUME NEW no \in No, x = Done(d, no)
      PROVE  Answer(d, x) /\ x.db = d
  BY <1>3, DoneIs
<1> QED BY <1>1, <1>2, <1>3, OnceIs

\* What only changes documents and commands keeps the stock covered.
LEMMA SameStock ==
  ASSUME NEW d, Covered(d), Orderly(d), NEW e, Typed(e),
         e.stock = d.stock, e.reservation = d.reservation, e.request = d.request
  PROVE  Good(e)
<1>1. \A i \in Item : Reserved(e, i) = Reserved(d, i) /\ Combined(e, i) = Combined(d, i)
  BY DEF Reserved, Combined
<1> QED BY <1>1 DEF Good, Covered, Orderly

LEMMA RememberKeeps ==
  ASSUME NEW d, Typed(d), NEW op \in {"CREATE", "UPDATE", "POST"}, NEW key, NEW print, NEW succeeded,
         NEW no \in No, NEW e, e = Remember(d, op, key, print, succeeded, no)
  PROVE  /\ Typed(e) /\ e.stock = d.stock /\ e.doc = d.doc
         /\ e.reservation = d.reservation /\ e.request = d.request
         /\ e.commands = d.commands \cup
              {[op |-> op, key |-> key, print |-> print, succeeded |-> succeeded, no |-> no]}
<1> DEFINE x == [op |-> op, key |-> key, print |-> print, succeeded |-> succeeded, no |-> no]
<1>1. x.op = op /\ x.no = no
  OBVIOUS
<1>2. e = [d EXCEPT !.commands = d.commands \cup {x}]
  BY DEF Remember, Typed
<1> HIDE DEF x
<1>3. /\ e \in [stock : [Item -> StockRow], reservation : [Request -> [Item -> States]],
                request : [Request -> {"DRAFT", "SUBMITTED", "INVENTORY_REVIEW_REQUIRED"}],
                doc : [No -> DocRow], commands : {d.commands \cup {x}}]
      /\ e.stock = d.stock /\ e.doc = d.doc /\ e.reservation = d.reservation /\ e.request = d.request
  BY <1>2 DEF Typed
<1>4. e.commands = d.commands \cup {x}
  BY <1>3
<1>5. \A c \in e.commands : c.op \in {"CREATE", "UPDATE", "POST"} /\ c.no \in No
  BY <1>1, <1>4 DEF Typed
<1> QED BY <1>3, <1>4, <1>5 DEF Typed, x

WithDoc(d, n, row) == [d EXCEPT !.doc[n] = row]

LEMMA DocChange ==
  ASSUME NEW d, Typed(d), NEW n \in No, NEW row \in DocRow, NEW e, e = WithDoc(d, n, row)
  PROVE  /\ Typed(e) /\ e.stock = d.stock /\ e.reservation = d.reservation /\ e.request = d.request
         /\ e.commands = d.commands /\ e.doc[n] = row /\ \A m \in No \ {n} : e.doc[m] = d.doc[m]
<1> DEFINE t == [d.doc EXCEPT ![n] = row]
<1>1. t \in [No -> DocRow] /\ t[n] = row /\ \A m \in No \ {n} : t[m] = d.doc[m]
  BY DEF Typed
<1>2. e = [d EXCEPT !.doc = t]
  BY DEF Typed, WithDoc
<1> HIDE DEF t
<1>3. /\ e \in [stock : [Item -> StockRow], reservation : [Request -> [Item -> States]],
                request : [Request -> {"DRAFT", "SUBMITTED", "INVENTORY_REVIEW_REQUIRED"}],
                doc : {t}, commands : {d.commands}]
      /\ e.stock = d.stock /\ e.reservation = d.reservation /\ e.request = d.request
  BY <1>2 DEF Typed
<1>4. e.doc = t /\ e.commands = d.commands
  BY <1>3
<1>5. Typed(e)
  BY <1>1, <1>3, <1>4 DEF Typed
<1> QED BY <1>1, <1>3, <1>4, <1>5

LEMMA CapturedType ==
  ASSUME NEW d, Typed(d), NEW lines \in SentLines
  PROVE  Captured(d, lines) \in DocLines
<1> SUFFICES ASSUME NEW i \in Item, lines[i] # None
             PROVE  [book |-> d.stock[i].qty, ver |-> d.stock[i].ver, counted |-> lines[i].counted,
                     null |-> ~lines[i].reason]
                      \in [book : Nat, ver : Nat, counted : Nat, null : BOOLEAN]
  BY DEF Captured, DocLines
<1>1. lines[i] \in [counted : Nat, reason : BOOLEAN, seen : Nat]
  BY DEF SentLines
<1>2. d.stock[i].qty \in Nat /\ d.stock[i].ver \in Nat
  BY CombinedType
<1>3. PICK null \in BOOLEAN : null = ~lines[i].reason
  OBVIOUS
<1> QED BY <1>1, <1>2, <1>3

\* A save: a document that becomes a draft, and a command that tells of it.
LEMMA SaveKeeps ==
  ASSUME NEW d, Good(d), NEW n \in No, NEW row \in DocRow, row.status # "POSTED",
         NEW op \in {"CREATE", "UPDATE", "POST"}, NEW key, NEW print, NEW succeeded,
         NEW e, e = Remember(WithDoc(d, n, row), op, key, print, succeeded, n)
  PROVE  Good(e) /\ OnlySaves(d, e) /\ Answer(d, Done(e, n))
<1> DEFINE m == WithDoc(d, n, row)
<1>1. /\ Typed(m) /\ m.stock = d.stock /\ m.reservation = d.reservation /\ m.request = d.request
      /\ m.doc[n] = row /\ \A k \in No \ {n} : m.doc[k] = d.doc[k]
  BY DocChange DEF Good
<1> HIDE DEF m
<1>2. e = Remember(m, op, key, print, succeeded, n)
  BY DEF m
<1>3. /\ Typed(e) /\ e.stock = m.stock /\ e.doc = m.doc
      /\ e.reservation = m.reservation /\ e.request = m.request
  BY <1>1, <1>2, RememberKeeps
<1>4. Good(e)
  BY <1>1, <1>3, SameStock DEF Good
<1>5. OnlySaves(d, e)
  BY <1>1, <1>3 DEF OnlySaves
<1> QED BY <1>4, <1>5, DoneIs

LEMMA CreateKeeps ==
  ASSUME NEW d, Good(d), NEW c, IsCall(c), NEW x, x = CreateTx(d, c)
  PROVE  Answer(d, x) /\ OnlySaves(d, x.db)
<1> DEFINE row == [status |-> "DRAFT", lines |-> Captured(d, c.lines), form |-> c.form]
           e == Remember(WithDoc(d, c.no, row), "CREATE", c.keys.create, c.print, TRUE, c.no)
           fresh == IF d.doc[c.no].status # "NONE" THEN Duplicate(d)
                    ELSE IF ~DifferencesExplained(d, c.lines) THEN Refused(d)
                    ELSE Done(e, c.no)
<1>1. x = Once(d, "CREATE", c.no, c.keys.create, c.print, fresh)
  BY DEF CreateTx, WithDoc, Duplicate
<1>2. row \in DocRow /\ row.status # "POSTED" /\ c.no \in No
  <2>1. c.lines \in SentLines /\ c.form \in Nat /\ c.no \in No
    BY DEF IsCall
  <2> QED BY <2>1, CapturedType DEF Good, DocRow
<1> HIDE DEF row
<1>3. PICK n, key, print :
        n \in No /\ n = c.no /\ e = Remember(WithDoc(d, n, row), "CREATE", key, print, TRUE, n)
  BY <1>2
<1> HIDE DEF e
<1>4. Good(e) /\ OnlySaves(d, e) /\ Answer(d, Done(e, c.no)) /\ Done(e, c.no).db = e
  <2>1. Good(e) /\ OnlySaves(d, e) /\ Answer(d, Done(e, n))
    BY <1>2, <1>3, SaveKeeps
  <2> QED BY <1>3, <2>1, DoneIs
<1>5. Answer(d, fresh) /\ OnlySaves(d, fresh.db)
  <2>1. OnlySaves(d, d)
    BY DEF OnlySaves
  <2>2. fresh = Duplicate(d) \/ fresh = Refused(d) \/ fresh = Done(e, c.no)
    OBVIOUS
  <2> HIDE DEF fresh
  <2> QED BY <1>4, <2>1, <2>2, RefusedIs
<1> HIDE DEF fresh
<1>6. Answer(d, x) /\ (x = fresh \/ x.db = d)
  BY <1>1, <1>5, OnceAnswers
<1> QED BY <1>5, <1>6 DEF OnlySaves

Drafted(d, n, lines) == [d EXCEPT !.doc[n].status = "DRAFT", !.doc[n].lines = lines]
DraftRow(s, lines) == [s EXCEPT !.status = "DRAFT", !.lines = lines]

LEMMA DraftedIs ==
  ASSUME NEW d, Typed(d), NEW n \in No, NEW lines
  PROVE  Drafted(d, n, lines) = WithDoc(d, n, DraftRow(d.doc[n], lines))
<1>1. d.doc \in [No -> DocRow] /\ d \in [stock : {d.stock}, reservation : {d.reservation},
                                         request : {d.request}, doc : {d.doc}, commands : {d.commands}]
  BY DEF Typed
<1> QED BY <1>1 DEF WithDoc, Drafted, DraftRow

LEMMA UpdateKeeps ==
  ASSUME NEW d, Good(d), NEW c, IsCall(c), NEW key, NEW lines \in SentLines, NEW recount,
         NEW x, x = UpdateTx(d, c, key, lines, recount)
  PROVE  Answer(d, x) /\ OnlySaves(d, x.db)
<1> DEFINE s == d.doc[c.no]
           kept == AfterGuardedDelete(s.lines)
           new == [i \in Item |-> IF lines[i] = None THEN kept[i] ELSE Captured(d, lines)[i]]
           row == DraftRow(s, new)
           accepted ==
             /\ s.status = "DRAFT" \/ (s.status = "STALE_COUNT" /\ recount)
             /\ \A i \in Item : kept[i] = None \/ lines[i] = None
             /\ DifferencesExplained(d, lines)
           e == Remember(Drafted(d, c.no, new), "UPDATE", key, c.print, TRUE, c.no)
           fresh == IF ~accepted THEN Refused(d) ELSE Done(e, c.no)
<1>1. c.no \in No /\ s \in DocRow
  BY DEF IsCall, Good, Typed
<1>2. ASSUME NEW n \in No, n = c.no PROVE Drafted(d, n, new) = WithDoc(d, n, row)
  <2> HIDE DEF new
  <2> QED BY <1>2, DraftedIs DEF Good
<1>3. x = Once(d, "UPDATE", c.no, key, c.print, fresh)
  BY DEF UpdateTx, Drafted
<1>4. row \in DocRow /\ row.status # "POSTED"
  <2>1. Captured(d, lines) \in DocLines
    BY CapturedType DEF Good
  <2>2. kept \in DocLines
    BY <1>1 DEF AfterGuardedDelete, DocRow
  <2> HIDE DEF kept
  <2>3. new \in DocLines
    BY <2>1, <2>2 DEF DocLines
  <2> HIDE DEF new, s
  <2> QED BY <1>1, <2>3 DEF DocRow, DraftRow
<1>5. PICK n, print :
        n \in No /\ n = c.no /\ e = Remember(WithDoc(d, n, row), "UPDATE", key, print, TRUE, n)
  <2> HIDE DEF row, new
  <2> QED BY <1>1, <1>2
<1> HIDE DEF row, e, accepted
<1>6. Good(e) /\ OnlySaves(d, e) /\ Answer(d, Done(e, c.no)) /\ Done(e, c.no).db = e
  BY <1>1, <1>4, <1>5, SaveKeeps, DoneIs
<1>7. Answer(d, fresh) /\ OnlySaves(d, fresh.db)
  <2>1. OnlySaves(d, d)
    BY DEF OnlySaves
  <2>2. fresh = Refused(d) \/ fresh = Done(e, c.no)
    OBVIOUS
  <2> HIDE DEF fresh
  <2> QED BY <1>6, <2>1, <2>2, RefusedIs
<1> HIDE DEF fresh
<1>8. Answer(d, x) /\ (x = fresh \/ x.db = d)
  BY <1>3, <1>7, OnceAnswers
<1> QED BY <1>7, <1>8 DEF OnlySaves

LEMMA RecaptureKeeps ==
  ASSUME NEW d, Good(d), NEW c, IsCall(c), NEW x, x = RecaptureTx(d, c)
  PROVE  Answer(d, x) /\ OnlySaves(d, x.db)
<1> DEFINE s == d.doc[c.no]
           anew == [i \in Item |-> IF s.lines[i] = None THEN None
                      ELSE [counted |-> d.stock[i].qty, reason |-> FALSE, seen |-> d.stock[i].ver]]
<1>1. anew \in SentLines
  <2>1. \A i \in Item : d.stock[i].qty \in Nat /\ d.stock[i].ver \in Nat
    BY CombinedType DEF Good
  <2>2. \A i \in Item : [counted |-> d.stock[i].qty, reason |-> FALSE, seen |-> d.stock[i].ver]
                          \in [counted : Nat, reason : BOOLEAN, seen : Nat]
    BY <2>1
  <2> HIDE DEF s
  <2> QED BY <2>2 DEF SentLines
<1>2. x = Refused(d) \/ x = UpdateTx(d, c, <<"RECOUNT", c.keys.update>>, anew, TRUE)
  BY DEF RecaptureTx
<1> HIDE DEF anew
<1>3. CASE x = Refused(d)
  BY <1>3, RefusedIs DEF OnlySaves
<1>4. CASE x = UpdateTx(d, c, <<"RECOUNT", c.keys.update>>, anew, TRUE)
  BY <1>1, <1>4, UpdateKeeps
<1> QED BY <1>2, <1>3, <1>4

LEMMA SaveTxKeeps ==
  ASSUME NEW d, Good(d), NEW c, IsCall(c), NEW x, x = SaveTx(d, c)
  PROVE  Answer(d, x) /\ OnlySaves(d, x.db)
<1>1. c.lines \in SentLines
  BY DEF IsCall
<1>2. x = UpdateTx(d, c, <<"UPDATE", c.keys.update>>, c.lines, FALSE) \/ x = CreateTx(d, c)
  BY DEF SaveTx
<1>3. CASE x = UpdateTx(d, c, <<"UPDATE", c.keys.update>>, c.lines, FALSE)
  BY <1>1, <1>3, UpdateKeeps
<1>4. CASE x = CreateTx(d, c)
  BY <1>4, CreateKeeps
<1> QED BY <1>2, <1>3, <1>4

-----------------------------------------------------------------------------
(* Posting                                                                 *)

LEMMA LineType ==
  ASSUME NEW lines \in DocLines, NEW i \in Item, lines[i] # None
  PROVE  lines[i].book \in Nat /\ lines[i].ver \in Nat /\ lines[i].counted \in Nat
BY DEF DocLines

LEMMA AdjustedType ==
  ASSUME NEW d, Typed(d), NEW lines \in DocLines,
         \A i \in Item : lines[i] # None => lines[i].book = d.stock[i].qty
  PROVE  /\ Adjusted(d, lines) \in [Item -> StockRow]
         /\ \A i \in Item : IF lines[i] = None THEN Adjusted(d, lines)[i] = d.stock[i]
                                               ELSE Adjusted(d, lines)[i].qty = lines[i].counted
<1>1. ASSUME NEW i \in Item
      PROVE  /\ Adjusted(d, lines)[i] \in StockRow
             /\ IF lines[i] = None THEN Adjusted(d, lines)[i] = d.stock[i]
                                   ELSE Adjusted(d, lines)[i].qty = lines[i].counted
  <2>1. d.stock[i] \in StockRow /\ d.stock[i].qty \in Nat /\ d.stock[i].ver \in Nat
    BY CombinedType DEF Typed
  <2>2. CASE lines[i] = None
    BY <2>1, <2>2 DEF Adjusted
  <2>3. CASE lines[i] # None
    <3>1. Adjusted(d, lines)[i] = [qty |-> d.stock[i].qty + lines[i].counted - lines[i].book,
                                   ver |-> d.stock[i].ver + 1]
      BY <2>3 DEF Adjusted
    <3>2. d.stock[i].qty + lines[i].counted - lines[i].book = lines[i].counted
      BY <2>1, <2>3, LineType
    <3>3. d.stock[i].ver + 1 \in Nat
      BY <2>1
    <3> QED BY <2>3, <3>1, <3>2, <3>3, LineType DEF StockRow
  <2> QED BY <2>2, <2>3
<1>2. Adjusted(d, lines) = [i \in Item |-> Adjusted(d, lines)[i]]
  BY DEF Adjusted
<1> QED BY <1>1, <1>2

LEMMA StockChange ==
  ASSUME NEW d, Typed(d), NEW t \in [Item -> StockRow], NEW e, e = [d EXCEPT !.stock = t]
  PROVE  /\ Typed(e) /\ e.stock = t /\ e.doc = d.doc /\ e.commands = d.commands
         /\ e.reservation = d.reservation /\ e.request = d.request
<1>1. /\ e \in [stock : {t}, reservation : [Request -> [Item -> States]],
                request : [Request -> {"DRAFT", "SUBMITTED", "INVENTORY_REVIEW_REQUIRED"}],
                doc : [No -> DocRow], commands : {d.commands}]
      /\ e.doc = d.doc /\ e.reservation = d.reservation /\ e.request = d.request
  BY DEF Typed
<1>2. e.stock = t /\ e.commands = d.commands
  BY <1>1
<1> QED BY <1>1, <1>2 DEF Typed

\* post_stocktake: what it answers is sound, and a count that it posts is the
\* book that was counted.
LEMMA PostKeeps ==
  ASSUME NEW d, Good(d), NEW c, NEW no \in No, NEW x, x = PostTx(d, c, no)
  PROVE  Answer(d, x) /\ Posts(d, x.db)
<1> DEFINE s == d.doc[no]
           counted == {i \in Item : s.lines[i] # None}
           moved == {i \in counted : Moved(d, i, s.lines[i])}
           before == {i \in counted : \A j \in moved : i < j}
           after == Uncovered(d, s.lines, before)
           adjusted == [after EXCEPT !.stock = Adjusted(d, s.lines)]
           stale == Remember([after EXCEPT !.doc[no].status = "STALE_COUNT"],
                             "POST", c.keys.post, <<no, c.print>>, FALSE, no)
           posted == Remember([adjusted EXCEPT !.doc[no].status = "POSTED"],
                              "POST", c.keys.post, <<no, c.print>>, TRUE, no)
           fresh == CASE s.status # "DRAFT" -> Refused(d)
                      [] s.status = "DRAFT" /\ moved # {} -> Done(stale, no)
                      [] OTHER -> Done(posted, no)
<1>1. x = Once(d, "POST", no, c.keys.post, <<no, c.print>>, fresh)
  BY DEF PostTx
<1>2. s \in DocRow /\ s.lines \in DocLines
  BY DEF Good, Typed, DocRow
<1>3. before \in SUBSET Item
  OBVIOUS
<1>4. \A i \in before : s.lines[i] # None /\ d.stock[i].qty = s.lines[i].book
  <2> SUFFICES ASSUME NEW i \in before PROVE s.lines[i] # None /\ d.stock[i].qty = s.lines[i].book
    OBVIOUS
  <2>1. i \in counted /\ i \in Int /\ ~(i < i)
    BY DEF Item
  <2>2. i \notin moved
    BY <2>1
  <2> HIDE DEF s
  <2> QED BY <2>1, <2>2 DEF Moved
<1>5. moved = {} => /\ before = counted
                    /\ \A i \in Item : s.lines[i] # None =>
                         d.stock[i].qty = s.lines[i].book /\ d.stock[i].ver = s.lines[i].ver
  <2> HIDE DEF s
  <2> QED BY DEF Moved
<1>6. \A i \in Item : i \in counted <=> s.lines[i] # None
  OBVIOUS
<1> HIDE DEF moved, counted, before
<1>7. Conflicted(after, d, s.lines, before, NItem)
  <2> HIDE DEF s
  <2> QED BY <1>2, <1>3, <1>4, UncoveredKeeps DEF Good
<1> HIDE DEF after
<1>8. /\ Typed(after) /\ Orderly(after) /\ OnlyReleased(d, after)
      /\ after.stock = d.stock /\ after.doc = d.doc
  BY <1>7 DEF Conflicted
<1>9. Covered(after)
  <2> SUFFICES ASSUME NEW i \in Item PROVE Reserved(after, i) <= Combined(after, i)
    BY DEF Covered
  <2>1. Reserved(after, i) <= Reserved(d, i) /\ Reserved(d, i) <= Combined(d, i)
    BY <1>8, ReleasedReserves DEF Good, Covered
  <2>2. Combined(after, i) = Combined(d, i)
    BY <1>8 DEF Combined
  <2> QED BY <2>1, <2>2, ReservedType, CombinedType DEF Good
<1>10. Answer(d, Done(stale, no)) /\ Posts(d, stale) /\ Done(stale, no).db = stale
  <2> DEFINE row == [s EXCEPT !.status = "STALE_COUNT"]
  <2>1. row \in DocRow /\ row.status = "STALE_COUNT"
    BY <1>2 DEF DocRow
  <2>2. [after EXCEPT !.doc[no].status = "STALE_COUNT"] = WithDoc(after, no, row)
    <3>1. after.doc[no] = s
      BY <1>8
    <3> HIDE DEF s
    <3> QED BY <3>1, <1>8 DEF WithDoc, Typed
  <2> HIDE DEF row
  <2>3. PICK key, print : stale = Remember(WithDoc(after, no, row), "POST", key, print, FALSE, no)
    BY <2>2
  <2> HIDE DEF stale, s
  <2>4. Good(after)
    BY <1>8, <1>9 DEF Good
  <2>5. Good(stale) /\ OnlySaves(after, stale)
    BY <2>1, <2>3, <2>4, SaveKeeps
  <2>6. Posts(d, stale)
    BY <1>8, <2>5 DEF Posts, OnlySaves
  <2> QED BY <2>5, <2>6, DoneIs
<1> HIDE DEF stale
<1>11. ASSUME moved = {}
       PROVE  Answer(d, Done(posted, no)) /\ Posts(d, posted) /\ Done(posted, no).db = posted
  <2> DEFINE row == [s EXCEPT !.status = "POSTED"]
             t == Adjusted(d, s.lines)
  <2>1. row \in DocRow /\ row.status = "POSTED" /\ row.lines = s.lines
    BY <1>2 DEF DocRow
  <2>2. /\ t \in [Item -> StockRow]
        /\ \A i \in Item : IF s.lines[i] = None THEN t[i] = d.stock[i]
                                                ELSE t[i].qty = s.lines[i].counted
    <3> HIDE DEF s
    <3> QED BY <1>2, <1>5, <1>11, AdjustedType DEF Good
  <2> HIDE DEF t
  <2>3. adjusted = [after EXCEPT !.stock = t]
    BY DEF t
  <2> HIDE DEF adjusted
  <2>4. /\ Typed(adjusted) /\ adjusted.stock = t /\ adjusted.doc = after.doc
        /\ adjusted.reservation = after.reservation /\ adjusted.request = after.request
    BY <1>8, <2>2, <2>3, StockChange
  <2>5. [adjusted EXCEPT !.doc[no].status = "POSTED"] = WithDoc(adjusted, no, row)
    <3>1. adjusted.doc[no] = s
      BY <1>8, <2>4
    <3> HIDE DEF s
    <3> QED BY <2>4, <3>1 DEF WithDoc, Typed
  <2> HIDE DEF row
  <2>6. PICK key, print, succeeded :
          posted = Remember(WithDoc(adjusted, no, row), "POST", key, print, succeeded, no)
    BY <2>5
  <2> HIDE DEF posted
  <2> DEFINE m == WithDoc(adjusted, no, row)
  <2>7. /\ Typed(m) /\ m.stock = t /\ m.reservation = after.reservation /\ m.request = after.request
        /\ m.doc[no] = row /\ \A k \in No \ {no} : m.doc[k] = d.doc[k]
    BY <1>8, <2>1, <2>4, DocChange
  <2> HIDE DEF m
  <2>8. posted = Remember(m, "POST", key, print, succeeded, no)
    BY <2>6 DEF m
  <2>9. /\ Typed(posted) /\ posted.stock = t /\ posted.doc = m.doc
        /\ posted.reservation = after.reservation /\ posted.request = after.request
    <3> HIDE DEF s
    <3>1. Typed(m) /\ no \in No
      BY <2>7
    <3>2. /\ Typed(posted) /\ posted.stock = m.stock /\ posted.doc = m.doc
          /\ posted.reservation = m.reservation /\ posted.request = m.request
      BY <2>8, <3>1, RememberKeeps
    <3> QED BY <2>7, <3>2
  <2>10. Covered(posted)
    <3> SUFFICES ASSUME NEW i \in Item PROVE Reserved(posted, i) <= Combined(posted, i)
      BY DEF Covered
    <3>1. Reserved(posted, i) = Reserved(after, i) /\ Reserved(after, i) \in Nat
      BY <2>9, ReservedType DEF Reserved
    <3>2. Combined(posted, i) = t[i].qty + Elsewhere[i] /\ Elsewhere[i] \in Nat
      BY <2>9, Constants DEF Combined
    <3>3. CASE s.lines[i] = None
      <4>1. Reserved(after, i) <= Combined(after, i)
        BY <1>9 DEF Covered
      <4>2. Combined(after, i) = t[i].qty + Elsewhere[i]
        <5> HIDE DEF s
        <5> QED BY <1>8, <2>2, <3>3 DEF Combined
      <4> QED BY <3>1, <3>2, <4>1, <4>2
    <3>4. CASE s.lines[i] # None
      <4> HIDE DEF s
      <4>1. i \in before /\ i <= NItem
        BY <1>5, <1>6, <1>11, <3>4 DEF Item
      <4>2. Reserved(after, i) <= Elsewhere[i] + s.lines[i].counted
        BY <1>7, <4>1 DEF Conflicted
      <4>3. t[i].qty = s.lines[i].counted /\ s.lines[i].counted \in Nat
        BY <1>2, <2>2, <3>4, LineType
      <4> QED BY <3>1, <3>2, <4>2, <4>3
    <3> QED BY <3>3, <3>4
  <2>11. Orderly(posted)
    BY <1>8, <2>9 DEF Orderly
  <2>12. Posts(d, posted)
    <3> SUFFICES ASSUME NEW k \in No, d.doc[k].status # "POSTED", posted.doc[k].status = "POSTED",
                        NEW i \in Item, posted.doc[k].lines[i] # None
                 PROVE  /\ posted.stock[i].qty = posted.doc[k].lines[i].counted
                        /\ d.stock[i].ver = posted.doc[k].lines[i].ver
      BY DEF Posts
    <3>1. k = no
      BY <2>7, <2>9
    <3>2. posted.doc[k].lines = s.lines
      BY <2>1, <2>7, <2>9, <3>1
    <3> HIDE DEF s
    <3> QED BY <1>5, <1>11, <2>2, <2>9, <3>2
  <2>13. Good(posted)
    BY <2>9, <2>10, <2>11 DEF Good
  <2> QED BY <2>12, <2>13, DoneIs
<1> HIDE DEF posted, adjusted
<1>12. Answer(d, fresh) /\ Posts(d, fresh.db)
  <2>1. CASE s.status # "DRAFT"
    <3>1. fresh = Refused(d)
      BY <2>1
    <3> HIDE DEF fresh
    <3> QED BY <3>1, RefusedIs DEF Posts
  <2>2. CASE s.status = "DRAFT" /\ moved # {}
    <3>1. fresh = Done(stale, no)
      BY <2>2
    <3> HIDE DEF fresh
    <3> QED BY <1>10, <3>1
  <2>3. CASE s.status = "DRAFT" /\ moved = {}
    <3>1. fresh = Done(posted, no)
      BY <2>3
    <3> HIDE DEF fresh
    <3> QED BY <1>11, <2>3, <3>1
  <2> QED BY <2>1, <2>2, <2>3
<1> HIDE DEF fresh
<1>13. Answer(d, x) /\ (x = fresh \/ x.db = d)
  BY <1>1, <1>12, OnceAnswers
<1>14. Posts(d, d)
  BY DEF Posts
<1> QED BY <1>12, <1>13, <1>14

\* complete_stocktake, and every other call.
LEMMA TransactionKeeps ==
  ASSUME NEW d, Good(d), NEW c, IsCall(c), NEW x, x = Transaction(d, c)
  PROVE  Answer(d, x) /\ Posts(d, x.db)
<1>1. ASSUME NEW e, OnlySaves(d, e) PROVE Posts(d, e)
  BY <1>1 DEF OnlySaves, Posts
<1>2. c.op \in Ops /\ c.no \in No /\ c.lines \in SentLines
  BY DEF IsCall
<1>3. CASE c.op = "create"
  <2>1. x = CreateTx(d, c)
    BY <1>3 DEF Transaction
  <2> QED BY <1>1, <2>1, CreateKeeps
<1>4. CASE c.op = "save"
  <2>1. x = UpdateTx(d, c, <<"UPDATE", c.keys.update>>, c.lines, FALSE)
    BY <1>4 DEF Transaction
  <2> QED BY <1>1, <1>2, <2>1, UpdateKeeps
<1>5. CASE c.op = "recapture"
  <2>1. x = RecaptureTx(d, c)
    BY <1>5 DEF Transaction
  <2> QED BY <1>1, <2>1, RecaptureKeeps
<1>6. CASE c.op = "complete"
  <2>1. x = CompleteTx(d, c)
    BY <1>6 DEF Transaction
  <2> DEFINE s == SaveTx(d, c)
             y == PostTx(s.db, c, s.no)
  <2>2. x = IF s.error # "none" THEN [s EXCEPT !.db = d] ELSE IF y.error # "none" THEN Refused(d) ELSE y
    BY <2>1 DEF CompleteTx
  <2>3. Answer(d, s) /\ OnlySaves(d, s.db)
    BY SaveTxKeeps
  <2> HIDE DEF s
  <2>4. CASE s.error # "none"
    <3>1. x = [s EXCEPT !.db = d] /\ s.db = d
      BY <2>2, <2>3, <2>4 DEF Answer
    <3>2. x = s
      BY <2>3, <3>1 DEF Answer
    <3> QED BY <1>1, <2>3, <3>2
  <2>5. CASE s.error = "none"
    <3>1. Good(s.db) /\ s.no \in No
      BY <2>3, <2>5 DEF Answer
    <3>2. Answer(s.db, y) /\ Posts(s.db, y.db)
      BY <3>1, PostKeeps
    <3> HIDE DEF y
    <3>3. CASE y.error # "none"
      <4>1. x = Refused(d)
        BY <2>2, <2>5, <3>3
      <4> QED BY <4>1, RefusedIs DEF Posts
    <3>4. CASE y.error = "none"
      <4>1. x = y
        BY <2>2, <2>5, <3>4
      <4>2. Answer(d, y)
        BY <3>2, <3>4 DEF Answer
      <4>3. Posts(d, y.db)
        BY <2>3, <3>2 DEF Posts, OnlySaves
      <4> QED BY <4>1, <4>2, <4>3
    <3> QED BY <3>3, <3>4
  <2> QED BY <2>4, <2>5
<1>7. CASE c.op = "draft"
  <2>1. x = SaveTx(d, c)
    BY <1>7 DEF Transaction
  <2> QED BY <1>1, <2>1, SaveTxKeeps
<1>8. CASE c.op = "post"
  <2>1. x = PostTx(d, c, c.no)
    BY <1>8 DEF Transaction
  <2> QED BY <1>2, <2>1, PostKeeps
<1> QED BY <1>2, <1>3, <1>4, <1>5, <1>6, <1>7, <1>8 DEF Ops


-----------------------------------------------------------------------------
(* The stock outside the stocktake                                         *)

LEMMA SubmitKeeps ==
  ASSUME Good(db), NEW r \in Request, Submit(r)
  PROVE  Good(db') /\ db'.doc = db.doc
<1> DEFINE row == [i \in Item |-> IF i \in Wants[r] THEN "ACTIVE" ELSE "NONE"]
           rv == [db.reservation EXCEPT ![r] = row]
           rq == [db.request EXCEPT ![r] = "SUBMITTED"]
<1>1. /\ db' = [db EXCEPT !.reservation = rv, !.request = rq]
      /\ db.request[r] = "DRAFT"
      /\ \A i \in Item : i \in Wants[r] => Reserved(db, i) < Combined(db, i)
  <2>1. db' = [db EXCEPT !.request[r] = "SUBMITTED", !.reservation[r] = row] /\ db.request[r] = "DRAFT"
    BY DEF Submit
  <2>2. \A i \in Item : i \in Wants[r] => Reserved(db, i) < Combined(db, i)
    BY DEF Submit
  <2> QED BY <2>1, <2>2 DEF Good, Typed
<1>2. /\ row \in [Item -> States] /\ \A i \in Item : row[i] = IF i \in Wants[r] THEN "ACTIVE" ELSE "NONE"
  BY DEF States
<1> HIDE DEF row
<1>3. /\ rv \in [Request -> [Item -> States]]
      /\ rv[r] = row /\ \A q \in Request \ {r} : rv[q] = db.reservation[q]
  BY <1>2 DEF Good, Typed
<1>4. /\ rq \in [Request -> {"DRAFT", "SUBMITTED", "INVENTORY_REVIEW_REQUIRED"}]
      /\ rq[r] = "SUBMITTED" /\ \A q \in Request \ {r} : rq[q] = db.request[q]
  BY DEF Good, Typed
<1> HIDE DEF rv, rq
<1>5. /\ db' \in [stock : {db.stock}, reservation : {rv}, request : {rq}, doc : {db.doc}, commands : {db.commands}]
  BY <1>1 DEF Good, Typed
<1>6. /\ db'.stock = db.stock /\ db'.reservation = rv /\ db'.request = rq
      /\ db'.doc = db.doc /\ db'.commands = db.commands
  BY <1>5
<1>7. Typed(db')
  BY <1>3, <1>4, <1>5, <1>6 DEF Good, Typed
<1>8. Orderly(db')
  <2> SUFFICES ASSUME NEW q \in Request, NEW i \in Item
               PROVE  /\ rv[q][i] = "ACTIVE" => rq[q] = "SUBMITTED"
                      /\ rv[q][i] = "CONFLICTED" => rq[q] = "INVENTORY_REVIEW_REQUIRED"
    BY <1>6 DEF Orderly
  <2>1. CASE q = r
    BY <1>2, <1>3, <1>4, <2>1
  <2>2. CASE q # r
    <3>1. rv[q] = db.reservation[q] /\ rq[q] = db.request[q]
      BY <1>3, <1>4, <2>2
    <3> QED BY <3>1 DEF Good, Orderly
  <2> QED BY <2>1, <2>2
<1>9. ASSUME NEW i \in Item
      PROVE  Reserved(db', i) <= Combined(db', i)
  <2>1. \A q \in Request \ {r} : db'.reservation[q][i] = db.reservation[q][i]
    BY <1>3, <1>6
  <2>2. /\ Reserved(db', i) <= Reserved(db, i) + 1
        /\ db'.reservation[r][i] # "ACTIVE" => Reserved(db', i) <= Reserved(db, i)
    BY <2>1, OneMoreHolds
  <2>3. Combined(db', i) = Combined(db, i) /\ Reserved(db, i) <= Combined(db, i)
    BY <1>6 DEF Combined, Good, Covered
  <2>4. Reserved(db, i) \in Nat /\ Reserved(db', i) \in Nat /\ Combined(db, i) \in Int
    BY ReservedType, CombinedType DEF Good
  <2>5. CASE i \in Wants[r]
    BY <1>1, <2>2, <2>3, <2>4, <2>5
  <2>6. CASE i \notin Wants[r]
    <3>1. db'.reservation[r][i] # "ACTIVE"
      BY <1>2, <1>3, <1>6, <2>6
    <3> QED BY <2>2, <2>3, <2>4, <3>1
  <2> QED BY <2>5, <2>6
<1> QED BY <1>6, <1>7, <1>8, <1>9 DEF Good, Covered

LEMMA MoveKeeps ==
  ASSUME Good(db), NEW i \in Item, NEW delta \in -1 .. 1, Move(i, delta)
  PROVE  Good(db') /\ db'.doc = db.doc
<1> DEFINE row == [qty |-> db.stock[i].qty + delta, ver |-> db.stock[i].ver + (IF delta = 0 THEN 2 ELSE 1)]
           t == [db.stock EXCEPT ![i] = row]
<1>1. db.stock[i].qty \in Nat /\ db.stock[i].ver \in Nat
  BY CombinedType DEF Good
<1>2. /\ db' = [db EXCEPT !.stock = t] /\ db.stock[i].qty + delta >= 0
      /\ delta < 0 => Combined(db, i) + delta >= Reserved(db, i)
  BY DEF Move, Good, Typed
<1>3. row \in StockRow /\ row.qty = db.stock[i].qty + delta
  <2>1. db.stock[i].ver + (IF delta = 0 THEN 2 ELSE 1) \in Nat
    BY <1>1
  <2>2. db.stock[i].qty + delta \in Nat
    BY <1>1, <1>2
  <2> QED BY <2>1, <2>2 DEF StockRow
<1> HIDE DEF row
<1>4. t \in [Item -> StockRow] /\ t[i] = row /\ \A j \in Item \ {i} : t[j] = db.stock[j]
  BY <1>3 DEF Good, Typed
<1> HIDE DEF t
<1>5. /\ Typed(db') /\ db'.stock = t /\ db'.doc = db.doc
      /\ db'.reservation = db.reservation /\ db'.request = db.request
  BY <1>2, <1>4, StockChange DEF Good
<1>6. Orderly(db')
  BY <1>5 DEF Good, Orderly
<1>7. ASSUME NEW j \in Item
      PROVE  Reserved(db', j) <= Combined(db', j)
  <2>1. Reserved(db', j) = Reserved(db, j) /\ Reserved(db, j) \in Nat
    BY <1>5, ReservedType DEF Reserved
  <2>2. Reserved(db, j) <= Combined(db, j) /\ Combined(db, j) \in Int
    BY CombinedType DEF Good, Covered
  <2>3. CASE j = i
    <3>1. Combined(db', i) = Combined(db, i) + delta
      <4>1. Elsewhere[i] \in Nat
        BY CombinedType DEF Good
      <4> QED BY <1>1, <1>3, <1>4, <1>5, <4>1 DEF Combined
    <3> QED BY <1>2, <2>1, <2>2, <2>3, <3>1
  <2>4. CASE j # i
    <3>1. Combined(db', j) = Combined(db, j)
      BY <1>4, <1>5, <2>4 DEF Combined
    <3> QED BY <2>1, <2>2, <3>1
  <2> QED BY <2>3, <2>4
<1> QED BY <1>5, <1>6, <1>7 DEF Good, Covered

-----------------------------------------------------------------------------
(* The panels                                                              *)

Statuses == {"NONE", "DRAFT", "STALE_COUNT", "POSTED"}

Shaped(v) ==
  v \in [form : Nat, no : 1 .. MaxNo, lines : DocLines, doc : No \cup {None}, shown : Statuses,
         recount : BOOLEAN, unknown : BOOLEAN, keys : Keys, drawn : 0 .. MaxKeys, call : {v.call},
         told : {"nothing", "done", "stale", "failed", "unknown", "thrown"}]

\* TypeOK of what a panel holds, and that it is a record of its fields.
Sound(v) == Shaped(v) /\ (v.call # NoCall => IsCall(v.call))

LEMMA KeysType ==
  /\ NoKeys \in Keys
  /\ \A keys \in Keys : /\ [keys EXCEPT !.create = None] \in Keys
                        /\ [keys EXCEPT !.update = None] \in Keys
<1>1. DOMAIN NoKeys = {"create", "update", "post"}
  BY DEF NoKeys
<1>2. NoKeys \in Keys
  BY <1>1 DEF NoKeys, Keys
<1> QED BY <1>1, <1>2 DEF Keys

LEMMA NoLinesType == NoLines \in DocLines
BY DEF NoLines, DocLines

LEMMA BlankIsSound == Sound(Blank)
BY KeysType, NoLinesType, Constants DEF Sound, Shaped, Blank, Statuses

\* A document as the panel shows it.
LEMMA LoadedType ==
  ASSUME NEW d, Typed(d), NEW no \in No
  PROVE  Loaded(d, no) \in DocLines /\ d.doc[no].status \in Statuses
<1>1. d.doc[no] \in DocRow
  BY DEF Typed
<1> QED BY <1>1 DEF Loaded, DocRow, Statuses

LEMMA RecapturedType ==
  ASSUME NEW d, Typed(d), NEW no \in No
  PROVE  Recaptured(d, no) \in DocLines
<1>1. PICK lines \in DocLines : lines = d.doc[no].lines
  BY LoadedType DEF Loaded
<1> SUFFICES ASSUME NEW i \in Item, lines[i] # None
             PROVE  [lines[i] EXCEPT !.null = FALSE] \in [book : Nat, ver : Nat, counted : Nat, null : BOOLEAN]
  BY <1>1 DEF Recaptured, DocLines
<1>2. lines[i] \in [book : Nat, ver : Nat, counted : Nat, null : BOOLEAN]
  BY DEF DocLines
<1> QED BY <1>2

LEMMA ShowingIsSound ==
  ASSUME NEW v, Sound(v), NEW d, Typed(d), NEW no \in No
  PROVE  LET s == Showing([v EXCEPT !.call = NoCall], d, no)
         IN  Sound(s) /\ s.call = NoCall /\ s.doc = no /\ s.shown = d.doc[no].status
<1> DEFINE free == [v EXCEPT !.call = NoCall]
           status == d.doc[no].status
           s == [free EXCEPT !.doc = no, !.shown = status]
<1>1. status \in Statuses
  BY LoadedType
<1> HIDE DEF status
<1>2. /\ s \in [form : Nat, no : 1 .. MaxNo, lines : DocLines, doc : {no}, shown : {status},
                recount : BOOLEAN, unknown : BOOLEAN, keys : Keys, drawn : 0 .. MaxKeys, call : {NoCall},
                told : {"nothing", "done", "stale", "failed", "unknown", "thrown"}]
  BY DEF Sound, Shaped
<1>3. s.call = NoCall /\ s.doc = no /\ s.shown = status
  BY <1>2
<1>4. Sound(s)
  BY <1>1, <1>2, <1>3 DEF Sound, Shaped
<1> QED BY <1>3, <1>4 DEF Showing, status

Taken(s, keys, lines, recount) == [s EXCEPT !.keys = keys, !.lines = lines, !.recount = recount]

LEMMA TakenIsSound ==
  ASSUME NEW s, Sound(s), s.call = NoCall, NEW keys \in Keys, NEW lines \in DocLines,
         NEW recount \in BOOLEAN, NEW t, t = Taken(s, keys, lines, recount)
  PROVE  Sound(t) /\ t.call = NoCall
<1>1. /\ t \in [form : Nat, no : 1 .. MaxNo, lines : {lines}, doc : No \cup {None}, shown : Statuses,
                recount : {recount}, unknown : BOOLEAN, keys : {keys}, drawn : 0 .. MaxKeys, call : {NoCall},
                told : {"nothing", "done", "stale", "failed", "unknown", "thrown"}]
  BY DEF Sound, Shaped, Taken
<1>2. t.call = NoCall
  BY <1>1
<1> QED BY <1>1, <1>2 DEF Sound, Shaped

LEMMA ToldIsSound ==
  ASSUME NEW v, Sound(v), v.call # NoCall, NEW d, Typed(d), NEW no \in No
  PROVE  Sound(Told(v, d, no))
<1> DEFINE s == Showing([v EXCEPT !.call = NoCall], d, no)
           lines == Loaded(d, no)
           anew == Recaptured(d, no)
<1>1. Sound(s) /\ s.call = NoCall
  BY ShowingIsSound
<1>2. lines \in DocLines /\ anew \in DocLines
  BY LoadedType, RecapturedType
<1>3. \/ Told(v, d, no) = [s EXCEPT !.keys.create = None, !.lines = lines]
      \/ Told(v, d, no) = [s EXCEPT !.keys.update = None, !.lines = lines, !.recount = FALSE]
      \/ Told(v, d, no) = [s EXCEPT !.keys.update = None, !.lines = anew, !.recount = TRUE]
      \/ Told(v, d, no) = [v EXCEPT !.call.op = "post", !.call.no = no]
      \/ Told(v, d, no) = [s EXCEPT !.keys = NoKeys, !.unknown = FALSE, !.recount = FALSE,
                             !.told = IF s.shown = "POSTED" THEN "done" ELSE "stale"]
  <2>1. CASE v.call.op = "create"
    BY <2>1 DEF Told
  <2>2. CASE v.call.op = "save"
    BY <2>2 DEF Told
  <2>3. CASE v.call.op = "recapture"
    BY <2>3 DEF Told
  <2>4. CASE v.call.op = "draft" /\ s.shown = "DRAFT"
    BY <2>4 DEF Told
  <2>5. CASE v.call.op \notin {"create", "save", "recapture"} /\ ~(v.call.op = "draft" /\ s.shown = "DRAFT")
    BY <2>5 DEF Told
  <2> QED BY <2>1, <2>2, <2>3, <2>4, <2>5
<1> HIDE DEF s, lines, anew
<1>4. CASE Told(v, d, no) = [s EXCEPT !.keys.create = None, !.lines = lines]
  <2>1. PICK keys \in Keys : keys = [s.keys EXCEPT !.create = None]
    BY <1>1, KeysType DEF Sound, Shaped
  <2>2. PICK t : t = Told(v, d, no) /\ t = [s EXCEPT !.keys = keys, !.lines = lines]
    BY <1>4, <2>1
  <2>3. t \in [form : Nat, no : 1 .. MaxNo, lines : {lines}, doc : No \cup {None}, shown : Statuses,
               recount : BOOLEAN, unknown : BOOLEAN, keys : {keys}, drawn : 0 .. MaxKeys, call : {NoCall},
               told : {"nothing", "done", "stale", "failed", "unknown", "thrown"}]
    BY <1>1, <2>2 DEF Sound, Shaped
  <2>4. t.call = NoCall
    BY <2>3
  <2> QED BY <1>2, <2>1, <2>2, <2>3, <2>4 DEF Sound, Shaped
<1>5. CASE \/ Told(v, d, no) = [s EXCEPT !.keys.update = None, !.lines = lines, !.recount = FALSE]
           \/ Told(v, d, no) = [s EXCEPT !.keys.update = None, !.lines = anew, !.recount = TRUE]
  <2>1. PICK keys \in Keys : keys = [s.keys EXCEPT !.update = None]
    BY <1>1, KeysType DEF Sound, Shaped
  <2>2. \/ Told(v, d, no) = Taken(s, keys, lines, FALSE)
        \/ Told(v, d, no) = Taken(s, keys, anew, TRUE)
    BY <1>5, <2>1 DEF Taken
  <2> QED BY <1>1, <1>2, <2>1, <2>2, TakenIsSound
<1>6. CASE Told(v, d, no) = [v EXCEPT !.call.op = "post", !.call.no = no]
  <2> DEFINE c == [v.call EXCEPT !.op = "post", !.no = no]
  <2>1. IsCall(c)
    <3>1. IsCall(v.call)
      BY DEF Sound
    <3> QED BY <3>1 DEF IsCall, Ops
  <2>2. Told(v, d, no) = [v EXCEPT !.call = c]
    BY <1>6 DEF Sound, Shaped, IsCall
  <2> HIDE DEF c
  <2> QED BY <2>1, <2>2 DEF Sound, Shaped
<1>7. ASSUME NEW told \in {"done", "stale"},
             Told(v, d, no) = [s EXCEPT !.keys = NoKeys, !.unknown = FALSE, !.recount = FALSE, !.told = told]
      PROVE  Sound(Told(v, d, no))
  BY <1>1, <1>7, KeysType DEF Sound, Shaped
<1> QED BY <1>3, <1>4, <1>5, <1>6, <1>7

\* The call has ended, and the panel shows what was saved before it, or not.
LEMMA AfterSaveIsSound ==
  ASSUME NEW v, Sound(v), v.call # NoCall, NEW d, Typed(d),
         NEW s, s = [AfterSave(v, d) EXCEPT !.call = NoCall]
  PROVE  Sound(s) /\ s.call = NoCall
<1>1. CASE AfterSave(v, d) = v
  <2>1. s = [v EXCEPT !.call = NoCall]
    BY <1>1
  <2> QED BY <2>1 DEF Sound, Shaped
<1>2. CASE AfterSave(v, d) # v
  <2>1. PICK no \in No : no = v.call.no
    BY DEF Sound, IsCall
  <2>2. PICK lines \in DocLines : lines = Loaded(d, no)
    BY LoadedType
  <2>3. PICK status : status = d.doc[no].status
    OBVIOUS
  <2>4. s = [[v EXCEPT !.doc = no, !.shown = status, !.shown = "DRAFT", !.lines = lines] EXCEPT !.call = NoCall]
    BY <1>2, <2>1, <2>2, <2>3 DEF AfterSave, Showing
  <2> QED BY <2>4 DEF Sound, Shaped, Statuses
<1> QED BY <1>1, <1>2

LEMMA ToldErrorIsSound ==
  ASSUME NEW v, Sound(v), v.call # NoCall, NEW d, Typed(d), NEW error,
         error = "duplicate" => v.no < MaxNo
  PROVE  Sound(ToldError(v, d, error))
<1> DEFINE s == [AfterSave(v, d) EXCEPT !.call = NoCall]
<1>1. Sound(s) /\ s.call = NoCall
  BY AfterSaveIsSound
<1>2. CASE error = "duplicate" /\ v.call.op = "create"
  <2>1. PICK keys \in Keys : keys = [v.keys EXCEPT !.create = None]
    BY KeysType DEF Sound, Shaped
  <2>2. v.no + 1 \in 1 .. MaxNo
    <3>1. v.no \in 1 .. MaxNo /\ v.no < MaxNo
      BY <1>2 DEF Sound, Shaped
    <3> QED BY <3>1, Constants
  <2>3. ToldError(v, d, error) =
          [v EXCEPT !.call = NoCall, !.keys = keys, !.no = v.no + 1, !.told = "failed"]
    BY <1>2, <2>1 DEF ToldError, Sound, Shaped
  <2> QED BY <2>1, <2>2, <2>3 DEF Sound, Shaped
<1>3. CASE ~(error = "duplicate" /\ v.call.op = "create")
  <2>1. ToldError(v, d, error) = [s EXCEPT !.unknown = FALSE, !.told = "failed"]
    BY <1>3 DEF ToldError
  <2> HIDE DEF s
  <2> QED BY <1>1, <2>1 DEF Sound, Shaped
<1> QED BY <1>2, <1>3

LEMMA ToldNothingIsSound ==
  ASSUME NEW v, Sound(v), v.call # NoCall, NEW d, Typed(d)
  PROVE  Sound(ToldNothing(v, d))
<1> DEFINE s == [AfterSave(v, d) EXCEPT !.call = NoCall]
<1>1. Sound(s) /\ s.call = NoCall
  BY AfterSaveIsSound
<1>2. \/ ToldNothing(v, d) = [s EXCEPT !.unknown = TRUE, !.told = "unknown"]
      \/ ToldNothing(v, d) = [v EXCEPT !.call = NoCall, !.told = "unknown"]
  BY DEF ToldNothing
<1> HIDE DEF s
<1> QED BY <1>1, <1>2 DEF Sound, Shaped

-----------------------------------------------------------------------------
(* The steps of a panel                                                    *)

Panels == panel = [p \in Panel |-> panel[p]] /\ \A p \in Panel : Sound(panel[p])

LEMMA SetKeeps ==
  ASSUME Panels, NEW p \in Panel, NEW new, Sound(new), Set(p, new)
  PROVE  Panels'
<1>1. panel' = [panel EXCEPT ![p] = new]
  BY DEF Set
<1> QED BY <1>1 DEF Panels

\* What is entered and not yet sent.
LEMMA EnteringIsSound ==
  ASSUME Good(db), Panels, NEW p \in Panel,
         \/ Count(p) \/ Correct(p) \/ Clear(p) \/ Renumber(p) \/ StartNext(p) \/ AccessChanges(p)
  PROVE  Panels' /\ db' = db
<1> DEFINE v == panel[p]
<1>1. Sound(v)
  BY DEF Panels
<1> HIDE DEF v
<1>2. CASE Count(p)
  <2>1. PICK counts \in [Item -> {None} \cup Counts] :
          Local(p, [v EXCEPT !.keys = NoKeys,
            !.lines = [i \in Item |-> IF counts[i] = None THEN None
              ELSE [book |-> db.stock[i].qty, ver |-> db.stock[i].ver, counted |-> counts[i],
                    null |-> FALSE]]])
    BY <1>2 DEF Count, v
  <2> DEFINE lines == [i \in Item |-> IF counts[i] = None THEN None
                ELSE [book |-> db.stock[i].qty, ver |-> db.stock[i].ver, counted |-> counts[i],
                    null |-> FALSE]]
  <2>2. lines \in DocLines
    <3>1. \A i \in Item : db.stock[i].qty \in Nat /\ db.stock[i].ver \in Nat
      BY CombinedType DEF Good
    <3>2. \A i \in Item : counts[i] # None => counts[i] \in Nat
      BY Constants
    <3> QED BY <3>1, <3>2 DEF DocLines
  <2> HIDE DEF lines
  <2> DEFINE new == [v EXCEPT !.keys = NoKeys, !.lines = lines]
  <2>3. Sound(new)
    BY <1>1, <2>2, KeysType DEF Sound, Shaped
  <2>4. Local(p, new)
    BY <2>1 DEF lines
  <2> HIDE DEF new
  <2> QED BY <2>3, <2>4, SetKeeps DEF Local
<1>3. CASE Correct(p)
  <2>1. PICK i \in Item, n \in Counts :
          v.lines[i] # None /\ Local(p, [v EXCEPT !.lines[i].counted = n, !.keys = NoKeys])
    BY <1>3 DEF Correct, v
  <2> DEFINE line == [v.lines[i] EXCEPT !.counted = n]
             lines == [v.lines EXCEPT ![i] = line]
             new == [v EXCEPT !.lines = lines, !.keys = NoKeys]
  <2>2. v.lines \in DocLines
    BY <1>1 DEF Sound, Shaped
  <2>3. line \in [book : Nat, ver : Nat, counted : Nat, null : BOOLEAN]
    <3>1. v.lines[i] \in [book : Nat, ver : Nat, counted : Nat, null : BOOLEAN] /\ n \in Nat
      BY <2>1, <2>2, Constants DEF DocLines
    <3> QED BY <3>1
  <2>4. Local(p, new)
    BY <1>1, <2>1 DEF Sound, Shaped
  <2> HIDE DEF line
  <2>5. lines \in DocLines
    BY <2>2, <2>3 DEF DocLines
  <2> HIDE DEF lines
  <2>6. Sound(new)
    BY <1>1, <2>5, KeysType DEF Sound, Shaped
  <2> HIDE DEF new
  <2> QED BY <2>4, <2>6, SetKeeps DEF Local
<1>4. CASE Clear(p)
  <2> DEFINE new == [v EXCEPT !.lines = NoLines, !.keys = NoKeys]
  <2>1. Sound(new)
    BY <1>1, KeysType, NoLinesType DEF Sound, Shaped
  <2>2. Local(p, new)
    BY <1>4 DEF Clear, v
  <2> HIDE DEF new
  <2> QED BY <2>1, <2>2, SetKeeps DEF Local
<1>5. CASE Renumber(p)
  <2> DEFINE new == [v EXCEPT !.no = v.no + 1, !.keys = NoKeys]
  <2>1. v.no + 1 \in 1 .. MaxNo
    <3>1. v.no \in 1 .. MaxNo
      BY <1>1 DEF Sound, Shaped
    <3>2. v.no < MaxNo
      BY <1>5 DEF Renumber, v
    <3> QED BY <3>1, <3>2, Constants
  <2>2. Sound(new)
    BY <1>1, <2>1, KeysType DEF Sound, Shaped
  <2>3. Local(p, new)
    BY <1>5 DEF Renumber, v
  <2> HIDE DEF new
  <2> QED BY <2>2, <2>3, SetKeeps DEF Local
<1>6. CASE StartNext(p)
  <2> DEFINE form == v.form + 1
             no == v.no + 1
             drawn == v.drawn
             new == [Blank EXCEPT !.form = form, !.no = no, !.drawn = drawn]
  <2>1. form \in Nat /\ no \in 1 .. MaxNo /\ drawn \in 0 .. MaxKeys
    <3>1. v.form \in Nat /\ v.no \in 1 .. MaxNo /\ v.drawn \in 0 .. MaxKeys
      BY <1>1 DEF Sound, Shaped
    <3>2. v.no < MaxNo
      BY <1>6 DEF StartNext, v
    <3> QED BY <3>1, <3>2, Constants
  <2>2. Local(p, new)
    BY <1>6 DEF StartNext, v
  <2> HIDE DEF form, no, drawn
  <2>3. Sound(new)
    BY <2>1, BlankIsSound DEF Sound, Shaped, Blank
  <2> HIDE DEF new
  <2> QED BY <2>2, <2>3, SetKeeps DEF Local
<1>7. CASE AccessChanges(p)
  <2> DEFINE form == v.form + 1
             new == [v EXCEPT !.lines = NoLines, !.doc = None, !.shown = "NONE",
                              !.recount = FALSE, !.form = form, !.told = "nothing"]
  <2>1. form \in Nat
    BY <1>1 DEF Sound, Shaped
  <2>2. Set(p, new) /\ db' = db
    BY <1>7 DEF AccessChanges, v
  <2> HIDE DEF form
  <2>3. Sound(new)
    BY <1>1, <2>1, NoLinesType DEF Sound, Shaped, Statuses
  <2> HIDE DEF new
  <2> QED BY <2>2, <2>3, SetKeeps
<1> QED BY <1>2, <1>3, <1>4, <1>5, <1>6, <1>7

LEMMA PressIsSound ==
  ASSUME Panels, NEW p \in Panel, NEW op \in Ops, NEW used, Press(p, op, used)
  PROVE  Panels' /\ db' = db
<1> DEFINE v == panel[p]
           keys == Held(p, used)
           print == IF op = "recapture" THEN <<op, v.no>>
                    ELSE <<IF op \in {"create", "save"} THEN "saved" ELSE "completed", v.no, Sent(p)>>
           drawn == IF keys = v.keys THEN v.drawn ELSE v.drawn + 1
           call == [op |-> op, no |-> <<p, v.no>>, form |-> v.form, saved |-> v.doc # None,
                    lines |-> Sent(p), keys |-> keys, print |-> print]
           new == [v EXCEPT !.keys = keys, !.told = "nothing", !.drawn = drawn, !.call = call]
<1>1. Sound(v)
  BY DEF Panels
<1>2. /\ v.form \in Nat /\ v.no \in 1 .. MaxNo /\ v.drawn \in 0 .. MaxKeys
      /\ v.lines \in DocLines /\ v.keys \in Keys
  BY <1>1 DEF Sound, Shaped
<1>3. Local(p, new) /\ (keys # v.keys => v.drawn < MaxKeys)
  BY DEF Press
<1>4. Sent(p) \in SentLines
  <2>1. \A i \in Item : v.lines[i] # None =>
          /\ v.lines[i].counted \in Nat /\ v.lines[i].ver \in Nat
          /\ (v.lines[i].counted # v.lines[i].book) \in BOOLEAN
    BY <1>2, LineType
  <2> QED BY <2>1 DEF Sent, SentLines
<1>5. keys \in Keys
  <2>1. v.drawn + 1 \in Nat
    BY <1>2
  <2> QED BY <1>2, <2>1 DEF Held, Keys
<1>6. drawn \in 0 .. MaxKeys
  BY <1>2, <1>3, Constants
<1>7. IsCall(call)
  <2>1. <<p, v.no>> \in No
    BY <1>2 DEF No
  <2> HIDE DEF v, keys, print
  <2>2. (v.doc # None) \in BOOLEAN
    OBVIOUS
  <2> QED BY <1>2, <1>4, <1>5, <2>1, <2>2 DEF IsCall
<1> HIDE DEF v, keys, print, drawn, call
<1>8. Sound(new)
  BY <1>1, <1>5, <1>6, <1>7 DEF Sound, Shaped
<1> HIDE DEF new
<1> QED BY <1>3, <1>8, SetKeeps DEF Local

LEMMA PressingIsSound ==
  ASSUME Panels, NEW p \in Panel,
         CreateDraft(p) \/ UpdateDraft(p) \/ RecaptureBook(p) \/ CompleteStocktake(p)
  PROVE  Panels' /\ db' = db
<1>1. CASE CreateDraft(p)
  BY <1>1, PressIsSound DEF CreateDraft, Ops
<1>2. CASE UpdateDraft(p)
  BY <1>2, PressIsSound DEF UpdateDraft, Ops
<1>3. CASE RecaptureBook(p)
  BY <1>3, PressIsSound DEF RecaptureBook, Ops
<1>4. CASE CompleteStocktake(p)
  BY <1>4, PressIsSound DEF CompleteStocktake, Ops
<1> QED BY <1>1, <1>2, <1>3, <1>4

LEMMA ThrowingIsSound ==
  ASSUME Panels, NEW p \in Panel, Throws(p)
  PROVE  Panels' /\ db' = db
<1> DEFINE v == panel[p]
           new == [v EXCEPT !.told = "thrown"]
<1>1. Sound(v)
  BY DEF Panels
<1>2. Local(p, new)
  BY DEF Throws
<1> HIDE DEF v
<1>3. Sound(new)
  BY <1>1 DEF Sound, Shaped
<1> HIDE DEF new
<1> QED BY <1>2, <1>3, SetKeeps DEF Local

\* The answer to a call, or its loss.
LEMMA AnsweredKeeps ==
  ASSUME Good(db), Panels, NEW p \in Panel, Answered(p)
  PROVE  Good(db') /\ Panels' /\ Posts(db, db')
<1> DEFINE v == panel[p]
           x == Transaction(db, v.call)
           new == IF x.error = "none" THEN Told(v, x.db, x.no) ELSE ToldError(v, x.db, x.error)
<1>1. Sound(v) /\ v.call # NoCall
  BY DEF Panels, Answered
<1>2. /\ x.error = "duplicate" => v.no < MaxNo
      /\ db' = x.db /\ Set(p, new)
  BY DEF Answered
<1> HIDE DEF v
<1>3. Answer(db, x) /\ Posts(db, x.db)
  BY <1>1, TransactionKeeps DEF Sound
<1> HIDE DEF x
<1>4. Good(x.db) /\ Typed(x.db)
  BY <1>3 DEF Answer, Good
<1>5. Sound(new)
  <2>1. CASE x.error = "none"
    <3>1. x.no \in No
      BY <1>3, <2>1 DEF Answer
    <3> QED BY <1>1, <1>4, <2>1, <3>1, ToldIsSound
  <2>2. CASE x.error # "none"
    BY <1>1, <1>2, <1>4, <2>2, ToldErrorIsSound
  <2> QED BY <2>1, <2>2
<1> HIDE DEF new
<1> QED BY <1>2, <1>3, <1>4, <1>5, SetKeeps

LEMMA LostKeeps ==
  ASSUME Good(db), Panels, NEW p \in Panel, Lost(p)
  PROVE  Good(db') /\ Panels' /\ Posts(db, db')
<1> DEFINE v == panel[p]
           x == Transaction(db, v.call)
<1>1. Sound(v) /\ v.call # NoCall
  BY DEF Panels, Lost
<1>2. PICK d \in {db, x.db}, loss \in LossForms :
        /\ db' = d
        /\ Set(p, IF loss = "thrown" THEN ToldNothing(v, d) ELSE ToldError(v, d, "network"))
  BY DEF Lost
<1> HIDE DEF v
<1>3. Answer(db, x) /\ Posts(db, x.db)
  BY <1>1, TransactionKeeps DEF Sound
<1> HIDE DEF x
<1>4. Good(d) /\ Typed(d) /\ Posts(db, d)
  BY <1>2, <1>3 DEF Answer, Good, Posts
<1>5. Sound(ToldNothing(v, d)) /\ Sound(ToldError(v, d, "network"))
  BY <1>1, <1>4, ToldNothingIsSound, ToldErrorIsSound
<1>6. PICK new : Sound(new) /\ Set(p, new)
  BY <1>2, <1>5
<1> QED BY <1>2, <1>4, <1>6, SetKeeps

-----------------------------------------------------------------------------
(* The theorems                                                            *)

\* The inductive invariant.
Inv == Good(db) /\ Panels

LEMMA InvInitially == Init => Inv
<1> SUFFICES ASSUME Init PROVE Inv
  OBVIOUS
<1> DEFINE stock == [i \in Item |-> [qty |-> AtFirst[i], ver |-> 0]]
           rv == [r \in Request |-> [i \in Item |-> "NONE"]]
           rq == [r \in Request |-> "DRAFT"]
           docs == [n \in No |-> NoDoc]
<1>1. db = [stock |-> stock, reservation |-> rv, request |-> rq, doc |-> docs, commands |-> {}]
  BY DEF Init
<1>2. stock \in [Item -> StockRow] /\ \A i \in Item : stock[i].qty = AtFirst[i]
  BY Constants DEF StockRow
<1>3. rv \in [Request -> [Item -> States]] /\ \A r \in Request, i \in Item : rv[r][i] = "NONE"
  BY DEF States
<1>4. rq \in [Request -> {"DRAFT", "SUBMITTED", "INVENTORY_REVIEW_REQUIRED"}]
  OBVIOUS
<1>5. docs \in [No -> DocRow]
  BY NoLinesType DEF NoDoc, DocRow
<1> HIDE DEF stock, rv, rq, docs
<1>6. Typed(db) /\ db.stock = stock /\ db.reservation = rv
  BY <1>1, <1>2, <1>3, <1>4, <1>5 DEF Typed
<1>7. Covered(db)
  <2> SUFFICES ASSUME NEW i \in Item PROVE Reserved(db, i) <= Combined(db, i)
    BY DEF Covered
  <2>1. Reserved(db, i) = 0
    BY <1>3, <1>6, NobodyHolds
  <2>2. Combined(db, i) \in Nat
    BY <1>2, <1>6, Constants DEF Combined
  <2> QED BY <2>1, <2>2
<1>8. Orderly(db)
  BY <1>3, <1>6 DEF Orderly
<1>9. Panels
  BY BlankIsSound DEF Init, Panels
<1> QED BY <1>6, <1>7, <1>8, <1>9 DEF Inv, Good

LEMMA NextKeeps ==
  ASSUME Inv, [Next]_vars
  PROVE  Inv' /\ Posts(db, db')
<1>1. Good(db) /\ Panels
  BY DEF Inv
<1>2. ASSUME db'.doc = db.doc PROVE Posts(db, db')
  BY <1>2 DEF Posts
<1>3. ASSUME db' = db PROVE Good(db') /\ Posts(db, db')
  BY <1>1, <1>3 DEF Posts
<1>4. ASSUME NEW p \in Panel, PanelStep(p)
      PROVE  Inv' /\ Posts(db, db')
  <2>1. CASE \/ Count(p) \/ Correct(p) \/ Clear(p) \/ Renumber(p) \/ StartNext(p) \/ AccessChanges(p)
    BY <1>1, <1>3, <2>1, EnteringIsSound DEF Inv
  <2>2. CASE CreateDraft(p) \/ UpdateDraft(p) \/ RecaptureBook(p) \/ CompleteStocktake(p)
    BY <1>1, <1>3, <2>2, PressingIsSound DEF Inv
  <2>3. CASE Answered(p)
    BY <1>1, <2>3, AnsweredKeeps DEF Inv
  <2>4. CASE Lost(p)
    BY <1>1, <2>4, LostKeeps DEF Inv
  <2>5. CASE Throws(p)
    BY <1>1, <1>3, <2>5, ThrowingIsSound DEF Inv
  <2> QED BY <1>4, <2>1, <2>2, <2>3, <2>4, <2>5 DEF PanelStep
<1>5. ASSUME NEW r \in Request, Submit(r)
      PROVE  Inv' /\ Posts(db, db')
  <2>1. Panels'
    BY <1>1, <1>5 DEF Submit, Panels
  <2> QED BY <1>1, <1>2, <1>5, <2>1, SubmitKeeps DEF Inv
<1>6. ASSUME NEW i \in Item, NEW delta \in -1 .. 1, Move(i, delta)
      PROVE  Inv' /\ Posts(db, db')
  <2>1. Panels'
    BY <1>1, <1>6 DEF Move, Panels
  <2> QED BY <1>1, <1>2, <1>6, <2>1, MoveKeeps DEF Inv
<1>7. CASE UNCHANGED vars
  BY <1>1, <1>3, <1>7 DEF vars, Inv, Panels
<1> QED BY <1>4, <1>5, <1>6, <1>7 DEF Next

LEMMA Invariance == Spec => []Inv
<1>1. Init => Inv
  BY InvInitially
<1>2. Inv /\ [Next]_vars => Inv'
  BY NextKeeps
<1> QED BY <1>1, <1>2, PTL DEF Spec

(* For any items, requests, panels, counts and lost answers: the tables and*)
(* the panels keep their types; no count takes the stock below nothing.    *)
THEOREM TypeCorrect == Spec => []TypeOK
<1>1. Inv => TypeOK
  <2> SUFFICES ASSUME Inv PROVE TypeOK
    OBVIOUS
  <2>1. /\ db.stock \in [Item -> StockRow] /\ db.reservation \in [Request -> [Item -> States]]
        /\ db.request \in [Request -> {"DRAFT", "SUBMITTED", "INVENTORY_REVIEW_REQUIRED"}]
        /\ db.doc \in [No -> DocRow]
        /\ \A c \in db.commands : c.op \in {"CREATE", "UPDATE", "POST"} /\ c.no \in No
    BY DEF Inv, Good, Typed
  <2>2. ASSUME NEW p \in Panel
        PROVE  LET v == panel[p]
               IN  /\ v.lines \in DocLines /\ v.keys \in Keys /\ v.drawn \in 0 .. MaxKeys
                   /\ v.no \in 1 .. MaxNo /\ v.form \in Nat
                   /\ v.doc \in No \cup {None}
                   /\ v.shown \in {"NONE", "DRAFT", "STALE_COUNT", "POSTED"}
                   /\ v.call # NoCall => v.call.lines \in SentLines /\ v.call.keys \in Keys
                   /\ v.told \in {"nothing", "done", "stale", "failed", "unknown", "thrown"}
    <3>1. Sound(panel[p])
      BY DEF Inv, Panels
    <3>2. Shaped(panel[p])
      BY <3>1 DEF Sound
    <3>3. panel[p].call # NoCall => panel[p].call.lines \in SentLines /\ panel[p].call.keys \in Keys
      BY <3>1 DEF Sound, IsCall
    <3> QED BY <3>2, <3>3 DEF Shaped, Statuses
  <2> QED BY <2>1, <2>2 DEF TypeOK, StockRow, States, DocRow
<1> QED BY <1>1, Invariance, PTL

(* For any number of items, counts and requests: after any posting the     *)
(* stock covers what is still reserved, and a request that lost a          *)
(* reservation to a count waits for its review and holds nothing.          *)
THEOREM ShortagesShown == Spec => []ShortageNeverHidden
<1>1. Inv => ShortageNeverHidden
  <2> SUFFICES ASSUME Inv PROVE ShortageNeverHidden
    OBVIOUS
  <2>1. Covered(db) /\ Orderly(db)
    BY DEF Inv, Good
  <2> QED BY <2>1 DEF Covered, Orderly, ShortageNeverHidden
<1> QED BY <1>1, Invariance, PTL

(* For any number of items and of postings in between: a count that is     *)
(* posted is the book then, and it was saved against the very version of   *)
(* the book that its posting replaces.                                     *)
THEOREM CountsOverwriteNothing == Spec => NothingOverwritten
<1> DEFINE Step == \A n \in No : PostedNow(n) =>
              \A i \in Item : db'.doc[n].lines[i] # None =>
                /\ db'.stock[i].qty = db'.doc[n].lines[i].counted
                /\ db.stock[i].ver = db'.doc[n].lines[i].ver
<1>1. Inv /\ [Next]_vars => Step
  BY NextKeeps DEF Posts, PostedNow
<1>2. NothingOverwritten <=> [][Step]_vars
  BY DEF NothingOverwritten
<1> HIDE DEF Step
<1> QED BY <1>1, <1>2, Invariance, PTL DEF Spec

-----------------------------------------------------------------------------
(* One posting for each form                                               *)

\* A count of form f of panel p that is posted.
Of(d, p, form, n) == n \in No /\ n[1] = p /\ d.doc[n].status = "POSTED" /\ d.doc[n].form = form
Nothing(d, p, form) == \A n \in No : ~Of(d, p, form, n)

\* Command c was given under a key of panel p.
Under(d, op, p, key, c) == c \in d.commands /\ c.op = op /\ c.no[1] = p /\ c.key = key

\* What was sent is what the document holds.
SameCount(sent, lines) ==
  \A i \in Item : /\ sent[i] = None <=> lines[i] = None
                  /\ sent[i] # None => lines[i].counted = sent[i].counted

\* What a command tells of the documents.  A saved count is never changed:
\* its lines cannot be replaced, and so no update has ever succeeded.
Created(d, c) ==
  /\ d.doc[c.no].status # "NONE" /\ c.succeeded
  /\ c.no = <<c.no[1], c.print[2]>> /\ SameCount(c.print[3], d.doc[c.no].lines)
Journal(d) ==
  /\ \A c \in d.commands : /\ c.op \in {"CREATE", "POST"} /\ c.key \in Nat
                           /\ c.op = "CREATE" => Created(d, c)
                           /\ c.op = "POST" => c.print[1] = c.no
  /\ \A c, e \in d.commands : c.op = e.op /\ c.no[1] = e.no[1] /\ c.key = e.key => c = e
  /\ \A n \in No : d.doc[n].status # "NONE" => \E i \in Item : d.doc[n].lines[i] # None

SentOf(v) ==
  [i \in Item |-> IF v.lines[i] = None THEN None
     ELSE [counted |-> v.lines[i].counted, reason |-> v.lines[i].counted # v.lines[i].book,
           seen |-> v.lines[i].ver]]
Fingerprint(v) == <<"completed", v.no, SentOf(v)>>

\* The forms and the keys that are yet to come have not been used.
Bounds(d, p, v) ==
  /\ \A n \in No : n[1] = p /\ d.doc[n].status # "NONE" => d.doc[n].form \in Nat /\ d.doc[n].form <= v.form
  /\ \A c \in d.commands : c.no[1] = p => c.key <= v.drawn
  /\ \A x \in DOMAIN NoKeys : v.keys[x] # None => v.keys[x] <= v.drawn

Single(d, p) ==
  \A form \in Nat : \A n, m \in No : Of(d, p, form, n) /\ Of(d, p, form, m) => n = m

\* What was made under the key that is held is of the form.
Mine(d, p, v) ==
  v.lines # NoLines =>
    \A c \in d.commands : Under(d, "CREATE", p, v.keys.create, c) => d.doc[c.no].form = v.form

\* Count n was made, and where one transaction does both also posted, by the
\* very press that is under way or whose outcome is unknown.
Pressed(d, p, v, n, a) ==
  /\ \E c \in d.commands : Under(d, "CREATE", p, v.keys.create, c) /\ c.no = n /\ c.print = Fingerprint(v)
  /\ a => \E c \in d.commands :
            Under(d, "POST", p, v.keys.post, c) /\ c.print = <<n, Fingerprint(v)>> /\ c.succeeded
Posting(v) == v.unknown \/ v.call.op \in {"complete", "draft", "post"}

\* What the form has posted is on the screen, or a retry would find it.
Where(d, p, v, a) ==
  \A n \in No : Of(d, p, v.form, n) =>
    IF v.doc = None THEN Posting(v) /\ Pressed(d, p, v, n, a)
    ELSE v.doc = n /\ (a => v.shown = "POSTED")

\* The document on the screen is of the number there, and its items are.
Match(d, p, v) ==
  IF v.doc = None THEN v.shown = "NONE"
  ELSE /\ v.doc = <<p, v.no>> /\ d.doc[v.doc].status # "NONE"
       /\ \A i \in Item : v.lines[i] = None <=> d.doc[v.doc].lines[i] = None

Tracks(d, p, v, a) ==
  Bounds(d, p, v) /\ Single(d, p) /\ Mine(d, p, v) /\ Where(d, p, v, a) /\ Match(d, p, v)

\* Panel v with call c under way.
Called(d, p, v, c, a) ==
  /\ v.lines # NoLines /\ v.shown # "POSTED" /\ v.told = "nothing"
  /\ c.keys = v.keys /\ c.form = v.form /\ c.lines = SentOf(v) /\ c.no = <<p, v.no>>
  /\ c.saved <=> v.doc # None
  /\ c.op = "create" => ~c.saved /\ ~v.unknown /\ c.print = <<"saved", v.no, SentOf(v)>>
  /\ c.op \in {"save", "recapture"} => c.saved
  /\ c.op = "complete" => a
  /\ c.op \in {"draft", "post"} => ~a
  /\ c.op \in {"complete", "draft", "post"} => c.print = Fingerprint(v) /\ v.keys.post \in Nat
  /\ c.op \in {"create", "complete", "draft", "post"} => v.keys.create \in Nat
  /\ c.op = "post" => ~c.saved /\ Pressed(d, p, v, c.no, FALSE)

Honest(d, p, v, a) ==
  /\ v.told = "done" => /\ v.shown = "POSTED" /\ Of(d, p, v.form, v.doc)
                        /\ \A i \in Item : v.lines[i] # None =>
                             d.doc[v.doc].lines[i].counted = v.lines[i].counted
  /\ v.told \in {"failed", "stale"} /\ a => Nothing(d, p, v.form)

Careful(d, p, v, a) ==
  Tracks(d, p, v, a) /\ Honest(d, p, v, a) /\ (v.call # NoCall => Called(d, p, v, v.call, a))

-----------------------------------------------------------------------------
(* What a call makes of the documents and the commands                     *)

\* create_stocktake_draft has made a draft ...
Unused(d, op, p, key) == \A x \in d.commands : ~Under(d, op, p, key, x)
Made(d, e, c) ==
  /\ d.doc[c.no].status = "NONE" /\ Unused(d, "CREATE", c.no[1], c.keys.create)
  /\ e.doc[c.no].status = "DRAFT" /\ e.doc[c.no].form = c.form /\ SameCount(c.lines, e.doc[c.no].lines)
  /\ \A n \in No \ {c.no} : e.doc[n] = d.doc[n]
  /\ \E x : /\ x.op = "CREATE" /\ x.key = c.keys.create /\ x.no = c.no /\ x.print = c.print
            /\ x.succeeded /\ e.commands = d.commands \cup {x}

\* ... or finds the one that the key has made before.
Finds(d, c, n) ==
  \E x \in d.commands : Under(d, "CREATE", c.no[1], c.keys.create, x) /\ x.print = c.print /\ x.no = n

\* post_stocktake has ended document n, or finds that it has.
Ended(d, e, c, n) ==
  /\ d.doc[n].status = "DRAFT" /\ Unused(d, "POST", n[1], c.keys.post)
  /\ e.doc[n].status \in {"STALE_COUNT", "POSTED"}
  /\ e.doc[n].form = d.doc[n].form /\ e.doc[n].lines = d.doc[n].lines
  /\ \A m \in No \ {n} : e.doc[m] = d.doc[m]
  /\ \E x : /\ x.op = "POST" /\ x.key = c.keys.post /\ x.no = n /\ x.print = <<n, c.print>>
            /\ (e.doc[n].status = "POSTED" => x.succeeded) /\ e.commands = d.commands \cup {x}
FindsEnded(d, c, n) ==
  \E x \in d.commands : Under(d, "POST", n[1], c.keys.post, x) /\ x.print = <<n, c.print>> /\ x.succeeded

LEMMA OnceFinds ==
  ASSUME NEW d, Good(d), Journal(d), NEW op, NEW n, NEW key, NEW print, NEW fresh,
         NEW x, x = Once(d, op, n, key, print, fresh)
  PROVE  \/ x = fresh /\ Unused(d, op, n[1], key)
         \/ \E c \in d.commands : /\ Under(d, op, n[1], key, c) /\ c.print = print /\ c.succeeded
                                  /\ c.no \in No /\ x = Done(d, c.no)
         \/ /\ x = Refused(d)
            /\ \A c \in d.commands : Under(d, op, n[1], key, c) => ~(c.print = print /\ c.succeeded)
<1> DEFINE prior == {c \in d.commands : c.op = op /\ c.no[1] = n[1] /\ c.key = key}
           c == CHOOSE c \in prior : TRUE
<1>1. CASE prior = {}
  <2>1. x = fresh
    BY <1>1 DEF Once
  <2>2. Unused(d, op, n[1], key)
    BY <1>1 DEF Unused, Under
  <2> QED BY <2>1, <2>2
<1>2. CASE prior # {}
  <2>1. c \in prior
    BY <1>2
  <2>2. c \in d.commands /\ Under(d, op, n[1], key, c) /\ c.no \in No
    BY <2>1 DEF Good, Typed, Under
  <2>3. x = IF c.print = print /\ c.succeeded THEN Done(d, c.no) ELSE Refused(d)
    BY <1>2 DEF Once
  <2> HIDE DEF c
  <2>4. \A e \in d.commands : Under(d, op, n[1], key, e) => e = c
    BY <2>2 DEF Journal, Under
  <2> QED BY <2>2, <2>3, <2>4
<1> QED BY <1>1, <1>2

LEMMA CallTypes ==
  ASSUME NEW c, IsCall(c)
  PROVE  c.op \in Ops /\ c.no \in No /\ c.lines \in SentLines /\ c.form \in Nat /\ c.keys \in Keys /\ c # NoCall
<1>1. c.op \in Ops /\ c.no \in No /\ c.lines \in SentLines /\ c.form \in Nat /\ c.keys \in Keys
  BY DEF IsCall
<1>2. NoCall.op = "none"
  BY DEF NoCall
<1> QED BY <1>1, <1>2 DEF Ops

LEMMA AbsentLines ==
  /\ \A lines \in DocLines, i \in Item : lines[i] # None <=> lines[i] \in [book : Nat, ver : Nat, counted : Nat, null : BOOLEAN]
  /\ \A lines \in SentLines, i \in Item : lines[i] # None <=> lines[i] \in [counted : Nat, reason : BOOLEAN, seen : Nat]
BY StocktakeConstants DEF DocLines, SentLines

LEMMA CapturedIs ==
  ASSUME NEW d, Typed(d), NEW lines \in SentLines
  PROVE  SameCount(lines, Captured(d, lines))
<1> SUFFICES ASSUME NEW i \in Item
             PROVE  /\ lines[i] = None <=> Captured(d, lines)[i] = None
                    /\ lines[i] # None => Captured(d, lines)[i].counted = lines[i].counted
  BY DEF SameCount
<1>1. CASE lines[i] = None
  BY <1>1 DEF Captured
<1>2. CASE lines[i] # None
  <2>0. PICK null : null = ~lines[i].reason
    OBVIOUS
  <2>1. PICK row : row = [book |-> d.stock[i].qty, ver |-> d.stock[i].ver, counted |-> lines[i].counted,
                          null |-> null]
    OBVIOUS
  <2>2. Captured(d, lines)[i] = row
    BY <1>2, <2>0, <2>1 DEF Captured
  <2>3. Captured(d, lines) \in DocLines
    BY CapturedType
  <2>4. d.stock[i].qty \in Nat /\ d.stock[i].ver \in Nat /\ lines[i].counted \in Nat
    BY <1>2, AbsentLines, CombinedType
  <2>5. row \in [book : Nat, ver : Nat, counted : Nat, null : BOOLEAN] /\ row.counted = lines[i].counted
    <3>1. null \in BOOLEAN
      BY <2>0
    <3> QED BY <2>1, <2>4, <3>1
  <2> QED BY <1>2, <2>2, <2>3, <2>5, AbsentLines
<1> QED BY <1>1, <1>2

LEMMA CommandIs ==
  ASSUME NEW op, NEW key, NEW print, NEW succeeded, NEW no, NEW y,
         y = [op |-> op, key |-> key, print |-> print, succeeded |-> succeeded, no |-> no]
  PROVE  y.op = op /\ y.key = key /\ y.print = print /\ y.succeeded = succeeded /\ y.no = no
OBVIOUS

LEMMA CreateIs ==
  ASSUME NEW d, Good(d), Journal(d), NEW c, IsCall(c), NEW x, x = CreateTx(d, c)
  PROVE  \/ x.error = "none" /\ x.no = c.no /\ Made(d, x.db, c)
         \/ x.error = "none" /\ x.db = d /\ Finds(d, c, x.no)
         \/ x.error # "none" /\ x.db = d /\ \A n : ~Finds(d, c, n)
<1> DEFINE row == [status |-> "DRAFT", lines |-> Captured(d, c.lines), form |-> c.form]
           e == Remember(WithDoc(d, c.no, row), "CREATE", c.keys.create, c.print, TRUE, c.no)
           fresh == IF d.doc[c.no].status # "NONE" THEN Duplicate(d)
                    ELSE IF ~DifferencesExplained(d, c.lines) THEN Refused(d)
                    ELSE Done(e, c.no)
<1>1. x = Once(d, "CREATE", c.no, c.keys.create, c.print, fresh)
  BY DEF CreateTx, WithDoc, Duplicate
<1>2. c.no \in No /\ c.lines \in SentLines /\ c.form \in Nat
  BY CallTypes
<1>3. row \in DocRow /\ row.status = "DRAFT" /\ row.form = c.form /\ row.lines = Captured(d, c.lines)
  BY <1>2, CapturedType DEF Good, DocRow
<1>4. SameCount(c.lines, row.lines)
  BY <1>2, <1>3, CapturedIs DEF Good
<1> HIDE DEF row
<1>5. PICK n, key, print, yes : n = c.no /\ key = c.keys.create /\ print = c.print /\ yes = TRUE
  OBVIOUS
<1>6. PICK m : m = WithDoc(d, n, row)
  OBVIOUS
<1>7. Typed(m) /\ m.commands = d.commands /\ m.doc[n] = row /\ \A k \in No \ {n} : m.doc[k] = d.doc[k]
  BY <1>2, <1>3, <1>5, <1>6, DocChange DEF Good
<1>8. e = Remember(m, "CREATE", key, print, yes, n)
  BY <1>5, <1>6
<1> HIDE DEF e
<1>9. PICK y : y = [op |-> "CREATE", key |-> key, print |-> print, succeeded |-> yes, no |-> n]
  OBVIOUS
<1>10. e.doc = m.doc /\ e.commands = d.commands \cup {y}
  <2>1. n \in No
    BY <1>2, <1>5
  <2> QED BY <1>7, <1>8, <1>9, <2>1, RememberKeeps
<1>11. y.op = "CREATE" /\ y.key = c.keys.create /\ y.no = c.no /\ y.print = c.print /\ y.succeeded
  BY <1>5, <1>9, CommandIs
<1>12. \/ x = fresh /\ Unused(d, "CREATE", c.no[1], c.keys.create)
       \/ \E b \in d.commands : /\ Under(d, "CREATE", c.no[1], c.keys.create, b) /\ b.print = c.print
                                /\ x = Done(d, b.no)
       \/ /\ x = Refused(d)
          /\ \A b \in d.commands : Under(d, "CREATE", c.no[1], c.keys.create, b) => ~(b.print = c.print /\ b.succeeded)
  <2> HIDE DEF fresh
  <2> QED BY <1>1, OnceFinds
<1>13. CASE x = fresh /\ Unused(d, "CREATE", c.no[1], c.keys.create)
  <2>1. \A b : ~Finds(d, c, b)
    BY <1>13 DEF Finds, Unused
  <2>2. CASE x = Duplicate(d) \/ x = Refused(d)
    BY <2>1, <2>2 DEF Duplicate, Refused
  <2>3. CASE x = Done(e, c.no) /\ d.doc[c.no].status = "NONE"
    <3>1. x.error = "none" /\ x.no = c.no /\ x.db = e
      BY <2>3 DEF Done
    <3>2. Made(d, e, c)
      BY <1>3, <1>4, <1>5, <1>7, <1>10, <1>11, <1>13, <2>3 DEF Made
    <3> QED BY <3>1, <3>2
  <2> QED BY <1>13, <2>2, <2>3
<1>14. CASE \E b \in d.commands : /\ Under(d, "CREATE", c.no[1], c.keys.create, b) /\ b.print = c.print
                                  /\ x = Done(d, b.no)
  <2>1. PICK b \in d.commands : /\ Under(d, "CREATE", c.no[1], c.keys.create, b) /\ b.print = c.print
                                /\ x = Done(d, b.no)
    BY <1>14
  <2>2. x.error = "none" /\ x.db = d /\ x.no = b.no
    BY <2>1 DEF Done
  <2> QED BY <2>1, <2>2 DEF Finds
<1>15. CASE /\ x = Refused(d)
            /\ \A b \in d.commands : Under(d, "CREATE", c.no[1], c.keys.create, b) => ~(b.print = c.print /\ b.succeeded)
  <2>1. \A b \in d.commands : Under(d, "CREATE", c.no[1], c.keys.create, b) => b.succeeded
    BY DEF Journal, Created, Under
  <2>2. \A b : ~Finds(d, c, b)
    BY <1>15, <2>1 DEF Finds
  <2> QED BY <1>15, <2>2 DEF Refused
<1> QED BY <1>12, <1>13, <1>14, <1>15

\* A saved count cannot be changed: its lines stand in the way.
LEMMA UpdateIs ==
  ASSUME NEW d, Good(d), Journal(d), NEW c, NEW key, NEW lines, NEW recount,
         NEW i \in Item, lines[i] # None, d.doc[c.no].lines[i] # None
  PROVE  UpdateTx(d, c, key, lines, recount) = Refused(d)
<1> DEFINE s == d.doc[c.no]
           kept == AfterGuardedDelete(s.lines)
           accepted ==
             /\ s.status = "DRAFT" \/ (s.status = "STALE_COUNT" /\ recount)
             /\ \A j \in Item : kept[j] = None \/ lines[j] = None
             /\ DifferencesExplained(d, lines)
           done == Done(Remember([d EXCEPT !.doc[c.no].status = "DRAFT",
                                     !.doc[c.no].lines = [j \in Item |->
                                        IF lines[j] = None THEN kept[j] ELSE Captured(d, lines)[j]]],
                           "UPDATE", key, c.print, TRUE, c.no), c.no)
           fresh == IF ~accepted THEN Refused(d) ELSE done
<1>1. ~accepted
  BY DEF AfterGuardedDelete
<1>2. UpdateTx(d, c, key, lines, recount) = Once(d, "UPDATE", c.no, key, c.print, fresh)
  BY DEF UpdateTx
<1> HIDE DEF accepted, done
<1>3. fresh = Refused(d)
  BY <1>1
<1> HIDE DEF fresh
<1>4. PICK x : x = Once(d, "UPDATE", c.no, key, c.print, fresh)
  OBVIOUS
<1>5. \A b \in d.commands : ~Under(d, "UPDATE", c.no[1], key, b)
  BY DEF Journal, Under
<1>6. x = Refused(d)
  BY <1>3, <1>4, <1>5, OnceFinds
<1> QED BY <1>2, <1>4, <1>6

LEMMA RecaptureIs ==
  ASSUME NEW d, Good(d), Journal(d), NEW c, IsCall(c)
  PROVE  RecaptureTx(d, c) = Refused(d)
<1> DEFINE s == d.doc[c.no]
           key == <<"RECOUNT", c.keys.update>>
           anew == [i \in Item |-> IF s.lines[i] = None THEN None
                      ELSE [counted |-> d.stock[i].qty, reason |-> FALSE, seen |-> d.stock[i].ver]]
           done == {x \in d.commands : x.op = "UPDATE" /\ x.no[1] = c.no[1] /\ x.key = key}
<1>1. c.no \in No
  BY CallTypes
<1>2. done = {}
  BY DEF Journal
<1>3. RecaptureTx(d, c) = IF done = {} /\ s.status # "STALE_COUNT" THEN Refused(d)
                          ELSE UpdateTx(d, c, key, anew, TRUE)
  BY DEF RecaptureTx
<1> HIDE DEF done
<1>4. CASE s.status # "STALE_COUNT"
  BY <1>2, <1>3, <1>4
<1>5. CASE s.status = "STALE_COUNT"
  <2>1. PICK i \in Item : s.lines[i] # None
    BY <1>1, <1>5 DEF Journal
  <2>2. d.stock[i].qty \in Nat /\ d.stock[i].ver \in Nat
    BY CombinedType DEF Good
  <2>3. PICK row : row = [counted |-> d.stock[i].qty, reason |-> FALSE, seen |-> d.stock[i].ver]
    OBVIOUS
  <2>4. row \in [counted : Nat, reason : BOOLEAN, seen : Nat]
    BY <2>2, <2>3
  <2>5. row # None
    BY <2>4, StocktakeConstants
  <2>6. anew[i] = row
    BY <2>1, <2>3
  <2> HIDE DEF anew, key
  <2>7. UpdateTx(d, c, key, anew, TRUE) = Refused(d)
    BY <2>1, <2>5, <2>6, UpdateIs
  <2> QED BY <1>3, <1>5, <2>7
<1> QED BY <1>4, <1>5

\* post_stocktake, and what its answer tells.
LEMMA PostIs ==
  ASSUME NEW d, Good(d), Journal(d), NEW c, NEW no \in No, NEW x, x = PostTx(d, c, no)
  PROVE  \/ x.error = "none" /\ x.no = no /\ Ended(d, x.db, c, no)
         \/ x.error = "none" /\ x.no = no /\ x.db = d /\ FindsEnded(d, c, no)
         \/ x.error # "none" /\ x.db = d /\ ~FindsEnded(d, c, no)
<1> DEFINE s == d.doc[no]
           counted == {i \in Item : s.lines[i] # None}
           moved == {i \in counted : Moved(d, i, s.lines[i])}
           before == {i \in counted : \A j \in moved : i < j}
           after == Uncovered(d, s.lines, before)
           adjusted == [after EXCEPT !.stock = Adjusted(d, s.lines)]
           stale == Remember([after EXCEPT !.doc[no].status = "STALE_COUNT"],
                             "POST", c.keys.post, <<no, c.print>>, FALSE, no)
           posted == Remember([adjusted EXCEPT !.doc[no].status = "POSTED"],
                              "POST", c.keys.post, <<no, c.print>>, TRUE, no)
           fresh == CASE s.status # "DRAFT" -> Refused(d)
                      [] s.status = "DRAFT" /\ moved # {} -> Done(stale, no)
                      [] OTHER -> Done(posted, no)
<1>1. x = Once(d, "POST", no, c.keys.post, <<no, c.print>>, fresh)
  BY DEF PostTx
<1>2. s \in DocRow /\ s.lines \in DocLines
  BY DEF Good, Typed, DocRow
<1>3. before \in SUBSET Item
  OBVIOUS
<1>4. \A i \in before : s.lines[i] # None /\ d.stock[i].qty = s.lines[i].book
  <2> SUFFICES ASSUME NEW i \in before PROVE s.lines[i] # None /\ d.stock[i].qty = s.lines[i].book
    OBVIOUS
  <2>1. i \in counted /\ i \in Int /\ ~(i < i)
    BY DEF Item
  <2>2. i \notin moved
    BY <2>1
  <2> HIDE DEF s
  <2> QED BY <2>1, <2>2 DEF Moved
<1>5. moved = {} => \A i \in Item : s.lines[i] # None => s.lines[i].book = d.stock[i].qty
  <2> HIDE DEF s
  <2> QED BY DEF Moved
<1> HIDE DEF moved, counted, before
<1>6. Conflicted(after, d, s.lines, before, NItem)
  <2> HIDE DEF s
  <2> QED BY <1>2, <1>3, <1>4, UncoveredKeeps DEF Good
<1> HIDE DEF after
<1>7. Typed(after) /\ after.doc = d.doc /\ after.commands = d.commands
  BY <1>6 DEF Conflicted
<1>8. PICK key, print, yes, not : key = c.keys.post /\ print = <<no, c.print>> /\ yes = TRUE /\ not = FALSE
  OBVIOUS
<1>9. Unused(d, "POST", no[1], c.keys.post) /\ s.status = "DRAFT" => Ended(d, stale, c, no)
  <2> DEFINE row == [s EXCEPT !.status = "STALE_COUNT"]
  <2>1. row \in DocRow /\ row.status = "STALE_COUNT" /\ row.form = s.form /\ row.lines = s.lines
    BY <1>2 DEF DocRow
  <2>2. [after EXCEPT !.doc[no].status = "STALE_COUNT"] = WithDoc(after, no, row)
    <3>1. after.doc[no] = s
      BY <1>7
    <3> HIDE DEF s
    <3> QED BY <3>1, <1>7 DEF WithDoc, Typed
  <2> HIDE DEF row, s
  <2>3. PICK m : m = WithDoc(after, no, row)
    OBVIOUS
  <2>4. Typed(m) /\ m.commands = d.commands /\ m.doc[no] = row /\ \A k \in No \ {no} : m.doc[k] = d.doc[k]
    BY <1>7, <2>1, <2>3, DocChange
  <2>5. stale = Remember(m, "POST", key, print, not, no)
    BY <1>8, <2>2, <2>3
  <2> HIDE DEF stale
  <2>6. PICK y : y = [op |-> "POST", key |-> key, print |-> print, succeeded |-> not, no |-> no]
    OBVIOUS
  <2>7. stale.doc = m.doc /\ stale.commands = d.commands \cup {y}
    BY <2>4, <2>5, <2>6, RememberKeeps
  <2>8. y.op = "POST" /\ y.key = key /\ y.no = no /\ y.print = print
    BY <2>6, CommandIs
  <2>9. /\ stale.doc[no].status = "STALE_COUNT" /\ stale.doc[no].form = d.doc[no].form
        /\ stale.doc[no].lines = d.doc[no].lines /\ \A k \in No \ {no} : stale.doc[k] = d.doc[k]
    BY <2>1, <2>4, <2>7 DEF s
  <2>10. y.print = <<no, c.print>> /\ y.key = c.keys.post
    BY <1>8, <2>8
  <2> QED BY <2>7, <2>8, <2>9, <2>10 DEF Ended, s
<1> HIDE DEF stale
<1>10. Unused(d, "POST", no[1], c.keys.post) /\ s.status = "DRAFT" /\ moved = {} => Ended(d, posted, c, no)
  <2> SUFFICES ASSUME Unused(d, "POST", no[1], c.keys.post), s.status = "DRAFT", moved = {}
               PROVE  Ended(d, posted, c, no)
    OBVIOUS
  <2> DEFINE row == [s EXCEPT !.status = "POSTED"]
             t == Adjusted(d, s.lines)
  <2>1. row \in DocRow /\ row.status = "POSTED" /\ row.form = s.form /\ row.lines = s.lines
    BY <1>2 DEF DocRow
  <2>2. t \in [Item -> StockRow]
    <3> HIDE DEF s
    <3> QED BY <1>2, <1>5, AdjustedType DEF Good
  <2> HIDE DEF t
  <2>3. adjusted = [after EXCEPT !.stock = t]
    BY DEF t
  <2> HIDE DEF adjusted
  <2>4. Typed(adjusted) /\ adjusted.doc = d.doc /\ adjusted.commands = d.commands
    BY <1>7, <2>2, <2>3, StockChange
  <2>5. [adjusted EXCEPT !.doc[no].status = "POSTED"] = WithDoc(adjusted, no, row)
    <3>1. adjusted.doc[no] = s
      BY <2>4
    <3> HIDE DEF s
    <3> QED BY <2>4, <3>1 DEF WithDoc, Typed
  <2> HIDE DEF row, s
  <2>6. PICK m : m = WithDoc(adjusted, no, row)
    OBVIOUS
  <2>7. Typed(m) /\ m.commands = d.commands /\ m.doc[no] = row /\ \A k \in No \ {no} : m.doc[k] = d.doc[k]
    BY <2>1, <2>4, <2>6, DocChange
  <2>8. posted = Remember(m, "POST", key, print, yes, no)
    BY <1>8, <2>5, <2>6
  <2> HIDE DEF posted
  <2>9. PICK y : y = [op |-> "POST", key |-> key, print |-> print, succeeded |-> yes, no |-> no]
    OBVIOUS
  <2>10. posted.doc = m.doc /\ posted.commands = d.commands \cup {y}
    BY <2>7, <2>8, <2>9, RememberKeeps
  <2>11. y.op = "POST" /\ y.key = key /\ y.no = no /\ y.print = print /\ y.succeeded
    BY <1>8, <2>9, CommandIs
  <2>12. /\ posted.doc[no].status = "POSTED" /\ posted.doc[no].form = d.doc[no].form
         /\ posted.doc[no].lines = d.doc[no].lines /\ \A k \in No \ {no} : posted.doc[k] = d.doc[k]
    BY <2>1, <2>7, <2>10 DEF s
  <2>13. y.print = <<no, c.print>> /\ y.key = c.keys.post
    BY <1>8, <2>11
  <2> QED BY <2>10, <2>11, <2>12, <2>13 DEF Ended, s
<1> HIDE DEF posted, adjusted
<1>11. \/ x = fresh /\ Unused(d, "POST", no[1], c.keys.post)
       \/ \E b \in d.commands : /\ Under(d, "POST", no[1], c.keys.post, b) /\ b.print = <<no, c.print>>
                                /\ b.succeeded /\ x = Done(d, b.no)
       \/ /\ x = Refused(d)
          /\ \A b \in d.commands : Under(d, "POST", no[1], c.keys.post, b) =>
               ~(b.print = <<no, c.print>> /\ b.succeeded)
  <2> HIDE DEF fresh
  <2> QED BY <1>1, OnceFinds
<1>12. CASE x = fresh /\ Unused(d, "POST", no[1], c.keys.post)
  <2>1. ~FindsEnded(d, c, no)
    BY <1>12 DEF FindsEnded, Unused
  <2>2. CASE s.status # "DRAFT"
    <3>1. x = Refused(d)
      BY <1>12, <2>2
    <3> QED BY <2>1, <3>1 DEF Refused
  <2>3. CASE s.status = "DRAFT" /\ moved # {}
    <3>1. x = Done(stale, no)
      BY <1>12, <2>3
    <3> QED BY <1>9, <1>12, <2>3, <3>1 DEF Done
  <2>4. CASE s.status = "DRAFT" /\ moved = {}
    <3>1. x = Done(posted, no)
      BY <1>12, <2>4
    <3> QED BY <1>10, <1>12, <2>4, <3>1 DEF Done
  <2> QED BY <2>2, <2>3, <2>4
<1>13. CASE \E b \in d.commands : /\ Under(d, "POST", no[1], c.keys.post, b) /\ b.print = <<no, c.print>>
                                  /\ b.succeeded /\ x = Done(d, b.no)
  <2>1. PICK b \in d.commands : /\ Under(d, "POST", no[1], c.keys.post, b) /\ b.print = <<no, c.print>>
                                /\ b.succeeded /\ x = Done(d, b.no)
    BY <1>13
  <2>2. b.no = no
    BY <2>1 DEF Journal, Under
  <2> QED BY <2>1, <2>2 DEF FindsEnded, Done
<1>14. CASE /\ x = Refused(d)
            /\ \A b \in d.commands : Under(d, "POST", no[1], c.keys.post, b) =>
                 ~(b.print = <<no, c.print>> /\ b.succeeded)
  BY <1>14 DEF FindsEnded, Refused
<1> QED BY <1>11, <1>12, <1>13, <1>14

-----------------------------------------------------------------------------
(* A call that reaches the database                                        *)

LEMMA SentIs ==
  ASSUME NEW v, Sound(v)
  PROVE  /\ \A i \in Item : /\ SentOf(v)[i] = None <=> v.lines[i] = None
                            /\ v.lines[i] # None => SentOf(v)[i].counted = v.lines[i].counted
         /\ v.lines # NoLines => \E i \in Item : v.lines[i] # None
<1>1. v.lines \in DocLines
  BY DEF Sound, Shaped
<1>2. ASSUME NEW i \in Item
      PROVE  /\ SentOf(v)[i] = None <=> v.lines[i] = None
             /\ v.lines[i] # None => SentOf(v)[i].counted = v.lines[i].counted
  <2>1. CASE v.lines[i] = None
    BY <2>1 DEF SentOf
  <2>2. CASE v.lines[i] # None
    <3>1. v.lines[i].counted \in Nat /\ v.lines[i].ver \in Nat
      BY <1>1, <2>2, LineType
    <3>2. PICK reason \in BOOLEAN : reason = (v.lines[i].counted # v.lines[i].book)
      OBVIOUS
    <3>3. PICK row : row = [counted |-> v.lines[i].counted, reason |-> reason, seen |-> v.lines[i].ver]
      OBVIOUS
    <3>4. row \in [counted : Nat, reason : BOOLEAN, seen : Nat] /\ row.counted = v.lines[i].counted
      BY <3>1, <3>3
    <3>5. SentOf(v)[i] = row
      BY <2>2, <3>2, <3>3 DEF SentOf
    <3> QED BY <2>2, <3>4, <3>5, StocktakeConstants
  <2> QED BY <2>1, <2>2
<1>3. (\A i \in Item : v.lines[i] = None) => v.lines = NoLines
  BY <1>1 DEF NoLines, DocLines
<1> QED BY <1>2, <1>3

LEMMA PanelTypes ==
  ASSUME NEW v, Sound(v)
  PROVE  /\ v.form \in Nat /\ v.no \in 1 .. MaxNo /\ v.no \in Nat /\ v.lines \in DocLines
         /\ v.doc \in No \cup {None} /\ v.shown \in Statuses /\ v.unknown \in BOOLEAN
         /\ v.keys \in Keys /\ v.drawn \in Nat
         /\ v.keys.create \in Nat \cup {None} /\ v.keys.update \in Nat \cup {None}
         /\ v.keys.post \in Nat \cup {None}
<1>1. DOMAIN NoKeys = {"create", "update", "post"}
  BY DEF NoKeys
<1>2. /\ v.form \in Nat /\ v.no \in 1 .. MaxNo /\ v.no \in Nat /\ v.lines \in DocLines
      /\ v.doc \in No \cup {None} /\ v.shown \in Statuses /\ v.unknown \in BOOLEAN
      /\ v.keys \in Keys /\ v.drawn \in Nat
  BY Constants DEF Sound, Shaped
<1> QED BY <1>1, <1>2 DEF Keys

\* A panel that waits for an answer.
Waiting(d, p, v, a) ==
  /\ Good(d) /\ Journal(d) /\ Sound(v) /\ v.call # NoCall
  /\ Tracks(d, p, v, a) /\ Called(d, p, v, v.call, a)

LEMMA WaitingIs ==
  ASSUME NEW d, NEW p, NEW v, NEW a, Waiting(d, p, v, a), NEW c, c = v.call
  PROVE  /\ IsCall(c) /\ c.op \in Ops /\ c.no \in No /\ c.no[1] = p /\ c.lines \in SentLines
         /\ c.keys = v.keys /\ c.form = v.form /\ v.form \in Nat
         /\ c.op \in {"create", "complete", "draft", "post"} /\ ~c.saved => c.print[2] = v.no /\ c.print[3] = c.lines
         /\ c.op \in {"create", "complete", "draft", "post"} => c.keys.create \in Nat
         /\ c.op \in {"complete", "post"} => c.keys.post \in Nat
         /\ \A i \in Item : c.lines[i] = None <=> v.lines[i] = None
         /\ \E i \in Item : v.lines[i] # None
         /\ c.saved \in BOOLEAN
<1>1. Called(d, p, v, c, a) /\ IsCall(c) /\ Sound(v)
  BY DEF Waiting, Sound
<1>2. c.op \in Ops /\ c.no \in No /\ c.lines \in SentLines /\ c.saved \in BOOLEAN
  BY <1>1, CallTypes DEF IsCall
<1>3. c.no = <<p, v.no>> /\ c.keys = v.keys /\ c.form = v.form /\ c.lines = SentOf(v) /\ v.lines # NoLines
  BY <1>1 DEF Called
<1>4. c.no[1] = p
  BY <1>3
<1>5. c.op \in {"create", "complete", "draft", "post"} /\ ~c.saved => c.print[2] = v.no /\ c.print[3] = c.lines
  <2>1. CASE c.op = "create"
    <3>1. c.print = <<"saved", v.no, c.lines>>
      BY <1>1, <1>3, <2>1 DEF Called
    <3> QED BY <3>1
  <2>2. CASE c.op \in {"complete", "draft", "post"}
    <3>1. c.print = <<"completed", v.no, c.lines>>
      BY <1>1, <1>3, <2>2 DEF Called, Fingerprint
    <3> QED BY <3>1
  <2> QED BY <2>1, <2>2
<1>6. /\ c.op \in {"create", "complete", "draft", "post"} => c.keys.create \in Nat
      /\ c.op \in {"complete", "post"} => c.keys.post \in Nat
  BY <1>1, <1>3 DEF Called
<1> QED BY <1>1, <1>2, <1>3, <1>4, <1>5, <1>6, SentIs, PanelTypes

\* The command that made what a key finds.
LEMMA FindsIs ==
  ASSUME NEW d, Good(d), Journal(d), NEW c, NEW n, Finds(d, c, n)
  PROVE  /\ n \in No /\ n[1] = c.no[1] /\ n = <<n[1], c.print[2]>> /\ d.doc[n].status # "NONE"
         /\ SameCount(c.print[3], d.doc[n].lines)
         /\ \A x \in d.commands : Under(d, "CREATE", c.no[1], c.keys.create, x) => x.no = n
<1>1. PICK x \in d.commands : Under(d, "CREATE", c.no[1], c.keys.create, x) /\ x.print = c.print /\ x.no = n
  BY DEF Finds
<1>2. n \in No /\ n[1] = c.no[1]
  BY <1>1 DEF Good, Typed, Under
<1>3. Created(d, x)
  BY <1>1 DEF Journal, Under
<1>4. \A y \in d.commands : Under(d, "CREATE", c.no[1], c.keys.create, y) => y = x
  BY <1>1 DEF Journal, Under
<1> QED BY <1>1, <1>2, <1>3, <1>4 DEF Created

\* Where the key has not been used, the form has posted nothing.
LEMMA UnusedPosts ==
  ASSUME NEW d, NEW p, NEW v, NEW a, Tracks(d, p, v, a), v.doc = None,
         Unused(d, "CREATE", p, v.keys.create) \/ ~Posting(v)
  PROVE  Nothing(d, p, v.form)
BY DEF Tracks, Where, Pressed, Unused, Nothing

LEMMA MadeTracks ==
  ASSUME NEW d, NEW p, NEW v, NEW a, Waiting(d, p, v, a), NEW c, c = v.call,
         c.op \in {"create", "complete", "draft"}, ~c.saved, NEW e, Made(d, e, c)
  PROVE  Journal(e) /\ Tracks(e, p, v, a) /\ Called(e, p, v, c, a) /\ Finds(e, c, c.no)
<1>1. /\ c.no \in No /\ c.no[1] = p /\ c.keys = v.keys /\ c.form = v.form /\ v.form \in Nat
      /\ c.print[2] = v.no /\ c.print[3] = c.lines /\ c.keys.create \in Nat
      /\ \A i \in Item : c.lines[i] = None <=> v.lines[i] = None
      /\ \E i \in Item : v.lines[i] # None
  BY WaitingIs
<1>2. /\ Good(d) /\ Journal(d) /\ Tracks(d, p, v, a) /\ Called(d, p, v, c, a) /\ Sound(v)
  BY DEF Waiting
<1>3. PICK n, key : n = c.no /\ key = c.keys.create
  OBVIOUS
<1>4. PICK x : /\ x.op = "CREATE" /\ x.key = key /\ x.no = n /\ x.print = c.print
               /\ x.succeeded /\ e.commands = d.commands \cup {x}
  BY <1>3 DEF Made
<1>5. /\ d.doc[n].status = "NONE" /\ Unused(d, "CREATE", p, key)
      /\ e.doc[n].status = "DRAFT" /\ e.doc[n].form = v.form /\ SameCount(c.lines, e.doc[n].lines)
      /\ \A m \in No \ {n} : e.doc[m] = d.doc[m]
  BY <1>1, <1>3 DEF Made
<1>6. \A y \in d.commands : y.no \in No
  BY <1>2 DEF Good, Typed
<1>7. n = <<p, v.no>> /\ v.doc = None
  BY <1>2, <1>3 DEF Called
<1>8. Created(e, x)
  <2>1. x.no = <<x.no[1], x.print[2]>>
    BY <1>1, <1>3, <1>4, <1>7
  <2> QED BY <1>1, <1>4, <1>5, <2>1 DEF Created
<1>9. \A y \in d.commands : y.op = "CREATE" => y.no # n /\ Created(e, y)
  BY <1>2, <1>5, <1>6 DEF Journal, Created
<1>10. Journal(e)
  <2>1. \A y \in e.commands : /\ y.op \in {"CREATE", "POST"} /\ y.key \in Nat
                              /\ y.op = "CREATE" => Created(e, y)
                              /\ y.op = "POST" => y.print[1] = y.no
    BY <1>1, <1>2, <1>3, <1>4, <1>8, <1>9 DEF Journal
  <2>2. \A y \in d.commands : ~(y.op = x.op /\ y.no[1] = x.no[1] /\ y.key = x.key)
    BY <1>1, <1>3, <1>4, <1>5 DEF Unused, Under
  <2>3. \A y, z \in e.commands : y.op = z.op /\ y.no[1] = z.no[1] /\ y.key = z.key => y = z
    BY <1>2, <1>4, <2>2 DEF Journal
  <2>4. ASSUME NEW m \in No, e.doc[m].status # "NONE" PROVE \E i \in Item : e.doc[m].lines[i] # None
    <3>1. CASE m = n
      BY <1>1, <1>5, <3>1 DEF SameCount
    <3>2. CASE m # n
      BY <1>2, <1>5, <2>4, <3>2 DEF Journal
    <3> QED BY <3>1, <3>2
  <2> QED BY <2>1, <2>3, <2>4 DEF Journal
<1>11. \A form : \A m \in No : Of(e, p, form, m) => Of(d, p, form, m)
  BY <1>5 DEF Of
<1>12. Nothing(e, p, v.form)
  <2>1. Nothing(d, p, v.form)
    BY <1>1, <1>2, <1>3, <1>5, <1>7, UnusedPosts
  <2> QED BY <1>11, <2>1 DEF Nothing
<1>13. Bounds(e, p, v)
  <2>1. ASSUME NEW m \in No, m[1] = p, e.doc[m].status # "NONE"
        PROVE  e.doc[m].form \in Nat /\ e.doc[m].form <= v.form
    <3>1. CASE m = n
      BY <1>1, <1>5, <3>1
    <3>2. CASE m # n
      BY <1>2, <1>5, <2>1, <3>2 DEF Tracks, Bounds
    <3> QED BY <3>1, <3>2
  <2>2. key <= v.drawn /\ "create" \in DOMAIN NoKeys
    <3>1. "create" \in DOMAIN NoKeys
      BY DEF NoKeys
    <3>2. key # None /\ key = v.keys.create
      BY <1>1, <1>3, StocktakeConstants
    <3> QED BY <1>2, <3>1, <3>2 DEF Tracks, Bounds
  <2>3. \A y \in e.commands : y.no[1] = p => y.key <= v.drawn
    BY <1>2, <1>4, <2>2 DEF Tracks, Bounds
  <2> QED BY <1>2, <2>1, <2>3 DEF Tracks, Bounds
<1>14. Single(e, p)
  BY <1>2, <1>11 DEF Tracks, Single
<1>15. Mine(e, p, v)
  BY <1>1, <1>3, <1>4, <1>5 DEF Mine, Unused, Under
<1>16. Where(e, p, v, a)
  BY <1>12 DEF Where, Nothing
<1>17. Match(e, p, v)
  BY <1>2, <1>7 DEF Tracks, Match
<1>18. Called(e, p, v, c, a)
  BY <1>2 DEF Called
<1>19. Finds(e, c, c.no)
  BY <1>1, <1>3, <1>4 DEF Finds, Under
<1> QED BY <1>10, <1>13, <1>14, <1>15, <1>16, <1>17, <1>18, <1>19 DEF Tracks

\* A count of the form that is posted is the one the key finds.
LEMMA OnlyFound ==
  ASSUME NEW d, NEW p, NEW v, NEW a, Good(d), Journal(d), Tracks(d, p, v, a), v.doc = None,
         NEW c, c.no[1] = p, c.keys = v.keys, NEW n, Finds(d, c, n), NEW m \in No, Of(d, p, v.form, m)
  PROVE  m = n
<1>1. \E x \in d.commands : Under(d, "CREATE", p, v.keys.create, x) /\ x.no = m
  BY DEF Tracks, Where, Pressed
<1> QED BY <1>1, FindsIs

LEMMA EndedTracks ==
  ASSUME NEW d, NEW p, NEW v, NEW a, Waiting(d, p, v, a), NEW c, c = v.call,
         c.op \in {"complete", "post"}, ~c.saved, NEW n, Finds(d, c, n), NEW e, Ended(d, e, c, n)
  PROVE  Journal(e) /\ Tracks(e, p, v, a) /\ Called(e, p, v, c, a) /\ Finds(e, c, n)
<1>1. /\ c.no[1] = p /\ c.keys = v.keys /\ c.form = v.form /\ v.form \in Nat /\ c.keys.post \in Nat
  BY WaitingIs
<1>2. /\ Good(d) /\ Journal(d) /\ Tracks(d, p, v, a) /\ Called(d, p, v, c, a) /\ Sound(v)
  BY DEF Waiting
<1>3. n \in No /\ n[1] = p
  BY <1>1, <1>2, FindsIs
<1>4. PICK key : key = c.keys.post
  OBVIOUS
<1>5. PICK x : /\ x.op = "POST" /\ x.key = key /\ x.no = n /\ x.print = <<n, c.print>>
               /\ (e.doc[n].status = "POSTED" => x.succeeded) /\ e.commands = d.commands \cup {x}
  BY <1>4 DEF Ended
<1>6. /\ Unused(d, "POST", p, key) /\ e.doc[n].status \in {"STALE_COUNT", "POSTED"}
      /\ d.doc[n].status = "DRAFT"
      /\ e.doc[n].form = d.doc[n].form /\ e.doc[n].lines = d.doc[n].lines
      /\ \A m \in No \ {n} : e.doc[m] = d.doc[m]
  BY <1>3, <1>4 DEF Ended
<1>7. \A m \in No : e.doc[m].form = d.doc[m].form /\ e.doc[m].lines = d.doc[m].lines
                    /\ (e.doc[m].status = "NONE" <=> d.doc[m].status = "NONE")
  BY <1>6
<1>8. \A y \in d.commands : y.no \in No
  BY <1>2 DEF Good, Typed
<1>9. v.doc = None /\ c.print = Fingerprint(v)
  BY <1>2 DEF Called
<1>10. Journal(e)
  <2>1. \A y \in d.commands : y.op = "CREATE" => Created(e, y)
    BY <1>2, <1>7, <1>8 DEF Journal, Created
  <2>2. x.print[1] = x.no
    BY <1>5
  <2>3. \A y \in e.commands : /\ y.op \in {"CREATE", "POST"} /\ y.key \in Nat
                              /\ y.op = "CREATE" => Created(e, y)
                              /\ y.op = "POST" => y.print[1] = y.no
    BY <1>1, <1>2, <1>4, <1>5, <2>1, <2>2 DEF Journal
  <2>4. \A y \in d.commands : ~(y.op = x.op /\ y.no[1] = x.no[1] /\ y.key = x.key)
    BY <1>3, <1>5, <1>6 DEF Unused, Under
  <2>5. \A y, z \in e.commands : y.op = z.op /\ y.no[1] = z.no[1] /\ y.key = z.key => y = z
    BY <1>2, <1>5, <2>4 DEF Journal
  <2>6. \A m \in No : e.doc[m].status # "NONE" => \E i \in Item : e.doc[m].lines[i] # None
    BY <1>2, <1>7 DEF Journal
  <2> QED BY <2>3, <2>5, <2>6 DEF Journal
<1>11. Bounds(e, p, v)
  <2>1. \A m \in No : m[1] = p /\ e.doc[m].status # "NONE" => e.doc[m].form \in Nat /\ e.doc[m].form <= v.form
    BY <1>2, <1>7 DEF Tracks, Bounds
  <2>2. key <= v.drawn
    <3>1. "post" \in DOMAIN NoKeys
      BY DEF NoKeys
    <3>2. key # None /\ key = v.keys.post
      BY <1>1, <1>4, StocktakeConstants
    <3> QED BY <1>2, <3>1, <3>2 DEF Tracks, Bounds
  <2>3. \A y \in e.commands : y.no[1] = p => y.key <= v.drawn
    BY <1>2, <1>5, <2>2 DEF Tracks, Bounds
  <2> QED BY <1>2, <2>1, <2>3 DEF Tracks, Bounds
<1>12. Mine(e, p, v)
  BY <1>2, <1>5, <1>7, <1>8 DEF Tracks, Mine, Under
<1>13. d.doc[n].form = v.form
  <2>1. v.lines # NoLines
    BY <1>2 DEF Called
  <2> QED BY <1>1, <1>2, <2>1 DEF Tracks, Mine, Finds
<1>14. \A form : \A m \in No \ {n} : Of(e, p, form, m) => Of(d, p, form, m)
  BY <1>6 DEF Of
<1>15. \A m \in No : Of(e, p, v.form, m) => m = n
  BY <1>1, <1>2, <1>9, <1>14, OnlyFound
<1>16. Single(e, p)
  <2> SUFFICES ASSUME NEW form \in Nat, NEW m \in No, NEW k \in No, Of(e, p, form, m), Of(e, p, form, k)
               PROVE  m = k
    BY DEF Single
  <2>1. CASE m # n /\ k # n
    BY <1>2, <1>14, <2>1 DEF Tracks, Single
  <2>2. CASE m = n \/ k = n
    <3>1. form = v.form
      BY <1>6, <1>13, <2>2 DEF Of
    <3> QED BY <1>15, <3>1
  <2> QED BY <2>1, <2>2
<1>17. Finds(e, c, n)
  BY <1>5 DEF Finds, Under
<1>18. Where(e, p, v, a)
  <2> SUFFICES ASSUME NEW m \in No, Of(e, p, v.form, m)
               PROVE  Posting(v) /\ Pressed(e, p, v, m, a)
    BY <1>9 DEF Where
  <2>1. m = n /\ e.doc[n].status = "POSTED"
    BY <1>15 DEF Of
  <2>2. Under(e, "POST", p, v.keys.post, x) /\ x.print = <<n, Fingerprint(v)>> /\ x.succeeded
    BY <1>1, <1>3, <1>4, <1>5, <1>9, <2>1 DEF Under
  <2>3. Posting(v)
    BY DEF Posting
  <2> QED BY <1>1, <1>5, <1>9, <1>17, <2>1, <2>2, <2>3 DEF Pressed, Finds
<1>19. Match(e, p, v)
  BY <1>2, <1>9 DEF Tracks, Match
<1>20. Called(e, p, v, c, a)
  <2>1. Pressed(d, p, v, c.no, FALSE) => Pressed(e, p, v, c.no, FALSE)
    BY <1>5 DEF Pressed, Under
  <2> QED BY <1>2, <2>1 DEF Called
<1> QED BY <1>10, <1>11, <1>12, <1>16, <1>17, <1>18, <1>19, <1>20 DEF Tracks

LEMMA SavedIsRefused ==
  ASSUME NEW d, NEW p, NEW v, NEW a, Waiting(d, p, v, a), NEW c, c = v.call, c.saved
  PROVE  /\ \A key, recount : UpdateTx(d, c, key, c.lines, recount) = Refused(d)
         /\ v.doc # None /\ (a => Nothing(d, p, v.form))
<1>1. /\ Good(d) /\ Journal(d) /\ Tracks(d, p, v, a) /\ Called(d, p, v, c, a)
  BY DEF Waiting
<1>2. v.doc # None /\ v.doc = c.no /\ v.shown # "POSTED"
  BY <1>1 DEF Tracks, Match, Called
<1>3. PICK i \in Item : v.lines[i] # None
  BY WaitingIs
<1>4. c.lines[i] # None
  BY <1>3, WaitingIs
<1>5. d.doc[c.no].lines[i] # None
  BY <1>1, <1>2, <1>3 DEF Tracks, Match
<1>6. ASSUME NEW key, NEW recount PROVE UpdateTx(d, c, key, c.lines, recount) = Refused(d)
  <2>1. PICK lines : lines = c.lines
    OBVIOUS
  <2> QED BY <1>1, <1>4, <1>5, <2>1, UpdateIs
<1>7. a => Nothing(d, p, v.form)
  BY <1>1, <1>2 DEF Tracks, Where, Nothing
<1> QED BY <1>2, <1>6, <1>7

LEMMA NothingFound ==
  ASSUME NEW d, NEW p, NEW v, NEW a, Waiting(d, p, v, a), NEW c, c = v.call, ~c.saved,
         c.op \in {"create", "complete", "draft"}, \A n : ~Finds(d, c, n)
  PROVE  Nothing(d, p, v.form)
<1>1. Tracks(d, p, v, a) /\ Called(d, p, v, c, a) /\ v.unknown \in BOOLEAN
  BY PanelTypes DEF Waiting
<1>2. c.no[1] = p /\ c.keys = v.keys
  BY WaitingIs
<1>3. v.doc = None
  BY <1>1 DEF Called
<1>4. CASE c.op = "create"
  <2>1. ~Posting(v)
    BY <1>1, <1>4 DEF Posting, Called
  <2> QED BY <1>1, <1>3, <2>1, UnusedPosts
<1>5. CASE c.op \in {"complete", "draft"}
  <2>1. c.print = Fingerprint(v)
    BY <1>1, <1>5 DEF Called
  <2>2. \A n : ~Pressed(d, p, v, n, a)
    BY <1>2, <2>1 DEF Pressed, Finds
  <2> QED BY <1>1, <1>3, <2>2 DEF Tracks, Where, Nothing
<1> QED BY <1>4, <1>5

\* What the answer tells, and what is so of the database when it is given.
Outcome(d, p, v, c, a, x) ==
  /\ x.error = "none" => /\ ~c.saved /\ c.op \in {"create", "complete", "draft", "post"}
                         /\ Finds(d, c, x.no) /\ (c.op = "post" => x.no = c.no)
  /\ x.error # "none" => /\ c.op # "post" /\ v.doc = None => Nothing(d, p, v.form)
                         /\ a => Nothing(d, p, v.form)

LEMMA CreateTracks ==
  ASSUME NEW d, NEW p, NEW v, NEW a, Waiting(d, p, v, a), NEW c, c = v.call, ~c.saved,
         c.op \in {"create", "complete", "draft"}, NEW x, x = CreateTx(d, c)
  PROVE  /\ Waiting(x.db, p, v, a) /\ Outcome(x.db, p, v, c, a, x)
         /\ x.error # "none" => x.db = d /\ \A n : ~Finds(d, c, n)
         /\ x.db = d \/ (x.error = "none" /\ Made(d, x.db, c) /\ x.no = c.no)
<1>1. IsCall(c)
  BY WaitingIs
<1>2. Good(d) /\ Journal(d)
  BY DEF Waiting
<1>3. Good(x.db)
  BY <1>1, <1>2, CreateKeeps DEF Answer
<1>4. CASE x.error = "none" /\ x.no = c.no /\ Made(d, x.db, c)
  <2>1. PICK e : e = x.db
    OBVIOUS
  <2>2. Journal(e) /\ Tracks(e, p, v, a) /\ Called(e, p, v, c, a) /\ Finds(e, c, c.no)
    BY <1>4, <2>1, MadeTracks
  <2>3. Waiting(e, p, v, a)
    BY <1>3, <2>1, <2>2 DEF Waiting
  <2> QED BY <1>4, <2>1, <2>2, <2>3 DEF Outcome
<1>5. CASE x.error = "none" /\ x.db = d /\ Finds(d, c, x.no)
  BY <1>5 DEF Outcome
<1>6. CASE x.error # "none" /\ x.db = d /\ \A n : ~Finds(d, c, n)
  BY <1>6, NothingFound DEF Outcome
<1> QED BY <1>1, <1>2, <1>4, <1>5, <1>6, CreateIs

LEMMA PostTracks ==
  ASSUME NEW d, NEW p, NEW v, NEW a, Waiting(d, p, v, a), NEW c, c = v.call, ~c.saved,
         c.op \in {"complete", "post"}, NEW n, Finds(d, c, n), NEW x, x = PostTx(d, c, n)
  PROVE  /\ Waiting(x.db, p, v, a)
         /\ x.error = "none" => x.no = n /\ Finds(x.db, c, n)
         /\ x.error # "none" => x.db = d /\ (a => Nothing(d, p, v.form))
<1>1. c.no[1] = p /\ c.keys = v.keys
  BY WaitingIs
<1>2. Good(d) /\ Journal(d) /\ Tracks(d, p, v, a) /\ Called(d, p, v, c, a)
  BY DEF Waiting
<1>3. n \in No /\ n[1] = p
  BY <1>1, <1>2, FindsIs
<1>4. Good(x.db)
  BY <1>2, <1>3, PostKeeps DEF Answer
<1>5. CASE x.error = "none" /\ x.no = n /\ Ended(d, x.db, c, n)
  <2>1. PICK e : e = x.db
    OBVIOUS
  <2>2. Journal(e) /\ Tracks(e, p, v, a) /\ Called(e, p, v, c, a) /\ Finds(e, c, n)
    BY <1>5, <2>1, EndedTracks
  <2>3. Waiting(e, p, v, a)
    BY <1>4, <2>1, <2>2 DEF Waiting
  <2> QED BY <1>5, <2>1, <2>2, <2>3
<1>6. CASE x.error = "none" /\ x.no = n /\ x.db = d /\ FindsEnded(d, c, n)
  BY <1>6
<1>7. CASE x.error # "none" /\ x.db = d /\ ~FindsEnded(d, c, n)
  <2>1. v.doc = None /\ c.print = Fingerprint(v)
    BY <1>2 DEF Called
  <2>2. ASSUME a, NEW m \in No, Of(d, p, v.form, m) PROVE FALSE
    <3>1. m = n
      BY <1>1, <1>2, <2>1, <2>2, OnlyFound
    <3>2. Pressed(d, p, v, n, a)
      BY <1>2, <2>1, <2>2, <3>1 DEF Tracks, Where
    <3>3. FindsEnded(d, c, n)
      BY <1>1, <1>3, <2>1, <2>2, <3>2 DEF Pressed, FindsEnded
    <3> QED BY <1>7, <3>3
  <2> QED BY <1>7, <2>2 DEF Nothing
<1> QED BY <1>2, <1>3, <1>5, <1>6, <1>7, PostIs

LEMMA CallTracks ==
  ASSUME NEW d, NEW p, NEW v, NEW a, Waiting(d, p, v, a), NEW c, c = v.call,
         NEW x, x = Transaction(d, c)
  PROVE  Waiting(x.db, p, v, a) /\ Outcome(x.db, p, v, c, a, x)
<1>1. IsCall(c) /\ c.op \in Ops /\ c.saved \in BOOLEAN
  BY WaitingIs
<1>2. Good(d) /\ Journal(d) /\ Called(d, p, v, c, a)
  BY DEF Waiting
<1>3. CASE x = Refused(d) /\ c.saved
  <2>1. x.db = d /\ x.error # "none"
    BY <1>3 DEF Refused
  <2> QED BY <1>3, <2>1, SavedIsRefused DEF Outcome
<1>4. CASE c.op = "create"
  <2>1. x = CreateTx(d, c) /\ ~c.saved
    BY <1>2, <1>4 DEF Transaction, Called
  <2> QED BY <1>4, <2>1, CreateTracks
<1>5. CASE c.op = "save"
  <2>1. x = UpdateTx(d, c, <<"UPDATE", c.keys.update>>, c.lines, FALSE) /\ c.saved
    BY <1>2, <1>5 DEF Transaction, Called
  <2> QED BY <1>3, <2>1, SavedIsRefused
<1>6. CASE c.op = "recapture"
  <2>1. x = RecaptureTx(d, c) /\ c.saved
    BY <1>2, <1>6 DEF Transaction, Called
  <2> QED BY <1>1, <1>2, <1>3, <2>1, RecaptureIs
<1>7. CASE c.op = "complete"
  <2>1. PICK s : s = SaveTx(d, c)
    OBVIOUS
  <2>2. PICK y : y = PostTx(s.db, c, s.no)
    OBVIOUS
  <2>3. x = IF s.error # "none" THEN [s EXCEPT !.db = d] ELSE IF y.error # "none" THEN Refused(d) ELSE y
    BY <1>7, <2>1, <2>2 DEF Transaction, CompleteTx
  <2>4. Answer(d, s)
    BY <1>1, <1>2, <2>1, SaveTxKeeps
  <2>5. CASE s.error # "none"
    <3>1. s.db = d /\ x = [s EXCEPT !.db = d]
      BY <2>3, <2>4, <2>5 DEF Answer
    <3>2. x = s
      BY <2>4, <3>1 DEF Answer
    <3>3. CASE c.saved
      <4>1. s = Refused(d)
        BY <2>1, <3>3, SavedIsRefused DEF SaveTx
      <4> QED BY <1>3, <3>2, <3>3, <4>1
    <3>4. CASE ~c.saved
      <4>1. s = CreateTx(d, c)
        BY <2>1, <3>4 DEF SaveTx
      <4> QED BY <1>7, <3>2, <3>4, <4>1, CreateTracks
    <3> QED BY <1>1, <3>3, <3>4
  <2>6. CASE s.error = "none"
    <3>1. ~c.saved
      <4>1. CASE c.saved
        <5>1. s = Refused(d)
          BY <2>1, <4>1, SavedIsRefused DEF SaveTx
        <5> QED BY <2>6, <5>1 DEF Refused
      <4> QED BY <1>1, <4>1
    <3>2. s = CreateTx(d, c)
      BY <2>1, <3>1 DEF SaveTx
    <3>3. PICK e, n : e = s.db /\ n = s.no
      OBVIOUS
    <3>4. /\ Waiting(e, p, v, a) /\ Finds(e, c, n)
          /\ e = d \/ (Made(d, e, c) /\ n = c.no)
      BY <1>7, <2>6, <3>1, <3>2, <3>3, CreateTracks DEF Outcome
    <3>5. y = PostTx(e, c, n)
      BY <2>2, <3>3
    <3>6. /\ Waiting(y.db, p, v, a)
          /\ y.error = "none" => y.no = n /\ Finds(y.db, c, n)
          /\ y.error # "none" => y.db = e /\ (a => Nothing(e, p, v.form))
      BY <1>7, <3>1, <3>4, <3>5, PostTracks
    <3>7. CASE y.error = "none"
      <4>1. x = y
        BY <2>3, <2>6, <3>7
      <4> QED BY <1>7, <3>1, <3>6, <3>7, <4>1 DEF Outcome
    <3>8. CASE y.error # "none"
      <4>1. x.db = d /\ x.error # "none"
        BY <2>3, <2>6, <3>8 DEF Refused
      <4>2. a
        BY <1>2, <1>7 DEF Called
      <4>3. Nothing(d, p, v.form)
        <5>1. CASE e = d
          BY <3>6, <3>8, <4>2, <5>1
        <5>2. CASE Made(d, e, c)
          <6>1. Unused(d, "CREATE", p, v.keys.create)
            BY <5>2, WaitingIs DEF Made
          <6>2. v.doc = None /\ Tracks(d, p, v, a)
            BY <1>2, <3>1 DEF Called, Waiting
          <6> QED BY <6>1, <6>2, UnusedPosts
        <5> QED BY <3>4, <5>1, <5>2
      <4> QED BY <4>1, <4>3 DEF Outcome
    <3> QED BY <3>7, <3>8
  <2> QED BY <2>5, <2>6
<1>8. CASE c.op = "draft"
  <2>1. x = SaveTx(d, c)
    BY <1>8 DEF Transaction
  <2>2. CASE c.saved
    <3>1. x = Refused(d)
      BY <2>1, <2>2, SavedIsRefused DEF SaveTx
    <3> QED BY <1>3, <2>2, <3>1
  <2>3. CASE ~c.saved
    <3>1. x = CreateTx(d, c)
      BY <2>1, <2>3 DEF SaveTx
    <3> QED BY <1>8, <2>3, <3>1, CreateTracks
  <2> QED BY <1>1, <2>2, <2>3
<1>9. CASE c.op = "post"
  <2>1. PICK n : n = c.no
    OBVIOUS
  <2>2. x = PostTx(d, c, n)
    BY <1>9, <2>1 DEF Transaction
  <2>3. ~c.saved /\ Finds(d, c, n) /\ ~a
    BY <1>2, <1>9, <2>1, WaitingIs DEF Called, Pressed, Finds
  <2>4. /\ Waiting(x.db, p, v, a)
        /\ x.error = "none" => x.no = n /\ Finds(x.db, c, n)
    BY <1>9, <2>2, <2>3, PostTracks
  <2> QED BY <1>9, <2>1, <2>3, <2>4 DEF Outcome
<1> QED BY <1>1, <1>4, <1>5, <1>6, <1>7, <1>8, <1>9 DEF Ops

-----------------------------------------------------------------------------
(* What the panel makes of the answer                                      *)

\* The panel before and after: the form and the number are the same ...
Same(v, w) == w.form = v.form /\ w.no = v.no /\ w.drawn = v.drawn
\* ... and so is what is on the screen, and the keys, ...
Left(v, w) ==
  Same(v, w) /\ w.doc = v.doc /\ w.shown = v.shown /\ w.lines = v.lines /\ w.keys = v.keys
\* ... or the document of the call is shown as a draft.
ShowsDraft(d, v, w) ==
  /\ Same(v, w) /\ w.doc = v.call.no /\ w.shown = "DRAFT" /\ w.lines = d.doc[v.call.no].lines
  /\ w.keys = v.keys

ShowsCreated(d, v, w, n) ==
  /\ Same(v, w) /\ w.doc = n /\ w.shown = d.doc[n].status /\ w.lines = d.doc[n].lines
  /\ w.keys = [v.keys EXCEPT !.create = None] /\ w.call = NoCall /\ w.told = v.told
ShowsEnded(d, v, w, n) ==
  /\ Same(v, w) /\ w.doc = n /\ w.shown = d.doc[n].status /\ w.lines = v.lines
  /\ w.keys = NoKeys /\ w.call = NoCall
  /\ w.told = IF d.doc[n].status = "POSTED" THEN "done" ELSE "stale"
GoesOn(v, w, n) ==
  /\ Left(v, w) /\ w.told = v.told /\ w.unknown = v.unknown /\ w.call.op = "post" /\ w.call.no = n
  /\ w.call.keys = v.call.keys /\ w.call.form = v.call.form /\ w.call.lines = v.call.lines
  /\ w.call.saved = v.call.saved /\ w.call.print = v.call.print

LEMMA ToldIs ==
  ASSUME NEW v, Sound(v), v.call # NoCall, NEW d, NEW n, NEW w, w = Told(v, d, n)
  PROVE  /\ v.call.op = "create" => ShowsCreated(d, v, w, n)
         /\ v.call.op = "draft" /\ d.doc[n].status = "DRAFT" => GoesOn(v, w, n)
         /\ v.call.op \in {"complete", "draft", "post"} /\ ~(v.call.op = "draft" /\ d.doc[n].status = "DRAFT")
              => ShowsEnded(d, v, w, n)
<1> DEFINE s == Showing([v EXCEPT !.call = NoCall], d, n)
<1>1. PICK status : status = d.doc[n].status
  OBVIOUS
<1>2. PICK lines : lines = d.doc[n].lines
  OBVIOUS
<1>3. /\ s \in [form : {v.form}, no : {v.no}, lines : {v.lines}, doc : {n}, shown : {status},
                recount : {v.recount}, unknown : {v.unknown}, keys : {v.keys}, drawn : {v.drawn},
                call : {NoCall}, told : {v.told}]
  BY <1>1 DEF Showing, Sound, Shaped
<1> HIDE DEF s
<1>4. s.shown = status /\ s.keys = v.keys
  BY <1>3
<1>5. CASE v.call.op = "create"
  <2>1. PICK keys : keys = [v.keys EXCEPT !.create = None]
    OBVIOUS
  <2>2. w = [s EXCEPT !.keys.create = None, !.lines = lines]
    BY <1>2, <1>5 DEF Told, Loaded, s
  <2>3. w = [s EXCEPT !.keys = keys, !.lines = lines]
    BY <1>3, <1>4, <2>1, <2>2
  <2>4. /\ w.form = v.form /\ w.no = v.no /\ w.drawn = v.drawn /\ w.doc = n /\ w.shown = status
        /\ w.lines = lines /\ w.keys = keys /\ w.call = NoCall /\ w.told = v.told
    BY <1>3, <2>3
  <2> QED BY <1>1, <1>2, <1>5, <2>1, <2>4 DEF ShowsCreated, Same
<1>6. CASE v.call.op = "draft" /\ status = "DRAFT"
  <2> DEFINE c == [v.call EXCEPT !.op = "post", !.no = n]
  <2>1. w = [v EXCEPT !.call.op = "post", !.call.no = n]
    BY <1>4, <1>6 DEF Told, s
  <2>2. IsCall(v.call)
    BY DEF Sound
  <2>3. /\ c.op = "post" /\ c.no = n /\ c.keys = v.call.keys /\ c.form = v.call.form
        /\ c.lines = v.call.lines /\ c.saved = v.call.saved /\ c.print = v.call.print
    BY <2>2 DEF IsCall
  <2>4. w = [v EXCEPT !.call = c]
    BY <2>1, <2>2 DEF Sound, Shaped, IsCall
  <2> HIDE DEF c
  <2>5. /\ w.form = v.form /\ w.no = v.no /\ w.drawn = v.drawn /\ w.doc = v.doc /\ w.shown = v.shown
        /\ w.lines = v.lines /\ w.keys = v.keys /\ w.told = v.told /\ w.unknown = v.unknown
        /\ w.call = c
    BY <2>4 DEF Sound, Shaped
  <2> QED BY <1>1, <1>6, <2>3, <2>5 DEF GoesOn, Left, Same
<1>7. CASE v.call.op \in {"complete", "draft", "post"} /\ ~(v.call.op = "draft" /\ status = "DRAFT")
  <2>1. PICK told : told = IF status = "POSTED" THEN "done" ELSE "stale"
    OBVIOUS
  <2>2. w = [s EXCEPT !.keys = NoKeys, !.unknown = FALSE, !.recount = FALSE, !.told = told]
    BY <1>4, <1>7, <2>1 DEF Told, s
  <2>3. /\ w.form = v.form /\ w.no = v.no /\ w.drawn = v.drawn /\ w.doc = n /\ w.shown = status
        /\ w.lines = v.lines /\ w.keys = NoKeys /\ w.call = NoCall /\ w.told = told
    BY <1>3, <2>2
  <2> QED BY <1>1, <1>7, <2>1, <2>3 DEF ShowsEnded, Same
<1> QED BY <1>1, <1>5, <1>6, <1>7

\* Nothing is under the key that is not held.
LEMMA NoKeyUsed ==
  ASSUME NEW d, Journal(d), NEW c \in d.commands
  PROVE  c.key # None
BY StocktakeConstants DEF Journal

LEMMA CreatedCareful ==
  ASSUME NEW d, NEW p, NEW v, NEW a, Waiting(d, p, v, a), NEW c, c = v.call, c.op = "create",
         NEW n, Finds(d, c, n), NEW w, ShowsCreated(d, v, w, n)
  PROVE  Careful(d, p, w, a)
<1>1. /\ Good(d) /\ Journal(d) /\ Tracks(d, p, v, a) /\ Called(d, p, v, c, a) /\ Sound(v)
  BY DEF Waiting
<1>2. /\ c.no[1] = p /\ c.print[2] = v.no
  BY <1>1, WaitingIs DEF Called
<1>3. n \in No /\ n = <<p, v.no>> /\ d.doc[n].status # "NONE"
  BY <1>1, <1>2, FindsIs
<1>4. n # None
  BY <1>3, StocktakeConstants
<1>5. Nothing(d, p, v.form)
  <2>1. v.doc = None /\ ~Posting(v)
    BY <1>1, PanelTypes DEF Called, Posting
  <2> QED BY <1>1, <2>1, UnusedPosts
<1>6. \A x \in DOMAIN NoKeys : w.keys[x] = v.keys[x] \/ w.keys[x] = None
  <2>1. v.keys \in [DOMAIN NoKeys -> Nat \cup {None}]
    BY <1>1, PanelTypes DEF Keys
  <2> QED BY <2>1 DEF ShowsCreated
<1>7. w.keys.create = None
  <2>1. v.keys \in [DOMAIN NoKeys -> Nat \cup {None}] /\ "create" \in DOMAIN NoKeys
    BY <1>1, PanelTypes DEF Keys, NoKeys
  <2> QED BY <2>1 DEF ShowsCreated
<1>8. /\ w.form = v.form /\ w.no = v.no /\ w.drawn = v.drawn /\ w.doc = n /\ w.shown = d.doc[n].status
      /\ w.lines = d.doc[n].lines /\ w.call = NoCall /\ w.told = "nothing"
  BY <1>1 DEF ShowsCreated, Same, Called
<1>9. Bounds(d, p, w)
  BY <1>1, <1>6, <1>8 DEF Tracks, Bounds
<1>10. Mine(d, p, w)
  BY <1>1, <1>7, NoKeyUsed DEF Mine, Under
<1>11. Where(d, p, w, a)
  BY <1>5, <1>8 DEF Where, Nothing
<1>12. Match(d, p, w)
  BY <1>3, <1>4, <1>8 DEF Match
<1>13. Honest(d, p, w, a)
  BY <1>8 DEF Honest
<1> QED BY <1>1, <1>8, <1>9, <1>10, <1>11, <1>12, <1>13 DEF Tracks, Careful

LEMMA EndedCareful ==
  ASSUME NEW d, NEW p, NEW v, NEW a, Waiting(d, p, v, a), NEW c, c = v.call, ~c.saved,
         c.op \in {"complete", "draft", "post"},
         NEW n, Finds(d, c, n), NEW w, ShowsEnded(d, v, w, n)
  PROVE  Careful(d, p, w, a)
<1>1. /\ Good(d) /\ Journal(d) /\ Tracks(d, p, v, a) /\ Called(d, p, v, c, a) /\ Sound(v)
  BY DEF Waiting
<1>2. /\ c.no[1] = p /\ c.print[2] = v.no /\ c.print[3] = c.lines /\ c.keys = v.keys /\ c.lines = SentOf(v)
  BY <1>1, WaitingIs DEF Called
<1>3. /\ n \in No /\ n[1] = p /\ n = <<p, v.no>> /\ d.doc[n].status # "NONE"
      /\ SameCount(SentOf(v), d.doc[n].lines)
  BY <1>1, <1>2, FindsIs
<1>4. n # None
  BY <1>3, StocktakeConstants
<1>5. /\ w.form = v.form /\ w.no = v.no /\ w.drawn = v.drawn /\ w.doc = n /\ w.shown = d.doc[n].status
      /\ w.lines = v.lines /\ w.call = NoCall /\ w.keys = NoKeys
      /\ w.told = IF d.doc[n].status = "POSTED" THEN "done" ELSE "stale"
  BY DEF ShowsEnded, Same
<1>6. \A m \in No : Of(d, p, v.form, m) => m = n
  <2>1. v.doc = None
    BY <1>1 DEF Called
  <2> QED BY <1>1, <1>2, <2>1, OnlyFound
<1>7. \A i \in Item : /\ w.lines[i] = None <=> d.doc[n].lines[i] = None
                      /\ w.lines[i] # None => d.doc[n].lines[i].counted = w.lines[i].counted
  BY <1>1, <1>3, <1>5, SentIs DEF SameCount
<1>8. \A x \in DOMAIN NoKeys : w.keys[x] = None
  BY <1>5 DEF NoKeys
<1>9. Bounds(d, p, w)
  BY <1>1, <1>5, <1>8 DEF Tracks, Bounds
<1>10. Mine(d, p, w)
  <2>1. w.keys.create = None
    BY <1>5 DEF NoKeys
  <2> QED BY <1>1, <2>1, NoKeyUsed DEF Mine, Under
<1>11. Where(d, p, w, a)
  BY <1>4, <1>5, <1>6 DEF Where, Of
<1>12. Match(d, p, w)
  BY <1>3, <1>4, <1>5, <1>7 DEF Match
<1>13. d.doc[n].form = v.form
  <2>1. v.lines # NoLines
    BY <1>1 DEF Called
  <2> QED BY <1>1, <1>2, <2>1 DEF Tracks, Mine, Finds
<1>14. Honest(d, p, w, a)
  <2>1. CASE d.doc[n].status = "POSTED"
    <3>1. Of(d, p, w.form, w.doc)
      BY <1>3, <1>5, <1>13, <2>1 DEF Of
    <3> QED BY <1>5, <1>7, <2>1, <3>1 DEF Honest
  <2>2. CASE d.doc[n].status # "POSTED"
    <3>1. Nothing(d, p, w.form)
      BY <1>5, <1>6, <2>2 DEF Nothing, Of
    <3> QED BY <1>5, <2>2, <3>1 DEF Honest
  <2> QED BY <2>1, <2>2
<1> QED BY <1>1, <1>5, <1>9, <1>10, <1>11, <1>12, <1>14 DEF Tracks, Careful

\* What does not change on the screen keeps its meaning.
LEMMA FingerprintSame ==
  ASSUME NEW v, NEW w, w.lines = v.lines, w.no = v.no
  PROVE  SentOf(w) = SentOf(v) /\ Fingerprint(w) = Fingerprint(v)
BY DEF SentOf, Fingerprint

LEMMA LeftTracks ==
  ASSUME NEW d, NEW p, NEW v, NEW a, Tracks(d, p, v, a), NEW w, Left(v, w),
         Posting(w) \/ (v.doc = None => Nothing(d, p, v.form))
  PROVE  Tracks(d, p, w, a)
<1>1. /\ w.form = v.form /\ w.no = v.no /\ w.drawn = v.drawn /\ w.doc = v.doc /\ w.shown = v.shown
      /\ w.lines = v.lines /\ w.keys = v.keys
  BY DEF Left, Same
<1>2. Bounds(d, p, w) /\ Single(d, p) /\ Mine(d, p, w) /\ Match(d, p, w)
  BY <1>1 DEF Tracks, Bounds, Mine, Match
<1>3. \A n : Pressed(d, p, v, n, a) => Pressed(d, p, w, n, a)
  BY <1>1, FingerprintSame DEF Pressed
<1>4. Where(d, p, w, a)
  BY <1>1, <1>3 DEF Tracks, Where, Nothing
<1> QED BY <1>2, <1>4 DEF Tracks

LEMMA GoesOnCareful ==
  ASSUME NEW d, NEW p, NEW v, NEW a, Waiting(d, p, v, a), NEW c, c = v.call, ~c.saved, c.op = "draft",
         NEW n, Finds(d, c, n), NEW w, GoesOn(v, w, n)
  PROVE  Careful(d, p, w, a)
<1>1. /\ Good(d) /\ Journal(d) /\ Tracks(d, p, v, a) /\ Called(d, p, v, c, a) /\ Sound(v)
  BY DEF Waiting
<1>2. /\ c.no[1] = p /\ c.print[2] = v.no /\ c.keys = v.keys
  BY WaitingIs
<1>3. n = <<p, v.no>>
  BY <1>1, <1>2, FindsIs
<1>4. /\ Left(v, w) /\ w.lines = v.lines /\ w.no = v.no /\ w.form = v.form /\ w.doc = v.doc /\ w.keys = v.keys
      /\ w.told = v.told /\ w.shown = v.shown
  BY DEF GoesOn, Left, Same
<1>5. PICK e : e = w.call
  OBVIOUS
<1>6. /\ e.op = "post" /\ e.no = n /\ e.keys = c.keys /\ e.form = c.form /\ e.lines = c.lines
      /\ e.saved = c.saved /\ e.print = c.print
  BY <1>5 DEF GoesOn
<1>7. SentOf(w) = SentOf(v) /\ Fingerprint(w) = Fingerprint(v)
  BY <1>4, FingerprintSame
<1>8. Pressed(d, p, w, n, FALSE)
  <2>1. c.print = Fingerprint(v)
    BY <1>1 DEF Called
  <2> QED BY <1>2, <1>4, <1>7, <2>1 DEF Finds, Pressed
<1>9. Called(d, p, w, e, a)
  BY <1>1, <1>3, <1>4, <1>6, <1>7, <1>8 DEF Called
<1>10. Posting(w)
  BY <1>5, <1>6 DEF Posting
<1>11. Tracks(d, p, w, a)
  BY <1>1, <1>4, <1>10, LeftTracks
<1>12. Honest(d, p, w, a)
  BY <1>1, <1>4 DEF Honest, Called
<1> QED BY <1>5, <1>9, <1>11, <1>12 DEF Careful

LEMMA ToldCareful ==
  ASSUME NEW d, NEW p, NEW v, NEW a, Waiting(d, p, v, a), NEW c, c = v.call,
         NEW x, Outcome(d, p, v, c, a, x), x.error = "none", NEW w, w = Told(v, d, x.no)
  PROVE  Careful(d, p, w, a)
<1>1. PICK n : n = x.no
  OBVIOUS
<1>2. ~c.saved /\ c.op \in {"create", "complete", "draft", "post"} /\ Finds(d, c, n)
  BY <1>1 DEF Outcome
<1>3. Sound(v) /\ v.call # NoCall
  BY DEF Waiting
<1>4. /\ c.op = "create" => ShowsCreated(d, v, w, n)
      /\ c.op = "draft" /\ d.doc[n].status = "DRAFT" => GoesOn(v, w, n)
      /\ c.op \in {"complete", "draft", "post"} /\ ~(c.op = "draft" /\ d.doc[n].status = "DRAFT")
           => ShowsEnded(d, v, w, n)
  BY <1>1, <1>3, ToldIs
<1>5. CASE c.op = "create"
  BY <1>2, <1>4, <1>5, CreatedCareful
<1>6. CASE c.op = "draft" /\ d.doc[n].status = "DRAFT"
  BY <1>2, <1>4, <1>6, GoesOnCareful
<1>7. CASE c.op \in {"complete", "draft", "post"} /\ ~(c.op = "draft" /\ d.doc[n].status = "DRAFT")
  BY <1>2, <1>4, <1>7, EndedCareful
<1> QED BY <1>2, <1>5, <1>6, <1>7

\* The call has ended without a document.
NextNumber(v, w) ==
  /\ w.form = v.form /\ w.no = v.no + 1 /\ w.drawn = v.drawn /\ w.doc = v.doc /\ w.shown = v.shown
  /\ w.lines = v.lines /\ w.keys = [v.keys EXCEPT !.create = None]

LEMMA AfterSaveIs ==
  ASSUME NEW v, Sound(v), v.call # NoCall, NEW d, NEW s, s = [AfterSave(v, d) EXCEPT !.call = NoCall]
  PROVE  /\ Shaped(s) \/ v.call.op = "post"
         /\ s \in [form : {v.form}, no : {v.no}, drawn : {v.drawn}, keys : {v.keys}, doc : {s.doc},
                   shown : {s.shown}, lines : {s.lines}, recount : {v.recount}, unknown : {v.unknown},
                   call : {NoCall}, told : {v.told}]
         /\ IF v.call.op = "post" THEN ShowsDraft(d, v, s) ELSE Left(v, s)
<1>1. CASE v.call.op = "post"
  <2>1. PICK no : no = v.call.no
    OBVIOUS
  <2>2. PICK lines : lines = d.doc[no].lines
    OBVIOUS
  <2>3. PICK status : status = d.doc[no].status
    OBVIOUS
  <2>4. s = [[v EXCEPT !.doc = no, !.shown = status, !.shown = "DRAFT", !.lines = lines] EXCEPT !.call = NoCall]
    BY <1>1, <2>1, <2>2, <2>3 DEF AfterSave, Showing, Loaded
  <2>5. s \in [form : {v.form}, no : {v.no}, drawn : {v.drawn}, keys : {v.keys}, doc : {no},
               shown : {"DRAFT"}, lines : {lines}, recount : {v.recount}, unknown : {v.unknown},
               call : {NoCall}, told : {v.told}]
    BY <2>4 DEF Sound, Shaped
  <2>6. /\ s.form = v.form /\ s.no = v.no /\ s.drawn = v.drawn /\ s.doc = no
        /\ s.shown = "DRAFT" /\ s.lines = lines /\ s.keys = v.keys
    BY <2>5
  <2> QED BY <1>1, <2>1, <2>2, <2>5, <2>6 DEF ShowsDraft, Same
<1>2. CASE v.call.op # "post"
  <2>1. s = [v EXCEPT !.call = NoCall]
    BY <1>2 DEF AfterSave
  <2>2. s \in [form : {v.form}, no : {v.no}, drawn : {v.drawn}, keys : {v.keys}, doc : {v.doc},
               shown : {v.shown}, lines : {v.lines}, recount : {v.recount}, unknown : {v.unknown},
               call : {NoCall}, told : {v.told}]
    BY <2>1 DEF Sound, Shaped
  <2>3. /\ s.form = v.form /\ s.no = v.no /\ s.drawn = v.drawn /\ s.doc = v.doc
        /\ s.shown = v.shown /\ s.lines = v.lines /\ s.keys = v.keys /\ s.call = NoCall
        /\ s.recount = v.recount /\ s.unknown = v.unknown /\ s.told = v.told
    BY <2>2
  <2>4. Shaped(s)
    BY <2>2, <2>3 DEF Sound, Shaped
  <2> QED BY <1>2, <2>2, <2>3, <2>4 DEF Left, Same
<1> QED BY <1>1, <1>2

LEMMA ToldErrorIs ==
  ASSUME NEW v, Sound(v), v.call # NoCall, NEW d, NEW error, NEW w, w = ToldError(v, d, error)
  PROVE  /\ w.call = NoCall /\ w.told = "failed"
         /\ \/ v.call.op = "create" /\ NextNumber(v, w)
            \/ IF v.call.op = "post" THEN ShowsDraft(d, v, w) ELSE Left(v, w)
<1> DEFINE s == [AfterSave(v, d) EXCEPT !.call = NoCall]
<1>1. CASE error = "duplicate" /\ v.call.op = "create"
  <2>1. PICK keys : keys = [v.keys EXCEPT !.create = None]
    OBVIOUS
  <2>2. PICK no : no = v.no + 1
    OBVIOUS
  <2>3. w = [v EXCEPT !.call = NoCall, !.keys = keys, !.no = no, !.told = "failed"]
    BY <1>1, <2>1, <2>2 DEF ToldError, Sound, Shaped
  <2>4. /\ w.form = v.form /\ w.no = no /\ w.drawn = v.drawn /\ w.doc = v.doc /\ w.shown = v.shown
        /\ w.lines = v.lines /\ w.keys = keys /\ w.call = NoCall /\ w.told = "failed"
    BY <2>3 DEF Sound, Shaped
  <2> QED BY <1>1, <2>1, <2>2, <2>4 DEF NextNumber
<1>2. CASE ~(error = "duplicate" /\ v.call.op = "create")
  <2>1. w = [s EXCEPT !.unknown = FALSE, !.told = "failed"]
    BY <1>2 DEF ToldError
  <2>2. /\ s \in [form : {v.form}, no : {v.no}, drawn : {v.drawn}, keys : {v.keys}, doc : {s.doc},
                  shown : {s.shown}, lines : {s.lines}, recount : {v.recount}, unknown : {v.unknown},
                  call : {NoCall}, told : {v.told}]
        /\ IF v.call.op = "post" THEN ShowsDraft(d, v, s) ELSE Left(v, s)
    BY AfterSaveIs
  <2> HIDE DEF s
  <2>3. /\ w.form = s.form /\ w.no = s.no /\ w.drawn = s.drawn /\ w.doc = s.doc /\ w.shown = s.shown
        /\ w.lines = s.lines /\ w.keys = s.keys /\ w.call = NoCall /\ w.told = "failed"
    BY <2>1, <2>2
  <2> QED BY <2>2, <2>3 DEF ShowsDraft, Left, Same
<1> QED BY <1>1, <1>2

LEMMA ToldNothingIs ==
  ASSUME NEW v, Sound(v), v.call # NoCall, NEW d, NEW w, w = ToldNothing(v, d)
  PROVE  /\ w.call = NoCall /\ w.told = "unknown"
         /\ IF v.call.op = "post" THEN ShowsDraft(d, v, w) ELSE Left(v, w)
         /\ v.call.op \in {"complete", "draft"} => w.unknown
<1> DEFINE s == [AfterSave(v, d) EXCEPT !.call = NoCall]
<1>1. CASE v.call.op \in {"complete", "draft", "post"}
  <2>1. w = [s EXCEPT !.unknown = TRUE, !.told = "unknown"]
    BY <1>1 DEF ToldNothing
  <2>2. /\ s \in [form : {v.form}, no : {v.no}, drawn : {v.drawn}, keys : {v.keys}, doc : {s.doc},
                  shown : {s.shown}, lines : {s.lines}, recount : {v.recount}, unknown : {v.unknown},
                  call : {NoCall}, told : {v.told}]
        /\ IF v.call.op = "post" THEN ShowsDraft(d, v, s) ELSE Left(v, s)
    BY AfterSaveIs
  <2> HIDE DEF s
  <2>3. PICK yes : yes = TRUE
    OBVIOUS
  <2>4. w = [s EXCEPT !.unknown = yes, !.told = "unknown"]
    BY <2>1, <2>3
  <2>5. /\ w.form = s.form /\ w.no = s.no /\ w.drawn = s.drawn /\ w.doc = s.doc /\ w.shown = s.shown
        /\ w.lines = s.lines /\ w.keys = s.keys /\ w.call = NoCall /\ w.told = "unknown" /\ w.unknown = yes
    BY <2>2, <2>4
  <2> QED BY <2>2, <2>3, <2>5 DEF ShowsDraft, Left, Same
<1>2. CASE v.call.op \notin {"complete", "draft", "post"}
  <2>1. w = [v EXCEPT !.call = NoCall, !.told = "unknown"]
    BY <1>2 DEF ToldNothing
  <2>2. /\ w.form = v.form /\ w.no = v.no /\ w.drawn = v.drawn /\ w.doc = v.doc /\ w.shown = v.shown
        /\ w.lines = v.lines /\ w.keys = v.keys /\ w.call = NoCall /\ w.told = "unknown"
    BY <2>1 DEF Sound, Shaped
  <2> QED BY <1>2, <2>2 DEF Left, Same
<1> QED BY <1>1, <1>2

\* The panel is as it was, and free.
LEMMA LeftCareful ==
  ASSUME NEW d, NEW p, NEW v, NEW a, Tracks(d, p, v, a), NEW w, Left(v, w), w.call = NoCall,
         Posting(w) \/ (v.doc = None => Nothing(d, p, v.form)),
         w.told = "unknown" \/ (w.told = "failed" /\ (a => Nothing(d, p, v.form)))
  PROVE  Careful(d, p, w, a)
<1>1. Tracks(d, p, w, a)
  BY LeftTracks
<1>2. w.form = v.form
  BY DEF Left, Same
<1>3. Honest(d, p, w, a)
  BY <1>2 DEF Honest
<1> QED BY <1>1, <1>3 DEF Careful

\* The posting, which has been told apart from the save before it, has failed.
LEMMA ShowsDraftCareful ==
  ASSUME NEW d, NEW p, NEW v, NEW a, Waiting(d, p, v, a), NEW c, c = v.call, c.op = "post",
         NEW w, ShowsDraft(d, v, w), w.call = NoCall, w.told \in {"failed", "unknown"}
  PROVE  Careful(d, p, w, a)
<1>1. /\ Good(d) /\ Journal(d) /\ Tracks(d, p, v, a) /\ Called(d, p, v, c, a) /\ Sound(v)
  BY DEF Waiting
<1>2. /\ c.no \in No /\ c.no[1] = p /\ c.keys = v.keys
  BY WaitingIs
<1>3. PICK n : n = c.no
  OBVIOUS
<1>4. n \in No /\ n # None /\ n = <<p, v.no>> /\ v.doc = None /\ ~a /\ v.lines # NoLines
  BY <1>1, <1>2, <1>3, StocktakeConstants DEF Called
<1>5. Finds(d, c, n)
  BY <1>1, <1>2, <1>3 DEF Called, Pressed, Finds
<1>6. d.doc[n].status # "NONE"
  BY <1>1, <1>5, FindsIs
<1>7. /\ w.form = v.form /\ w.no = v.no /\ w.drawn = v.drawn /\ w.doc = n /\ w.shown = "DRAFT"
      /\ w.lines = d.doc[n].lines /\ w.keys = v.keys
  BY <1>3 DEF ShowsDraft, Same
<1>8. Bounds(d, p, w) /\ Single(d, p) /\ Mine(d, p, w)
  BY <1>1, <1>4, <1>7 DEF Tracks, Bounds, Mine
<1>9. \A m \in No : Of(d, p, v.form, m) => m = n
  BY <1>1, <1>2, <1>4, <1>5, OnlyFound
<1>10. Where(d, p, w, a)
  BY <1>4, <1>7, <1>9 DEF Where
<1>11. Match(d, p, w)
  BY <1>4, <1>6, <1>7 DEF Match
<1>12. Honest(d, p, w, a)
  BY <1>4 DEF Honest
<1> QED BY <1>8, <1>10, <1>11, <1>12 DEF Tracks, Careful

\* The number exists: the next one is drawn.
LEMMA NextNumberCareful ==
  ASSUME NEW d, NEW p, NEW v, NEW a, Waiting(d, p, v, a), NEW c, c = v.call, c.op = "create",
         NEW w, NextNumber(v, w), w.call = NoCall, w.told = "failed"
  PROVE  Careful(d, p, w, a)
<1>1. /\ Journal(d) /\ Tracks(d, p, v, a) /\ Called(d, p, v, c, a) /\ Sound(v)
  BY DEF Waiting
<1>2. v.doc = None /\ Nothing(d, p, v.form)
  <2>1. v.doc = None /\ ~Posting(v)
    BY <1>1, PanelTypes DEF Called, Posting
  <2> QED BY <1>1, <2>1, UnusedPosts
<1>3. /\ w.form = v.form /\ w.drawn = v.drawn /\ w.doc = None /\ w.shown = v.shown
  BY <1>2 DEF NextNumber
<1>4. w.keys.create = None /\ \A x \in DOMAIN NoKeys : w.keys[x] = v.keys[x] \/ w.keys[x] = None
  <2>1. v.keys \in [DOMAIN NoKeys -> Nat \cup {None}] /\ "create" \in DOMAIN NoKeys
    BY <1>1, PanelTypes DEF Keys, NoKeys
  <2> QED BY <2>1 DEF NextNumber
<1>5. Bounds(d, p, w)
  BY <1>1, <1>3, <1>4 DEF Tracks, Bounds
<1>6. Mine(d, p, w)
  BY <1>1, <1>4, NoKeyUsed DEF Mine, Under
<1>7. Where(d, p, w, a) /\ Honest(d, p, w, a)
  BY <1>2, <1>3 DEF Where, Nothing, Honest
<1>8. Match(d, p, w)
  BY <1>1, <1>2, <1>3 DEF Tracks, Match
<1> QED BY <1>1, <1>5, <1>6, <1>7, <1>8 DEF Tracks, Careful

LEMMA ToldErrorCareful ==
  ASSUME NEW d, NEW p, NEW v, NEW a, Waiting(d, p, v, a), NEW c, c = v.call,
         NEW x, Outcome(d, p, v, c, a, x), x.error # "none", NEW w, w = ToldError(v, d, x.error)
  PROVE  Careful(d, p, w, a)
<1>1. Sound(v) /\ v.call # NoCall /\ Tracks(d, p, v, a)
  BY DEF Waiting
<1>2. PICK error : error = x.error
  OBVIOUS
<1>3. /\ w.call = NoCall /\ w.told = "failed"
      /\ \/ c.op = "create" /\ NextNumber(v, w)
         \/ IF c.op = "post" THEN ShowsDraft(d, v, w) ELSE Left(v, w)
  BY <1>1, <1>2, ToldErrorIs
<1>4. CASE c.op = "create" /\ NextNumber(v, w)
  BY <1>3, <1>4, NextNumberCareful
<1>5. CASE c.op = "post" /\ ShowsDraft(d, v, w)
  BY <1>3, <1>5, ShowsDraftCareful
<1>6. CASE c.op # "post" /\ Left(v, w)
  BY <1>1, <1>3, <1>6, LeftCareful DEF Outcome
<1> QED BY <1>3, <1>4, <1>5, <1>6

LEMMA ToldNothingCareful ==
  ASSUME NEW d, NEW p, NEW v, NEW a, Waiting(d, p, v, a), NEW w, w = ToldNothing(v, d)
  PROVE  Careful(d, p, w, a)
<1>1. PICK c : c = v.call
  OBVIOUS
<1>2. Sound(v) /\ v.call # NoCall /\ Tracks(d, p, v, a) /\ Called(d, p, v, c, a)
  BY <1>1 DEF Waiting
<1>3. /\ w.call = NoCall /\ w.told = "unknown"
      /\ IF c.op = "post" THEN ShowsDraft(d, v, w) ELSE Left(v, w)
      /\ c.op \in {"complete", "draft"} => w.unknown
  BY <1>1, <1>2, ToldNothingIs
<1>4. c.op \in Ops
  BY <1>1, WaitingIs
<1>5. CASE c.op = "post"
  BY <1>1, <1>3, <1>5, ShowsDraftCareful
<1>6. CASE c.op \in {"complete", "draft"}
  BY <1>2, <1>3, <1>6, LeftCareful DEF Posting
<1>7. CASE c.op \in {"create", "save", "recapture"}
  <2>1. CASE v.doc = None
    <3>1. ~Posting(v)
      BY <1>1, <1>2, <1>7, <2>1, PanelTypes DEF Posting, Called
    <3>2. Nothing(d, p, v.form)
      BY <1>2, <2>1, <3>1, UnusedPosts
    <3> QED BY <1>2, <1>3, <1>7, <3>2, LeftCareful
  <2>2. CASE v.doc # None
    BY <1>2, <1>3, <1>7, <2>2, LeftCareful
  <2> QED BY <2>1, <2>2
<1> QED BY <1>4, <1>5, <1>6, <1>7 DEF Ops

-----------------------------------------------------------------------------
(* What is entered and pressed                                             *)

\* A form with no document and new keys.
LEMMA AnewCareful ==
  ASSUME NEW d, Journal(d), NEW p, NEW v, NEW a, Careful(d, p, v, a), v.call = NoCall, ~v.unknown, v.doc = None,
         NEW w, w.form = v.form, w.doc = None, w.shown = v.shown, w.told = v.told, w.drawn = v.drawn,
         w.keys = NoKeys, w.call = NoCall
  PROVE  Careful(d, p, w, a)
<1>1. Tracks(d, p, v, a) /\ Honest(d, p, v, a)
  BY DEF Careful
<1>2. v.shown = "NONE"
  BY <1>1 DEF Tracks, Match
<1>3. Nothing(d, p, v.form)
  <2>1. ~Posting(v)
    BY DEF Posting, NoCall
  <2> QED BY <1>1, <2>1, UnusedPosts
<1>4. w.keys.create = None /\ \A x \in DOMAIN NoKeys : w.keys[x] = None
  BY DEF NoKeys
<1>5. Bounds(d, p, w) /\ Single(d, p)
  BY <1>1, <1>4 DEF Tracks, Bounds
<1>6. Mine(d, p, w)
  BY <1>4, NoKeyUsed DEF Mine, Under
<1>7. Where(d, p, w, a) /\ Match(d, p, w)
  BY <1>2, <1>3 DEF Where, Nothing, Match
<1>8. Honest(d, p, w, a)
  BY <1>1, <1>2, <1>3 DEF Honest
<1> QED BY <1>5, <1>6, <1>7, <1>8 DEF Tracks, Careful

\* A draft on the screen is corrected.
LEMMA CorrectedCareful ==
  ASSUME NEW d, Journal(d), NEW p, NEW v, NEW a, Careful(d, p, v, a), v.call = NoCall, ~v.unknown,
         v.shown \in {"NONE", "DRAFT"},
         NEW w, w.form = v.form, w.no = v.no, w.doc = v.doc, w.shown = v.shown, w.told = v.told,
         w.drawn = v.drawn, w.keys = NoKeys, w.call = NoCall,
         \A i \in Item : w.lines[i] = None <=> v.lines[i] = None
  PROVE  Careful(d, p, w, a)
<1>1. CASE v.doc = None
  BY <1>1, AnewCareful
<1>2. CASE v.doc # None
  <2>1. Tracks(d, p, v, a) /\ Honest(d, p, v, a)
    BY DEF Careful
  <2>2. w.keys.create = None /\ \A x \in DOMAIN NoKeys : w.keys[x] = None
    BY DEF NoKeys
  <2>3. Bounds(d, p, w) /\ Single(d, p)
    BY <2>1, <2>2 DEF Tracks, Bounds
  <2>4. Mine(d, p, w)
    BY <2>2, NoKeyUsed DEF Mine, Under
  <2>5. Where(d, p, w, a)
    BY <1>2, <2>1 DEF Tracks, Where
  <2>6. Match(d, p, w)
    BY <1>2, <2>1 DEF Tracks, Match
  <2>7. Honest(d, p, w, a)
    BY <2>1 DEF Honest
  <2> QED BY <2>3, <2>4, <2>5, <2>6, <2>7 DEF Tracks, Careful
<1> QED BY <1>1, <1>2

\* The next form is begun, whatever has become of this one.
LEMMA NextFormCareful ==
  ASSUME NEW d, NEW p, NEW v, Sound(v), NEW a, Careful(d, p, v, a),
         NEW w, w.form = v.form + 1, w.doc = None, w.shown = "NONE", w.told = "nothing", w.drawn = v.drawn,
         w.call = NoCall, w.lines = NoLines,
         \A x \in DOMAIN NoKeys : w.keys[x] = v.keys[x] \/ w.keys[x] = None
  PROVE  Careful(d, p, w, a)
<1>1. Tracks(d, p, v, a) /\ v.form \in Nat
  BY PanelTypes DEF Careful
<1>2. Nothing(d, p, w.form)
  <2> SUFFICES ASSUME NEW n \in No, Of(d, p, w.form, n) PROVE FALSE
    BY DEF Nothing
  <2>1. d.doc[n].form <= v.form /\ d.doc[n].form = v.form + 1
    BY <1>1 DEF Tracks, Bounds, Of
  <2> QED BY <1>1, <2>1
<1>3. Bounds(d, p, w)
  <2>1. \A n \in No : n[1] = p /\ d.doc[n].status # "NONE" => d.doc[n].form \in Nat /\ d.doc[n].form <= w.form
    <3> SUFFICES ASSUME NEW n \in No, n[1] = p, d.doc[n].status # "NONE"
                 PROVE  d.doc[n].form \in Nat /\ d.doc[n].form <= w.form
      OBVIOUS
    <3>1. d.doc[n].form \in Nat /\ d.doc[n].form <= v.form
      BY <1>1 DEF Tracks, Bounds
    <3> QED BY <1>1, <3>1
  <2> QED BY <1>1, <2>1 DEF Tracks, Bounds
<1>4. Single(d, p) /\ Mine(d, p, w) /\ Where(d, p, w, a) /\ Match(d, p, w) /\ Honest(d, p, w, a)
  BY <1>1, <1>2 DEF Tracks, Mine, Where, Nothing, Match, Honest
<1> QED BY <1>3, <1>4 DEF Tracks, Careful

\* What a press changes: a key that is held is used again.
Issued(p, v, w, op, used) ==
  /\ v.call = NoCall /\ v.lines # NoLines
  /\ w.form = v.form /\ w.no = v.no /\ w.lines = v.lines /\ w.doc = v.doc /\ w.shown = v.shown
  /\ w.unknown = v.unknown /\ w.told = "nothing"
  /\ \A k \in DOMAIN NoKeys :
       w.keys[k] = IF k \in used /\ v.keys[k] = None THEN v.drawn + 1 ELSE v.keys[k]
  /\ w.drawn = v.drawn + 1 \/ (w.drawn = v.drawn /\ w.keys = v.keys)
  /\ w.call.op = op /\ w.call.no = <<p, v.no>> /\ w.call.form = v.form /\ w.call.lines = SentOf(v)
  /\ w.call.keys = w.keys /\ (w.call.saved <=> v.doc # None)
  /\ op = "create" => w.call.print = <<"saved", v.no, SentOf(v)>>
  /\ op \in {"complete", "draft"} => w.call.print = Fingerprint(v)

LEMMA IssuedCareful ==
  ASSUME NEW d, Journal(d), NEW p, NEW v, Sound(v), NEW a, Careful(d, p, v, a),
         NEW op \in Ops \ {"post"}, NEW used, NEW w, Issued(p, v, w, op, used),
         op = "create" => ~v.unknown /\ v.doc = None /\ "create" \in used,
         op \in {"save", "recapture"} => v.shown \in {"DRAFT", "STALE_COUNT"},
         op \in {"complete", "draft"} => v.shown \in {"NONE", "DRAFT"} /\ used = DOMAIN NoKeys,
         op = "complete" => a, op = "draft" => ~a
  PROVE  Careful(d, p, w, a)
<1>1. Tracks(d, p, v, a)
  BY DEF Careful
<1>2. /\ w.form = v.form /\ w.no = v.no /\ w.lines = v.lines /\ w.doc = v.doc /\ w.shown = v.shown
      /\ w.unknown = v.unknown /\ w.told = "nothing" /\ v.call = NoCall /\ v.lines # NoLines
  BY DEF Issued
<1>3. /\ v.drawn \in Nat /\ v.keys \in Keys
      /\ v.keys.create \in Nat \cup {None} /\ v.keys.post \in Nat \cup {None}
  BY PanelTypes
<1>4. "create" \in DOMAIN NoKeys /\ "post" \in DOMAIN NoKeys
  BY DEF NoKeys
<1>5. w.drawn \in Nat /\ v.drawn <= w.drawn
  BY <1>3 DEF Issued
<1>6. \A c \in d.commands : c.no[1] = p => c.key \in Nat /\ c.key <= v.drawn
  BY <1>1 DEF Journal, Tracks, Bounds
<1>7. \A k \in DOMAIN NoKeys : v.keys[k] \in Nat \cup {None}
  BY <1>3 DEF Keys
<1>8. Bounds(d, p, w)
  <2>1. ASSUME NEW c \in d.commands, c.no[1] = p PROVE c.key <= w.drawn
    BY <1>3, <1>5, <1>6, <2>1
  <2>2. ASSUME NEW k \in DOMAIN NoKeys, w.keys[k] # None PROVE w.keys[k] <= w.drawn
    <3>1. CASE w.keys[k] = v.keys[k]
      <4>1. v.keys[k] <= v.drawn /\ v.keys[k] \in Nat
        BY <1>1, <1>7, <2>2, <3>1 DEF Tracks, Bounds
      <4> QED BY <1>3, <1>5, <3>1, <4>1
    <3>2. CASE w.keys[k] # v.keys[k]
      <4>1. w.keys[k] = v.drawn + 1 /\ w.keys # v.keys
        BY <3>2 DEF Issued
      <4>2. w.drawn = v.drawn + 1
        BY <4>1 DEF Issued
      <4> QED BY <1>3, <4>1, <4>2
    <3> QED BY <3>1, <3>2
  <2> QED BY <1>1, <1>2, <2>1, <2>2 DEF Tracks, Bounds
<1>9. /\ w.keys.create = v.keys.create \/ (v.keys.create = None /\ w.keys.create = v.drawn + 1)
      /\ w.keys.post = v.keys.post \/ (v.keys.post = None /\ w.keys.post = v.drawn + 1)
  BY <1>4 DEF Issued
\* A key that has been used is one that was held.
<1>10. \A c \in d.commands : /\ Under(d, "CREATE", p, w.keys.create, c) => w.keys.create = v.keys.create
                             /\ Under(d, "POST", p, w.keys.post, c) => w.keys.post = v.keys.post
  BY <1>3, <1>6, <1>9 DEF Under
<1>11. \A c \in d.commands : /\ Under(d, "CREATE", p, v.keys.create, c) => w.keys.create = v.keys.create
                             /\ Under(d, "POST", p, v.keys.post, c) => w.keys.post = v.keys.post
  BY <1>9, NoKeyUsed DEF Under
<1>12. Mine(d, p, w)
  BY <1>1, <1>2, <1>10 DEF Tracks, Mine
<1>13. SentOf(w) = SentOf(v) /\ Fingerprint(w) = Fingerprint(v)
  BY <1>2, FingerprintSame
<1>14. \A n : Pressed(d, p, v, n, a) => Pressed(d, p, w, n, a)
  BY <1>11, <1>13 DEF Pressed, Under
<1>15. Where(d, p, w, a)
  <2>1. Posting(v) => Posting(w)
    BY <1>2 DEF Posting, NoCall
  <2> QED BY <1>1, <1>2, <1>14, <2>1 DEF Tracks, Where
<1>16. Match(d, p, w)
  BY <1>1, <1>2 DEF Tracks, Match
<1>17. Honest(d, p, w, a)
  BY <1>2 DEF Honest
<1>18. PICK c : c = w.call
  OBVIOUS
<1>19. /\ c.op = op /\ c.no = <<p, v.no>> /\ c.form = v.form /\ c.lines = SentOf(v)
       /\ c.keys = w.keys /\ (c.saved <=> v.doc # None)
       /\ op = "create" => c.print = <<"saved", v.no, SentOf(v)>>
       /\ op \in {"complete", "draft"} => c.print = Fingerprint(v)
  BY <1>18 DEF Issued
<1>20. v.shown # "POSTED" /\ (op \in {"save", "recapture"} => v.doc # None)
  BY <1>1 DEF Ops, Tracks, Match
<1>21. v.drawn + 1 \in Nat
  BY <1>3
<1>22. op \in {"create", "complete", "draft"} => w.keys.create \in Nat
  BY <1>3, <1>4, <1>21 DEF Issued
<1>23. op \in {"complete", "draft"} => w.keys.post \in Nat
  BY <1>3, <1>4, <1>21 DEF Issued
<1>24. Called(d, p, w, c, a)
  BY <1>2, <1>13, <1>19, <1>20, <1>22, <1>23 DEF Called, Ops
<1> QED BY <1>1, <1>8, <1>12, <1>15, <1>16, <1>17, <1>18, <1>24 DEF Tracks, Careful

LEMMA SetIs ==
  ASSUME Panels, NEW p \in Panel, NEW new, Set(p, new)
  PROVE  /\ panel'[p] = new /\ \A q \in Panel : q # p => panel'[q] = panel[q]
         /\ atomic' = atomic
BY DEF Set, Panels

LEMMA PressIs ==
  ASSUME Panels, NEW p \in Panel, NEW op \in Ops \ {"post"}, NEW used, Press(p, op, used),
         NEW v, v = panel[p], NEW w, w = panel'[p]
  PROVE  /\ Issued(p, v, w, op, used) /\ db' = db /\ atomic' = atomic
         /\ \A q \in Panel : q # p => panel'[q] = panel[q]
<1> DEFINE keys == Held(p, used)
           print == IF op = "recapture" THEN <<op, v.no>>
                    ELSE <<IF op \in {"create", "save"} THEN "saved" ELSE "completed", v.no, Sent(p)>>
           drawn == IF keys = v.keys THEN v.drawn ELSE v.drawn + 1
           saved == v.doc # None
           call == [op |-> op, no |-> <<p, v.no>>, form |-> v.form, saved |-> saved,
                    lines |-> Sent(p), keys |-> keys, print |-> print]
           new == [v EXCEPT !.keys = keys, !.told = "nothing", !.drawn = drawn, !.call = call]
<1>1. Sound(v)
  BY DEF Panels
<1>2. Local(p, new) /\ v.call = NoCall /\ v.lines # NoLines
  BY DEF Press
<1>3. Sent(p) = SentOf(v)
  BY DEF Sent, SentOf
<1>4. \A k \in DOMAIN NoKeys : keys[k] = IF k \in used /\ v.keys[k] = None THEN v.drawn + 1 ELSE v.keys[k]
  BY DEF Held
<1>5. /\ op = "create" => print = <<"saved", v.no, SentOf(v)>>
      /\ op \in {"complete", "draft"} => print = Fingerprint(v)
  BY <1>3 DEF Fingerprint
<1>6. drawn = v.drawn + 1 \/ (drawn = v.drawn /\ keys = v.keys)
  OBVIOUS
<1> HIDE DEF keys, print, drawn
<1>7. PICK yes : yes = saved
  OBVIOUS
<1>8. PICK c : c = [op |-> op, no |-> <<p, v.no>>, form |-> v.form, saved |-> yes,
                    lines |-> Sent(p), keys |-> keys, print |-> print]
  OBVIOUS
<1>9. /\ c.op = op /\ c.no = <<p, v.no>> /\ c.form = v.form /\ c.lines = SentOf(v) /\ c.keys = keys
      /\ c.print = print /\ c.saved = yes
  BY <1>3, <1>8
<1>10. new = [v EXCEPT !.keys = keys, !.told = "nothing", !.drawn = drawn, !.call = c]
  BY <1>7, <1>8
<1> HIDE DEF new, call
<1>11. /\ new.form = v.form /\ new.no = v.no /\ new.lines = v.lines /\ new.doc = v.doc /\ new.shown = v.shown
       /\ new.unknown = v.unknown /\ new.told = "nothing" /\ new.keys = keys /\ new.drawn = drawn
       /\ new.call = c
  BY <1>1, <1>10 DEF Sound, Shaped
<1>12. /\ w = new /\ atomic' = atomic /\ db' = db
       /\ \A q \in Panel : q # p => panel'[q] = panel[q]
  BY <1>2, SetIs DEF Local
<1> HIDE DEF saved
<1>13. c.saved <=> v.doc # None
  BY <1>7, <1>9 DEF saved
<1>14. Issued(p, v, w, op, used)
  BY <1>2, <1>4, <1>5, <1>6, <1>9, <1>11, <1>12, <1>13 DEF Issued
<1> QED BY <1>12, <1>14

\* One step of panel p, which leaves the others alone.
Alone(p) ==
  atomic' = atomic /\ \A q \in Panel : q # p => panel'[q] = panel[q]

LEMMA PressingCareful ==
  ASSUME Panels, Journal(db), NEW p \in Panel, Careful(db, p, panel[p], atomic),
         CreateDraft(p) \/ UpdateDraft(p) \/ RecaptureBook(p) \/ CompleteStocktake(p)
  PROVE  Careful(db', p, panel'[p], atomic') /\ Alone(p) /\ db' = db
<1>1. PICK d, v, w, a : d = db /\ v = panel[p] /\ w = panel'[p] /\ a = atomic
  OBVIOUS
<1>2. Sound(v) /\ Journal(d) /\ Careful(d, p, v, a)
  BY <1>1 DEF Panels
<1>3. ASSUME NEW op \in Ops \ {"post"}, NEW used, Press(p, op, used)
      PROVE  Issued(p, v, w, op, used) /\ db' = db /\ atomic' = atomic /\ Alone(p)
  BY <1>1, <1>3, PressIs DEF Alone
<1>4. CASE CreateDraft(p)
  <2>1. PICK op, used : op = "create" /\ used = {"create"}
    OBVIOUS
  <2>2. op \in Ops \ {"post"} /\ Press(p, op, used) /\ ~v.unknown /\ v.doc = None
    BY <1>1, <1>4, <2>1 DEF CreateDraft, Free, Ops
  <2>3. Issued(p, v, w, op, used) /\ db' = db /\ atomic' = atomic /\ Alone(p)
    BY <1>3, <2>2
  <2>4. Careful(d, p, w, a)
    BY <1>2, <2>1, <2>2, <2>3, IssuedCareful
  <2> QED BY <1>1, <2>3, <2>4
<1>5. CASE UpdateDraft(p)
  <2>1. PICK op, used : op = "save" /\ used = {"update"}
    OBVIOUS
  <2>2. op \in Ops \ {"post"} /\ Press(p, op, used) /\ v.shown \in {"DRAFT", "STALE_COUNT"}
    BY <1>1, <1>5, <2>1 DEF UpdateDraft, Ops
  <2>3. Issued(p, v, w, op, used) /\ db' = db /\ atomic' = atomic /\ Alone(p)
    BY <1>3, <2>2
  <2>4. Careful(d, p, w, a)
    BY <1>2, <2>1, <2>2, <2>3, IssuedCareful
  <2> QED BY <1>1, <2>3, <2>4
<1>6. CASE RecaptureBook(p)
  <2>1. PICK op, used : op = "recapture" /\ used = {"update"}
    OBVIOUS
  <2>2. op \in Ops \ {"post"} /\ Press(p, op, used) /\ v.shown \in {"DRAFT", "STALE_COUNT"}
    BY <1>1, <1>6, <2>1 DEF RecaptureBook, Ops
  <2>3. Issued(p, v, w, op, used) /\ db' = db /\ atomic' = atomic /\ Alone(p)
    BY <1>3, <2>2
  <2>4. Careful(d, p, w, a)
    BY <1>2, <2>1, <2>2, <2>3, IssuedCareful
  <2> QED BY <1>1, <2>3, <2>4
<1>7. CASE CompleteStocktake(p)
  <2>1. PICK op, used : op = (IF atomic THEN "complete" ELSE "draft") /\ used = DOMAIN NoKeys
    OBVIOUS
  <2>2. /\ op \in Ops \ {"post"} /\ Press(p, op, used) /\ v.shown \in {"NONE", "DRAFT"}
        /\ (op = "complete" => a) /\ (op = "draft" => ~a) /\ op \in {"complete", "draft"}
    BY <1>1, <1>7, <2>1 DEF CompleteStocktake, Ops
  <2>3. Issued(p, v, w, op, used) /\ db' = db /\ atomic' = atomic /\ Alone(p)
    BY <1>3, <2>2
  <2>4. Careful(d, p, w, a)
    BY <1>2, <2>1, <2>2, <2>3, IssuedCareful
  <2> QED BY <1>1, <2>3, <2>4
<1> QED BY <1>4, <1>5, <1>6, <1>7

LEMMA ThrowingCareful ==
  ASSUME Panels, NEW p \in Panel, Careful(db, p, panel[p], atomic), Throws(p)
  PROVE  Careful(db', p, panel'[p], atomic') /\ Alone(p) /\ db' = db
<1>1. PICK d, v, w, a : d = db /\ v = panel[p] /\ w = panel'[p] /\ a = atomic
  OBVIOUS
<1>2. Sound(v) /\ Careful(d, p, v, a)
  BY <1>1 DEF Panels
<1>3. PICK new : new = [v EXCEPT !.told = "thrown"] /\ Local(p, new) /\ v.call = NoCall
  BY <1>1 DEF Throws
<1>4. w = new /\ Alone(p) /\ db' = db /\ atomic' = atomic
  BY <1>1, <1>3, SetIs DEF Local, Alone
<1>5. /\ w.form = v.form /\ w.no = v.no /\ w.doc = v.doc /\ w.shown = v.shown /\ w.lines = v.lines
      /\ w.drawn = v.drawn /\ w.keys = v.keys /\ w.call = v.call /\ w.unknown = v.unknown
      /\ w.told = "thrown"
  BY <1>2, <1>3, <1>4 DEF Sound, Shaped
<1>6. SentOf(w) = SentOf(v) /\ Fingerprint(w) = Fingerprint(v)
  BY <1>5 DEF SentOf, Fingerprint
<1>7. Bounds(d, p, w) /\ Single(d, p) /\ Mine(d, p, w) /\ Match(d, p, w)
  BY <1>2, <1>5 DEF Careful, Tracks, Bounds, Mine, Match
<1>8. Where(d, p, w, a)
  <2>1. \A n : Pressed(d, p, w, n, a) <=> Pressed(d, p, v, n, a)
    BY <1>5, <1>6 DEF Pressed
  <2> QED BY <1>2, <1>5, <2>1 DEF Careful, Tracks, Where, Posting
<1>9. Honest(d, p, w, a)
  BY <1>5 DEF Honest
<1>10. Careful(d, p, w, a)
  BY <1>3, <1>5, <1>7, <1>8, <1>9 DEF Careful, Tracks
<1> QED BY <1>1, <1>4, <1>10

LEMMA EnteringCareful ==
  ASSUME Good(db), Panels, Journal(db), NEW p \in Panel, Careful(db, p, panel[p], atomic),
         \/ Count(p) \/ Correct(p) \/ Clear(p) \/ Renumber(p) \/ StartNext(p) \/ AccessChanges(p)
  PROVE  Careful(db', p, panel'[p], atomic') /\ Alone(p) /\ db' = db
<1>1. PICK d, v, w, a : d = db /\ v = panel[p] /\ w = panel'[p] /\ a = atomic
  OBVIOUS
<1>2. Sound(v) /\ Journal(d) /\ Careful(d, p, v, a)
  BY <1>1 DEF Panels
<1>3. ASSUME NEW new, Local(p, new)
      PROVE  w = new /\ Alone(p) /\ db' = db /\ atomic' = atomic
  BY <1>1, <1>3, SetIs DEF Local, Alone
<1>4. CASE Count(p)
  <2>1. PICK counts : Local(p, [v EXCEPT !.keys = NoKeys,
            !.lines = [i \in Item |-> IF counts[i] = None THEN None
              ELSE [book |-> db.stock[i].qty, ver |-> db.stock[i].ver, counted |-> counts[i],
                    null |-> FALSE]]])
    BY <1>1, <1>4 DEF Count
  <2>2. PICK lines : lines = [i \in Item |-> IF counts[i] = None THEN None
              ELSE [book |-> db.stock[i].qty, ver |-> db.stock[i].ver, counted |-> counts[i],
                    null |-> FALSE]]
    OBVIOUS
  <2>3. PICK new : new = [v EXCEPT !.keys = NoKeys, !.lines = lines] /\ Local(p, new)
    BY <2>1, <2>2
  <2>4. /\ new.form = v.form /\ new.doc = v.doc /\ new.shown = v.shown /\ new.told = v.told
        /\ new.drawn = v.drawn /\ new.keys = NoKeys /\ new.call = v.call
    BY <1>2, <2>3 DEF Sound, Shaped
  <2>5. v.call = NoCall /\ ~v.unknown /\ v.doc = None
    BY <1>1, <1>4 DEF Count, Free
  <2>6. w = new /\ Alone(p) /\ db' = db /\ atomic' = atomic
    BY <1>3, <2>3
  <2>7. Careful(d, p, w, a)
    BY <1>2, <2>4, <2>5, <2>6, AnewCareful
  <2> QED BY <1>1, <2>6, <2>7
<1>5. CASE Correct(p)
  <2>1. PICK i \in Item, n \in Counts :
          v.lines[i] # None /\ Local(p, [v EXCEPT !.lines[i].counted = n, !.keys = NoKeys])
    BY <1>1, <1>5 DEF Correct
  <2>2. v.lines \in DocLines
    BY <1>2, PanelTypes
  <2>3. PICK line : line = [v.lines[i] EXCEPT !.counted = n]
    OBVIOUS
  <2>4. line \in [book : Nat, ver : Nat, counted : Nat, null : BOOLEAN]
    <3>1. v.lines[i] \in [book : Nat, ver : Nat, counted : Nat, null : BOOLEAN] /\ n \in Nat
      BY <2>1, <2>2, Constants DEF DocLines
    <3> QED BY <2>3, <3>1
  <2>5. line # None
    BY <2>4, StocktakeConstants
  <2>6. PICK lines : lines = [v.lines EXCEPT ![i] = line]
    OBVIOUS
  <2>7. \A j \in Item : lines[j] = None <=> v.lines[j] = None
    BY <2>1, <2>2, <2>5, <2>6 DEF DocLines
  <2>8. PICK new : new = [v EXCEPT !.lines = lines, !.keys = NoKeys] /\ Local(p, new)
    BY <1>2, <2>1, <2>3, <2>6 DEF Sound, Shaped
  <2>9. /\ new.form = v.form /\ new.no = v.no /\ new.doc = v.doc /\ new.shown = v.shown /\ new.told = v.told
        /\ new.drawn = v.drawn /\ new.keys = NoKeys /\ new.call = v.call /\ new.lines = lines
    BY <1>2, <2>8 DEF Sound, Shaped
  <2>10. v.call = NoCall /\ ~v.unknown /\ v.shown \in {"NONE", "DRAFT"}
    BY <1>1, <1>5 DEF Correct, Free
  <2>11. w = new /\ Alone(p) /\ db' = db /\ atomic' = atomic
    BY <1>3, <2>8
  <2>12. Careful(d, p, w, a)
    BY <1>2, <2>7, <2>9, <2>10, <2>11, CorrectedCareful
  <2> QED BY <1>1, <2>11, <2>12
<1>6. CASE Clear(p)
  <2>1. PICK new : new = [v EXCEPT !.lines = NoLines, !.keys = NoKeys] /\ Local(p, new)
    BY <1>1, <1>6 DEF Clear
  <2>2. /\ new.form = v.form /\ new.doc = v.doc /\ new.shown = v.shown /\ new.told = v.told
        /\ new.drawn = v.drawn /\ new.keys = NoKeys /\ new.call = v.call
    BY <1>2, <2>1 DEF Sound, Shaped
  <2>3. v.call = NoCall /\ ~v.unknown /\ v.doc = None
    BY <1>1, <1>6 DEF Clear, Free
  <2>4. w = new /\ Alone(p) /\ db' = db /\ atomic' = atomic
    BY <1>3, <2>1
  <2>5. Careful(d, p, w, a)
    BY <1>2, <2>2, <2>3, <2>4, AnewCareful
  <2> QED BY <1>1, <2>4, <2>5
<1>7. CASE Renumber(p)
  <2>1. PICK no : no = v.no + 1
    OBVIOUS
  <2>2. PICK new : new = [v EXCEPT !.no = no, !.keys = NoKeys] /\ Local(p, new)
    BY <1>1, <1>7, <2>1 DEF Renumber
  <2>3. /\ new.form = v.form /\ new.doc = v.doc /\ new.shown = v.shown /\ new.told = v.told
        /\ new.drawn = v.drawn /\ new.keys = NoKeys /\ new.call = v.call
    BY <1>2, <2>2 DEF Sound, Shaped
  <2>4. v.call = NoCall /\ ~v.unknown /\ v.doc = None
    BY <1>1, <1>7 DEF Renumber, Free
  <2>5. w = new /\ Alone(p) /\ db' = db /\ atomic' = atomic
    BY <1>3, <2>2
  <2>6. Careful(d, p, w, a)
    BY <1>2, <2>3, <2>4, <2>5, AnewCareful
  <2> QED BY <1>1, <2>5, <2>6
<1>8. CASE StartNext(p)
  <2>1. PICK form, no, drawn : form = v.form + 1 /\ no = v.no + 1 /\ drawn = v.drawn
    OBVIOUS
  <2>2. PICK new : new = [Blank EXCEPT !.form = form, !.no = no, !.drawn = drawn] /\ Local(p, new)
    BY <1>1, <1>8, <2>1 DEF StartNext
  <2>3. /\ new.form = form /\ new.doc = None /\ new.shown = "NONE" /\ new.told = "nothing"
        /\ new.drawn = drawn /\ new.keys = NoKeys /\ new.call = NoCall /\ new.lines = NoLines
    BY <2>2 DEF Blank
  <2>4. \A x \in DOMAIN NoKeys : new.keys[x] = None
    BY <2>3 DEF NoKeys
  <2>5. w = new /\ Alone(p) /\ db' = db /\ atomic' = atomic
    BY <1>3, <2>2
  <2>6. Careful(d, p, w, a)
    BY <1>2, <2>1, <2>3, <2>4, <2>5, NextFormCareful
  <2> QED BY <1>1, <2>5, <2>6
<1>9. CASE AccessChanges(p)
  <2>1. PICK form : form = v.form + 1
    OBVIOUS
  <2>2. PICK new : /\ new = [v EXCEPT !.lines = NoLines, !.doc = None, !.shown = "NONE",
                                      !.recount = FALSE, !.form = form, !.told = "nothing"]
                   /\ Set(p, new) /\ db' = db /\ v.call = NoCall
    BY <1>1, <1>9, <2>1 DEF AccessChanges
  <2>3. /\ new.form = form /\ new.doc = None /\ new.shown = "NONE" /\ new.told = "nothing"
        /\ new.drawn = v.drawn /\ new.keys = v.keys /\ new.call = NoCall /\ new.lines = NoLines
    BY <1>2, <2>2 DEF Sound, Shaped
  <2>4. w = new /\ Alone(p) /\ atomic' = atomic
    BY <1>1, <2>2, SetIs DEF Alone
  <2>5. Careful(d, p, w, a)
    BY <1>2, <2>1, <2>3, <2>4, NextFormCareful
  <2> QED BY <1>1, <2>2, <2>4, <2>5
<1> QED BY <1>4, <1>5, <1>6, <1>7, <1>8, <1>9

-----------------------------------------------------------------------------
(* What the steps of others leave as it is                                 *)

\* The documents of panel p, and what is recorded under its keys.
Untouched(d, e, p) ==
  /\ \A n \in No : n[1] = p => e.doc[n] = d.doc[n]
  /\ \A c : c.no[1] = p => (c \in e.commands <=> c \in d.commands)

LEMMA UntouchedCareful ==
  ASSUME NEW d, NEW e, Good(e), NEW p, Untouched(d, e, p), NEW v, Sound(v), NEW a, Careful(d, p, v, a)
  PROVE  Careful(e, p, v, a)
<1>1. Tracks(d, p, v, a) /\ Honest(d, p, v, a)
  BY DEF Careful
<1>2. \A form, n : Of(e, p, form, n) <=> Of(d, p, form, n)
  BY DEF Untouched, Of
<1>3. \A op, key, c : Under(e, op, p, key, c) <=> Under(d, op, p, key, c)
  BY DEF Untouched, Under
<1>4. \A n, b : Pressed(e, p, v, n, b) <=> Pressed(d, p, v, n, b)
  <2> SUFFICES ASSUME NEW n, NEW b PROVE Pressed(e, p, v, n, b) <=> Pressed(d, p, v, n, b)
    OBVIOUS
  <2>1. ASSUME NEW op, NEW key, NEW c PROVE Under(d, op, p, key, c) => c \in d.commands /\ c \in e.commands
    BY <1>3 DEF Under
  <2>2. ASSUME NEW op, NEW key, NEW c PROVE Under(e, op, p, key, c) => c \in d.commands /\ c \in e.commands
    BY <1>3 DEF Under
  <2> QED BY <1>3, <2>1, <2>2 DEF Pressed
<1>5. Bounds(e, p, v)
  <2>1. \A n \in No : n[1] = p /\ e.doc[n].status # "NONE" => e.doc[n].form \in Nat /\ e.doc[n].form <= v.form
    BY <1>1 DEF Untouched, Tracks, Bounds
  <2>2. \A c \in e.commands : c.no[1] = p => c.key <= v.drawn
    BY <1>1 DEF Untouched, Tracks, Bounds
  <2> QED BY <1>1, <2>1, <2>2 DEF Tracks, Bounds
<1>6. Single(e, p)
  BY <1>1, <1>2 DEF Tracks, Single
<1>7. Mine(e, p, v)
  <2> SUFFICES ASSUME v.lines # NoLines, NEW c \in e.commands, Under(e, "CREATE", p, v.keys.create, c)
               PROVE  e.doc[c.no].form = v.form
    BY DEF Mine
  <2>1. c \in d.commands /\ Under(d, "CREATE", p, v.keys.create, c) /\ c.no[1] = p /\ c.no \in No
    BY <1>3 DEF Under, Good, Typed
  <2> QED BY <1>1, <2>1 DEF Tracks, Mine, Untouched
<1>8. Where(e, p, v, a)
  BY <1>1, <1>2, <1>4 DEF Tracks, Where
<1>9. Match(e, p, v)
  <2>1. v.doc # None => v.doc \in No /\ v.doc = <<p, v.no>> /\ v.doc[1] = p
    BY <1>1, PanelTypes DEF Tracks, Match
  <2> QED BY <1>1, <2>1 DEF Tracks, Match, Untouched
<1>10. Honest(e, p, v, a)
  <2>1. Nothing(d, p, v.form) => Nothing(e, p, v.form)
    BY <1>2 DEF Nothing
  <2>2. Of(d, p, v.form, v.doc) => e.doc[v.doc] = d.doc[v.doc]
    BY DEF Of, Untouched
  <2> QED BY <1>1, <1>2, <2>1, <2>2 DEF Honest
<1>11. v.call # NoCall => Called(e, p, v, v.call, a)
  BY <1>4 DEF Careful, Called
<1> QED BY <1>5, <1>6, <1>7, <1>8, <1>9, <1>10, <1>11 DEF Tracks, Careful

\* A call is about the documents of its own panel.
LEMMA CallTouches ==
  ASSUME NEW d, NEW q, NEW v, NEW a, Waiting(d, q, v, a), NEW c, c = v.call, NEW x, x = Transaction(d, c),
         NEW p, p # q
  PROVE  Untouched(d, x.db, p)
<1>1. /\ IsCall(c) /\ c.op \in Ops /\ c.saved \in BOOLEAN /\ c.no[1] = q /\ c.no \in No
  BY WaitingIs
<1>2. Good(d) /\ Journal(d) /\ Called(d, q, v, c, a)
  BY DEF Waiting
<1>3. ASSUME NEW e, e = d PROVE Untouched(d, e, p)
  BY <1>3 DEF Untouched
<1>4. ASSUME NEW e, Made(d, e, c) PROVE Untouched(d, e, p)
  BY <1>1, <1>4 DEF Made, Untouched
<1>5. ASSUME NEW e, NEW f, NEW n, n[1] = q, Ended(e, f, c, n), Untouched(d, e, p) PROVE Untouched(d, f, p)
  BY <1>5 DEF Ended, Untouched
<1>6. CASE c.saved
  <2>1. \A key, recount : UpdateTx(d, c, key, c.lines, recount) = Refused(d)
    BY <1>6, SavedIsRefused
  <2>2. RecaptureTx(d, c) = Refused(d)
    BY <1>1, <1>2, RecaptureIs
  <2>3. Refused(d).db = d /\ Refused(d).error = "refused"
    BY DEF Refused
  <2>4. SaveTx(d, c) = Refused(d)
    BY <1>6, <2>1 DEF SaveTx
  <2>5. CASE c.op = "save"
    BY <1>3, <2>1, <2>3, <2>5 DEF Transaction
  <2>6. CASE c.op = "recapture"
    BY <1>3, <2>2, <2>3, <2>6 DEF Transaction
  <2>7. CASE c.op = "draft"
    BY <1>3, <2>3, <2>4, <2>7 DEF Transaction
  <2>8. CASE c.op = "complete"
    <3>1. PICK s : s = Refused(d)
      OBVIOUS
    <3>2. x = [s EXCEPT !.db = d]
      BY <2>3, <2>4, <2>8, <3>1 DEF Transaction, CompleteTx
    <3>3. x.db = d
      BY <3>1, <3>2 DEF Refused
    <3> QED BY <1>3, <3>3
  <2> QED BY <1>1, <1>2, <1>6, <2>5, <2>6, <2>7, <2>8 DEF Ops, Called
<1>7. CASE ~c.saved
  <2>1. c.op \in {"create", "complete", "draft", "post"}
    BY <1>1, <1>2, <1>7 DEF Ops, Called
  <2>2. PICK s : s = CreateTx(d, c)
    OBVIOUS
  <2>3. s = SaveTx(d, c)
    BY <1>7, <2>2 DEF SaveTx
  <2>4. /\ Answer(d, s)
        /\ \/ s.error = "none" /\ s.no = c.no /\ Made(d, s.db, c)
           \/ s.error = "none" /\ s.db = d /\ Finds(d, c, s.no)
           \/ s.error # "none" /\ s.db = d
    BY <1>1, <1>2, <2>2, CreateIs, CreateKeeps
  <2>5. Untouched(d, s.db, p)
    BY <1>3, <1>4, <2>4
  <2>6. CASE c.op \in {"create", "draft"}
    BY <2>2, <2>3, <2>5, <2>6 DEF Transaction
  <2>7. CASE c.op = "post"
    <3>1. PICK n : n = c.no
      OBVIOUS
    <3>2. x = PostTx(d, c, n) /\ n \in No /\ n[1] = q
      BY <1>1, <2>7, <3>1 DEF Transaction
    <3>3. x.db = d \/ Ended(d, x.db, c, n)
      BY <1>2, <3>2, PostIs
    <3>4. Untouched(d, d, p)
      BY <1>3
    <3> QED BY <1>3, <1>5, <3>2, <3>3, <3>4
  <2>8. CASE c.op = "complete"
    <3>1. PICK e, n : e = s.db /\ n = s.no
      OBVIOUS
    <3>2. PICK y : y = PostTx(e, c, n)
      OBVIOUS
    <3>3. x = IF s.error # "none" THEN [s EXCEPT !.db = d] ELSE IF y.error # "none" THEN Refused(d) ELSE y
      BY <2>3, <2>8, <3>1, <3>2 DEF Transaction, CompleteTx
    <3>4. CASE s.error # "none"
      <4>1. x = [s EXCEPT !.db = d] /\ s.db = d
        BY <2>4, <3>3, <3>4
      <4>2. x.db = d
        BY <2>4, <4>1 DEF Answer
      <4> QED BY <1>3, <4>2
    <3>5. CASE s.error = "none" /\ y.error # "none"
      <4>1. x.db = d
        BY <3>3, <3>5 DEF Refused
      <4> QED BY <1>3, <4>1
    <3>6. CASE s.error = "none" /\ y.error = "none"
      <4>1. Waiting(e, q, v, a) /\ Finds(e, c, n)
        BY <1>7, <2>2, <2>8, <3>1, <3>6, CreateTracks DEF Outcome
      <4>2. Good(e) /\ Journal(e) /\ n \in No /\ n[1] = q
        BY <1>1, <4>1, FindsIs DEF Waiting
      <4>3. y.db = e \/ Ended(e, y.db, c, n)
        BY <3>2, <4>2, PostIs
      <4>4. x = y
        BY <3>3, <3>6
      <4>5. Untouched(d, e, p)
        BY <2>5, <3>1
      <4> QED BY <1>5, <4>2, <4>3, <4>4, <4>5
    <3> QED BY <3>4, <3>5, <3>6
  <2> QED BY <2>1, <2>6, <2>7, <2>8
<1> QED BY <1>1, <1>6, <1>7

LEMMA AnsweredCareful ==
  ASSUME Good(db), Panels, Journal(db), NEW p \in Panel, Careful(db, p, panel[p], atomic), Answered(p)
  PROVE  /\ Careful(db', p, panel'[p], atomic') /\ Alone(p) /\ Journal(db')
         /\ \A q \in Panel : q # p => Untouched(db, db', q)
<1>1. PICK d, v, w, a, c : d = db /\ v = panel[p] /\ w = panel'[p] /\ a = atomic /\ c = v.call
  OBVIOUS
<1>2. Waiting(d, p, v, a)
  BY <1>1 DEF Panels, Careful, Answered, Waiting
<1>3. PICK x : x = Transaction(d, c)
  OBVIOUS
<1>4. PICK new : /\ new = (IF x.error = "none" THEN Told(v, x.db, x.no) ELSE ToldError(v, x.db, x.error))
                 /\ db' = x.db /\ Set(p, new)
  BY <1>1, <1>3 DEF Answered
<1>5. w = new /\ Alone(p) /\ atomic' = a
  BY <1>1, <1>4, SetIs DEF Alone
<1>6. PICK e : e = x.db
  OBVIOUS
<1>7. Waiting(e, p, v, a) /\ Outcome(e, p, v, c, a, x)
  BY <1>1, <1>2, <1>3, <1>6, CallTracks
<1>8. Journal(e)
  BY <1>7 DEF Waiting
<1>9. Careful(e, p, w, a)
  <2>1. CASE x.error = "none"
    <3>1. w = Told(v, e, x.no)
      BY <1>4, <1>5, <1>6, <2>1
    <3> QED BY <1>1, <1>7, <2>1, <3>1, ToldCareful
  <2>2. CASE x.error # "none"
    <3>1. w = ToldError(v, e, x.error)
      BY <1>4, <1>5, <1>6, <2>2
    <3> QED BY <1>1, <1>7, <2>2, <3>1, ToldErrorCareful
  <2> QED BY <2>1, <2>2
<1>10. \A q \in Panel : q # p => Untouched(d, e, q)
  BY <1>1, <1>2, <1>3, <1>6, CallTouches
<1> QED BY <1>1, <1>4, <1>5, <1>6, <1>8, <1>9, <1>10

LEMMA LostCareful ==
  ASSUME LossForms \subseteq {"thrown"},
         Good(db), Panels, Journal(db), NEW p \in Panel, Careful(db, p, panel[p], atomic), Lost(p)
  PROVE  /\ Careful(db', p, panel'[p], atomic') /\ Alone(p) /\ Journal(db')
         /\ \A q \in Panel : q # p => Untouched(db, db', q)
<1>1. PICK d, v, w, a, c : d = db /\ v = panel[p] /\ w = panel'[p] /\ a = atomic /\ c = v.call
  OBVIOUS
<1>2. Waiting(d, p, v, a)
  BY <1>1 DEF Panels, Careful, Lost, Waiting
<1>3. PICK x : x = Transaction(d, c)
  OBVIOUS
<1>4. PICK e \in {d, x.db} : db' = e /\ Set(p, ToldNothing(v, e))
  BY <1>1, <1>3 DEF Lost
<1>5. w = ToldNothing(v, e) /\ Alone(p) /\ atomic' = a
  BY <1>1, <1>4, SetIs DEF Alone
<1>6. Waiting(x.db, p, v, a)
  BY <1>1, <1>2, <1>3, CallTracks
<1>7. Waiting(e, p, v, a)
  BY <1>2, <1>4, <1>6
<1>8. Journal(e) /\ Careful(e, p, w, a)
  BY <1>4, <1>5, <1>7, ToldNothingCareful DEF Waiting
<1>9. \A q \in Panel : q # p => Untouched(d, e, q)
  <2>1. \A q : Untouched(d, d, q)
    BY DEF Untouched
  <2>2. \A q \in Panel : q # p => Untouched(d, x.db, q)
    BY <1>1, <1>2, <1>3, CallTouches
  <2> QED BY <1>4, <2>1, <2>2
<1> QED BY <1>1, <1>4, <1>5, <1>8, <1>9

-----------------------------------------------------------------------------
(* A form is posted once, and its panel tells the truth                    *)

\* The inductive invariant.
Honestly == Inv /\ Journal(db) /\ \A p \in Panel : Careful(db, p, panel[p], atomic)

LEMMA HonestlyInitially == Init => Honestly
<1> SUFFICES ASSUME Init PROVE Honestly
  OBVIOUS
<1> DEFINE docs == [n \in No |-> NoDoc]
<1>1. Inv
  BY InvInitially
<1>2. db.doc = docs /\ db.commands = {}
  BY DEF Init
<1>3. \A n \in No : db.doc[n].status = "NONE"
  BY <1>2 DEF NoDoc
<1>4. Journal(db)
  BY <1>2, <1>3 DEF Journal
<1>5. ASSUME NEW p \in Panel PROVE Careful(db, p, panel[p], atomic)
  <2>1. panel[p] = Blank
    BY DEF Init
  <2>2. PICK v : v = Blank
    OBVIOUS
  <2>3. /\ v.form = 1 /\ v.lines = NoLines /\ v.doc = None /\ v.shown = "NONE" /\ v.keys = NoKeys
        /\ v.call = NoCall /\ v.told = "nothing"
    BY <2>2 DEF Blank
  <2>4. \A x \in DOMAIN NoKeys : v.keys[x] = None
    BY <2>3 DEF NoKeys
  <2>5. Bounds(db, p, v)
    BY <1>2, <1>3, <2>4 DEF Bounds
  <2>6. Single(db, p) /\ Where(db, p, v, atomic)
    BY <1>3 DEF Single, Where, Of
  <2>7. Mine(db, p, v) /\ Match(db, p, v) /\ Honest(db, p, v, atomic)
    BY <2>3 DEF Mine, Match, Honest
  <2> QED BY <2>1, <2>2, <2>3, <2>5, <2>6, <2>7 DEF Careful, Tracks
<1> QED BY <1>1, <1>4, <1>5 DEF Honestly

LEMMA HonestlyKept ==
  ASSUME LossForms \subseteq {"thrown"}, Honestly, [Next]_vars
  PROVE  Honestly'
<1>1. Good(db) /\ Panels /\ Inv /\ Journal(db) /\ \A p \in Panel : Sound(panel[p]) /\ Careful(db, p, panel[p], atomic)
  BY DEF Honestly, Inv, Panels
<1>2. Inv' /\ Good(db')
  BY <1>1, NextKeeps DEF Inv
<1>3. \A q : Untouched(db, db, q)
  BY DEF Untouched
<1>4. ASSUME NEW p \in Panel, Careful(db', p, panel'[p], atomic'), Alone(p), Journal(db'),
             \A q \in Panel : q # p => Untouched(db, db', q)
      PROVE  Honestly'
  <2>1. ASSUME NEW q \in Panel PROVE Careful(db', q, panel'[q], atomic')
    <3>1. CASE q = p
      BY <1>4, <3>1
    <3>2. CASE q # p
      <4>1. Untouched(db, db', q) /\ panel'[q] = panel[q] /\ atomic' = atomic
        BY <1>4, <3>2 DEF Alone
      <4>2. PICK e, v : e = db' /\ v = panel[q]
        OBVIOUS
      <4>3. Careful(e, q, v, atomic)
        BY <1>1, <1>2, <4>1, <4>2, UntouchedCareful
      <4> QED BY <4>1, <4>2, <4>3
    <3> QED BY <3>1, <3>2
  <2> QED BY <1>2, <1>4, <2>1 DEF Honestly
<1>5. ASSUME NEW p \in Panel, PanelStep(p) PROVE Honestly'
  <2>1. CASE \/ Count(p) \/ Correct(p) \/ Clear(p) \/ Renumber(p) \/ StartNext(p) \/ AccessChanges(p)
    <3>1. Careful(db', p, panel'[p], atomic') /\ Alone(p) /\ db' = db
      BY <1>1, <2>1, EnteringCareful
    <3>2. Journal(db') /\ \A q \in Panel : q # p => Untouched(db, db', q)
      BY <1>1, <1>3, <3>1
    <3> QED BY <1>4, <3>1, <3>2
  <2>2. CASE CreateDraft(p) \/ UpdateDraft(p) \/ RecaptureBook(p) \/ CompleteStocktake(p)
    <3>1. Careful(db', p, panel'[p], atomic') /\ Alone(p) /\ db' = db
      BY <1>1, <2>2, PressingCareful
    <3>2. Journal(db') /\ \A q \in Panel : q # p => Untouched(db, db', q)
      BY <1>1, <1>3, <3>1
    <3> QED BY <1>4, <3>1, <3>2
  <2>3. CASE Answered(p)
    BY <1>1, <1>4, <2>3, AnsweredCareful
  <2>4. CASE Lost(p)
    BY <1>1, <1>4, <2>4, LostCareful
  <2>5. CASE Throws(p)
    <3>1. Careful(db', p, panel'[p], atomic') /\ Alone(p) /\ db' = db
      BY <1>1, <2>5, ThrowingCareful
    <3>2. Journal(db') /\ \A q \in Panel : q # p => Untouched(db, db', q)
      BY <1>1, <1>3, <3>1
    <3> QED BY <1>4, <3>1, <3>2
  <2> QED BY <1>5, <2>1, <2>2, <2>3, <2>4, <2>5 DEF PanelStep
<1>6. ASSUME db'.doc = db.doc, db'.commands = db.commands, panel' = panel, atomic' = atomic
      PROVE  Honestly'
  <2>1. PICK e : e = db'
    OBVIOUS
  <2>2. Journal(e)
    BY <1>1, <1>6, <2>1 DEF Journal, Created
  <2>3. ASSUME NEW q \in Panel PROVE Careful(e, q, panel[q], atomic)
    <3>1. Untouched(db, e, q)
      BY <1>6, <2>1 DEF Untouched
    <3> QED BY <1>1, <1>2, <2>1, <3>1, UntouchedCareful
  <2> QED BY <1>2, <1>6, <2>1, <2>2, <2>3 DEF Honestly
<1>7. ASSUME NEW r \in Request, Submit(r) PROVE Honestly'
  <2>1. panel' = panel /\ atomic' = atomic
    BY <1>7 DEF Submit
  <2>2. db'.commands = db.commands
    <3>1. PICK row : db' = [db EXCEPT !.request[r] = "SUBMITTED", !.reservation[r] = row]
      BY <1>7 DEF Submit
    <3> QED BY <1>1, <3>1 DEF Good, Typed
  <2>3. db'.doc = db.doc
    BY <1>1, <1>7, SubmitKeeps
  <2> QED BY <1>6, <2>1, <2>2, <2>3
<1>8. ASSUME NEW i \in Item, NEW delta \in -1 .. 1, Move(i, delta) PROVE Honestly'
  <2>1. panel' = panel /\ atomic' = atomic
    BY <1>8 DEF Move
  <2>2. db'.commands = db.commands
    <3>1. PICK row : db' = [db EXCEPT !.stock[i] = row]
      BY <1>8 DEF Move
    <3> QED BY <1>1, <3>1 DEF Good, Typed
  <2>3. db'.doc = db.doc
    BY <1>1, <1>8, MoveKeeps
  <2> QED BY <1>6, <2>1, <2>2, <2>3
<1>9. CASE UNCHANGED vars
  BY <1>6, <1>9 DEF vars
<1> QED BY <1>5, <1>7, <1>8, <1>9 DEF Next

LEMMA HonestInvariance ==
  ASSUME LossForms \subseteq {"thrown"}
  PROVE  Spec => []Honestly
<1>1. Init => Honestly
  BY HonestlyInitially
<1>2. Honestly /\ [Next]_vars => Honestly'
  BY HonestlyKept
<1> QED BY <1>1, <1>2, PTL DEF Spec

LEMMA PostedOfIs ==
  \A p, form : PostedOf(p, form) = {n \in No : Of(db, p, form, n)}
BY DEF PostedOf, Of

(* For any number of panels, items, presses, lost answers, numbers typed   *)
(* and changes of account, where a lost answer is thrown and not taken for *)
(* an error: a form of the stocktake panel is posted at most once.         *)
THEOREM CountsPostOnce ==
  ASSUME LossForms \subseteq {"thrown"}
  PROVE  Spec => []OneStocktakePerForm
<1>1. Honestly => OneStocktakePerForm
  <2> SUFFICES ASSUME Honestly, NEW p \in Panel, NEW form \in 1 .. panel[p].form
               PROVE  Cardinality(PostedOf(p, form)) <= 1
    BY DEF OneStocktakePerForm
  <2>1. form \in Nat
    <3>1. panel[p].form \in Nat
      BY PanelTypes DEF Honestly, Inv, Panels
    <3> QED BY <3>1
  <2>2. Single(db, p)
    BY DEF Honestly, Careful, Tracks
  <2>3. \A n, m \in PostedOf(p, form) : n = m
    BY <2>1, <2>2, PostedOfIs DEF Single
  <2>4. CASE PostedOf(p, form) = {}
    BY <2>4, FS_EmptySet
  <2>5. CASE PostedOf(p, form) # {}
    <3>1. PICK n : PostedOf(p, form) = {n}
      BY <2>3, <2>5
    <3>2. Cardinality({n}) = 1
      BY FS_Singleton
    <3> QED BY <3>1, <3>2
  <2> QED BY <2>4, <2>5
<1> QED BY <1>1, HonestInvariance, PTL

(* Likewise: a panel that says the count is posted shows the very count    *)
(* that was posted, and where one transaction saves and posts, a panel that*)
(* says it failed, or was found stale, has posted nothing.                 *)
THEOREM CountsToldTruly ==
  ASSUME LossForms \subseteq {"thrown"}
  PROVE  Spec => []ToldTheTruth
<1>1. Honestly => ToldTheTruth
  <2> SUFFICES ASSUME Honestly, NEW p \in Panel, NEW v, v = panel[p]
               PROVE  /\ v.told = "done" => /\ v.doc \in PostedOf(p, v.form)
                                            /\ \A i \in Item :
                                                 LET l == db.doc[v.doc].lines[i]
                                                 IN  IF v.lines[i] = None THEN l = None
                                                     ELSE l # None /\ l.counted = v.lines[i].counted
                      /\ v.told \in {"failed", "stale"} /\ atomic => PostedOf(p, v.form) = {}
    BY DEF ToldTheTruth
  <2>1. Honest(db, p, v, atomic) /\ Match(db, p, v)
    BY DEF Honestly, Careful, Tracks
  <2>2. Sound(v)
    BY DEF Honestly, Inv, Panels
  <2>3. ASSUME v.told = "done"
        PROVE  /\ v.doc \in PostedOf(p, v.form)
               /\ \A i \in Item : /\ v.lines[i] = None <=> db.doc[v.doc].lines[i] = None
                                  /\ v.lines[i] # None => db.doc[v.doc].lines[i].counted = v.lines[i].counted
    <3>1. /\ Of(db, p, v.form, v.doc)
          /\ \A i \in Item : v.lines[i] # None => db.doc[v.doc].lines[i].counted = v.lines[i].counted
      BY <2>1, <2>3 DEF Honest
    <3>2. v.doc \in No /\ v.doc # None
      BY <3>1, StocktakeConstants DEF Of
    <3> QED BY <2>1, <3>1, <3>2, PostedOfIs DEF Match
  <2>4. ASSUME v.told \in {"failed", "stale"}, atomic PROVE PostedOf(p, v.form) = {}
    BY <2>1, <2>4, PostedOfIs DEF Honest, Nothing
  <2> QED BY <2>3, <2>4
<1> QED BY <1>1, HonestInvariance, PTL

(* Likewise: a count that is saved is never changed.  No update of a draft *)
(* and no recapture ever succeeds, as the guard on stocktake_lines keeps   *)
(* the lines that the new ones would replace.                              *)
THEOREM SavedCountsStay ==
  ASSUME LossForms \subseteq {"thrown"}
  PROVE  Spec => [](\A c \in db.commands : c.op # "UPDATE")
<1>1. Honestly => \A c \in db.commands : c.op # "UPDATE"
  BY DEF Honestly, Journal
<1> QED BY <1>1, HonestInvariance, PTL
=============================================================================
