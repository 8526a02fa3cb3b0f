-------------------------- MODULE HrSubmissionProofs --------------------------
(***************************************************************************)
(* Theorems about HrSubmission, for any contents and any number of forms   *)
(* and keys.                                                               *)
(***************************************************************************)
EXTENDS HrSubmission, FiniteSetTheorems, TLAPS

-----------------------------------------------------------------------------
(* The tables                                                              *)

Row == [status : Statuses, content : Contents, form : 1 .. MaxForms]

Command(op, key, print, r) == [op |-> op, key |-> key, fingerprint |-> print, request |-> r]

\* TypeOK of the tables.
Typed(rs, cs) == rs \in Seq(Row) /\ \A c \in cs : c.request \in 1 .. Len(rs)

\* The tables after a transaction: rows keep their forms, and are never lost.
Grown(rs, rs2) == Len(rs) <= Len(rs2) /\ \A r \in 1 .. Len(rs) : rs2[r].form = rs[r].form

Unused(cs, op, key) == \A c \in cs : ~(c.op = op /\ c.key = key)

UsedFor(cs, op, key, print, r) ==
  /\ ~Unused(cs, op, key)
  /\ \A c \in cs : c.op = op /\ c.key = key => c.fingerprint = print /\ c.request = r

LEMMA RowIs ==
  ASSUME NEW rs \in Seq(Row), NEW r \in 1 .. Len(rs)
  PROVE  /\ rs[r] \in Row /\ rs[r].status \in Statuses /\ rs[r].content \in Contents
         /\ rs[r].form \in 1 .. MaxForms
<1>1. rs[r] \in Row
  OBVIOUS
<1> QED BY <1>1 DEF Row

LEMMA AppendIs ==
  ASSUME NEW rs \in Seq(Row), NEW row \in Row, NEW t, t = Append(rs, row)
  PROVE  /\ t \in Seq(Row) /\ Len(t) = Len(rs) + 1 /\ Len(rs) \in Nat
         /\ t[Len(rs) + 1] = row /\ \A r \in 1 .. Len(rs) : t[r] = rs[r]
OBVIOUS

LEMMA ChangeIs ==
  ASSUME NEW rs \in Seq(Row), NEW r \in 1 .. Len(rs), NEW row \in Row, NEW t, t = [rs EXCEPT ![r] = row]
  PROVE  /\ t \in Seq(Row) /\ Len(t) = Len(rs) /\ Len(rs) \in Nat
         /\ t[r] = row /\ \A q \in 1 .. Len(rs) : q # r => t[q] = rs[q]
OBVIOUS

LEMMA CommandIs ==
  ASSUME NEW op, NEW key, NEW print, NEW r, NEW c, c = Command(op, key, print, r)
  PROVE  c.op = op /\ c.key = key /\ c.fingerprint = print /\ c.request = r
BY DEF Command

LEMMA OutcomeIs ==
  ASSUME NEW db, NEW r, NEW error
  PROVE  /\ Done(db, r).db = db /\ Done(db, r).error = "none" /\ Done(db, r).request = r
         /\ Failed(db, error).db = db /\ Failed(db, error).error = error /\ Failed(db, error).request = None
BY DEF Done, Failed

LEMMA DbIs ==
  ASSUME NEW rs, NEW cs
  PROVE  Db(rs, cs).requests = rs /\ Db(rs, cs).commands = cs
BY DEF Db

\* A command that is new is the only one of its key.
LEMMA Remembered ==
  ASSUME NEW cs, NEW op, NEW key, Unused(cs, op, key), NEW print, NEW r,
         NEW cs2, cs2 = cs \cup {Command(op, key, print, r)}
  PROVE  UsedFor(cs2, op, key, print, r)
<1> DEFINE c == Command(op, key, print, r)
<1>1. c.op = op /\ c.key = key /\ c.fingerprint = print /\ c.request = r
  BY CommandIs
<1>2. cs2 = cs \cup {c}
  OBVIOUS
<1> HIDE DEF c
<1> QED BY <1>1, <1>2 DEF Unused, UsedFor

\* It is none of another operation.
LEMMA OthersStay ==
  ASSUME NEW cs, NEW op, NEW key, NEW print, NEW r, NEW cs2, cs2 = cs \cup {Command(op, key, print, r)},
         NEW op2, op2 # op
  PROVE  \A key2 :
           /\ Unused(cs, op2, key2) => Unused(cs2, op2, key2)
           /\ \A print2, r2 : UsedFor(cs, op2, key2, print2, r2) => UsedFor(cs2, op2, key2, print2, r2)
<1> DEFINE c == Command(op, key, print, r)
<1>1. c.op = op
  BY CommandIs
<1>2. cs2 = cs \cup {c}
  OBVIOUS
<1> HIDE DEF c
<1>3. \A key2 : Unused(cs, op2, key2) <=> Unused(cs2, op2, key2)
  BY <1>1, <1>2 DEF Unused
<1> QED BY <1>1, <1>2, <1>3 DEF UsedFor

-----------------------------------------------------------------------------
(* The transactions                                                        *)

\* What Once may answer: refused; done now; done before; or a key reused.
LEMMA OnceIs ==
  ASSUME NEW rs, NEW cs, NEW op, NEW key, NEW print, NEW fresh,
         NEW o \in Once(Db(rs, cs), op, key, print, fresh)
  PROVE  \/ o.error = "refused" /\ o.db = Db(rs, cs) /\ Unused(cs, op, key)
         \/ /\ o.error = "none" /\ Unused(cs, op, key)
            /\ \E g \in fresh : /\ o.db = Db(g.requests, cs \cup {Command(op, key, print, g.request)})
                                /\ o.request = g.request
         \/ /\ o.error = "none" /\ o.db = Db(rs, cs)
            /\ \E c \in cs : c.op = op /\ c.key = key /\ c.fingerprint = print /\ o.request = c.request
         \/ /\ o.error = "conflict" /\ o.db = Db(rs, cs)
            /\ \E c \in cs : c.op = op /\ c.key = key /\ c.fingerprint # print
<1> DEFINE db == Db(rs, cs)
           prior == {c \in cs : c.op = op /\ c.key = key}
<1>1. db.requests = rs /\ db.commands = cs
  BY DbIs
<1>2. CASE prior = {}
  <2>1. Unused(cs, op, key)
    BY <1>2 DEF Unused
  <2>2. o \in {Failed(db, "refused")}
             \cup {Done(Db(g.requests, cs \cup {Command(op, key, print, g.request)}), g.request) : g \in fresh}
    BY <1>1, <1>2 DEF Once, Command
  <2>3. CASE o = Failed(db, "refused")
    BY <2>1, <2>3, OutcomeIs
  <2>4. ASSUME NEW g \in fresh,
               o = Done(Db(g.requests, cs \cup {Command(op, key, print, g.request)}), g.request)
        PROVE  /\ o.error = "none" /\ o.request = g.request
               /\ o.db = Db(g.requests, cs \cup {Command(op, key, print, g.request)})
    BY <2>4, OutcomeIs
  <2> HIDE DEF db
  <2> QED BY <2>1, <2>2, <2>3, <2>4
<1>3. CASE prior # {}
  <2>1. o \in {IF c.fingerprint = print THEN Done(db, c.request) ELSE Failed(db, "conflict") : c \in prior}
    BY <1>1, <1>3 DEF Once
  <2>2. PICK c \in cs : /\ c.op = op /\ c.key = key
                        /\ o = IF c.fingerprint = print THEN Done(db, c.request) ELSE Failed(db, "conflict")
    BY <2>1
  <2>3. CASE c.fingerprint = print
    BY <2>2, <2>3, OutcomeIs
  <2>4. CASE c.fingerprint # print
    BY <2>2, <2>4, OutcomeIs
  <2> QED BY <2>3, <2>4
<1> QED BY <1>2, <1>3

\* What a transaction does to the tables, whatever it answers.
Result(rs, cs, o) ==
  /\ o.db = Db(o.db.requests, o.db.commands)
  /\ Typed(o.db.requests, o.db.commands) /\ Grown(rs, o.db.requests)
  /\ o.error \in {"none", "refused", "conflict"}
  /\ o.error = "none" => o.request \in 1 .. Len(o.db.requests)
  /\ o.error # "none" => o.db = Db(rs, cs)

LEMMA NothingDone ==
  ASSUME NEW rs, NEW cs, Typed(rs, cs), NEW o, o.db = Db(rs, cs),
         o.error \in {"none", "refused", "conflict"},
         o.error = "none" => o.request \in 1 .. Len(rs)
  PROVE  Result(rs, cs, o)
<1>1. o.db.requests = rs /\ o.db.commands = cs
  BY DbIs
<1>2. Grown(rs, rs)
  <2>1. Len(rs) \in Nat
    BY DEF Typed
  <2> QED BY <2>1 DEF Grown
<1> QED BY <1>1, <1>2 DEF Result

LEMMA OnceResult ==
  ASSUME NEW rs, NEW cs, Typed(rs, cs), NEW op, NEW key, NEW print, NEW fresh,
         \A g \in fresh : g.requests \in Seq(Row) /\ Grown(rs, g.requests) /\ g.request \in 1 .. Len(g.requests),
         NEW o \in Once(Db(rs, cs), op, key, print, fresh)
  PROVE  Result(rs, cs, o)
<1>1. CASE o.error = "refused" /\ o.db = Db(rs, cs)
  BY <1>1, NothingDone
<1>2. CASE /\ o.error = "none"
           /\ \E g \in fresh : /\ o.db = Db(g.requests, cs \cup {Command(op, key, print, g.request)})
                               /\ o.request = g.request
  <2>1. PICK rs2, cs2, r : /\ o.db = Db(rs2, cs2) /\ o.request = r
                           /\ cs2 = cs \cup {Command(op, key, print, r)}
                           /\ rs2 \in Seq(Row) /\ Grown(rs, rs2) /\ r \in 1 .. Len(rs2)
    BY <1>2
  <2>2. o.db.requests = rs2 /\ o.db.commands = cs2
    BY <2>1, DbIs
  <2>3. \A c \in cs2 : c.request \in 1 .. Len(rs2)
    <3>1. Command(op, key, print, r).request = r
      BY CommandIs
    <3>2. \A c \in cs : c.request \in 1 .. Len(rs2)
      <4>1. Len(rs) \in Nat /\ Len(rs2) \in Nat /\ Len(rs) <= Len(rs2)
        BY <2>1 DEF Typed, Grown
      <4> QED BY <4>1 DEF Typed
    <3> QED BY <2>1, <3>1, <3>2
  <2> QED BY <1>2, <2>1, <2>2, <2>3 DEF Result, Typed
<1>3. CASE /\ o.error = "none" /\ o.db = Db(rs, cs)
           /\ \E c \in cs : c.op = op /\ c.key = key /\ c.fingerprint = print /\ o.request = c.request
  <2>1. o.request \in 1 .. Len(rs)
    BY <1>3 DEF Typed
  <2> QED BY <1>3, <2>1, NothingDone
<1>4. CASE o.error = "conflict" /\ o.db = Db(rs, cs)
  BY <1>4, NothingDone
<1> QED BY <1>1, <1>2, <1>3, <1>4, OnceIs

\* What the RPCs find to do: nothing, or one row more, or one row changed.
LEMMA InStatusIs ==
  ASSUME NEW rs, NEW cs, NEW r, NEW statuses, NEW row,
         NEW g \in InStatus(Db(rs, cs), r, statuses, row)
  PROVE  rs[r].status \in statuses /\ g.requests = [rs EXCEPT ![r] = row] /\ g.request = r
BY DbIs DEF InStatus

LEMMA ChangeResult ==
  ASSUME NEW rs, NEW cs, Typed(rs, cs), NEW r \in 1 .. Len(rs), NEW row \in Row, row.form = rs[r].form,
         NEW statuses, NEW op, NEW key, NEW print,
         NEW o \in Once(Db(rs, cs), op, key, print, InStatus(Db(rs, cs), r, statuses, row))
  PROVE  Result(rs, cs, o)
<1>1. \A g \in InStatus(Db(rs, cs), r, statuses, row) :
        g.requests \in Seq(Row) /\ Grown(rs, g.requests) /\ g.request \in 1 .. Len(g.requests)
  <2> SUFFICES ASSUME NEW g \in InStatus(Db(rs, cs), r, statuses, row)
               PROVE  g.requests \in Seq(Row) /\ Grown(rs, g.requests) /\ g.request \in 1 .. Len(g.requests)
    OBVIOUS
  <2>0. PICK t : t = g.requests
    OBVIOUS
  <2>1. t = [rs EXCEPT ![r] = row] /\ g.request = r
    BY <2>0, InStatusIs
  <2>2. /\ t \in Seq(Row) /\ Len(t) = Len(rs) /\ Len(rs) \in Nat
        /\ t[r] = row /\ \A q \in 1 .. Len(rs) : q # r => t[q] = rs[q]
    BY <2>1, ChangeIs DEF Typed
  <2>3. Grown(rs, t)
    BY <2>2 DEF Grown
  <2> QED BY <2>0, <2>1, <2>2, <2>3
<1> QED BY <1>1, OnceResult

\* An input: what Press and GiveUp keep of a press.
IsInput(i, rs) == i.content \in Contents /\ i.requestId \in 0 .. Len(rs)

LEMMA CreateResult ==
  ASSUME NEW rs, NEW cs, Typed(rs, cs), form \in 1 .. MaxForms, NEW i, i.content \in Contents,
         NEW o \in CreateDraft(Db(rs, cs), i)
  PROVE  Result(rs, cs, o)
<1> DEFINE row == [status |-> "DRAFT", content |-> i.content, form |-> form]
           t == Append(rs, row)
           g == [requests |-> t, request |-> Len(rs) + 1]
<1>1. row \in Row /\ row.form = form
  BY DEF Row, Statuses
<1>2. o \in Once(Db(rs, cs), "create", i.create, <<i.content>>, {g})
  BY DbIs DEF CreateDraft
<1> HIDE DEF row
<1>3. /\ t \in Seq(Row) /\ Len(t) = Len(rs) + 1 /\ Len(rs) \in Nat
      /\ \A r \in 1 .. Len(rs) : t[r] = rs[r]
  BY <1>1, AppendIs DEF Typed
<1> HIDE DEF t
<1>4. g.requests = t /\ g.request = Len(rs) + 1
  OBVIOUS
<1>5. Grown(rs, t) /\ Len(rs) + 1 \in 1 .. Len(t)
  BY <1>3 DEF Grown
<1> HIDE DEF g
<1>6. \A h \in {g} : h.requests \in Seq(Row) /\ Grown(rs, h.requests) /\ h.request \in 1 .. Len(h.requests)
  BY <1>3, <1>4, <1>5
<1> QED BY <1>2, <1>6, OnceResult

LEMMA UpdateResult ==
  ASSUME NEW rs, NEW cs, Typed(rs, cs), NEW i, i.content \in Contents, i.requestId \in 1 .. Len(rs),
         NEW o \in UpdateDraft(Db(rs, cs), i)
  PROVE  Result(rs, cs, o)
<1>1. PICK r \in 1 .. Len(rs) : r = i.requestId
  OBVIOUS
<1>2. PICK txt \in Contents : txt = i.content
  OBVIOUS
<1>3. PICK row : row = [rs[r] EXCEPT !.content = txt]
  OBVIOUS
<1>4. row \in Row /\ row.form = rs[r].form
  <2>1. rs[r] \in Row
    BY RowIs DEF Typed
  <2> QED BY <1>3, <2>1 DEF Row
<1>5. o \in Once(Db(rs, cs), "update", i.update, <<r, txt>>, InStatus(Db(rs, cs), r, {"DRAFT"}, row))
  BY <1>1, <1>2, <1>3, DbIs DEF UpdateDraft
<1> QED BY <1>4, <1>5, ChangeResult

LEMMA SaveResult ==
  ASSUME NEW rs, NEW cs, Typed(rs, cs), form \in 1 .. MaxForms, NEW i, IsInput(i, rs),
         NEW o \in SaveDraft(Db(rs, cs), i)
  PROVE  Result(rs, cs, o)
<1>1. CASE i.requestId = None
  <2>1. o \in CreateDraft(Db(rs, cs), i)
    BY <1>1 DEF SaveDraft
  <2> QED BY <2>1, CreateResult DEF IsInput
<1>2. CASE i.requestId # None
  <2>1. o \in UpdateDraft(Db(rs, cs), i)
    BY <1>2 DEF SaveDraft
  <2>2. i.requestId \in 1 .. Len(rs)
    <3>1. Len(rs) \in Nat
      BY DEF Typed
    <3> QED BY <1>2, <3>1 DEF IsInput, None
  <2> QED BY <2>1, <2>2, UpdateResult DEF IsInput
<1> QED BY <1>1, <1>2

LEMMA StatusChange ==
  ASSUME NEW rs \in Seq(Row), NEW r \in 1 .. Len(rs), NEW status \in Statuses,
         NEW row, row = [rs[r] EXCEPT !.status = status]
  PROVE  row \in Row /\ row.form = rs[r].form /\ row.content = rs[r].content /\ row.status = status
<1>1. rs[r] \in Row
  BY RowIs
<1> QED BY <1>1 DEF Row

LEMMA SubmitResult ==
  ASSUME NEW rs, NEW cs, Typed(rs, cs), NEW r \in 1 .. Len(rs), NEW i, NEW print,
         NEW o \in Submit(Db(rs, cs), r, i, print)
  PROVE  Result(rs, cs, o)
<1>1. PICK row : row = [rs[r] EXCEPT !.status = "SUBMITTED"]
  OBVIOUS
<1>2. row \in Row /\ row.form = rs[r].form
  BY <1>1, StatusChange DEF Typed, Statuses
<1>3. o \in Once(Db(rs, cs), "submit", i.submit, print, InStatus(Db(rs, cs), r, {"DRAFT"}, row))
  BY <1>1, DbIs DEF Submit
<1> QED BY <1>2, <1>3, ChangeResult

LEMMA WithLinesIs ==
  ASSUME NEW db, NEW i, NEW o \in SubmitWithLines(db, i)
  PROVE  \E d \in SaveDraft(db, i) :
           \/ d.error # "none" /\ o = d
           \/ /\ d.error = "none"
              /\ \E s \in Submit(d.db, d.request, i, <<i.requestId, i.content>>) :
                   o = IF s.error = "none" THEN s ELSE Failed(db, s.error)
BY DEF SubmitWithLines

LEMMA GrownTwice ==
  ASSUME NEW rs, NEW rs2, NEW rs3, Grown(rs, rs2), Grown(rs2, rs3),
         Len(rs) \in Nat, Len(rs2) \in Nat, Len(rs3) \in Nat
  PROVE  Grown(rs, rs3)
BY DEF Grown

LEMMA WithLinesResult ==
  ASSUME NEW rs, NEW cs, Typed(rs, cs), form \in 1 .. MaxForms, NEW i, IsInput(i, rs),
         NEW o \in SubmitWithLines(Db(rs, cs), i)
  PROVE  Result(rs, cs, o)
<1>1. PICK d \in SaveDraft(Db(rs, cs), i) :
           \/ d.error # "none" /\ o = d
           \/ /\ d.error = "none"
              /\ \E s \in Submit(d.db, d.request, i, <<i.requestId, i.content>>) :
                   o = IF s.error = "none" THEN s ELSE Failed(Db(rs, cs), s.error)
  BY WithLinesIs
<1>2. Result(rs, cs, d)
  BY SaveResult
<1>3. CASE d.error # "none"
  BY <1>1, <1>2, <1>3
<1>4. CASE d.error = "none"
  <2>1. PICK rs2, cs2 : d.db = Db(rs2, cs2) /\ Typed(rs2, cs2) /\ Grown(rs, rs2) /\ d.request \in 1 .. Len(rs2)
    BY <1>2, <1>4 DEF Result
  <2>2. PICK s \in Submit(Db(rs2, cs2), d.request, i, <<i.requestId, i.content>>) :
          o = IF s.error = "none" THEN s ELSE Failed(Db(rs, cs), s.error)
    BY <1>1, <1>4, <2>1
  <2>3. Result(rs2, cs2, s)
    BY <2>1, SubmitResult
  <2>4. CASE s.error = "none"
    <3>1. o = s
      BY <2>2, <2>4
    <3>2. Grown(rs, s.db.requests)
      <4>1. Len(rs) \in Nat /\ Len(rs2) \in Nat /\ Len(s.db.requests) \in Nat
        BY <2>1, <2>3 DEF Typed, Result
      <4> QED BY <2>1, <2>3, <4>1, GrownTwice DEF Result
    <3> QED BY <2>3, <2>4, <3>1, <3>2 DEF Result
  <2>5. CASE s.error # "none"
    <3>1. o = Failed(Db(rs, cs), s.error) /\ s.error \in {"none", "refused", "conflict"}
      BY <2>2, <2>3, <2>5 DEF Result
    <3>2. o.error = s.error /\ o.db = Db(rs, cs)
      BY <3>1, OutcomeIs
    <3> QED BY <2>5, <3>1, <3>2, NothingDone
  <2> QED BY <2>4, <2>5
<1> QED BY <1>3, <1>4

\* Any RPC that is under way.
Sending == call.stage \in {"atomic", "draft", "submit"}

LEMMA OutcomeResult ==
  ASSUME NEW rs, NEW cs, Typed(rs, cs), form \in 1 .. MaxForms,
         call.stage \in {"atomic", "draft", "submit", "cancel"},
         Sending => IsInput(call.input, rs),
         call.stage \in {"submit", "cancel"} => call.draft \in 1 .. Len(rs),
         NEW o \in Outcomes(Db(rs, cs))
  PROVE  Result(rs, cs, o)
<1>1. CASE call.stage = "atomic"
  <2>1. o \in SubmitWithLines(Db(rs, cs), call.input)
    BY <1>1 DEF Outcomes
  <2> QED BY <1>1, <2>1, WithLinesResult DEF Sending
<1>2. CASE call.stage = "draft"
  <2>1. o \in SaveDraft(Db(rs, cs), call.input)
    BY <1>2 DEF Outcomes
  <2> QED BY <1>2, <2>1, SaveResult DEF Sending
<1>3. CASE call.stage = "submit"
  <2>1. o \in Submit(Db(rs, cs), call.draft, call.input, <<call.draft, call.input.content>>)
    BY <1>3 DEF Outcomes
  <2> QED BY <1>3, <2>1, SubmitResult
<1>4. CASE call.stage = "cancel"
  <2>1. PICK r \in 1 .. Len(rs) : r = call.draft
    BY <1>4
  <2>2. PICK row : row = [rs[r] EXCEPT !.status = "CANCELLED"]
    OBVIOUS
  <2>3. row \in Row /\ row.form = rs[r].form
    BY <2>2, StatusChange DEF Typed, Statuses
  <2>4. o \in Once(Db(rs, cs), "cancel", form, <<r>>,
                   InStatus(Db(rs, cs), r, {"DRAFT", "SUBMITTED"}, row))
    BY <1>4, <2>1, <2>2, DbIs DEF Outcomes
  <2> QED BY <2>3, <2>4, ChangeResult
<1> QED BY <1>1, <1>2, <1>3, <1>4

-----------------------------------------------------------------------------
(* Types of the browser                                                    *)

Outcome == {"none", "success", "failed", "conflict", "unknown"}

OperationTyped(op, n) == op \in [create : Keys, update : Keys, submit : Keys, draftId : 0 .. n]

\* The input of a press, of a request among the first n, if of any.
InputTyped(i, n) == i \in Input /\ i.content \in Contents /\ i.requestId \in 0 .. n

RecoveryTyped(i, n) == i \in Input /\ (i # NoInput => InputTyped(i, n))

CallTyped(c, n) ==
  /\ c \in [stage : {"none", "atomic", "draft", "submit", "cancel"}, input : Input, draft : 0 .. n]
  /\ c.stage = "none" => c = NoCall
  /\ c.stage \in {"atomic", "draft", "submit"} => InputTyped(c.input, n)
  /\ c.stage \in {"submit", "cancel"} => c.draft \in 1 .. n

\* The invariant of the types: after the last form nothing happens.
TypeInv ==
  /\ Typed(requests, commands) /\ keys \in Keys
  /\ form \in 1 .. (MaxForms + 1) /\ content \in Contents \cup {None}
  /\ OperationTyped(operation, Len(requests)) /\ entry \in 0 .. Len(requests)
  /\ RecoveryTyped(recovery, Len(requests)) /\ CallTyped(call, Len(requests))
  /\ told.outcome \in Outcome
  /\ form <= MaxForms \/ (Idle /\ ~Recovering /\ entry = None)

LEMMA Constants == MaxForms \in Nat /\ MaxKeys \in Nat /\ 0 \in Keys /\ None \notin Contents /\ None = 0
BY SubmissionConstants DEF Keys, None

LEMMA NothingTyped ==
  ASSUME NEW n \in Nat
  PROVE  /\ OperationTyped(NoOperation, n) /\ NoInput \in Input /\ RecoveryTyped(NoInput, n)
         /\ CallTyped(NoCall, n) /\ NoCall.stage = "none" /\ NoCall.draft = None /\ NoCall.input = NoInput
<1>1. NoInput \in Input
  BY Constants DEF NoInput, Input
<1> QED BY <1>1, Constants DEF OperationTyped, NoOperation, RecoveryTyped, CallTyped, NoCall

LEMMA TypedGrows ==
  ASSUME NEW n \in Nat, NEW m \in Nat, n <= m
  PROVE  /\ \A op : OperationTyped(op, n) => OperationTyped(op, m)
         /\ \A i : RecoveryTyped(i, n) => RecoveryTyped(i, m)
         /\ \A i : InputTyped(i, n) => InputTyped(i, m)
         /\ \A c : CallTyped(c, n) => CallTyped(c, m)
         /\ \A r : r \in 0 .. n => r \in 0 .. m
<1>1. 0 .. n \subseteq 0 .. m /\ 1 .. n \subseteq 1 .. m
  OBVIOUS
<1>2. \A i : InputTyped(i, n) => InputTyped(i, m)
  BY <1>1 DEF InputTyped
<1>3. \A op : OperationTyped(op, n) => OperationTyped(op, m)
  BY <1>1 DEF OperationTyped
<1>4. \A i : RecoveryTyped(i, n) => RecoveryTyped(i, m)
  BY <1>2 DEF RecoveryTyped
<1>5. \A c : CallTyped(c, n) => CallTyped(c, m)
  <2> SUFFICES ASSUME NEW c, CallTyped(c, n) PROVE CallTyped(c, m)
    OBVIOUS
  <2>1. c \in [stage : {"none", "atomic", "draft", "submit", "cancel"}, input : Input, draft : 0 .. m]
    BY <1>1 DEF CallTyped
  <2> QED BY <1>1, <1>2, <2>1 DEF CallTyped
<1> QED BY <1>1, <1>2, <1>3, <1>4, <1>5

LEMMA TypeInitially == Init => TypeInv
<1> SUFFICES ASSUME Init PROVE TypeInv
  OBVIOUS
<1>1. Typed(requests, commands) /\ Len(requests) = 0
  BY DEF Init, Typed
<1>2. told.outcome \in Outcome
  BY DEF Init, NothingTold, Outcome
<1>3. /\ form \in 1 .. (MaxForms + 1) /\ content = None /\ entry = 0 /\ keys = 0
      /\ operation = NoOperation /\ recovery = NoInput /\ call = NoCall
  BY Constants DEF Init
<1>4. OperationTyped(NoOperation, 0) /\ RecoveryTyped(NoInput, 0) /\ CallTyped(NoCall, 0)
  BY NothingTyped
<1> QED BY <1>1, <1>2, <1>3, <1>4, Constants DEF TypeInv, Idle, Recovering

\* The tables as they are after an answer, or without one.
Served ==
  /\ Typed(requests', commands') /\ Grown(requests, requests')
  /\ Len(requests) \in Nat /\ Len(requests') \in Nat /\ Len(requests) <= Len(requests')
  /\ keys' = keys

\* GiveUp, when e is what is then known to be a draft.
GaveUp(r, e, outcome) ==
  /\ recovery' = IF outcome = "unknown" THEN call.input ELSE NoInput
  /\ operation' = IF r = None THEN operation ELSE [operation EXCEPT !.draftId = r]
  /\ entry' = e
  /\ Tell(outcome) /\ call' = NoCall
  /\ UNCHANGED <<form, content>>

LEMMA GaveUpType ==
  ASSUME TypeInv, Sending, Served, NEW r \in 0 .. Len(requests'), NEW e \in {r, entry},
         NEW outcome \in Outcome, GaveUp(r, e, outcome)
  PROVE  TypeInv'
<1> DEFINE n == Len(requests')
<1>1. /\ OperationTyped(operation, n) /\ entry \in 0 .. n /\ RecoveryTyped(recovery, n) /\ InputTyped(call.input, n)
      /\ n \in Nat /\ form \in 1 .. MaxForms
  <2>1. InputTyped(call.input, Len(requests))
    BY DEF TypeInv, CallTyped, Sending
  <2>2. form \in 1 .. MaxForms
    <3>1. ~Idle
      BY NothingTyped DEF Idle, Sending
    <3> QED BY <3>1, Constants DEF TypeInv
  <2> QED BY <2>1, <2>2, TypedGrows DEF TypeInv, Served
<1> HIDE DEF n
<1>2. RecoveryTyped(recovery', n)
  <2>1. recovery' = call.input \/ recovery' = NoInput
    BY DEF GaveUp
  <2>2. RecoveryTyped(call.input, n)
    BY <1>1 DEF RecoveryTyped, InputTyped
  <2> QED BY <1>1, <2>1, <2>2, NothingTyped
<1>3. OperationTyped(operation', n)
  <2>1. operation' = operation \/ operation' = [operation EXCEPT !.draftId = r]
    BY DEF GaveUp
  <2>2. r \in 0 .. n
    BY DEF n
  <2> QED BY <1>1, <2>1, <2>2 DEF OperationTyped
<1>4. entry' \in 0 .. n /\ call' = NoCall /\ form' = form /\ content' = content
  BY <1>1 DEF GaveUp, n
<1>5. told'.outcome \in Outcome
  <2>1. told' = [outcome |-> outcome, form |-> form, content |-> call.input.content]
    BY DEF GaveUp, Tell
  <2>2. told'.outcome = outcome
    BY <2>1
  <2> QED BY <2>2
<1>6. CallTyped(call', n)
  BY <1>1, <1>4, NothingTyped
<1> QED BY <1>1, <1>2, <1>3, <1>4, <1>5, <1>6 DEF TypeInv, Served, n

LEMMA ResetType ==
  ASSUME TypeInv, ~Idle, Served, ResetForm, call' = NoCall, told'.outcome \in Outcome
  PROVE  TypeInv'
<1>1. form \in 1 .. MaxForms
  BY Constants DEF TypeInv
<1>2. form' \in 1 .. (MaxForms + 1)
  BY <1>1, Constants DEF ResetForm
<1>3. Len(requests') \in Nat /\ 0 \in 0 .. Len(requests') /\ keys' \in Keys
  BY DEF Served, TypeInv
<1> QED BY <1>2, <1>3, Constants, NothingTyped DEF TypeInv, Served, ResetForm, Idle, Recovering

\* Nothing is served: the tables stay.
LEMMA Unserved ==
  ASSUME TypeInv, UNCHANGED <<server, keys>>
  PROVE  Served
<1>1. Len(requests) \in Nat
  BY DEF TypeInv, Typed
<1> QED BY <1>1 DEF TypeInv, Served, Grown, server

LEMMA Performed ==
  ASSUME TypeInv, ~Idle, NEW o \in Outcomes(Db(requests, commands)), PerformedBy(o), keys' = keys
  PROVE  /\ Served /\ Result(requests, commands, o)
         /\ o.error = "none" => o.request \in 1 .. Len(requests')
<1>1. /\ Typed(requests, commands) /\ form \in 1 .. MaxForms
      /\ call.stage \in {"atomic", "draft", "submit", "cancel"}
      /\ Sending => IsInput(call.input, requests)
      /\ call.stage \in {"submit", "cancel"} => call.draft \in 1 .. Len(requests)
  <2>1. CallTyped(call, Len(requests))
    BY DEF TypeInv
  <2>2. form \in 1 .. MaxForms
    BY Constants DEF TypeInv
  <2> QED BY <2>1, <2>2 DEF TypeInv, CallTyped, Idle, Sending, InputTyped, IsInput
<1>2. Result(requests, commands, o)
  BY <1>1, OutcomeResult
<1>3. requests' = o.db.requests /\ commands' = o.db.commands
  BY DEF PerformedBy
<1>4. Typed(requests', commands') /\ Grown(requests, requests')
  BY <1>2, <1>3 DEF Result
<1>5. Len(requests) \in Nat /\ Len(requests') \in Nat
  BY <1>4 DEF TypeInv, Typed
<1>6. Served
  BY <1>4, <1>5 DEF Served, Grown
<1> QED BY <1>2, <1>3, <1>6 DEF Result

LEMMA GiveUpIs ==
  ASSUME NEW r, NEW outcome
  PROVE  /\ GiveUp(r, TRUE, outcome) => GaveUp(r, r, outcome)
         /\ GiveUp(r, FALSE, outcome) => GaveUp(r, entry, outcome)
         /\ \A status : GiveUp(r, status = "DRAFT", outcome) =>
              IF status = "DRAFT" THEN GaveUp(r, r, outcome) ELSE GaveUp(r, entry, outcome)
BY DEF GiveUp, GaveUp

\* The draft is saved, and the older sequence goes on to its submission.
GoesOn(r) ==
  /\ call' = [call EXCEPT !.stage = "submit", !.draft = r]
  /\ UNCHANGED <<form, content, operation, entry, recovery, told>>

\* What the browser makes of an answer, stage by stage.
LEMMA AnsweredCases ==
  ASSUME NEW o, Answered(o), call.stage \in {"atomic", "draft", "submit", "cancel"},
         NEW status,
         status = IF o.error = "none" THEN o.db.requests[o.request].status ELSE "NONE"
  PROVE  \/ /\ call.stage \in {"atomic", "draft"} /\ o.error # "none"
            /\ GaveUp(None, entry, Refusal(o.error))
         \/ /\ Sending /\ o.error = "none" /\ status = "SUBMITTED" /\ Succeed
         \/ /\ call.stage = "atomic" /\ o.error = "none" /\ status # "SUBMITTED"
            /\ IF status = "DRAFT" THEN GaveUp(o.request, o.request, "unknown")
                                   ELSE GaveUp(o.request, entry, "unknown")
         \/ /\ call.stage = "draft" /\ o.error = "none" /\ status = "DRAFT"
            /\ GoesOn(o.request)
         \/ /\ call.stage = "draft" /\ o.error = "none" /\ status \notin {"SUBMITTED", "DRAFT"}
            /\ GaveUp(o.request, entry, "unknown")
         \/ /\ call.stage = "submit" /\ o.error # "none"
            /\ GaveUp(call.draft, call.draft, Refusal(o.error))
         \/ /\ call.stage = "submit" /\ o.error = "none" /\ status # "SUBMITTED"
            /\ GaveUp(call.draft, call.draft, "unknown")
         \/ /\ call.stage = "cancel" /\ call' = NoCall /\ UNCHANGED told
            /\ ResetForm \/ UNCHANGED <<form, content, operation, entry, recovery>>
<1>0. o.error # "none" => status = "NONE"
  OBVIOUS
<1>1. CASE call.stage = "atomic"
  <2>1. AnsweredAtomic(o, status)
    BY <1>1 DEF Answered
  <2>2. CASE o.error # "none"
    <3>1. GiveUp(None, FALSE, Refusal(o.error))
      BY <2>1, <2>2, <1>0 DEF AnsweredAtomic
    <3> QED BY <1>1, <2>2, <3>1, GiveUpIs
  <2>3. CASE o.error = "none" /\ status = "SUBMITTED"
    BY <1>1, <2>1, <2>3 DEF AnsweredAtomic, Sending
  <2>4. CASE o.error = "none" /\ status # "SUBMITTED"
    <3>1. GiveUp(o.request, status = "DRAFT", "unknown")
      BY <2>1, <2>4 DEF AnsweredAtomic
    <3>2. IF status = "DRAFT" THEN GaveUp(o.request, o.request, "unknown")
                              ELSE GaveUp(o.request, entry, "unknown")
      BY <3>1, GiveUpIs
    <3> QED BY <1>1, <2>4, <3>2
  <2> QED BY <2>2, <2>3, <2>4
<1>2. CASE call.stage = "draft"
  <2>1. AnsweredDraft(o, status)
    BY <1>2 DEF Answered
  <2>2. CASE o.error # "none"
    <3>1. GiveUp(None, FALSE, Refusal(o.error))
      BY <2>1, <2>2, <1>0 DEF AnsweredDraft
    <3> QED BY <1>2, <2>2, <3>1, GiveUpIs
  <2>3. CASE o.error = "none" /\ status = "SUBMITTED"
    BY <1>2, <2>1, <2>3 DEF AnsweredDraft, Sending
  <2>4. CASE o.error = "none" /\ status = "DRAFT"
    BY <1>2, <2>1, <2>4 DEF AnsweredDraft, GoesOn
  <2>5. CASE o.error = "none" /\ status \notin {"SUBMITTED", "DRAFT"}
    <3>1. GiveUp(o.request, FALSE, "unknown")
      BY <2>1, <2>5 DEF AnsweredDraft
    <3> QED BY <1>2, <2>5, <3>1, GiveUpIs
  <2> QED BY <2>2, <2>3, <2>4, <2>5
<1>3. CASE call.stage = "submit"
  <2>1. AnsweredSubmit(o, status)
    BY <1>3 DEF Answered
  <2>2. CASE o.error # "none"
    <3>1. GiveUp(call.draft, TRUE, Refusal(o.error))
      BY <2>1, <2>2, <1>0 DEF AnsweredSubmit
    <3> QED BY <1>3, <2>2, <3>1, GiveUpIs
  <2>3. CASE o.error = "none" /\ status = "SUBMITTED"
    BY <1>3, <2>1, <2>3 DEF AnsweredSubmit, Sending
  <2>4. CASE o.error = "none" /\ status # "SUBMITTED"
    <3>1. GiveUp(call.draft, TRUE, "unknown")
      BY <2>1, <2>4 DEF AnsweredSubmit
    <3> QED BY <1>3, <2>4, <3>1, GiveUpIs
  <2> QED BY <2>2, <2>3, <2>4
<1>4. CASE call.stage = "cancel"
  <2>1. AnsweredCancel(o)
    BY <1>4 DEF Answered
  <2> QED BY <1>4, <2>1 DEF AnsweredCancel
<1> QED BY <1>1, <1>2, <1>3, <1>4

LEMMA StageIs ==
  ASSUME TypeInv
  PROVE  /\ ~Idle <=> call.stage \in {"atomic", "draft", "submit", "cancel"}
         /\ Sending => ~Idle
         /\ call.draft \in 0 .. Len(requests)
         /\ call.stage \in {"submit", "cancel"} => call.draft \in 1 .. Len(requests)
<1>1. CallTyped(call, Len(requests))
  BY DEF TypeInv
<1>2. NoCall.stage = "none"
  BY DEF NoCall
<1> QED BY <1>1, <1>2 DEF CallTyped, Idle, Sending

LEMMA RefusalIs ==
  ASSUME NEW error
  PROVE  Refusal(error) \in {"failed", "conflict"} /\ (error # "conflict" => Refusal(error) = "failed")
BY DEF Refusal

LEMMA CallAgain ==
  ASSUME NEW c, NEW n, CallTyped(c, n), c.stage \in {"atomic", "draft"}, NEW r \in 1 .. n
  PROVE  /\ CallTyped([c EXCEPT !.stage = "draft"], n)
         /\ CallTyped([c EXCEPT !.stage = "submit", !.draft = r], n)
<1>1. /\ c \in [stage : {"none", "atomic", "draft", "submit", "cancel"}, input : Input, draft : 0 .. n]
      /\ InputTyped(c.input, n)
  BY DEF CallTyped
<1>2. CallTyped([c EXCEPT !.stage = "draft"], n)
  BY <1>1 DEF CallTyped
<1>3. r \in 0 .. n
  OBVIOUS
<1>4. CallTyped([c EXCEPT !.stage = "submit", !.draft = r], n)
  BY <1>1, <1>3 DEF CallTyped
<1> QED BY <1>2, <1>4

\* The call goes on, or ends without a word.
LEMMA CallType ==
  ASSUME TypeInv, ~Idle, Served, CallTyped(call', Len(requests')),
         UNCHANGED <<form, content, operation, entry, recovery, told>>
  PROVE  TypeInv'
<1>1. /\ OperationTyped(operation, Len(requests')) /\ entry \in 0 .. Len(requests')
      /\ RecoveryTyped(recovery, Len(requests'))
  BY TypedGrows DEF TypeInv, Served
<1>2. form <= MaxForms
  BY DEF TypeInv
<1> QED BY <1>1, <1>2 DEF TypeInv, Served

LEMMA AnswerType ==
  ASSUME TypeInv, Answer
  PROVE  TypeInv'
<1>1. PICK o \in Outcomes(Db(requests, commands)) : PerformedBy(o) /\ Answered(o) /\ ~Idle /\ keys' = keys
  BY DEF Answer
<1>2. /\ Served /\ Result(requests, commands, o)
      /\ o.error = "none" => o.request \in 1 .. Len(requests')
  BY <1>1, Performed
<1>3. Len(requests') \in Nat /\ Len(requests) <= Len(requests') /\ 0 \in 0 .. Len(requests')
      /\ call.draft \in 0 .. Len(requests')
  BY <1>2, StageIs DEF Served
<1>4. \A r, e, outcome :
        /\ Sending /\ r \in 0 .. Len(requests') /\ e \in {r, entry} /\ outcome \in Outcome
        /\ GaveUp(r, e, outcome)
        => TypeInv'
  BY <1>2, GaveUpType
<1>5. o.error = "none" => o.request \in 0 .. Len(requests')
  BY <1>2, <1>3
<1>6. Refusal(o.error) \in Outcome /\ "unknown" \in Outcome
  BY RefusalIs DEF Outcome
<1>7. PICK status : status = IF o.error = "none" THEN o.db.requests[o.request].status ELSE "NONE"
  OBVIOUS
<1>8. \/ call.stage \in {"atomic", "draft"} /\ GaveUp(None, entry, Refusal(o.error))
      \/ Sending /\ Succeed
      \/ /\ Sending /\ o.error = "none"
         /\ GaveUp(o.request, o.request, "unknown") \/ GaveUp(o.request, entry, "unknown")
      \/ /\ call.stage = "draft" /\ o.error = "none"
         /\ GoesOn(o.request)
      \/ /\ call.stage = "submit"
         /\ \E outcome \in {Refusal(o.error), "unknown"} : GaveUp(call.draft, call.draft, outcome)
      \/ /\ call.stage = "cancel" /\ call' = NoCall /\ UNCHANGED told
         /\ ResetForm \/ UNCHANGED <<form, content, operation, entry, recovery>>
  <2>1. call.stage \in {"atomic", "draft", "submit", "cancel"}
    BY <1>1, StageIs
  <2> QED BY <1>1, <1>7, <2>1, AnsweredCases DEF Sending
<1>9. CASE call.stage \in {"atomic", "draft"} /\ GaveUp(None, entry, Refusal(o.error))
  BY <1>3, <1>4, <1>6, <1>9, Constants DEF Sending
<1>10. CASE Sending /\ Succeed
  <2>1. told'.outcome = "success"
    BY <1>10 DEF Succeed, Tell
  <2> QED BY <1>1, <1>2, <1>10, <2>1, ResetType DEF Succeed, Outcome
<1>11. CASE /\ Sending /\ o.error = "none"
            /\ GaveUp(o.request, o.request, "unknown") \/ GaveUp(o.request, entry, "unknown")
  BY <1>4, <1>5, <1>6, <1>11
<1>12. CASE /\ call.stage = "draft" /\ o.error = "none"
            /\ GoesOn(o.request)
  <2>1. CallTyped(call, Len(requests'))
    BY <1>2, TypedGrows DEF TypeInv, Served
  <2>2. PICK r \in 1 .. Len(requests') : r = o.request
    BY <1>2, <1>12
  <2>3. CallTyped(call', Len(requests'))
    BY <1>12, <2>1, <2>2, CallAgain DEF GoesOn
  <2> QED BY <1>1, <1>2, <1>12, <2>3, CallType DEF GoesOn
<1>13. CASE /\ call.stage = "submit"
            /\ \E outcome \in {Refusal(o.error), "unknown"} : GaveUp(call.draft, call.draft, outcome)
  BY <1>3, <1>4, <1>6, <1>13 DEF Sending
<1>14. CASE /\ call.stage = "cancel" /\ call' = NoCall /\ UNCHANGED told
            /\ ResetForm \/ UNCHANGED <<form, content, operation, entry, recovery>>
  <2>1. CallTyped(call', Len(requests'))
    BY <1>3, <1>14, NothingTyped
  <2>2. told'.outcome \in Outcome
    BY <1>14 DEF TypeInv
  <2> QED BY <1>1, <1>2, <1>14, <2>1, <2>2, CallType, ResetType
<1> QED BY <1>8, <1>9, <1>10, <1>11, <1>12, <1>13, <1>14

LEMMA LoseType ==
  ASSUME TypeInv, LoseCall
  PROVE  TypeInv'
<1>1. ~Idle /\ keys' = keys
  BY DEF LoseCall
<1>2. Served
  <2>1. CASE UNCHANGED server
    BY <1>1, <2>1, Unserved
  <2>2. CASE \E o \in Outcomes(Db(requests, commands)) : PerformedBy(o)
    BY <1>1, <2>2, Performed
  <2> QED BY <2>1, <2>2 DEF LoseCall
<1>3. PICK lossForm \in LossForms : Unanswered(lossForm)
  BY DEF LoseCall
<1>4. CASE call.stage = "cancel"
  <2>1. CallTyped(call', Len(requests'))
    BY <1>2, <1>3, <1>4, NothingTyped DEF Unanswered, Served
  <2> QED BY <1>1, <1>2, <1>3, <1>4, <2>1, CallType DEF Unanswered
<1>5. CASE call.stage # "cancel"
  <2>1. PICK outcome : outcome = LossOutcome(lossForm)
    OBVIOUS
  <2>2. outcome \in Outcome
    BY <2>1 DEF LossOutcome, Outcome
  <2>3. GiveUp(call.draft, call.draft # None, outcome)
    BY <1>3, <1>5, <2>1 DEF Unanswered
  <2>4. PICK e \in {call.draft, entry} : GaveUp(call.draft, e, outcome)
    BY <2>3 DEF GiveUp, GaveUp
  <2>5. call.draft \in 0 .. Len(requests') /\ Sending
    BY <1>1, <1>2, <1>5, StageIs DEF Served, Sending
  <2> QED BY <1>2, <2>2, <2>4, <2>5, GaveUpType
<1> QED BY <1>4, <1>5

LEMMA EditType ==
  ASSUME TypeInv, NEW c \in Contents, Edit(c)
  PROVE  TypeInv'
<1>1. /\ Typed(requests', commands') /\ requests' = requests /\ content' \in Contents
      /\ UNCHANGED <<form, entry, recovery, call, told>> /\ form <= MaxForms
  BY DEF Edit, TypeInv, server
<1>2. \/ operation' = operation /\ keys' = keys
      \/ operation' = RotateDraftKeys(operation) /\ keys' = keys + 1 /\ keys < MaxKeys
  BY DEF Edit, Draw
<1>3. keys' \in Keys /\ OperationTyped(operation', Len(requests))
  <2>1. CASE operation' = operation /\ keys' = keys
    BY <2>1 DEF TypeInv
  <2>2. CASE operation' = RotateDraftKeys(operation) /\ keys' = keys + 1 /\ keys < MaxKeys
    <3>1. PICK k : k = keys + 1
      OBVIOUS
    <3>2. k \in Keys
      BY <2>2, <3>1, Constants DEF TypeInv, Keys
    <3>3. operation' = [operation EXCEPT !.create = IF operation.draftId = None THEN k ELSE operation.create,
                                         !.update = k, !.submit = k]
      BY <2>2, <3>1 DEF RotateDraftKeys, OperationTyped, TypeInv
    <3> QED BY <2>2, <3>1, <3>2, <3>3 DEF OperationTyped, TypeInv
  <2> QED BY <1>2, <2>1, <2>2
<1> QED BY <1>1, <1>3 DEF TypeInv, Idle, Recovering

LEMMA InputOfType ==
  ASSUME TypeInv, form <= MaxForms, content # None \/ Recovering,
         NEW op, OperationTyped(op, Len(requests))
  PROVE  InputTyped(InputOf(op), Len(requests))
<1>1. CASE Recovering
  <2>1. RecoveryTyped(recovery, Len(requests))
    BY DEF TypeInv
  <2> QED BY <1>1, <2>1 DEF InputOf, RecoveryTyped, Recovering
<1>2. CASE ~Recovering
  <2>1. InputOf(op) = [requestId |-> entry, content |-> content,
                       create |-> op.create, update |-> op.update, submit |-> op.submit]
    BY <1>2 DEF InputOf
  <2>2. op.create \in Keys /\ op.update \in Keys /\ op.submit \in Keys
    BY DEF OperationTyped
  <2>3. entry \in 0 .. Len(requests) /\ entry \in Nat /\ content \in Contents
    <3>1. Len(requests) \in Nat
      BY DEF TypeInv, Typed
    <3> QED BY <1>2, <3>1 DEF TypeInv
  <2> QED BY <2>1, <2>2, <2>3 DEF InputTyped, Input
<1> QED BY <1>1, <1>2

LEMMA PressType ==
  ASSUME TypeInv, Press
  PROVE  TypeInv'
<1>1. /\ Typed(requests', commands') /\ requests' = requests /\ form <= MaxForms
      /\ UNCHANGED <<form, content, entry, recovery>> /\ told' = NothingTold
      /\ content # None \/ Recovering
  BY DEF Press, TypeInv, server
<1>2. PICK k : k = keys + 1
  OBVIOUS
<1>3. \/ operation' = operation /\ keys' = keys
      \/ /\ operation' = [create |-> k, update |-> k, submit |-> k, draftId |-> None]
         /\ keys' = k /\ keys < MaxKeys
  BY <1>2 DEF Press, Draw
<1>4. keys' \in Keys /\ OperationTyped(operation', Len(requests))
  <2>1. CASE operation' = operation /\ keys' = keys
    BY <2>1 DEF TypeInv
  <2>2. CASE /\ operation' = [create |-> k, update |-> k, submit |-> k, draftId |-> None]
             /\ keys' = k /\ keys < MaxKeys
    <3>1. k \in Keys
      BY <1>2, <2>2, Constants DEF TypeInv, Keys
    <3>2. None \in 0 .. Len(requests)
      BY Constants DEF TypeInv, Typed
    <3> QED BY <2>2, <3>1, <3>2 DEF OperationTyped
  <2> QED BY <1>3, <2>1, <2>2
<1>5. CallTyped(call', Len(requests))
  <2>1. PICK i : i = InputOf(operation')
    OBVIOUS
  <2>2. InputTyped(i, Len(requests))
    BY <1>1, <1>4, <2>1, InputOfType
  <2>3. PICK stage \in {"draft", "atomic"} : call' = [stage |-> stage, input |-> i, draft |-> None]
    BY <2>1 DEF Press
  <2>4. None \in 0 .. Len(requests)
    BY Constants DEF TypeInv, Typed
  <2> QED BY <2>2, <2>3, <2>4 DEF CallTyped, InputTyped
<1>6. told'.outcome \in Outcome
  BY <1>1 DEF NothingTold, Outcome
<1> QED BY <1>1, <1>4, <1>5, <1>6 DEF TypeInv

LEMMA CancelType ==
  ASSUME TypeInv, CancelDraft
  PROVE  TypeInv'
<1>1. CallTyped(call', Len(requests))
  <2>1. call' = [stage |-> "cancel", input |-> NoInput, draft |-> entry] /\ entry # None
    BY DEF CancelDraft
  <2>2. entry \in 1 .. Len(requests) /\ entry \in 0 .. Len(requests)
    <3>1. Len(requests) \in Nat
      BY DEF TypeInv, Typed
    <3> QED BY <2>1, <3>1, Constants DEF TypeInv
  <2> QED BY <2>1, <2>2, NothingTyped DEF CallTyped, TypeInv, Typed
<1>2. told'.outcome \in Outcome
  BY DEF CancelDraft, NothingTold, Outcome
<1> QED BY <1>1, <1>2 DEF CancelDraft, TypeInv, server

LEMMA MissingType ==
  ASSUME TypeInv, AnswerMissing
  PROVE  TypeInv'
<1>1. call.stage = "atomic" /\ call' = [call EXCEPT !.stage = "draft"] /\ ~Idle
  BY DEF AnswerMissing, Present
<1>2. Served
  BY Unserved DEF AnswerMissing
<1>3. CallTyped(call', Len(requests'))
  <2>1. CallTyped(call, Len(requests')) /\ Len(requests') \in Nat
    BY <1>2, TypedGrows DEF TypeInv, Served
  <2>2. call.input.requestId \in 0 .. Len(requests')
    BY <1>1, <2>1 DEF CallTyped, InputTyped
  <2> QED BY <1>1, <2>1 DEF CallTyped
<1> QED BY <1>1, <1>2, <1>3, CallType DEF AnswerMissing

LEMMA ElsewhereType ==
  ASSUME TypeInv, NEW r \in 1 .. Len(requests), ChangeElsewhere(r)
  PROVE  TypeInv' /\ Served
<1>1. PICK status \in {"CANCELLED", "SHIPPED"} : requests' = [requests EXCEPT ![r].status = status]
  BY DEF ChangeElsewhere
<1>2. PICK row : row = [requests[r] EXCEPT !.status = status]
  OBVIOUS
<1>3. requests' = [requests EXCEPT ![r] = row]
  BY <1>1, <1>2 DEF TypeInv, Typed
<1>4. row \in Row /\ row.form = requests[r].form
  BY <1>2, StatusChange DEF TypeInv, Typed, Statuses
<1>5. /\ requests' \in Seq(Row) /\ Len(requests') = Len(requests) /\ Len(requests) \in Nat
      /\ requests'[r] = row /\ \A q \in 1 .. Len(requests) : q # r => requests'[q] = requests[q]
  BY <1>3, <1>4, ChangeIs DEF TypeInv, Typed
<1>6. Typed(requests', commands') /\ Grown(requests, requests')
  BY <1>4, <1>5 DEF ChangeElsewhere, TypeInv, Typed, Grown
<1> QED BY <1>5, <1>6 DEF ChangeElsewhere, TypeInv, Idle, Recovering, Served

LEMMA TypePreserved == TypeInv /\ [Next]_vars => TypeInv'
<1> SUFFICES ASSUME TypeInv, [Next]_vars PROVE TypeInv'
  OBVIOUS
<1>1. CASE \E c \in Contents : Edit(c)
  BY <1>1, EditType
<1>2. CASE ForgetMissing
  BY <1>2 DEF ForgetMissing, TypeInv, Idle, Recovering, server
<1>3. CASE Deploy
  BY <1>3 DEF Deploy, TypeInv, Idle, Recovering, server
<1>4. CASE \E r \in 1 .. Len(requests) : ChangeElsewhere(r)
  BY <1>4, ElsewhereType
<1>5. CASE UNCHANGED vars
  BY <1>5 DEF vars, TypeInv, Idle, Recovering, server
<1> QED BY <1>1, <1>2, <1>3, <1>4, <1>5, PressType, CancelType, AnswerType, MissingType, LoseType DEF Next

(* Whatever answers are lost, in whatever form, and whenever the RPC is    *)
(* deployed: the tables and the browser keep their types, and every        *)
(* command, form and call is about a request that exists, if about any.    *)
THEOREM TypeCorrect == Spec => []TypeOK
<1>1. Spec => []TypeInv
  BY TypeInitially, TypePreserved, PTL DEF Spec
<1>2. TypeInv => TypeOK
  <2> SUFFICES ASSUME TypeInv PROVE TypeOK
    OBVIOUS
  <2>1. call \in [stage : {"none", "atomic", "draft", "submit", "cancel"},
                  input : Input, draft : 0 .. Len(requests)]
    BY DEF TypeInv, CallTyped
  <2>2. recovery \in Input
    BY DEF TypeInv, RecoveryTyped
  <2>3. requests \in Seq([status : Statuses, content : Contents, form : 1 .. MaxForms])
    BY DEF TypeInv, Typed, Row
  <2> QED BY <2>1, <2>2, <2>3 DEF TypeInv, Typed, OperationTyped, Outcome, TypeOK
<1> QED BY <1>1, <1>2, PTL

-----------------------------------------------------------------------------
(* How far a press has come: i is its input, f its form                    *)

Of(rs, f) == {r \in 1 .. Len(rs) : rs[r].form = f}

NotSent(rs, cs, i, r) == Unused(cs, "submit", i.submit) /\ rs[r].status \in {"DRAFT", "CANCELLED"}

IsSent(rs, cs, i, r, print) == UsedFor(cs, "submit", i.submit, print, r) /\ rs[r].status # "DRAFT"

\* Request r is the form's, and is as the press wants it.
Saved(rs, cs, i, r, f) ==
  /\ r \in Of(rs, f) /\ rs[r].content = i.content
  /\ \/ /\ i.requestId = None /\ UsedFor(cs, "create", i.create, <<i.content>>, r)
        /\ Unused(cs, "update", i.update)
     \/ i.requestId = r /\ UsedFor(cs, "update", i.update, <<r, i.content>>, r)

Empty(rs, cs, i, f) ==
  /\ i.requestId = None /\ Of(rs, f) = {}
  /\ Unused(cs, "create", i.create) /\ Unused(cs, "update", i.update) /\ Unused(cs, "submit", i.submit)

Known(rs, cs, i, f) ==
  /\ i.requestId \in Of(rs, f) /\ NotSent(rs, cs, i, i.requestId)
  /\ Unused(cs, "update", i.update)

\* The two ways to submit fingerprint a new request differently.
PrintOf(i, r, dep) == <<IF dep THEN i.requestId ELSE r, i.content>>

Made(rs, cs, i, r, f, dep) ==
  /\ Saved(rs, cs, i, r, f)
  /\ \/ NotSent(rs, cs, i, r) /\ ~(dep /\ i.requestId = None)
     \/ IsSent(rs, cs, i, r, PrintOf(i, r, dep))

Progress(rs, cs, i, f, dep) ==
  \/ Empty(rs, cs, i, f)
  \/ Known(rs, cs, i, f)
  \/ \E r \in Of(rs, f) : Made(rs, cs, i, r, f, dep)

\* Nothing of the form has been submitted, and what it has is known.
Rest(rs, cs, i, f) ==
  /\ \A r \in Of(rs, f) : NotSent(rs, cs, i, r)
  /\ i.requestId = None => Of(rs, f) = {}

\* Keys are of generations drawn; forms are of forms begun, one request each.
Store(rs, cs, f, n) ==
  /\ \A c \in cs : c.op \in {"create", "update", "submit"} => c.key \in 1 .. n
  /\ \A r \in 1 .. Len(rs) : rs[r].form <= f
  /\ \A r, q \in 1 .. Len(rs) : rs[r].form = rs[q].form => r = q

Current == IF Sending THEN call.input ELSE InputOf(operation)

\* An input of the form on the screen.
Filled(i) ==
  /\ i.content = content /\ i.create = operation.create
  /\ i.update = operation.update /\ i.submit = operation.submit
  /\ i.requestId \in {None, entry}
  /\ content # None /\ operation # NoOperation

StoreInv == Store(requests, commands, form, keys)

DraftInv ==
  /\ operation = NoOperation \/ {operation.create, operation.update, operation.submit} \subseteq 1 .. keys
  /\ entry \in {None, operation.draftId}
  /\ operation.draftId # None => operation.draftId \in Of(requests, form)
  /\ ~Idle \/ ~Recovering => entry = operation.draftId

InputInv ==
  /\ Sending => /\ Filled(call.input)
                /\ IF Recovering THEN recovery = call.input ELSE call.input.requestId = entry
  /\ Recovering => Filled(recovery)

StageInv ==
  /\ call.stage = "cancel" => ~Recovering /\ call.draft = entry /\ entry # None
  /\ call.stage \in {"draft", "submit"} \/ missing => ~deployed
  /\ call.stage \in {"none", "atomic", "draft"} => call.draft = None
  /\ call.stage = "submit" => Saved(requests, commands, call.input, call.draft, form)

RestInv == ~Sending /\ ~Recovering => Rest(requests, commands, InputOf(operation), form)

ProgressInv == Progress(requests, commands, Current, form, deployed)

Truth(rs, t) == t.outcome = "success" =>
  \E r \in Of(rs, t.form) : rs[r].content = t.content /\ rs[r].status # "DRAFT"

ToldInv ==
  /\ ~Idle => told.outcome = "none"
  /\ told.outcome # "conflict"
  /\ Truth(requests, told)
  /\ told.outcome = "failed" => told.form = form /\ ~Recovering /\ Idle

Inv ==
  TypeInv /\ StoreInv /\ DraftInv /\ InputInv /\ StageInv /\ RestInv /\ ProgressInv /\ ToldInv

-----------------------------------------------------------------------------
(* The transactions of a press                                             *)

LEMMA OnceFresh ==
  ASSUME NEW rs, NEW cs, NEW op, NEW key, NEW print, NEW fresh, Unused(cs, op, key),
         NEW o \in Once(Db(rs, cs), op, key, print, fresh)
  PROVE  \/ o.error = "refused" /\ o.db = Db(rs, cs)
         \/ /\ o.error = "none"
            /\ \E g \in fresh : /\ o.db = Db(g.requests, cs \cup {Command(op, key, print, g.request)})
                                /\ o.request = g.request
<1>1. \A c \in cs : ~(c.op = op /\ c.key = key)
  BY DEF Unused
<1> QED BY <1>1, OnceIs

LEMMA OnceAgain ==
  ASSUME NEW rs, NEW cs, NEW op, NEW key, NEW print, NEW fresh, NEW r, UsedFor(cs, op, key, print, r),
         NEW o \in Once(Db(rs, cs), op, key, print, fresh)
  PROVE  o.error = "none" /\ o.db = Db(rs, cs) /\ o.request = r
<1>1. \A c \in cs : c.op = op /\ c.key = key => c.fingerprint = print /\ c.request = r
  BY DEF UsedFor
<1>2. ~Unused(cs, op, key)
  BY DEF UsedFor
<1> QED BY <1>1, <1>2, OnceIs

\* The rows stay, each with its form.
Kept(rs, rs2) == Len(rs2) = Len(rs) /\ \A r \in 1 .. Len(rs) : rs2[r].form = rs[r].form

LEMMA KeptOf ==
  ASSUME NEW rs, NEW rs2, Kept(rs, rs2)
  PROVE  \A f : Of(rs2, f) = Of(rs, f)
BY DEF Kept, Of

LEMMA KeptStore ==
  ASSUME NEW rs, NEW rs2, Kept(rs, rs2), NEW cs, NEW cs2, NEW f, NEW n, Store(rs, cs, f, n),
         NEW op, NEW key, NEW print, NEW r, cs2 \subseteq cs \cup {Command(op, key, print, r)},
         op = "cancel" \/ key \in 1 .. n
  PROVE  Store(rs2, cs2, f, n)
<1>1. \A q \in 1 .. Len(rs2) : rs2[q].form <= f
  BY DEF Kept, Store
<1>2. \A q, p \in 1 .. Len(rs2) : rs2[q].form = rs2[p].form => q = p
  BY DEF Kept, Store
<1>3. \A c \in cs2 : c.op \in {"create", "update", "submit"} => c.key \in 1 .. n
  <2> DEFINE d == Command(op, key, print, r)
  <2>1. d.op = op /\ d.key = key
    BY CommandIs
  <2>2. cs2 \subseteq cs \cup {d}
    OBVIOUS
  <2> HIDE DEF d
  <2>3. \A c \in cs : c.op \in {"create", "update", "submit"} => c.key \in 1 .. n
    BY DEF Store
  <2> QED BY <2>1, <2>2, <2>3
<1> QED BY <1>1, <1>2, <1>3 DEF Store

\* One request, of whatever form.
LEMMA OneOf ==
  ASSUME NEW rs, NEW cs, NEW f, NEW n, Store(rs, cs, f, n), NEW g, NEW r \in Of(rs, g), NEW q \in Of(rs, g)
  PROVE  r = q
BY DEF Of, Store

\* What every lemma about an RPC of a press starts from.
Ready(rs, cs, i, n) ==
  /\ Typed(rs, cs) /\ form \in 1 .. MaxForms /\ Store(rs, cs, form, n) /\ IsInput(i, rs)
  /\ {i.create, i.update, i.submit} \subseteq 1 .. n /\ n \in Nat

LEMMA CreateIs ==
  ASSUME NEW rs, NEW cs, NEW i, NEW n, Ready(rs, cs, i, n), Empty(rs, cs, i, form),
         NEW o \in CreateDraft(Db(rs, cs), i)
  PROVE  \/ o.error = "refused" /\ o.db = Db(rs, cs)
         \/ /\ o.error = "none"
            /\ \E rs2, cs2 : /\ o.db = Db(rs2, cs2) /\ Store(rs2, cs2, form, n)
                             /\ Saved(rs2, cs2, i, o.request, form) /\ NotSent(rs2, cs2, i, o.request)
<1> DEFINE row == [status |-> "DRAFT", content |-> i.content, form |-> form]
           t == Append(rs, row)
           m == Len(rs) + 1
           g == [requests |-> t, request |-> m]
           cs2 == cs \cup {Command("create", i.create, <<i.content>>, m)}
<1>1. row \in Row /\ row.form = form /\ row.content = i.content /\ row.status = "DRAFT"
  BY DEF Ready, IsInput, Row, Statuses
<1>2. o \in Once(Db(rs, cs), "create", i.create, <<i.content>>, {g})
  BY DbIs DEF CreateDraft
<1> HIDE DEF row
<1>3. /\ t \in Seq(Row) /\ Len(t) = m /\ Len(rs) \in Nat
      /\ t[m] = row /\ \A r \in 1 .. Len(rs) : t[r] = rs[r]
  BY <1>1, AppendIs DEF Ready, Typed
<1> HIDE DEF t
<1>4. g.requests = t /\ g.request = m
  OBVIOUS
<1> HIDE DEF g
<1>5. Unused(cs, "create", i.create) /\ Unused(cs, "update", i.update) /\ Unused(cs, "submit", i.submit)
      /\ i.requestId = None /\ Of(rs, form) = {}
  BY DEF Empty
<1>6. CASE o.error = "none" /\ o.db = Db(t, cs2) /\ o.request = m
  <2>1. /\ UsedFor(cs2, "create", i.create, <<i.content>>, m)
        /\ Unused(cs2, "update", i.update) /\ Unused(cs2, "submit", i.submit)
    <3>1. PICK d, key, print : /\ d = cs2 /\ key = i.create /\ print = <<i.content>>
                               /\ d = cs \cup {Command("create", key, print, m)}
      OBVIOUS
    <3> HIDE DEF cs2, m
    <3>2. UsedFor(d, "create", key, print, m)
      BY <1>5, <3>1, Remembered
    <3>3. \A key2 : Unused(cs, "update", key2) => Unused(d, "update", key2)
      BY <3>1, OthersStay
    <3>4. \A key2 : Unused(cs, "submit", key2) => Unused(d, "submit", key2)
      BY <3>1, OthersStay
    <3> QED BY <1>5, <3>1, <3>2, <3>3, <3>4
  <2>2. m \in 1 .. Len(t) /\ \A r \in 1 .. Len(t) : r = m \/ r \in 1 .. Len(rs)
    BY <1>3
  <2>3. m \in Of(t, form)
    BY <1>1, <1>3, <2>2 DEF Of
  <2>4. Saved(t, cs2, i, m, form) /\ NotSent(t, cs2, i, m)
    BY <1>1, <1>3, <1>5, <2>1, <2>3 DEF Saved, NotSent
  <2>5. \A r \in 1 .. Len(rs) : rs[r].form # form
    BY <1>5 DEF Of
  <2>6. Store(rs, cs, form, n)
    BY DEF Ready
  <2>7. \A r \in 1 .. Len(t) : t[r].form <= form
    <3>1. form <= form
      BY Constants DEF Ready
    <3> HIDE DEF m
    <3> QED BY <1>1, <1>3, <2>2, <2>6, <3>1 DEF Store
  <2>8. \A r, q \in 1 .. Len(t) : t[r].form = t[q].form => r = q
    <3> HIDE DEF m
    <3> QED BY <1>1, <1>3, <2>2, <2>5, <2>6 DEF Store
  <2>9. \A c \in cs2 : c.op \in {"create", "update", "submit"} => c.key \in 1 .. n
    <3>1. Command("create", i.create, <<i.content>>, m).key = i.create
      BY CommandIs
    <3>2. i.create \in 1 .. n
      BY DEF Ready
    <3> QED BY <2>6, <3>1, <3>2 DEF Store
  <2>10. Store(t, cs2, form, n)
    BY <2>7, <2>8, <2>9 DEF Store
  <2> HIDE DEF cs2, m
  <2> QED BY <1>6, <2>4, <2>10
<1> QED
  <2>0. PICK fresh, print, key : fresh = {g} /\ print = <<i.content>> /\ key = i.create
    OBVIOUS
  <2>1. o \in Once(Db(rs, cs), "create", key, print, fresh) /\ Unused(cs, "create", key)
    BY <1>2, <1>5, <2>0
  <2>2. \/ o.error = "refused" /\ o.db = Db(rs, cs)
        \/ /\ o.error = "none"
           /\ \E h \in fresh : /\ o.db = Db(h.requests, cs \cup {Command("create", key, print, h.request)})
                               /\ o.request = h.request
    BY <2>1, OnceFresh
  <2>3. \/ o.error = "none" /\ o.db = Db(t, cs2) /\ o.request = m
        \/ o.error = "refused" /\ o.db = Db(rs, cs)
    BY <1>4, <2>0, <2>2
  <2> HIDE DEF cs2, m
  <2> QED BY <1>6, <2>3

\* What a change of row r, by command op, makes of the tables.
LEMMA ChangedIs ==
  ASSUME NEW rs, NEW cs, Typed(rs, cs), NEW r \in 1 .. Len(rs), NEW row \in Row, row.form = rs[r].form,
         NEW statuses, NEW op, NEW key, NEW print, Unused(cs, op, key),
         NEW o \in Once(Db(rs, cs), op, key, print, InStatus(Db(rs, cs), r, statuses, row))
  PROVE  \/ o.error = "refused" /\ o.db = Db(rs, cs)
         \/ /\ o.error = "none" /\ o.request = r /\ rs[r].status \in statuses
            /\ \E rs2, cs2 : /\ o.db = Db(rs2, cs2) /\ Kept(rs, rs2) /\ rs2[r] = row
                             /\ \A q \in 1 .. Len(rs) : q # r => rs2[q] = rs[q]
                             /\ cs2 = cs \cup {Command(op, key, print, r)}
<1> SUFFICES ASSUME o.error # "refused" \/ o.db # Db(rs, cs)
             PROVE  /\ o.error = "none" /\ o.request = r /\ rs[r].status \in statuses
                    /\ \E rs2, cs2 : /\ o.db = Db(rs2, cs2) /\ Kept(rs, rs2) /\ rs2[r] = row
                                     /\ \A q \in 1 .. Len(rs) : q # r => rs2[q] = rs[q]
                                     /\ cs2 = cs \cup {Command(op, key, print, r)}
  OBVIOUS
<1>0. PICK fresh : fresh = InStatus(Db(rs, cs), r, statuses, row)
  OBVIOUS
<1>1. PICK g \in fresh :
        /\ o.error = "none" /\ o.request = g.request
        /\ o.db = Db(g.requests, cs \cup {Command(op, key, print, g.request)})
  BY <1>0, OnceFresh
<1>2. PICK t : t = g.requests
  OBVIOUS
<1>3. rs[r].status \in statuses /\ t = [rs EXCEPT ![r] = row] /\ g.request = r
  BY <1>0, <1>2, InStatusIs
<1>4. /\ t \in Seq(Row) /\ Len(t) = Len(rs) /\ Len(rs) \in Nat
      /\ t[r] = row /\ \A q \in 1 .. Len(rs) : q # r => t[q] = rs[q]
  BY <1>3, ChangeIs DEF Typed
<1>5. Kept(rs, t)
  BY <1>4 DEF Kept
<1>6. o.db = Db(t, cs \cup {Command(op, key, print, r)})
  BY <1>1, <1>2, <1>3
<1> QED BY <1>1, <1>3, <1>4, <1>5, <1>6

LEMMA UpdateIs ==
  ASSUME NEW rs, NEW cs, NEW i, NEW n, Ready(rs, cs, i, n), Known(rs, cs, i, form),
         NEW o \in UpdateDraft(Db(rs, cs), i)
  PROVE  \/ o.error = "refused" /\ o.db = Db(rs, cs)
         \/ /\ o.error = "none"
            /\ \E rs2, cs2 : /\ o.db = Db(rs2, cs2) /\ Store(rs2, cs2, form, n)
                             /\ Saved(rs2, cs2, i, o.request, form) /\ NotSent(rs2, cs2, i, o.request)
<1>1. PICK r : r = i.requestId
  OBVIOUS
<1>2. PICK txt : txt = i.content
  OBVIOUS
<1>3. PICK row : row = [rs[r] EXCEPT !.content = txt]
  OBVIOUS
<1>4. /\ r \in Of(rs, form) /\ r \in 1 .. Len(rs) /\ NotSent(rs, cs, i, r) /\ Unused(cs, "update", i.update)
      /\ txt \in Contents /\ Typed(rs, cs)
  BY <1>1, <1>2 DEF Known, Of, Ready, IsInput
<1>5. /\ row \in Row /\ row.form = rs[r].form /\ row.status = rs[r].status /\ row.content = txt
  <2>1. rs[r] \in Row
    BY <1>4, RowIs DEF Typed
  <2> QED BY <1>3, <1>4, <2>1 DEF Row
<1>6. o \in Once(Db(rs, cs), "update", i.update, <<r, txt>>, InStatus(Db(rs, cs), r, {"DRAFT"}, row))
  BY <1>1, <1>2, <1>3, DbIs DEF UpdateDraft
<1> SUFFICES ASSUME o.error # "refused" \/ o.db # Db(rs, cs)
             PROVE  /\ o.error = "none"
                    /\ \E rs2, cs2 : /\ o.db = Db(rs2, cs2) /\ Store(rs2, cs2, form, n)
                                     /\ Saved(rs2, cs2, i, o.request, form) /\ NotSent(rs2, cs2, i, o.request)
  OBVIOUS
<1>7. /\ o.error = "none" /\ o.request = r /\ rs[r].status \in {"DRAFT"}
      /\ \E rs2, cs2 : /\ o.db = Db(rs2, cs2) /\ Kept(rs, rs2) /\ rs2[r] = row
                       /\ \A q \in 1 .. Len(rs) : q # r => rs2[q] = rs[q]
                       /\ cs2 = cs \cup {Command("update", i.update, <<r, txt>>, r)}
  BY <1>4, <1>5, <1>6, ChangedIs
<1>8. PICK rs2, cs2 : /\ o.db = Db(rs2, cs2) /\ Kept(rs, rs2) /\ rs2[r] = row
                      /\ cs2 = cs \cup {Command("update", i.update, <<r, txt>>, r)}
  BY <1>7
<1>9. Store(rs2, cs2, form, n)
  BY <1>8, KeptStore DEF Ready
<1>10. UsedFor(cs2, "update", i.update, <<r, txt>>, r) /\ Unused(cs2, "submit", i.submit)
  <2>1. PICK key, print : /\ key = i.update /\ print = <<r, txt>> /\ Unused(cs, "update", key)
                          /\ cs2 = cs \cup {Command("update", key, print, r)}
    BY <1>4, <1>8
  <2>2. UsedFor(cs2, "update", key, print, r)
    BY <2>1, Remembered
  <2>3. Unused(cs, "submit", i.submit)
    BY <1>4 DEF NotSent
  <2>4. \A key2 : Unused(cs, "submit", key2) => Unused(cs2, "submit", key2)
    BY <2>1, OthersStay
  <2> QED BY <2>1, <2>2, <2>3, <2>4
<1>11. r \in Of(rs2, form)
  BY <1>4, <1>8, KeptOf
<1>12. Saved(rs2, cs2, i, r, form)
  BY <1>1, <1>2, <1>5, <1>8, <1>10, <1>11 DEF Saved
<1>13. NotSent(rs2, cs2, i, r)
  BY <1>4, <1>5, <1>8, <1>10 DEF NotSent
<1> QED BY <1>7, <1>8, <1>9, <1>12, <1>13

(* Saving is refused before the press has saved anything, or saves the     *)
(* form's request; of a request saved before it says which that was.       *)
LEMMA SaveIs ==
  ASSUME NEW rs, NEW cs, NEW i, NEW n, NEW dep, Ready(rs, cs, i, n), Progress(rs, cs, i, form, dep),
         NEW o \in SaveDraft(Db(rs, cs), i)
  PROVE  \/ /\ o.error = "refused" /\ o.db = Db(rs, cs)
            /\ Empty(rs, cs, i, form) \/ Known(rs, cs, i, form)
         \/ o.error = "none" /\ o.db = Db(rs, cs) /\ Made(rs, cs, i, o.request, form, dep)
         \/ /\ o.error = "none" /\ (Empty(rs, cs, i, form) \/ Known(rs, cs, i, form))
            /\ \E rs2, cs2 : /\ o.db = Db(rs2, cs2) /\ Store(rs2, cs2, form, n)
                             /\ Saved(rs2, cs2, i, o.request, form) /\ NotSent(rs2, cs2, i, o.request)
<1>1. CASE Empty(rs, cs, i, form)
  <2>1. o \in CreateDraft(Db(rs, cs), i)
    BY <1>1 DEF SaveDraft, Empty
  <2> QED BY <1>1, <2>1, CreateIs
<1>0. None \notin Of(rs, form)
  BY Constants DEF Of
<1>2. CASE Known(rs, cs, i, form)
  <2>1. o \in UpdateDraft(Db(rs, cs), i)
    BY <1>0, <1>2 DEF SaveDraft, Known
  <2> QED BY <1>2, <2>1, UpdateIs
<1>3. ASSUME NEW r \in Of(rs, form), Made(rs, cs, i, r, form, dep)
      PROVE  o.error = "none" /\ o.db = Db(rs, cs) /\ o.request = r
  <2>1. CASE /\ i.requestId = None /\ UsedFor(cs, "create", i.create, <<i.content>>, r)
    <3>1. o \in CreateDraft(Db(rs, cs), i)
      BY <2>1 DEF SaveDraft
    <3>2. PICK fresh : o \in Once(Db(rs, cs), "create", i.create, <<i.content>>, fresh)
      BY <3>1 DEF CreateDraft
    <3> QED BY <2>1, <3>2, OnceAgain
  <2>2. CASE i.requestId = r /\ UsedFor(cs, "update", i.update, <<r, i.content>>, r)
    <3>1. o \in UpdateDraft(Db(rs, cs), i)
      BY <1>0, <2>2 DEF SaveDraft
    <3>2. PICK fresh : o \in Once(Db(rs, cs), "update", i.update, <<r, i.content>>, fresh)
      BY <2>2, <3>1 DEF UpdateDraft
    <3> QED BY <2>2, <3>2, OnceAgain
  <2> QED BY <1>3, <2>1, <2>2 DEF Made, Saved
<1> QED BY <1>1, <1>2, <1>3 DEF Progress

\* Submitting is refused before it has been done, or the request is sent.
LEMMA SubmitIs ==
  ASSUME NEW rs, NEW cs, NEW i, NEW n, Ready(rs, cs, i, n), NEW r, NEW print,
         Saved(rs, cs, i, r, form), NotSent(rs, cs, i, r) \/ IsSent(rs, cs, i, r, print),
         NEW o \in Submit(Db(rs, cs), r, i, print)
  PROVE  \/ o.error = "refused" /\ o.db = Db(rs, cs) /\ NotSent(rs, cs, i, r)
         \/ /\ o.error = "none" /\ o.request = r
            /\ \E rs2, cs2 : /\ o.db = Db(rs2, cs2) /\ Store(rs2, cs2, form, n)
                             /\ Saved(rs2, cs2, i, r, form) /\ IsSent(rs2, cs2, i, r, print)
<1>1. PICK row : row = [rs[r] EXCEPT !.status = "SUBMITTED"]
  OBVIOUS
<1>2. r \in Of(rs, form) /\ r \in 1 .. Len(rs) /\ Typed(rs, cs) /\ rs[r].content = i.content
  BY DEF Saved, Of, Ready
<1>3. row \in Row /\ row.form = rs[r].form /\ row.content = rs[r].content /\ row.status = "SUBMITTED"
  BY <1>1, <1>2, StatusChange DEF Typed, Statuses
<1>4. o \in Once(Db(rs, cs), "submit", i.submit, print, InStatus(Db(rs, cs), r, {"DRAFT"}, row))
  BY <1>1, DbIs DEF Submit
<1>5. CASE IsSent(rs, cs, i, r, print)
  <2>1. o.error = "none" /\ o.db = Db(rs, cs) /\ o.request = r
    BY <1>4, <1>5, OnceAgain DEF IsSent
  <2> QED BY <1>5, <2>1 DEF Ready
<1>6. CASE NotSent(rs, cs, i, r)
  <2> SUFFICES ASSUME o.error # "refused" \/ o.db # Db(rs, cs)
               PROVE  /\ o.error = "none" /\ o.request = r
                      /\ \E rs2, cs2 : /\ o.db = Db(rs2, cs2) /\ Store(rs2, cs2, form, n)
                                       /\ Saved(rs2, cs2, i, r, form) /\ IsSent(rs2, cs2, i, r, print)
    BY <1>6
  <2>1. Unused(cs, "submit", i.submit)
    BY <1>6 DEF NotSent
  <2>2. /\ o.error = "none" /\ o.request = r
        /\ \E rs2, cs2 : /\ o.db = Db(rs2, cs2) /\ Kept(rs, rs2) /\ rs2[r] = row
                         /\ \A q \in 1 .. Len(rs) : q # r => rs2[q] = rs[q]
                         /\ cs2 = cs \cup {Command("submit", i.submit, print, r)}
    BY <1>2, <1>3, <1>4, <2>1, ChangedIs
  <2>3. PICK rs2, cs2 : /\ o.db = Db(rs2, cs2) /\ Kept(rs, rs2) /\ rs2[r] = row
                        /\ cs2 = cs \cup {Command("submit", i.submit, print, r)}
    BY <2>2
  <2>4. Store(rs2, cs2, form, n)
    BY <2>3, KeptStore DEF Ready
  <2>5. /\ UsedFor(cs2, "submit", i.submit, print, r)
        /\ Unused(cs, "update", i.update) => Unused(cs2, "update", i.update)
        /\ UsedFor(cs, "update", i.update, <<r, i.content>>, r)
             => UsedFor(cs2, "update", i.update, <<r, i.content>>, r)
        /\ UsedFor(cs, "create", i.create, <<i.content>>, r)
             => UsedFor(cs2, "create", i.create, <<i.content>>, r)
    <3>1. PICK key : /\ key = i.submit /\ Unused(cs, "submit", key)
                     /\ cs2 = cs \cup {Command("submit", key, print, r)}
      BY <2>1, <2>3
    <3>2. UsedFor(cs2, "submit", key, print, r)
      BY <3>1, Remembered
    <3>3. \A key2 :
            /\ Unused(cs, "update", key2) => Unused(cs2, "update", key2)
            /\ \A p, q : UsedFor(cs, "update", key2, p, q) => UsedFor(cs2, "update", key2, p, q)
      BY <3>1, OthersStay
    <3>4. \A key2, p, q : UsedFor(cs, "create", key2, p, q) => UsedFor(cs2, "create", key2, p, q)
      BY <3>1, OthersStay
    <3> QED BY <3>1, <3>2, <3>3, <3>4
  <2>6. r \in Of(rs2, form) /\ rs2[r].content = i.content /\ rs2[r].status # "DRAFT"
    BY <1>2, <1>3, <2>3, KeptOf
  <2>7. Saved(rs2, cs2, i, r, form)
    BY <2>5, <2>6 DEF Saved
  <2>8. IsSent(rs2, cs2, i, r, print)
    BY <2>5, <2>6 DEF IsSent
  <2> QED BY <2>2, <2>3, <2>4, <2>7, <2>8
<1> QED BY <1>5, <1>6

LEMMA MadeIs ==
  ASSUME NEW rs, NEW cs, NEW i, NEW r, NEW f, NEW dep
  PROVE  /\ dep => (Made(rs, cs, i, r, f, dep) <=>
              /\ Saved(rs, cs, i, r, f)
              /\ \/ NotSent(rs, cs, i, r) /\ i.requestId # None
                 \/ IsSent(rs, cs, i, r, <<i.requestId, i.content>>))
         /\ ~dep => (Made(rs, cs, i, r, f, dep) <=>
              /\ Saved(rs, cs, i, r, f)
              /\ NotSent(rs, cs, i, r) \/ IsSent(rs, cs, i, r, <<r, i.content>>))
<1>1. ASSUME dep PROVE PrintOf(i, r, dep) = <<i.requestId, i.content>>
  BY <1>1 DEF PrintOf
<1>2. ASSUME ~dep PROVE PrintOf(i, r, dep) = <<r, i.content>>
  BY <1>2 DEF PrintOf
<1>3. CASE dep
  BY <1>1, <1>3 DEF Made
<1>4. CASE ~dep
  BY <1>2, <1>4 DEF Made
<1> QED BY <1>3, <1>4

\* Nothing sent, and the only request there is belongs to the input.
LEMMA RestIs ==
  ASSUME NEW rs, NEW cs, NEW i, NEW n, Store(rs, cs, form, n),
         \/ Empty(rs, cs, i, form)
         \/ Known(rs, cs, i, form)
         \/ \E r : Saved(rs, cs, i, r, form) /\ NotSent(rs, cs, i, r) /\ i.requestId # None
  PROVE  Rest(rs, cs, i, form)
<1>0. None \notin Of(rs, form)
  BY Constants DEF Of
<1>1. CASE Empty(rs, cs, i, form)
  BY <1>1 DEF Empty, Rest
<1>2. ASSUME NEW r, r \in Of(rs, form), NotSent(rs, cs, i, r), i.requestId # None
      PROVE  Rest(rs, cs, i, form)
  <2>1. \A q \in Of(rs, form) : q = r
    BY <1>2, OneOf
  <2> QED BY <1>2, <2>1 DEF Rest
<1>3. CASE Known(rs, cs, i, form)
  BY <1>0, <1>2, <1>3 DEF Known
<1> QED BY <1>1, <1>2, <1>3 DEF Saved

\* The RPC of 0128: refused, all or nothing, or saved and sent.
LEMMA WithLinesOutcome ==
  ASSUME NEW rs, NEW cs, NEW i, NEW n, NEW dep, dep, Ready(rs, cs, i, n), Progress(rs, cs, i, form, dep),
         NEW o \in SubmitWithLines(Db(rs, cs), i)
  PROVE  \/ o.error = "refused" /\ o.db = Db(rs, cs) /\ Rest(rs, cs, i, form)
         \/ /\ o.error = "none"
            /\ \E rs2, cs2 : /\ o.db = Db(rs2, cs2) /\ Store(rs2, cs2, form, n)
                             /\ Saved(rs2, cs2, i, o.request, form)
                             /\ IsSent(rs2, cs2, i, o.request, <<i.requestId, i.content>>)
<1> DEFINE print == <<i.requestId, i.content>>
<1>1. PICK d \in SaveDraft(Db(rs, cs), i) :
           \/ d.error # "none" /\ o = d
           \/ /\ d.error = "none"
              /\ \E s \in Submit(d.db, d.request, i, print) :
                   o = IF s.error = "none" THEN s ELSE Failed(Db(rs, cs), s.error)
  BY WithLinesIs
<1> HIDE DEF print
<1>2. Result(rs, cs, d)
  BY SaveResult DEF Ready
<1>3. \/ /\ d.error = "refused" /\ d.db = Db(rs, cs)
         /\ Empty(rs, cs, i, form) \/ Known(rs, cs, i, form)
      \/ d.error = "none" /\ d.db = Db(rs, cs) /\ Made(rs, cs, i, d.request, form, dep)
      \/ /\ d.error = "none" /\ (Empty(rs, cs, i, form) \/ Known(rs, cs, i, form))
         /\ \E rs2, cs2 : /\ d.db = Db(rs2, cs2) /\ Store(rs2, cs2, form, n)
                          /\ Saved(rs2, cs2, i, d.request, form) /\ NotSent(rs2, cs2, i, d.request)
  BY SaveIs
<1>4. CASE d.error = "refused"
  <2>1. Store(rs, cs, form, n)
    BY DEF Ready
  <2> QED BY <1>1, <1>3, <1>4, <2>1, RestIs
<1>5. CASE d.error = "none"
  <2>1. PICK r : r = d.request
    OBVIOUS
  <2>2. PICK rs2, cs2 : /\ d.db = Db(rs2, cs2) /\ Store(rs2, cs2, form, n) /\ Saved(rs2, cs2, i, r, form)
                        /\ NotSent(rs2, cs2, i, r) \/ IsSent(rs2, cs2, i, r, print)
                        /\ NotSent(rs2, cs2, i, r) => Rest(rs, cs, i, form)
    <3>1. CASE d.db = Db(rs, cs) /\ Made(rs, cs, i, r, form, dep)
      <4>1. Store(rs, cs, form, n)
        BY DEF Ready
      <4>2. /\ Saved(rs, cs, i, r, form)
            /\ \/ NotSent(rs, cs, i, r) /\ i.requestId # None
               \/ IsSent(rs, cs, i, r, print)
        BY <3>1, MadeIs DEF print
      <4>3. NotSent(rs, cs, i, r) => ~IsSent(rs, cs, i, r, print)
        BY DEF NotSent, IsSent, UsedFor
      <4>4. NotSent(rs, cs, i, r) => Rest(rs, cs, i, form)
        BY <4>1, <4>2, <4>3, RestIs
      <4> QED BY <3>1, <4>1, <4>2, <4>4
    <3>2. CASE /\ Empty(rs, cs, i, form) \/ Known(rs, cs, i, form)
               /\ \E rs2, cs2 : /\ d.db = Db(rs2, cs2) /\ Store(rs2, cs2, form, n)
                                /\ Saved(rs2, cs2, i, r, form) /\ NotSent(rs2, cs2, i, r)
      <4>1. Store(rs, cs, form, n)
        BY DEF Ready
      <4>2. Rest(rs, cs, i, form)
        BY <3>2, <4>1, RestIs
      <4> QED BY <3>2, <4>2
    <3> QED BY <1>3, <1>5, <2>1, <3>1, <3>2
  <2>3. PICK s \in Submit(Db(rs2, cs2), r, i, print) : o = IF s.error = "none" THEN s ELSE Failed(Db(rs, cs), s.error)
    BY <1>1, <1>5, <2>1, <2>2
  <2>4. Ready(rs2, cs2, i, n)
    <3>1. d.db.requests = rs2 /\ d.db.commands = cs2
      BY <2>2, DbIs
    <3>2. Typed(rs2, cs2) /\ Grown(rs, rs2)
      BY <1>2, <3>1 DEF Result
    <3>3. IsInput(i, rs2)
      <4>1. Len(rs) \in Nat /\ Len(rs2) \in Nat
        BY <3>2 DEF Ready, Typed
      <4> QED BY <3>2, <4>1 DEF Ready, IsInput, Grown
    <3> QED BY <2>2, <3>2, <3>3 DEF Ready
  <2>5. \/ s.error = "refused" /\ s.db = Db(rs2, cs2) /\ NotSent(rs2, cs2, i, r)
        \/ /\ s.error = "none" /\ s.request = r
           /\ \E rs3, cs3 : /\ s.db = Db(rs3, cs3) /\ Store(rs3, cs3, form, n)
                            /\ Saved(rs3, cs3, i, r, form) /\ IsSent(rs3, cs3, i, r, print)
    BY <2>2, <2>3, <2>4, SubmitIs
  <2>6. CASE s.error = "refused" /\ NotSent(rs2, cs2, i, r)
    <3>1. o = Failed(Db(rs, cs), "refused")
      BY <2>3, <2>6
    <3>2. o.error = "refused" /\ o.db = Db(rs, cs)
      BY <3>1, OutcomeIs
    <3> QED BY <2>2, <2>6, <3>2
  <2>7. CASE /\ s.error = "none" /\ s.request = r
             /\ \E rs3, cs3 : /\ s.db = Db(rs3, cs3) /\ Store(rs3, cs3, form, n)
                              /\ Saved(rs3, cs3, i, r, form) /\ IsSent(rs3, cs3, i, r, print)
    <3>1. o = s
      BY <2>3, <2>7
    <3> QED BY <2>7, <3>1 DEF print
  <2> QED BY <2>5, <2>6, <2>7
<1> QED BY <1>3, <1>4, <1>5

-----------------------------------------------------------------------------
(* A press under way                                                       *)

\* The tables as an RPC of the press leaves them.
Advanced(rs2, cs2) ==
  /\ Typed(rs2, cs2) /\ Store(rs2, cs2, form, keys)
  /\ Of(requests, form) \subseteq Of(rs2, form)
  /\ Progress(rs2, cs2, call.input, form, deployed)
  /\ call.stage = "submit" => Saved(rs2, cs2, call.input, call.draft, form)

LEMMA GrownOf ==
  ASSUME NEW rs, NEW rs2, Grown(rs, rs2), Len(rs) \in Nat, Len(rs2) \in Nat, NEW f
  PROVE  Of(rs, f) \subseteq Of(rs2, f)
BY DEF Grown, Of

LEMMA ReadyNow ==
  ASSUME Inv, Sending
  PROVE  /\ Ready(requests, commands, call.input, keys) /\ ~Idle
         /\ Progress(requests, commands, call.input, form, deployed)
         /\ Advanced(requests, commands)
<1>1. ~Idle /\ call.draft \in 0 .. Len(requests)
  BY StageIs DEF Inv
<1>2. Typed(requests, commands) /\ form \in 1 .. MaxForms /\ keys \in Nat
  BY <1>1, Constants DEF Inv, TypeInv, Keys
<1>3. IsInput(call.input, requests)
  BY DEF Inv, TypeInv, CallTyped, Sending, InputTyped, IsInput
<1>4. {call.input.create, call.input.update, call.input.submit} \subseteq 1 .. keys
  BY DEF Inv, DraftInv, InputInv, Filled
<1>5. Store(requests, commands, form, keys) /\ Progress(requests, commands, call.input, form, deployed)
  BY DEF Inv, StoreInv, ProgressInv, Current
<1>6. Advanced(requests, commands)
  BY <1>2, <1>5 DEF Advanced, Inv, StageInv
<1> QED BY <1>1, <1>2, <1>3, <1>4, <1>5, <1>6 DEF Ready

(* An RPC of a press is refused when nothing has been sent, or gives the   *)
(* form's request, saved as the press has it; no key is ever reused.       *)
LEMMA PressOutcome ==
  ASSUME Inv, Sending, Present, NEW o \in Outcomes(Db(requests, commands))
  PROVE  \/ /\ o.error = "refused" /\ o.db = Db(requests, commands)
            /\ call.stage \in {"atomic", "draft"} /\ Rest(requests, commands, call.input, form)
         \/ /\ o.error = "refused" /\ o.db = Db(requests, commands)
            /\ call.stage = "submit" /\ NotSent(requests, commands, call.input, call.draft)
         \/ /\ o.error = "none"
            /\ \E rs2, cs2 : /\ o.db = Db(rs2, cs2) /\ Advanced(rs2, cs2)
                             /\ Saved(rs2, cs2, call.input, o.request, form)
                             /\ call.stage = "submit" => o.request = call.draft
                             /\ call.stage # "draft" => rs2[o.request].status # "DRAFT"
<1> DEFINE rs == requests
           cs == commands
           i == call.input
<1>1. /\ Ready(rs, cs, i, keys) /\ Progress(rs, cs, i, form, deployed) /\ Advanced(rs, cs)
  BY ReadyNow
<1>2. Result(rs, cs, o)
  <2>1. /\ call.stage \in {"atomic", "draft", "submit", "cancel"}
        /\ call.stage \in {"submit", "cancel"} => call.draft \in 1 .. Len(rs)
    BY StageIs DEF Sending, Inv
  <2> QED BY <1>1, <2>1, OutcomeResult DEF Ready
<1>3. ASSUME NEW rs2, NEW cs2, o.db = Db(rs2, cs2), Store(rs2, cs2, form, keys), NEW r,
             Made(rs2, cs2, i, r, form, deployed), call.stage = "submit" => r = call.draft
      PROVE  Advanced(rs2, cs2)
  <2>1. o.db.requests = rs2 /\ o.db.commands = cs2
    BY <1>3, DbIs
  <2>2. Typed(rs2, cs2) /\ Grown(rs, rs2)
    BY <1>2, <2>1 DEF Result
  <2>3. Of(rs, form) \subseteq Of(rs2, form)
    BY <1>1, <2>2, GrownOf DEF Ready, Typed
  <2>4. Saved(rs2, cs2, i, r, form) /\ r \in Of(rs2, form)
    BY <1>3 DEF Made, Saved
  <2> QED BY <1>3, <2>2, <2>3, <2>4 DEF Advanced, Progress
<1>4. CASE call.stage = "atomic"
  <2>1. deployed
    BY <1>4 DEF Present
  <2>2. o \in SubmitWithLines(Db(rs, cs), i)
    BY <1>4 DEF Outcomes
  <2>3. \/ o.error = "refused" /\ o.db = Db(rs, cs) /\ Rest(rs, cs, i, form)
        \/ /\ o.error = "none"
           /\ \E rs2, cs2 : /\ o.db = Db(rs2, cs2) /\ Store(rs2, cs2, form, keys)
                            /\ Saved(rs2, cs2, i, o.request, form)
                            /\ IsSent(rs2, cs2, i, o.request, <<i.requestId, i.content>>)
    BY <1>1, <2>1, <2>2, WithLinesOutcome
  <2>4. ASSUME NEW rs2, NEW cs2, o.db = Db(rs2, cs2), Store(rs2, cs2, form, keys),
               Saved(rs2, cs2, i, o.request, form),
               IsSent(rs2, cs2, i, o.request, <<i.requestId, i.content>>)
        PROVE  Advanced(rs2, cs2) /\ rs2[o.request].status # "DRAFT"
    <3>1. Made(rs2, cs2, i, o.request, form, deployed)
      BY <2>1, <2>4, MadeIs
    <3>2. rs2[o.request].status # "DRAFT"
      BY <2>4 DEF IsSent
    <3> QED BY <1>3, <1>4, <2>4, <3>1, <3>2
  <2> QED BY <1>4, <2>3, <2>4
<1>5. CASE call.stage = "draft"
  <2>1. ~deployed
    BY <1>5 DEF Inv, StageInv
  <2>2. o \in SaveDraft(Db(rs, cs), i)
    BY <1>5 DEF Outcomes
  <2>3. \/ /\ o.error = "refused" /\ o.db = Db(rs, cs)
           /\ Empty(rs, cs, i, form) \/ Known(rs, cs, i, form)
        \/ o.error = "none" /\ o.db = Db(rs, cs) /\ Made(rs, cs, i, o.request, form, deployed)
        \/ /\ o.error = "none" /\ (Empty(rs, cs, i, form) \/ Known(rs, cs, i, form))
           /\ \E rs2, cs2 : /\ o.db = Db(rs2, cs2) /\ Store(rs2, cs2, form, keys)
                            /\ Saved(rs2, cs2, i, o.request, form) /\ NotSent(rs2, cs2, i, o.request)
    BY <1>1, <2>2, SaveIs
  <2>4. CASE o.error = "refused" /\ o.db = Db(rs, cs) /\ (Empty(rs, cs, i, form) \/ Known(rs, cs, i, form))
    <3>1. Store(rs, cs, form, keys)
      BY <1>1 DEF Ready
    <3>2. Rest(rs, cs, i, form)
      BY <2>4, <3>1, RestIs
    <3> QED BY <1>5, <2>4, <3>2
  <2>5. CASE o.error = "none" /\ o.db = Db(rs, cs) /\ Made(rs, cs, i, o.request, form, deployed)
    <3>1. Saved(rs, cs, i, o.request, form)
      BY <2>5 DEF Made
    <3> QED BY <1>1, <1>5, <2>5, <3>1
  <2>6. ASSUME NEW rs2, NEW cs2, o.db = Db(rs2, cs2), Store(rs2, cs2, form, keys),
               Saved(rs2, cs2, i, o.request, form), NotSent(rs2, cs2, i, o.request)
        PROVE  Advanced(rs2, cs2)
    <3>1. Made(rs2, cs2, i, o.request, form, deployed)
      BY <2>1, <2>6, MadeIs
    <3> QED BY <1>3, <1>5, <2>6, <3>1
  <2> QED BY <1>5, <2>3, <2>4, <2>5, <2>6
<1>6. CASE call.stage = "submit"
  <2>1. ~deployed /\ Saved(rs, cs, i, call.draft, form)
    BY <1>6 DEF Inv, StageInv
  <2>2. PICK r : r = call.draft
    OBVIOUS
  <2>3. o \in Submit(Db(rs, cs), r, i, <<r, i.content>>)
    BY <1>6, <2>2 DEF Outcomes
  <2>4. NotSent(rs, cs, i, r) \/ IsSent(rs, cs, i, r, <<r, i.content>>)
    <3>1. CASE Empty(rs, cs, i, form)
      BY <2>1, <3>1 DEF Empty, Saved
    <3>2. CASE Known(rs, cs, i, form)
      <4>1. None \notin Of(rs, form)
        BY Constants DEF Of
      <4> QED BY <2>1, <3>2, <4>1 DEF Known, Saved, UsedFor
    <3>3. ASSUME NEW q \in Of(rs, form), Made(rs, cs, i, q, form, deployed)
          PROVE  NotSent(rs, cs, i, r) \/ IsSent(rs, cs, i, r, <<r, i.content>>)
      <4>1. q = r
        <5>1. r \in Of(rs, form)
          BY <2>1, <2>2 DEF Saved
        <5>2. Store(rs, cs, form, keys)
          BY <1>1 DEF Ready
        <5> QED BY <5>1, <5>2, OneOf
      <4>2. Made(rs, cs, i, r, form, deployed)
        BY <3>3, <4>1
      <4>3. PrintOf(i, r, deployed) = <<r, i.content>>
        BY <2>1 DEF PrintOf
      <4> QED BY <4>2, <4>3 DEF Made
    <3> QED BY <1>1, <3>1, <3>2, <3>3 DEF Progress
  <2>5. \/ o.error = "refused" /\ o.db = Db(rs, cs) /\ NotSent(rs, cs, i, r)
        \/ /\ o.error = "none" /\ o.request = r
           /\ \E rs2, cs2 : /\ o.db = Db(rs2, cs2) /\ Store(rs2, cs2, form, keys)
                            /\ Saved(rs2, cs2, i, r, form) /\ IsSent(rs2, cs2, i, r, <<r, i.content>>)
    BY <1>1, <2>1, <2>2, <2>3, <2>4, SubmitIs
  <2>6. ASSUME NEW rs2, NEW cs2, o.db = Db(rs2, cs2), Store(rs2, cs2, form, keys),
               Saved(rs2, cs2, i, r, form), IsSent(rs2, cs2, i, r, <<r, i.content>>)
        PROVE  Advanced(rs2, cs2) /\ rs2[r].status # "DRAFT"
    <3>1. Made(rs2, cs2, i, r, form, deployed)
      BY <2>1, <2>6, MadeIs
    <3>2. rs2[r].status # "DRAFT"
      BY <2>6 DEF IsSent
    <3> QED BY <1>3, <2>2, <2>6, <3>1, <3>2
  <2> QED BY <1>6, <2>2, <2>5, <2>6
<1> QED BY <1>4, <1>5, <1>6 DEF Sending

-----------------------------------------------------------------------------
(* The browser after a press                                               *)

LEMMA InputOfIs ==
  ASSUME ~Recovering, NEW op, NEW j, j = InputOf(op)
  PROVE  /\ j.requestId = entry /\ j.content = content
         /\ j.create = op.create /\ j.update = op.update /\ j.submit = op.submit
BY DEF InputOf

LEMMA SameInput ==
  ASSUME NEW i \in Input, NEW j \in Input, i.requestId = j.requestId, i.content = j.content,
         i.create = j.create, i.update = j.update, i.submit = j.submit
  PROVE  i = j
BY DEF Input

LEMMA NothingIs ==
  /\ NoInput.requestId = None /\ NoInput.content = None
  /\ NoInput.create = None /\ NoInput.update = None /\ NoInput.submit = None
  /\ NoOperation.create = None /\ NoOperation.update = None /\ NoOperation.submit = None
  /\ NoOperation.draftId = None
  /\ NoCall.stage = "none" /\ NoCall.draft = None
BY DEF NoInput, NoOperation, NoCall

\* GaveUp, variable by variable.
LEMMA GaveUpIs ==
  ASSUME Inv, Sending, NEW r, NEW e, NEW outcome, GaveUp(r, e, outcome)
  PROVE  /\ operation'.create = operation.create /\ operation'.update = operation.update
         /\ operation'.submit = operation.submit /\ operation' # NoOperation
         /\ {operation.create, operation.update, operation.submit} \subseteq 1 .. keys
         /\ r = None => operation'.draftId = operation.draftId
         /\ r # None => operation'.draftId = r
         /\ Idle' /\ ~Sending' /\ call'.stage = "none" /\ call'.draft = None
         /\ form' = form /\ content' = content /\ content # None /\ entry' = e
         /\ told'.outcome = outcome /\ told'.form = form
         /\ entry = operation.draftId
<1>1. call' = NoCall /\ form' = form /\ content' = content /\ entry' = e
  BY DEF GaveUp
<1>2. Idle' /\ ~Sending' /\ call'.stage = "none" /\ call'.draft = None
  BY <1>1, NothingIs DEF Idle, Sending
<1>3. told'.outcome = outcome /\ told'.form = form
  <2>1. told' = [outcome |-> outcome, form |-> form, content |-> call.input.content]
    BY DEF GaveUp, Tell
  <2> QED BY <2>1
<1>4. Filled(call.input)
  BY DEF Inv, InputInv
<1>5. content # None /\ operation # NoOperation
  BY <1>4 DEF Filled
<1>6. {operation.create, operation.update, operation.submit} \subseteq 1 .. keys
  BY <1>5 DEF Inv, DraftInv
<1>7. /\ operation'.create = operation.create /\ operation'.update = operation.update
      /\ operation'.submit = operation.submit
      /\ r = None => operation'.draftId = operation.draftId
      /\ r # None => operation'.draftId = r
  <2>1. operation \in [create : Keys, update : Keys, submit : Keys, draftId : 0 .. Len(requests)]
    BY DEF Inv, TypeInv, OperationTyped
  <2>2. CASE r = None
    BY <2>1, <2>2 DEF GaveUp
  <2>3. CASE r # None
    <3>1. operation' = [operation EXCEPT !.draftId = r]
      BY <2>3 DEF GaveUp
    <3> QED BY <2>1, <2>3, <3>1
  <2> QED BY <2>2, <2>3
<1>8. operation' # NoOperation
  BY <1>6, <1>7, NothingIs DEF None
<1>9. entry = operation.draftId
  <2>1. ~Idle
    BY StageIs DEF Inv
  <2> QED BY <2>1 DEF Inv, DraftInv
<1> QED BY <1>1, <1>2, <1>3, <1>5, <1>6, <1>7, <1>8, <1>9

(* The outcome is unknown: the press may be further than the browser is,   *)
(* which keeps its input for the next one.                                 *)
LEMMA UnknownInv ==
  ASSUME Inv, TypeInv', Sending, Advanced(requests', commands'), UNCHANGED <<deployed, missing, keys>>,
         NEW r, NEW e, GaveUp(r, e, "unknown"),
         (r = None /\ e = entry) \/ (r \in Of(requests', form) /\ e \in {r, entry})
  PROVE  Inv'
<1>1. /\ operation'.create = operation.create /\ operation'.update = operation.update
      /\ operation'.submit = operation.submit /\ operation' # NoOperation
      /\ {operation.create, operation.update, operation.submit} \subseteq 1 .. keys
      /\ r = None => operation'.draftId = operation.draftId
      /\ r # None => operation'.draftId = r
      /\ Idle' /\ ~Sending' /\ call'.stage = "none" /\ call'.draft = None
      /\ form' = form /\ content' = content /\ content # None /\ entry' = e
      /\ told'.outcome = "unknown" /\ entry = operation.draftId
  BY GaveUpIs
<1>2. Filled(call.input)
  BY DEF Inv, InputInv
<1>3. recovery' = call.input /\ Recovering'
  <2>1. recovery' = call.input
    BY DEF GaveUp
  <2>2. call.input.content # None
    BY <1>2 DEF Filled
  <2>3. call.input # NoInput
    BY <2>2, NothingIs
  <2> QED BY <2>1, <2>3 DEF Recovering
<1>4. Store(requests', commands', form, keys) /\ Of(requests, form) \subseteq Of(requests', form)
      /\ Progress(requests', commands', call.input, form, deployed)
  BY DEF Advanced
<1>5. entry # None => entry \in Of(requests', form)
  BY <1>1, <1>4 DEF Inv, DraftInv
<1>6. r \in Of(requests', form) => r # None
  BY Constants DEF Of
<1>7. r \in Of(requests', form) /\ entry # None => entry = r
  BY <1>4, <1>5, OneOf
<1>8. StoreInv'
  BY <1>1, <1>4 DEF StoreInv
<1>9. DraftInv'
  <2>1. entry' \in {None, operation'.draftId}
    BY <1>1, <1>6, <1>7
  <2>2. operation'.draftId # None => operation'.draftId \in Of(requests', form')
    BY <1>1, <1>5, <1>6
  <2>3. {operation'.create, operation'.update, operation'.submit} \subseteq 1 .. keys'
    BY <1>1
  <2> QED BY <1>1, <1>3, <2>1, <2>2, <2>3 DEF DraftInv
<1>10. InputInv'
  <2>1. recovery'.requestId \in {None, entry'}
    BY <1>1, <1>2, <1>3, <1>6, <1>7 DEF Filled
  <2>2. Filled(recovery)'
    BY <1>1, <1>2, <1>3, <2>1 DEF Filled
  <2> QED BY <1>1, <2>2 DEF InputInv
<1>11. StageInv'
  BY <1>1 DEF StageInv, Inv
<1>12. RestInv'
  BY <1>3 DEF RestInv
<1>13. ProgressInv'
  <2>1. Current' = call.input
    BY <1>1, <1>3 DEF Current, InputOf
  <2> QED BY <1>1, <1>4, <2>1 DEF ProgressInv
<1>14. ToldInv'
  BY <1>1 DEF ToldInv, Truth
<1> QED BY <1>8, <1>9, <1>10, <1>11, <1>12, <1>13, <1>14 DEF Inv

(* The press has failed: what the browser then knows of the form's request *)
(* is all there is, and nothing has been sent.                             *)
LEMMA FailedInv ==
  ASSUME Inv, TypeInv', Sending, UNCHANGED <<requests, commands, deployed, missing, keys>>,
         NEW r, NEW e, GaveUp(r, e, "failed"),
         \/ r = None /\ e = entry /\ Rest(requests, commands, call.input, form)
         \/ /\ call.stage = "submit" /\ r = call.draft /\ e = call.draft
            /\ NotSent(requests, commands, call.input, call.draft)
  PROVE  Inv'
<1>1. /\ operation'.create = operation.create /\ operation'.update = operation.update
      /\ operation'.submit = operation.submit /\ operation' # NoOperation
      /\ {operation.create, operation.update, operation.submit} \subseteq 1 .. keys
      /\ r = None => operation'.draftId = operation.draftId
      /\ r # None => operation'.draftId = r
      /\ Idle' /\ ~Sending' /\ call'.stage = "none" /\ call'.draft = None
      /\ form' = form /\ content' = content /\ content # None /\ entry' = e
      /\ told'.outcome = "failed" /\ told'.form = form /\ entry = operation.draftId
  BY GaveUpIs
<1>2. Filled(call.input) /\ call.input \in Input
  BY DEF Inv, InputInv, TypeInv, CallTyped
<1>3. ~Recovering'
  <2>1. recovery' = NoInput
    BY DEF GaveUp
  <2> QED BY <2>1 DEF Recovering
<1>4. PICK j : j = InputOf(operation)'
  OBVIOUS
<1>5. /\ j.requestId = e /\ j.content = call.input.content /\ j.create = call.input.create
      /\ j.update = call.input.update /\ j.submit = call.input.submit /\ j \in Input
  <2>2. j = [requestId |-> entry', content |-> content', create |-> operation'.create,
             update |-> operation'.update, submit |-> operation'.submit]
    BY <1>3, <1>4 DEF InputOf
  <2>3. /\ j.requestId = entry' /\ j.content = content' /\ j.create = operation'.create
        /\ j.update = operation'.update /\ j.submit = operation'.submit
    BY <2>2
  <2>4. entry' \in Nat /\ content' \in Contents \cup {None} /\ {operation'.create, operation'.update, operation'.submit} \subseteq Keys
    BY DEF TypeInv, Typed, OperationTyped
  <2>5. j \in Input
    BY <2>2, <2>4 DEF Input
  <2> QED BY <1>1, <1>2, <2>3, <2>5 DEF Filled
<1>6. call.input.requestId = e => j = call.input
  BY <1>2, <1>5, SameInput
<1>7. /\ Store(requests, commands, form, keys) /\ None \notin Of(requests, form)
      /\ Progress(requests, commands, call.input, form, deployed)
  BY Constants, ReadyNow DEF Inv, StoreInv, Of
<1>8. /\ Rest(requests, commands, j, form) /\ Progress(requests, commands, j, form, deployed)
      /\ e = operation'.draftId /\ (e # None => e \in Of(requests, form))
  <2>1. CASE r = None /\ e = entry /\ Rest(requests, commands, call.input, form)
    <3>1. e = operation'.draftId /\ (e # None => e \in Of(requests, form))
      BY <1>1, <2>1 DEF Inv, DraftInv
    <3>2. call.input.requestId = e
      <4>1. call.input.requestId \in {None, e}
        BY <1>2, <2>1 DEF Filled
      <4>2. call.input.requestId = None => e = None
        BY <2>1, <3>1 DEF Rest
      <4> QED BY <4>1, <4>2
    <3> QED BY <1>6, <1>7, <2>1, <3>1, <3>2
  <2>2. CASE /\ call.stage = "submit" /\ r = call.draft /\ e = call.draft
             /\ NotSent(requests, commands, call.input, call.draft)
    <3>1. Saved(requests, commands, call.input, e, form) /\ NotSent(requests, commands, call.input, e)
      BY <2>2 DEF Inv, StageInv
    <3>2. e \in Of(requests, form) /\ e # None /\ r = e
      BY <1>7, <2>2, <3>1 DEF Saved
    <3>3. NotSent(requests, commands, j, e)
      BY <1>5, <3>1 DEF NotSent
    <3>4. Rest(requests, commands, j, form)
      <4>1. \A q \in Of(requests, form) : q = e
        BY <1>7, <3>2, OneOf
      <4> QED BY <1>5, <3>2, <3>3, <4>1 DEF Rest
    <3>5. Progress(requests, commands, j, form, deployed)
      <4>1. CASE Unused(commands, "update", call.input.update)
        <5>1. Known(requests, commands, j, form)
          BY <1>5, <3>2, <3>3, <4>1 DEF Known
        <5> QED BY <5>1 DEF Progress
      <4>2. CASE call.input.requestId = e
        BY <1>6, <1>7, <4>2
      <4> QED BY <3>1, <4>1, <4>2 DEF Saved
    <3> QED BY <1>1, <3>2, <3>4, <3>5
  <2> QED BY <2>1, <2>2
<1>9. StoreInv'
  BY <1>1, <1>7 DEF StoreInv
<1>10. DraftInv'
  BY <1>1, <1>8 DEF DraftInv
<1>11. InputInv'
  BY <1>1, <1>3 DEF InputInv
<1>12. StageInv'
  BY <1>1 DEF StageInv, Inv
<1>13. RestInv' /\ ProgressInv'
  <2>1. Current' = j
    BY <1>1, <1>4 DEF Current
  <2> QED BY <1>1, <1>4, <1>8, <2>1 DEF RestInv, ProgressInv
<1>14. ToldInv'
  BY <1>1, <1>3 DEF ToldInv, Truth
<1> QED BY <1>9, <1>10, <1>11, <1>12, <1>13, <1>14 DEF Inv

\* The next form: nothing of it is in the tables.
LEMMA NextFormInv ==
  ASSUME Inv, TypeInv', ~Idle, ResetForm, call' = NoCall, UNCHANGED <<deployed, missing, keys>>,
         Store(requests', commands', form, keys), Typed(requests', commands'),
         told'.outcome \in {"none", "success"}, Truth(requests', told')
  PROVE  Inv'
<1>1. /\ Idle' /\ ~Sending' /\ ~Recovering' /\ call'.stage = "none" /\ call'.draft = None
      /\ form' = form + 1 /\ operation' = NoOperation /\ entry' = None /\ content' = None
  BY NothingIs DEF ResetForm, Idle, Sending, Recovering
<1>2. PICK j : j = InputOf(operation)'
  OBVIOUS
<1>3. j.requestId = None /\ j.create = None /\ j.update = None /\ j.submit = None
  <2>1. j = [requestId |-> entry', content |-> content', create |-> operation'.create,
             update |-> operation'.update, submit |-> operation'.submit]
    BY <1>1, <1>2 DEF InputOf
  <2>2. /\ j.requestId = entry' /\ j.content = content' /\ j.create = operation'.create
        /\ j.update = operation'.update /\ j.submit = operation'.submit
    BY <2>1
  <2> QED BY <1>1, <2>2, NothingIs
<1>4. form \in Nat /\ \A r \in 1 .. Len(requests') : requests'[r].form \in Nat
  <2>1. form \in Nat
    BY Constants DEF Inv, TypeInv
  <2>2. \A r \in 1 .. Len(requests') : requests'[r].form \in 1 .. MaxForms
    BY RowIs DEF Typed
  <2> QED BY <2>1, <2>2, Constants
<1>5. Of(requests', form') = {}
  BY <1>1, <1>4 DEF Of, Store
<1>6. \A op \in {"create", "update", "submit"} : Unused(commands', op, None)
  <2>1. None \notin 1 .. keys
    BY Constants
  <2> QED BY <2>1 DEF Store, Unused
<1>7. StoreInv'
  <2>1. \A r \in 1 .. Len(requests') : requests'[r].form <= form + 1
    BY <1>4 DEF Store
  <2> QED BY <1>1, <2>1 DEF StoreInv, Store
<1>8. DraftInv'
  BY <1>1, NothingIs DEF DraftInv
<1>9. InputInv' /\ StageInv'
  BY <1>1 DEF InputInv, StageInv, Inv
<1>10. RestInv' /\ ProgressInv'
  <2>1. Current' = j
    BY <1>1, <1>2 DEF Current
  <2>2. Rest(requests', commands', j, form')
    BY <1>5 DEF Rest
  <2>3. Empty(requests', commands', j, form')
    BY <1>3, <1>5, <1>6 DEF Empty
  <2> QED BY <1>2, <2>1, <2>2, <2>3 DEF RestInv, ProgressInv, Progress
<1>11. ToldInv'
  BY <1>1 DEF ToldInv
<1> QED BY <1>7, <1>8, <1>9, <1>10, <1>11 DEF Inv

-----------------------------------------------------------------------------
(* What happens to the tables beside a press                               *)

\* Rows keep what they say, and no request is sent or drafted again.
Aged(rs, rs2) ==
  /\ Kept(rs, rs2)
  /\ \A r \in 1 .. Len(rs) :
       /\ rs2[r].content = rs[r].content
       /\ rs[r].status \in {"DRAFT", "CANCELLED"} => rs2[r].status \in {"DRAFT", "CANCELLED"}
       /\ rs[r].status # "DRAFT" => rs2[r].status # "DRAFT"

\* The commands of a press stay as they were.
SameCommands(cs, cs2) ==
  \A op \in {"create", "update", "submit"} : \A key :
    /\ Unused(cs, op, key) => Unused(cs2, op, key)
    /\ \A print, r : UsedFor(cs, op, key, print, r) => UsedFor(cs2, op, key, print, r)

LEMMA SameButCancel ==
  ASSUME NEW cs, NEW key, NEW print, NEW r, NEW cs2, cs2 = cs \cup {Command("cancel", key, print, r)}
  PROVE  SameCommands(cs, cs2)
<1> SUFFICES ASSUME NEW op \in {"create", "update", "submit"}
             PROVE  \A key2 :
                      /\ Unused(cs, op, key2) => Unused(cs2, op, key2)
                      /\ \A p, q : UsedFor(cs, op, key2, p, q) => UsedFor(cs2, op, key2, p, q)
  BY DEF SameCommands
<1>1. op # "cancel"
  OBVIOUS
<1> QED BY <1>1, OthersStay

LEMMA AgedIs ==
  ASSUME NEW rs, NEW rs2, NEW cs, NEW cs2, Aged(rs, rs2), SameCommands(cs, cs2), NEW f, NEW i
  PROVE  /\ Of(rs2, f) = Of(rs, f)
         /\ \A r \in Of(rs, f) :
              /\ NotSent(rs, cs, i, r) => NotSent(rs2, cs2, i, r)
              /\ \A print : IsSent(rs, cs, i, r, print) => IsSent(rs2, cs2, i, r, print)
              /\ Saved(rs, cs, i, r, f) => Saved(rs2, cs2, i, r, f)
<1>1. Of(rs2, f) = Of(rs, f)
  BY KeptOf DEF Aged
<1> SUFFICES ASSUME NEW r \in Of(rs, f)
             PROVE  /\ NotSent(rs, cs, i, r) => NotSent(rs2, cs2, i, r)
                    /\ \A print : IsSent(rs, cs, i, r, print) => IsSent(rs2, cs2, i, r, print)
                    /\ Saved(rs, cs, i, r, f) => Saved(rs2, cs2, i, r, f)
  BY <1>1
<1>2. /\ rs2[r].content = rs[r].content
      /\ rs[r].status \in {"DRAFT", "CANCELLED"} => rs2[r].status \in {"DRAFT", "CANCELLED"}
      /\ rs[r].status # "DRAFT" => rs2[r].status # "DRAFT"
  BY DEF Aged, Of
<1>3. NotSent(rs, cs, i, r) => NotSent(rs2, cs2, i, r)
  BY <1>2 DEF NotSent, SameCommands
<1>4. ASSUME NEW print, IsSent(rs, cs, i, r, print) PROVE IsSent(rs2, cs2, i, r, print)
  BY <1>2, <1>4 DEF IsSent, SameCommands
<1>5. ASSUME Saved(rs, cs, i, r, f) PROVE Saved(rs2, cs2, i, r, f)
  BY <1>1, <1>2, <1>5 DEF Saved, SameCommands
<1> QED BY <1>3, <1>4, <1>5

LEMMA AgedProgress ==
  ASSUME NEW rs, NEW rs2, NEW cs, NEW cs2, Aged(rs, rs2), SameCommands(cs, cs2), NEW f, NEW i, NEW dep
  PROVE  /\ Progress(rs, cs, i, f, dep) => Progress(rs2, cs2, i, f, dep)
         /\ Rest(rs, cs, i, f) => Rest(rs2, cs2, i, f)
<1>1. /\ Of(rs2, f) = Of(rs, f)
      /\ \A r \in Of(rs, f) :
           /\ NotSent(rs, cs, i, r) => NotSent(rs2, cs2, i, r)
           /\ \A print : IsSent(rs, cs, i, r, print) => IsSent(rs2, cs2, i, r, print)
           /\ Saved(rs, cs, i, r, f) => Saved(rs2, cs2, i, r, f)
  BY AgedIs
<1>2. Rest(rs, cs, i, f) => Rest(rs2, cs2, i, f)
  BY <1>1 DEF Rest
<1>3. ASSUME Empty(rs, cs, i, f) PROVE Empty(rs2, cs2, i, f)
  BY <1>1, <1>3 DEF Empty, SameCommands
<1>4. ASSUME Known(rs, cs, i, f) PROVE Known(rs2, cs2, i, f)
  BY <1>1, <1>4 DEF Known, SameCommands
<1>5. ASSUME NEW r \in Of(rs, f), Made(rs, cs, i, r, f, dep) PROVE Made(rs2, cs2, i, r, f, dep)
  BY <1>1, <1>5 DEF Made
<1> QED BY <1>1, <1>2, <1>3, <1>4, <1>5 DEF Progress

LEMMA AgedTruth ==
  ASSUME NEW rs, NEW rs2, Aged(rs, rs2), NEW t, Truth(rs, t)
  PROVE  Truth(rs2, t)
<1>1. Of(rs2, t.form) = Of(rs, t.form)
  BY KeptOf DEF Aged
<1>2. \A r \in Of(rs, t.form) : /\ rs2[r].content = rs[r].content
                                /\ rs[r].status # "DRAFT" => rs2[r].status # "DRAFT"
  BY DEF Aged, Of
<1> QED BY <1>1, <1>2 DEF Truth

\* The tables have aged, and the call goes on, or was a cancellation.
LEMMA AgedInv ==
  ASSUME Inv, TypeInv', Aged(requests, requests'), SameCommands(commands, commands'),
         Store(requests', commands', form, keys),
         UNCHANGED <<deployed, form, content, operation, entry, recovery, missing, keys, told>>,
         call' = call \/ (call.stage = "cancel" /\ call' = NoCall)
  PROVE  Inv'
<1>1. Sending' = Sending /\ (Idle => Idle') /\ (Sending => call' = call) /\ (Recovering' = Recovering)
  BY NothingIs DEF Sending, Idle, Recovering
<1>2. InputOf(operation)' = InputOf(operation) /\ Current' = Current
  BY <1>1 DEF InputOf, Current
<1>3. \A f : Of(requests', f) = Of(requests, f)
  BY KeptOf DEF Aged
<1>4. StoreInv'
  BY DEF StoreInv
<1>5. DraftInv'
  <2>1. ~Idle' \/ ~Recovering' => ~Idle \/ ~Recovering
    BY <1>1
  <2> QED BY <1>3, <2>1 DEF Inv, DraftInv
<1>6. InputInv'
  <2>1. \A i : Filled(i)' <=> Filled(i)
    BY DEF Filled
  <2>2. CASE Sending
    BY <1>1, <2>1, <2>2 DEF Inv, InputInv, Filled
  <2>3. CASE ~Sending
    BY <1>1, <2>1, <2>3 DEF Inv, InputInv, Filled
  <2> QED BY <2>2, <2>3
<1>7. StageInv'
  <2>1. CASE call' = call
    <3>1. call.stage = "submit" => Saved(requests', commands', call.input, call.draft, form)
      <4>1. ASSUME Saved(requests, commands, call.input, call.draft, form)
            PROVE  Saved(requests', commands', call.input, call.draft, form)
        <5>1. call.draft \in Of(requests, form)
          BY <4>1 DEF Saved
        <5> QED BY <4>1, <5>1, AgedIs
      <4> QED BY <4>1 DEF Inv, StageInv
    <3> QED BY <1>1, <2>1, <3>1 DEF Inv, StageInv
  <2>2. CASE call' = NoCall
    BY <2>2, NothingIs DEF Inv, StageInv
  <2> QED BY <2>1, <2>2
<1>8. RestInv'
  BY <1>1, <1>2, AgedProgress DEF Inv, RestInv
<1>9. ProgressInv'
  BY <1>2, AgedProgress DEF Inv, ProgressInv
<1>10. ToldInv'
  <2>1. Truth(requests', told)
    BY AgedTruth DEF Inv, ToldInv
  <2> QED BY <1>1, <2>1 DEF Inv, ToldInv
<1> QED BY <1>4, <1>5, <1>6, <1>7, <1>8, <1>9, <1>10 DEF Inv

LEMMA NotAged ==
  ASSUME Inv
  PROVE  Aged(requests, requests) /\ SameCommands(commands, commands) /\ Store(requests, commands, form, keys)
<1>1. Aged(requests, requests)
  BY DEF Aged, Kept
<1>2. SameCommands(commands, commands)
  BY DEF SameCommands
<1> QED BY <1>1, <1>2 DEF Inv, StoreInv

\* A row that is cancelled or shipped is not drafted, nor sent if it was not.
LEMMA RowAges ==
  ASSUME NEW rs, NEW rs2, Kept(rs, rs2), NEW r \in 1 .. Len(rs), NEW status \in {"CANCELLED", "SHIPPED"},
         rs2[r].status = status, rs2[r].content = rs[r].content,
         rs[r].status = "SUBMITTED" \/ (rs[r].status = "DRAFT" /\ status = "CANCELLED"),
         \A q \in 1 .. Len(rs) : q # r => rs2[q] = rs[q]
  PROVE  Aged(rs, rs2)
BY DEF Aged

LEMMA CancelOutcome ==
  ASSUME Inv, call.stage = "cancel", NEW o \in Outcomes(Db(requests, commands)), PerformedBy(o)
  PROVE  /\ Aged(requests, requests') /\ SameCommands(commands, commands')
         /\ Store(requests', commands', form, keys)
<1>1. PICK r \in 1 .. Len(requests) : r = call.draft
  BY StageIs DEF Inv
<1>2. PICK row : row = [requests[r] EXCEPT !.status = "CANCELLED"]
  OBVIOUS
<1>3. Typed(requests, commands) /\ requests \in Seq(Row) /\ StoreInv
  BY DEF Inv, TypeInv, Typed
<1>4. row \in Row /\ row.form = requests[r].form /\ row.content = requests[r].content /\ row.status = "CANCELLED"
  BY <1>2, <1>3, StatusChange DEF Statuses
<1>5. PICK print : print = <<r>>
  OBVIOUS
<1>6. o \in Once(Db(requests, commands), "cancel", form, print,
                 InStatus(Db(requests, commands), r, {"DRAFT", "SUBMITTED"}, row))
  BY <1>1, <1>2, <1>5, DbIs DEF Outcomes
<1>7. requests' = o.db.requests /\ commands' = o.db.commands
  BY DEF PerformedBy
<1>8. CASE o.db = Db(requests, commands)
  BY <1>7, <1>8, DbIs, NotAged
<1>9. CASE o.db # Db(requests, commands)
  <2>1. Unused(commands, "cancel", form)
    <3>1. PICK fresh : fresh = InStatus(Db(requests, commands), r, {"DRAFT", "SUBMITTED"}, row)
      OBVIOUS
    <3> QED BY <1>6, <1>9, <3>1, OnceIs
  <2>2. /\ o.error = "none" /\ o.request = r /\ requests[r].status \in {"DRAFT", "SUBMITTED"}
        /\ \E rs2, cs2 : /\ o.db = Db(rs2, cs2) /\ Kept(requests, rs2) /\ rs2[r] = row
                         /\ \A q \in 1 .. Len(requests) : q # r => rs2[q] = requests[q]
                         /\ cs2 = commands \cup {Command("cancel", form, print, r)}
    BY <1>3, <1>4, <1>6, <1>9, <2>1, ChangedIs
  <2>3. PICK rs2, cs2 : /\ o.db = Db(rs2, cs2) /\ Kept(requests, rs2) /\ rs2[r] = row
                        /\ \A q \in 1 .. Len(requests) : q # r => rs2[q] = requests[q]
                        /\ cs2 = commands \cup {Command("cancel", form, print, r)}
    BY <2>2
  <2>4. requests' = rs2 /\ commands' = cs2
    BY <1>7, <2>3, DbIs
  <2>5. Aged(requests, rs2)
    BY <1>4, <2>2, <2>3, RowAges
  <2>6. SameCommands(commands, cs2)
    BY <2>3, SameButCancel
  <2>7. Store(rs2, cs2, form, keys)
    BY <1>3, <2>3, KeptStore DEF StoreInv
  <2> QED BY <2>4, <2>5, <2>6, <2>7
<1> QED BY <1>8, <1>9

LEMMA SubmitNextInv ==
  ASSUME Inv, TypeInv', call.stage = "draft", Advanced(requests', commands'),
         NEW r, Saved(requests', commands', call.input, r, form),
         GoesOn(r), UNCHANGED <<deployed, missing, keys>>
  PROVE  Inv'
<1>0. UNCHANGED <<deployed, form, content, operation, entry, recovery, missing, keys, told>>
  BY DEF GoesOn
<1>1. call'.stage = "submit" /\ call'.draft = r /\ call'.input = call.input
  BY DEF Inv, TypeInv, CallTyped, GoesOn
<1>2. Sending /\ Sending' /\ ~Idle /\ ~Idle' /\ Recovering' = Recovering
  BY <1>0, <1>1, NothingIs DEF Sending, Idle, Recovering
<1>3. Of(requests, form) \subseteq Of(requests', form)
  BY DEF Advanced
<1>4. StoreInv'
  BY <1>0 DEF Advanced, StoreInv
<1>5. DraftInv'
  BY <1>0, <1>2, <1>3 DEF Inv, DraftInv
<1>6. InputInv'
  BY <1>0, <1>1, <1>2 DEF Inv, InputInv, Filled
<1>7. StageInv'
  BY <1>0, <1>1 DEF Inv, StageInv
<1>8. RestInv'
  BY <1>0, <1>2 DEF RestInv
<1>9. ProgressInv'
  BY <1>0, <1>1, <1>2 DEF Advanced, ProgressInv, Current
<1>10. ToldInv'
  BY <1>0, <1>2 DEF Inv, ToldInv, Truth
<1> QED BY <1>4, <1>5, <1>6, <1>7, <1>8, <1>9, <1>10 DEF Inv

-----------------------------------------------------------------------------
(* The steps                                                               *)

LEMMA Initially == Init => Inv
<1> SUFFICES ASSUME Init PROVE Inv
  OBVIOUS
<1>1. /\ Idle /\ ~Sending /\ ~Recovering /\ call.stage = "none" /\ call.draft = None
      /\ form = 1 /\ operation = NoOperation /\ entry = None /\ missing = FALSE
      /\ Len(requests) = 0 /\ commands = {} /\ told.outcome = "none"
  BY NothingIs DEF Init, Idle, Sending, Recovering, NothingTold
<1>2. PICK j : j = InputOf(operation)
  OBVIOUS
<1>3. j.requestId = None
  BY <1>1, <1>2, InputOfIs
<1>4. Of(requests, form) = {}
  BY <1>1 DEF Of
<1>5. StoreInv
  BY <1>1 DEF StoreInv, Store
<1>6. DraftInv
  BY <1>1, NothingIs DEF DraftInv
<1>7. InputInv /\ StageInv
  BY <1>1 DEF InputInv, StageInv
<1>8. RestInv /\ ProgressInv
  <2>1. Rest(requests, commands, j, form)
    BY <1>4 DEF Rest
  <2>2. Empty(requests, commands, j, form)
    BY <1>1, <1>3, <1>4 DEF Empty, Unused
  <2> QED BY <1>1, <1>2, <2>1, <2>2 DEF RestInv, ProgressInv, Progress, Current
<1>9. ToldInv
  BY <1>1 DEF ToldInv, Truth
<1> QED BY <1>5, <1>6, <1>7, <1>8, <1>9, TypeInitially DEF Inv

\* What RPCs do, with the facts of every answer and loss.
LEMMA AnswerInv ==
  ASSUME Inv, TypeInv', Answer
  PROVE  Inv'
<1>1. PICK o \in Outcomes(Db(requests, commands)) : PerformedBy(o) /\ Answered(o)
  BY DEF Answer
<1>2. ~Idle /\ Present /\ UNCHANGED <<deployed, missing, keys>>
  BY DEF Answer
<1>3. requests' = o.db.requests /\ commands' = o.db.commands
  BY <1>1 DEF PerformedBy
<1>4. CASE Sending
  <2>1. PICK status : status = IF o.error = "none" THEN o.db.requests[o.request].status ELSE "NONE"
    OBVIOUS
  <2>2. \/ /\ o.error = "refused" /\ o.db = Db(requests, commands)
           /\ call.stage \in {"atomic", "draft"} /\ Rest(requests, commands, call.input, form)
        \/ /\ o.error = "refused" /\ o.db = Db(requests, commands)
           /\ call.stage = "submit" /\ NotSent(requests, commands, call.input, call.draft)
        \/ /\ o.error = "none"
           /\ \E rs2, cs2 : /\ o.db = Db(rs2, cs2) /\ Advanced(rs2, cs2)
                            /\ Saved(rs2, cs2, call.input, o.request, form)
                            /\ call.stage = "submit" => o.request = call.draft
                            /\ call.stage # "draft" => rs2[o.request].status # "DRAFT"
    BY <1>1, <1>2, <1>4, PressOutcome
  <2>3. CASE o.error = "refused" /\ o.db = Db(requests, commands)
    <3>1. Refusal(o.error) = "failed"
      BY <2>3, RefusalIs
    <3>2. requests' = requests /\ commands' = commands
      BY <1>3, <2>3, DbIs
    <3>3. \/ call.stage \in {"atomic", "draft"} /\ GaveUp(None, entry, "failed")
          \/ call.stage = "submit" /\ GaveUp(call.draft, call.draft, "failed")
      <4>1. call.stage \in {"atomic", "draft", "submit", "cancel"} /\ call.stage # "cancel"
        BY <1>4 DEF Sending
      <4> QED BY <1>1, <2>1, <2>3, <3>1, <4>1, AnsweredCases
    <3>4. CASE call.stage \in {"atomic", "draft"} /\ GaveUp(None, entry, "failed")
      <4>1. Rest(requests, commands, call.input, form)
        BY <2>2, <2>3, <3>4
      <4> QED BY <1>2, <1>4, <3>2, <3>4, <4>1, FailedInv
    <3>5. CASE call.stage = "submit" /\ GaveUp(call.draft, call.draft, "failed")
      <4>1. NotSent(requests, commands, call.input, call.draft)
        BY <2>2, <2>3, <3>5
      <4> QED BY <1>2, <1>4, <3>2, <3>5, <4>1, FailedInv
    <3> QED BY <3>3, <3>4, <3>5
  <2>4. CASE o.error = "none"
    <3>1. PICK r : r = o.request
      OBVIOUS
    <3>2. /\ Advanced(requests', commands') /\ Saved(requests', commands', call.input, r, form)
          /\ call.stage = "submit" => r = call.draft
          /\ call.stage # "draft" => status # "DRAFT"
          /\ status = requests'[r].status
      BY <1>3, <2>1, <2>2, <2>4, <3>1, DbIs
    <3>3. r \in Of(requests', form) /\ requests'[r].content = call.input.content
      BY <3>2 DEF Saved
    <3>4. \/ status = "SUBMITTED" /\ Succeed
          \/ GaveUp(r, r, "unknown") \/ GaveUp(r, entry, "unknown")
          \/ /\ call.stage = "draft"
             /\ GoesOn(r)
      <4>1. call.stage \in {"atomic", "draft", "submit", "cancel"} /\ call.stage # "cancel"
        BY <1>4 DEF Sending
      <4>2. \/ status = "SUBMITTED" /\ Succeed
            \/ /\ call.stage = "atomic"
               /\ GaveUp(o.request, o.request, "unknown") \/ GaveUp(o.request, entry, "unknown")
            \/ /\ call.stage = "draft"
               /\ GoesOn(o.request)
            \/ call.stage = "draft" /\ GaveUp(o.request, entry, "unknown")
            \/ call.stage = "submit" /\ GaveUp(call.draft, call.draft, "unknown")
        BY <1>1, <2>1, <2>4, <4>1, AnsweredCases
      <4> QED BY <3>1, <3>2, <4>2
    <3>5. CASE status = "SUBMITTED" /\ Succeed
      <4>1. told' = [outcome |-> "success", form |-> form, content |-> call.input.content]
        BY <3>5 DEF Succeed, Tell
      <4>2. told'.outcome = "success" /\ told'.form = form /\ told'.content = call.input.content
        BY <4>1
      <4>3. Truth(requests', told')
        BY <3>2, <3>3, <3>5, <4>2 DEF Truth
      <4> QED BY <1>2, <3>2, <3>5, <4>2, <4>3, NextFormInv DEF Advanced, Succeed
    <3>6. CASE GaveUp(r, r, "unknown")
      BY <1>2, <1>4, <3>2, <3>3, <3>6, UnknownInv
    <3>7. CASE GaveUp(r, entry, "unknown")
      BY <1>2, <1>4, <3>2, <3>3, <3>7, UnknownInv
    <3>8. CASE /\ call.stage = "draft"
               /\ GoesOn(r)
      BY <1>2, <3>2, <3>8, SubmitNextInv
    <3> QED BY <3>4, <3>5, <3>6, <3>7, <3>8
  <2> QED BY <2>2, <2>3, <2>4
<1>5. CASE ~Sending
  <2>1. call.stage = "cancel" /\ call.stage \in {"atomic", "draft", "submit", "cancel"}
    BY <1>2, <1>5, StageIs DEF Inv, Sending
  <2>2. /\ Aged(requests, requests') /\ SameCommands(commands, commands')
        /\ Store(requests', commands', form, keys)
    BY <1>1, <2>1, CancelOutcome
  <2>3. PICK status : status = IF o.error = "none" THEN o.db.requests[o.request].status ELSE "NONE"
    OBVIOUS
  <2>4. /\ call' = NoCall /\ UNCHANGED told
        /\ ResetForm \/ UNCHANGED <<form, content, operation, entry, recovery>>
    BY <1>1, <1>5, <2>1, <2>3, AnsweredCases
  <2>5. CASE ResetForm
    <3>1. told'.outcome = "none" /\ Truth(requests', told')
      BY <1>2, <2>4 DEF Inv, ToldInv, Truth
    <3>2. Typed(requests', commands')
      BY DEF TypeInv
    <3> QED BY <1>2, <2>2, <2>4, <2>5, <3>1, <3>2, NextFormInv
  <2>6. CASE UNCHANGED <<form, content, operation, entry, recovery>>
    BY <1>2, <2>1, <2>2, <2>4, <2>6, AgedInv
  <2> QED BY <2>4, <2>5, <2>6
<1> QED BY <1>4, <1>5

LEMMA LoseInv ==
  ASSUME Inv, TypeInv', LossForms \subseteq {"thrown"}, LoseCall
  PROVE  Inv'
<1>1. /\ ~Idle /\ UNCHANGED <<deployed, missing, keys>>
      /\ \/ UNCHANGED <<requests, commands>>
         \/ Present /\ \E o \in Outcomes(Db(requests, commands)) : PerformedBy(o)
  BY DEF LoseCall, server
<1>2. Unanswered("thrown")
  BY DEF LoseCall
<1>3. CASE Sending
  <2>1. Advanced(requests', commands')
    <3>1. CASE UNCHANGED <<requests, commands>>
      BY <1>3, <3>1, ReadyNow
    <3>2. ASSUME Present, NEW o \in Outcomes(Db(requests, commands)), PerformedBy(o)
          PROVE  Advanced(requests', commands')
      <4>1. requests' = o.db.requests /\ commands' = o.db.commands
        BY <3>2 DEF PerformedBy
      <4>2. PICK rs2, cs2 : o.db = Db(rs2, cs2) /\ Advanced(rs2, cs2)
        BY <1>3, <3>2, PressOutcome, ReadyNow
      <4> QED BY <4>1, <4>2, DbIs
    <3> QED BY <1>1, <3>1, <3>2
  <2>2. PICK r : r = call.draft
    OBVIOUS
  <2>3. GiveUp(r, r # None, "unknown")
    BY <1>2, <1>3, <2>2 DEF Unanswered, LossOutcome, Sending
  <2>4. r = None \/ r \in Of(requests', form)
    <3>1. CASE call.stage = "submit"
      BY <2>1, <2>2, <3>1 DEF Advanced, Saved
    <3>2. CASE call.stage # "submit"
      BY <1>3, <2>2, <3>2 DEF Inv, StageInv, Sending
    <3> QED BY <3>1, <3>2
  <2>5. IF r = None THEN GaveUp(r, entry, "unknown") ELSE GaveUp(r, r, "unknown")
    BY <2>3 DEF GiveUp, GaveUp
  <2> QED BY <1>1, <1>3, <2>1, <2>4, <2>5, UnknownInv
<1>4. CASE ~Sending
  <2>1. call.stage = "cancel"
    BY <1>1, <1>4, StageIs DEF Inv, Sending
  <2>2. /\ Aged(requests, requests') /\ SameCommands(commands, commands')
        /\ Store(requests', commands', form, keys)
    <3>1. CASE UNCHANGED <<requests, commands>>
      BY <3>1, NotAged
    <3>2. ASSUME NEW o \in Outcomes(Db(requests, commands)), PerformedBy(o)
          PROVE  /\ Aged(requests, requests') /\ SameCommands(commands, commands')
                 /\ Store(requests', commands', form, keys)
      BY <2>1, <3>2, CancelOutcome
    <3> QED BY <1>1, <3>1, <3>2
  <2>3. call' = NoCall /\ UNCHANGED <<form, content, operation, entry, recovery, told>>
    BY <1>2, <2>1 DEF Unanswered
  <2> QED BY <1>1, <2>1, <2>2, <2>3, AgedInv
<1> QED BY <1>3, <1>4

\* At rest: the facts of the form that Edit and Press start from.
LEMMA RestingIs ==
  ASSUME Inv, Idle, ~Recovering
  PROVE  /\ ~Sending /\ entry = operation.draftId /\ (entry # None => entry \in Of(requests, form))
         /\ entry = None => Of(requests, form) = {}
         /\ \A r \in Of(requests, form) : requests[r].status \in {"DRAFT", "CANCELLED"}
         /\ Rest(requests, commands, InputOf(operation), form)
         /\ Progress(requests, commands, InputOf(operation), form, deployed)
         /\ operation = NoOperation => entry = None
<1>1. ~Sending
  BY NothingIs DEF Idle, Sending
<1>2. entry = operation.draftId /\ (entry # None => entry \in Of(requests, form))
  BY DEF Inv, DraftInv
<1>3. PICK j : j = InputOf(operation)
  OBVIOUS
<1>4. Rest(requests, commands, j, form) /\ Progress(requests, commands, j, form, deployed)
  BY <1>1, <1>3 DEF Inv, RestInv, ProgressInv, Current
<1>5. j.requestId = entry
  BY <1>3, InputOfIs
<1>6. /\ entry = None => Of(requests, form) = {}
      /\ \A r \in Of(requests, form) : requests[r].status \in {"DRAFT", "CANCELLED"}
  BY <1>4, <1>5 DEF Rest, NotSent
<1> QED BY <1>1, <1>2, <1>3, <1>4, <1>6, NothingIs

\* A key not drawn yet has not been used.
LEMMA NewKey ==
  ASSUME Inv, NEW k, k = None \/ k = keys + 1
  PROVE  \A op \in {"create", "update", "submit"} : Unused(commands, op, k)
<1>1. k \notin 1 .. keys
  BY Constants DEF Inv, TypeInv, Keys
<1> QED BY <1>1 DEF Inv, StoreInv, Store, Unused

\* After a rest, an input with keys not used before has everything to do.
LEMMA FreshProgress ==
  ASSUME Inv, Idle, ~Recovering, NEW j, j.requestId = entry,
         Unused(commands, "update", j.update), Unused(commands, "submit", j.submit),
         entry = None => Unused(commands, "create", j.create), NEW dep
  PROVE  Rest(requests, commands, j, form) /\ Progress(requests, commands, j, form, dep)
<1>1. /\ (entry # None => entry \in Of(requests, form))
      /\ entry = None => Of(requests, form) = {}
      /\ \A r \in Of(requests, form) : requests[r].status \in {"DRAFT", "CANCELLED"}
  BY RestingIs
<1>2. Rest(requests, commands, j, form)
  BY <1>1 DEF Rest, NotSent
<1>3. CASE entry = None
  <2>1. Empty(requests, commands, j, form)
    BY <1>1, <1>3 DEF Empty
  <2> QED BY <1>2, <2>1 DEF Progress
<1>4. CASE entry # None
  <2>1. Known(requests, commands, j, form)
    BY <1>1, <1>4 DEF Known, NotSent
  <2> QED BY <1>2, <2>1 DEF Progress
<1> QED BY <1>3, <1>4

LEMMA EditInv ==
  ASSUME Inv, TypeInv', NEW c \in Contents, Edit(c)
  PROVE  Inv'
<1>1. /\ Idle /\ ~Recovering /\ Idle' /\ ~Recovering'
      /\ UNCHANGED <<requests, commands, deployed, form, entry, recovery, missing, call, told>>
      /\ call = NoCall /\ keys \in Nat
  BY Constants DEF Edit, server, Idle, Recovering, Inv, TypeInv, Keys
<1>2. /\ ~Sending /\ ~Sending' /\ entry = operation.draftId
      /\ operation = NoOperation => entry = None
      /\ operation \in [create : Keys, update : Keys, submit : Keys, draftId : 0 .. Len(requests)]
  BY <1>1, RestingIs DEF Sending, Inv, TypeInv, OperationTyped
<1>3. PICK k : k = keys + 1
  OBVIOUS
<1>4. /\ keys' \in {keys, k} /\ operation'.draftId = operation.draftId
      /\ operation' = NoOperation \/ {operation'.create, operation'.update, operation'.submit} \subseteq 1 .. keys'
      /\ operation'.update \in {None, k} /\ operation'.submit \in {None, k}
      /\ entry = None => operation'.create \in {None, k}
  <2>1. CASE operation = NoOperation
    <3>1. operation' = operation /\ keys' = keys
      BY <2>1 DEF Edit
    <3> QED BY <2>1, <3>1, NothingIs
  <2>2. CASE operation # NoOperation
    <3>1. keys' = k /\ operation' = RotateDraftKeys(operation)
      BY <1>3, <2>2 DEF Edit, Draw
    <3>2. operation' = [operation EXCEPT !.create = IF operation.draftId = None THEN k ELSE operation.create,
                                         !.update = k, !.submit = k]
      BY <1>2, <1>3, <3>1 DEF RotateDraftKeys
    <3>3. /\ operation'.update = k /\ operation'.submit = k /\ operation'.draftId = operation.draftId
          /\ operation'.create = IF operation.draftId = None THEN k ELSE operation.create
      BY <1>2, <3>2
    <3>4. operation.create \in 1 .. keys
      BY <2>2 DEF Inv, DraftInv
    <3>5. operation.create \in 1 .. k /\ k \in 1 .. k
      BY <1>1, <1>3, <3>4
    <3> QED BY <1>2, <3>1, <3>3, <3>5
  <2> QED BY <2>1, <2>2
<1>5. PICK j : j = InputOf(operation)'
  OBVIOUS
<1>6. /\ j.requestId = entry /\ j.create = operation'.create /\ j.update = operation'.update
      /\ j.submit = operation'.submit
  <2>1. j = [requestId |-> entry', content |-> content', create |-> operation'.create,
             update |-> operation'.update, submit |-> operation'.submit]
    BY <1>1, <1>5 DEF InputOf
  <2>2. /\ j.requestId = entry' /\ j.create = operation'.create /\ j.update = operation'.update
        /\ j.submit = operation'.submit
    BY <2>1
  <2> QED BY <1>1, <2>2
<1>7. Rest(requests, commands, j, form) /\ Progress(requests, commands, j, form, deployed)
  <2>1. \A key \in {None, k} : \A op \in {"create", "update", "submit"} : Unused(commands, op, key)
    BY <1>3, NewKey
  <2> QED BY <1>1, <1>4, <1>6, <2>1, FreshProgress
<1>8. StoreInv'
  <2>1. 1 .. keys \subseteq 1 .. keys'
    BY <1>1, <1>3, <1>4
  <2> QED BY <1>1, <2>1 DEF Inv, StoreInv, Store
<1>9. DraftInv'
  BY <1>1, <1>2, <1>4, RestingIs DEF DraftInv
<1>10. InputInv' /\ StageInv'
  BY <1>1, <1>2 DEF InputInv, StageInv, Inv
<1>11. RestInv' /\ ProgressInv'
  <2>1. Current' = j
    BY <1>2, <1>5 DEF Current
  <2> QED BY <1>1, <1>5, <1>7, <2>1 DEF RestInv, ProgressInv
<1>12. ToldInv'
  <2>1. Idle' /\ ~Recovering' /\ told' = told /\ form' = form /\ requests' = requests
    BY <1>1
  <2>2. Truth(requests, told) /\ told.outcome # "conflict"
    BY DEF Inv, ToldInv
  <2> QED BY <1>1, <2>1, <2>2 DEF Inv, ToldInv
<1> QED BY <1>8, <1>9, <1>10, <1>11, <1>12 DEF Inv

LEMMA PressInv ==
  ASSUME Inv, TypeInv', Press
  PROVE  Inv'
<1>1. /\ Idle /\ Recovering' = Recovering /\ entry = operation.draftId
      /\ UNCHANGED <<requests, commands, deployed, form, content, entry, recovery, missing>>
      /\ call = NoCall /\ keys \in Nat /\ told' = NothingTold
      /\ content # None \/ Recovering
  BY Constants DEF Press, server, Idle, Recovering, Inv, TypeInv, Keys, RouteValid
<1>2. PICK i : i = InputOf(operation')
  OBVIOUS
<1>3. PICK stage : stage = IF missing THEN "draft" ELSE "atomic"
  OBVIOUS
<1>4. call' = [stage |-> stage, input |-> i, draft |-> None]
  BY <1>2, <1>3 DEF Press
<1>5. /\ call'.stage = stage /\ call'.input = i /\ call'.draft = None /\ stage \in {"draft", "atomic"}
      /\ stage = "draft" => missing
  BY <1>3, <1>4
<1>6. Sending' /\ ~Idle'
  BY <1>5, NothingIs DEF Sending, Idle
<1>7. PICK k : k = keys + 1
  OBVIOUS
<1>8. \/ operation = NoOperation /\ keys' = k
         /\ operation' = [create |-> k, update |-> k, submit |-> k, draftId |-> None]
      \/ operation # NoOperation /\ UNCHANGED <<operation, keys>>
  BY <1>7 DEF Press, Draw
<1>9. /\ operation'.draftId = operation.draftId /\ operation' # NoOperation /\ keys' \in {keys, k}
      /\ {operation'.create, operation'.update, operation'.submit} \subseteq 1 .. keys'
  <2>1. CASE /\ operation = NoOperation /\ keys' = k
             /\ operation' = [create |-> k, update |-> k, submit |-> k, draftId |-> None]
    <3>1. operation'.create = k /\ operation'.update = k /\ operation'.submit = k /\ operation'.draftId = None
      BY <2>1
    <3>2. k \in 1 .. k /\ k # 0
      BY <1>1, <1>7
    <3> QED BY <2>1, <3>1, <3>2, NothingIs DEF None
  <2>2. CASE operation # NoOperation /\ UNCHANGED <<operation, keys>>
    BY <2>2 DEF Inv, DraftInv
  <2> QED BY <1>8, <2>1, <2>2
<1>10. /\ i.requestId \in {None, entry} /\ i.content = content /\ i.create = operation'.create
       /\ i.update = operation'.update /\ i.submit = operation'.submit /\ content # None
       /\ Progress(requests, commands, i, form, deployed)
       /\ IF Recovering THEN recovery = i ELSE i.requestId = entry
  <2>1. CASE Recovering
    <3>1. i = recovery /\ Filled(recovery)
      BY <1>2, <2>1 DEF InputOf, Inv, InputInv
    <3>2. operation # NoOperation /\ content # None
      BY <3>1 DEF Filled
    <3>3. operation' = operation
      BY <1>8, <3>2
    <3>4. Current = recovery
      BY <1>1, <2>1, NothingIs DEF Current, InputOf, Sending
    <3> QED BY <2>1, <3>1, <3>2, <3>3, <3>4 DEF Filled, Inv, ProgressInv
  <2>2. CASE ~Recovering
    <3>1. /\ i.requestId = entry /\ i.content = content /\ i.create = operation'.create
          /\ i.update = operation'.update /\ i.submit = operation'.submit
      BY <1>2, <2>2, InputOfIs
    <3>2. Progress(requests, commands, i, form, deployed)
      <4>1. CASE operation # NoOperation /\ UNCHANGED <<operation, keys>>
        BY <1>1, <1>2, <2>2, <4>1, RestingIs
      <4>2. CASE operation' = [create |-> k, update |-> k, submit |-> k, draftId |-> None]
        <5>1. operation'.create = k /\ operation'.update = k /\ operation'.submit = k
          BY <4>2
        <5>2. \A op \in {"create", "update", "submit"} : Unused(commands, op, k)
          BY <1>7, NewKey
        <5> QED BY <1>1, <2>2, <3>1, <5>1, <5>2, FreshProgress
      <4> QED BY <1>8, <4>1, <4>2
    <3> QED BY <1>1, <2>2, <3>1, <3>2
  <2> QED BY <2>1, <2>2
<1>11. StoreInv'
  <2>1. 1 .. keys \subseteq 1 .. keys'
    BY <1>1, <1>7, <1>9
  <2> QED BY <1>1, <2>1 DEF Inv, StoreInv, Store
<1>12. DraftInv'
  BY <1>1, <1>9 DEF Inv, DraftInv
<1>13. InputInv'
  <2>1. Filled(call.input)'
    BY <1>1, <1>5, <1>9, <1>10 DEF Filled
  <2>2. Recovering' => Filled(recovery)'
    BY <1>1, <1>9, <1>10 DEF Filled
  <2> QED BY <1>1, <1>5, <1>10, <2>1, <2>2 DEF InputInv
<1>14. StageInv'
  BY <1>1, <1>5 DEF Inv, StageInv
<1>15. RestInv'
  BY <1>6 DEF RestInv
<1>16. ProgressInv'
  BY <1>1, <1>5, <1>6, <1>10 DEF ProgressInv, Current
<1>17. ToldInv'
  <2>1. told'.outcome = "none"
    BY <1>1 DEF NothingTold
  <2> QED BY <2>1 DEF ToldInv, Truth
<1> QED BY <1>11, <1>12, <1>13, <1>14, <1>15, <1>16, <1>17 DEF Inv

LEMMA CancelInv ==
  ASSUME Inv, TypeInv', CancelDraft
  PROVE  Inv'
<1>1. /\ Idle /\ ~Recovering /\ ~Recovering' /\ entry # None
      /\ UNCHANGED <<requests, commands, deployed, form, content, operation, entry, recovery, missing, keys>>
      /\ call' = [stage |-> "cancel", input |-> NoInput, draft |-> entry] /\ told' = NothingTold
  BY DEF CancelDraft, server, Recovering
<1>2. call'.stage = "cancel" /\ call'.draft = entry /\ told'.outcome = "none"
  BY <1>1 DEF NothingTold
<1>3. ~Sending /\ ~Sending' /\ entry = operation.draftId
  BY <1>1, <1>2, RestingIs DEF Sending
<1>4. InputOf(operation)' = InputOf(operation) /\ Current' = InputOf(operation)
  BY <1>1, <1>3 DEF InputOf, Current
<1>5. Rest(requests, commands, InputOf(operation), form)
      /\ Progress(requests, commands, InputOf(operation), form, deployed)
  BY <1>1, RestingIs
<1>6. StoreInv' /\ DraftInv'
  BY <1>1, <1>3 DEF Inv, StoreInv, DraftInv
<1>7. InputInv' /\ StageInv'
  BY <1>1, <1>2, <1>3 DEF Inv, InputInv, StageInv
<1>8. RestInv' /\ ProgressInv'
  BY <1>1, <1>4, <1>5 DEF RestInv, ProgressInv
<1>9. ToldInv'
  BY <1>2 DEF ToldInv, Truth
<1> QED BY <1>6, <1>7, <1>8, <1>9 DEF Inv

LEMMA MissingInv ==
  ASSUME Inv, TypeInv', AnswerMissing
  PROVE  Inv'
<1>1. /\ call.stage = "atomic" /\ ~deployed
      /\ UNCHANGED <<requests, commands, deployed, form, content, operation, entry, recovery, keys, told>>
      /\ call' = [call EXCEPT !.stage = "draft"]
  BY DEF AnswerMissing, Present, server
<1>2. call'.stage = "draft" /\ call'.draft = call.draft /\ call'.input = call.input
  BY <1>1 DEF Inv, TypeInv, CallTyped
<1>3. Sending /\ Sending' /\ ~Idle /\ ~Idle' /\ Recovering' = Recovering
  BY <1>1, <1>2, NothingIs DEF Sending, Idle, Recovering
<1>4. StoreInv' /\ DraftInv'
  BY <1>1, <1>3 DEF Inv, StoreInv, DraftInv
<1>5. InputInv'
  BY <1>1, <1>2, <1>3 DEF Inv, InputInv, Filled
<1>6. StageInv'
  BY <1>1, <1>2 DEF Inv, StageInv
<1>7. RestInv'
  BY <1>3 DEF RestInv
<1>8. ProgressInv'
  BY <1>1, <1>2, <1>3 DEF Inv, ProgressInv, Current
<1>9. ToldInv'
  BY <1>1, <1>3 DEF Inv, ToldInv, Truth
<1> QED BY <1>4, <1>5, <1>6, <1>7, <1>8, <1>9 DEF Inv

\* A step that leaves the tables and the form alone.
LEMMA StillInv ==
  ASSUME Inv, TypeInv',
         UNCHANGED <<requests, commands, deployed, form, content, operation, entry, recovery, keys, call, told>>,
         missing' => missing
  PROVE  Inv'
<1>1. StageInv'
  BY DEF Inv, StageInv, Recovering
<1>2. /\ Sending' = Sending /\ Idle' = Idle /\ Recovering' = Recovering
      /\ InputOf(operation)' = InputOf(operation) /\ Current' = Current
  BY DEF Sending, Idle, Recovering, InputOf, Current
<1>3. StoreInv' /\ DraftInv' /\ RestInv' /\ ProgressInv'
  BY <1>2 DEF Inv, StoreInv, DraftInv, RestInv, ProgressInv
<1>4. InputInv'
  BY <1>2 DEF Inv, InputInv, Filled
<1>5. ToldInv'
  BY <1>2 DEF Inv, ToldInv, Truth
<1> QED BY <1>1, <1>3, <1>4, <1>5 DEF Inv

\* 0128 arrives while the form rests: the older sequence was not begun.
LEMMA DeployInv ==
  ASSUME Inv, TypeInv', RolloutSeen = FALSE, Deploy
  PROVE  Inv'
<1>1. /\ Idle /\ ~Recovering /\ ~missing /\ deployed'
      /\ UNCHANGED <<requests, commands, form, content, operation, entry, recovery, missing, keys, call, told>>
  BY DEF Deploy, server
<1>2. /\ ~Sending /\ ~Sending' /\ Idle' /\ ~Recovering'
      /\ InputOf(operation)' = InputOf(operation) /\ Current' = InputOf(operation)
  BY <1>1, RestingIs DEF Sending, Idle, Recovering, InputOf, Current
<1>3. PICK j : j = InputOf(operation)
  OBVIOUS
<1>4. /\ Rest(requests, commands, j, form) /\ Progress(requests, commands, j, form, deployed)
      /\ j.requestId = None => Of(requests, form) = {}
      /\ \A r \in Of(requests, form) : NotSent(requests, commands, j, r)
  BY <1>1, <1>3, RestingIs DEF Rest
<1>5. Progress(requests, commands, j, form, deployed')
  <2>1. ASSUME NEW r \in Of(requests, form), Made(requests, commands, j, r, form, deployed)
        PROVE  Made(requests, commands, j, r, form, deployed')
    <3>1. Saved(requests, commands, j, r, form) /\ NotSent(requests, commands, j, r) /\ j.requestId # None
      BY <1>4, <2>1 DEF Made
    <3> QED BY <3>1 DEF Made
  <2> QED BY <1>4, <2>1 DEF Progress
<1>6. StoreInv' /\ DraftInv' /\ RestInv' /\ ProgressInv'
  BY <1>1, <1>2, <1>3, <1>4, <1>5 DEF Inv, StoreInv, DraftInv, RestInv, ProgressInv
<1>7. InputInv'
  BY <1>2 DEF InputInv
<1>8. StageInv'
  BY <1>1, NothingIs DEF Inv, StageInv, Idle
<1>9. ToldInv'
  BY <1>1, <1>2 DEF Inv, ToldInv, Truth
<1> QED BY <1>6, <1>7, <1>8, <1>9 DEF Inv

LEMMA ElsewhereInv ==
  ASSUME Inv, TypeInv', NEW r \in 1 .. Len(requests), ChangeElsewhere(r)
  PROVE  Inv'
<1>1. PICK status \in {"CANCELLED", "SHIPPED"} :
        /\ requests[r].status = "SUBMITTED" \/ (requests[r].status = "DRAFT" /\ status = "CANCELLED")
        /\ requests' = [requests EXCEPT ![r].status = status]
  BY DEF ChangeElsewhere
<1>2. PICK row : row = [requests[r] EXCEPT !.status = status]
  OBVIOUS
<1>3. requests \in Seq(Row)
  BY DEF Inv, TypeInv, Typed
<1>4. requests' = [requests EXCEPT ![r] = row]
  BY <1>1, <1>2, <1>3
<1>5. row \in Row /\ row.form = requests[r].form /\ row.content = requests[r].content /\ row.status = status
  BY <1>2, <1>3, StatusChange DEF Statuses
<1>6. /\ Len(requests') = Len(requests) /\ Len(requests) \in Nat
      /\ requests'[r] = row /\ \A q \in 1 .. Len(requests) : q # r => requests'[q] = requests[q]
  BY <1>3, <1>4, <1>5, ChangeIs
<1>7. Kept(requests, requests')
  BY <1>5, <1>6 DEF Kept
<1>8. Aged(requests, requests')
  <2>1. PICK t : t = requests'
    OBVIOUS
  <2>2. /\ Kept(requests, t) /\ t[r].status = status /\ t[r].content = requests[r].content
        /\ \A q \in 1 .. Len(requests) : q # r => t[q] = requests[q]
    BY <1>5, <1>6, <1>7, <2>1
  <2>3. requests[r].status = "SUBMITTED" \/ (requests[r].status = "DRAFT" /\ status = "CANCELLED")
    BY <1>1
  <2>4. Aged(requests, t)
    BY <2>2, <2>3, RowAges
  <2> QED BY <2>1, <2>4
<1>9. /\ UNCHANGED <<commands, deployed, form, content, operation, entry, recovery, missing, keys, call, told>>
  BY DEF ChangeElsewhere
<1>10. SameCommands(commands, commands') /\ Store(requests', commands', form, keys)
  BY <1>7, <1>9, NotAged, KeptOf DEF Store, Kept
<1> QED BY <1>8, <1>9, <1>10, AgedInv

LEMMA Preserved ==
  ASSUME LossForms \subseteq {"thrown"}, RolloutSeen = FALSE, Inv, [Next]_vars
  PROVE  Inv'
<1>0. TypeInv'
  BY TypePreserved DEF Inv
<1>1. CASE \E c \in Contents : Edit(c)
  BY <1>0, <1>1, EditInv
<1>2. CASE ForgetMissing
  BY <1>0, <1>2, StillInv DEF ForgetMissing, server
<1>3. CASE \E r \in 1 .. Len(requests) : ChangeElsewhere(r)
  BY <1>0, <1>3, ElsewhereInv
<1>4. CASE UNCHANGED vars
  BY <1>0, <1>4, StillInv DEF vars
<1> QED
  BY <1>0, <1>1, <1>2, <1>3, <1>4, PressInv, CancelInv, AnswerInv, MissingInv, LoseInv, DeployInv DEF Next

(* The settings under which the client keeps its word: an answer that is   *)
(* lost shows as a call that throws, and a form that is being retried does *)
(* not see 0128 arrive.                                                    *)
LEMMA Invariance == ASSUME LossForms \subseteq {"thrown"}, RolloutSeen = FALSE PROVE Spec => []Inv
<1>1. Inv /\ [Next]_vars => Inv'
  BY Preserved
<1> QED BY <1>1, Initially, PTL DEF Spec

(* However often the user presses, edits and retries, and whichever        *)
(* answers are lost: a form makes at most one request.                     *)
THEOREM OneRequest ==
  ASSUME LossForms \subseteq {"thrown"}, RolloutSeen = FALSE PROVE Spec => []OneRequestPerForm
<1>1. Inv => OneRequestPerForm
  <2> SUFFICES ASSUME Inv, NEW f \in 1 .. MaxForms PROVE Cardinality(RequestsOf(f)) <= 1
    BY DEF OneRequestPerForm
  <2>1. \A r, q \in RequestsOf(f) : r = q
    BY DEF RequestsOf, Inv, StoreInv, Store
  <2>2. CASE RequestsOf(f) = {}
    <3>1. Cardinality({}) = 0
      BY FS_EmptySet
    <3> QED BY <2>2, <3>1
  <2>3. CASE RequestsOf(f) # {}
    <3>1. PICK r : RequestsOf(f) = {r}
      BY <2>1, <2>3
    <3>2. Cardinality({r}) = 1
      BY FS_Singleton
    <3> QED BY <3>1, <3>2
  <2> QED BY <2>2, <2>3
<1> QED BY <1>1, Invariance, PTL

(* What the user is told of a press is so: "sent" only when the request of *)
(* that form is in the tables as pressed, "failed" only when nothing of    *)
(* the form has been submitted.                                            *)
THEOREM ToldSo ==
  ASSUME LossForms \subseteq {"thrown"}, RolloutSeen = FALSE PROVE Spec => []ToldTheTruth
<1>1. Inv => ToldTheTruth
  <2> SUFFICES ASSUME Inv PROVE ToldTheTruth
    OBVIOUS
  <2>1. \A f : Of(requests, f) = RequestsOf(f)
    BY DEF Of, RequestsOf
  <2>2. told.outcome = "success" => \E r \in RequestsOf(told.form) :
          requests[r].content = told.content /\ requests[r].status # "DRAFT"
    BY <2>1 DEF Inv, ToldInv, Truth
  <2>3. told.outcome \in {"failed", "conflict"} => \A r \in RequestsOf(told.form) :
          requests[r].status \in {"DRAFT", "CANCELLED"}
    BY <2>1, RestingIs DEF Inv, ToldInv
  <2> QED BY <2>2, <2>3 DEF ToldTheTruth
<1> QED BY <1>1, Invariance, PTL

(* No press is refused for a key that the same form used with other data:  *)
(* the keys are rotated, or kept with their input, exactly as they must.   *)
THEOREM KeysFit ==
  ASSUME LossForms \subseteq {"thrown"}, RolloutSeen = FALSE PROVE Spec => []NoKeyConflict
<1>1. Inv => NoKeyConflict
  BY DEF Inv, ToldInv, NoKeyConflict
<1> QED BY <1>1, Invariance, PTL
=============================================================================
