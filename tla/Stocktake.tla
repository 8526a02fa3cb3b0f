------------------------------ MODULE Stocktake ------------------------------
(***************************************************************************)
(* Stocktakes of the HR warehouse: the panel in which a count is entered,  *)
(* saved, completed and recaptured, against the transactions of migrations *)
(* 0025, 0027, 0028, 0113 and 0127, while stock moves and HR requests      *)
(* reserve it.                                                             *)
(*                                                                         *)
(* One transaction is one step: it is taken when the panel is answered, or *)
(* when its answer is lost.  A call whose answer is lost reaches the       *)
(* database before the next press, or never.  A count is its quantities:   *)
(* notes are left out, and a reason is there exactly where the panel shows *)
(* a difference (one left over from a count that was put back to the book  *)
(* is left out).  Where there is none the database stores null, for which  *)
(* a panel that has loaded it throws: null says which lines are so.        *)
(*                                                                         *)
(* A definition commented "Mutant" is no part of the specification: it is  *)
(* the next definition with a bug in it, which a run must tell apart.      *)
(***************************************************************************)
EXTENDS Integers, FiniteSets

CONSTANTS
  Panel,        \* stocktake panels open at once
  NItem,        \* the items are 1 .. NItem, in the order of their ids
  Request,      \* HR requests
  Wants,        \* Wants[r]: the items request r reserves one of
  None,
  AtFirst,      \* AtFirst[i]: the stock of item i in the counted warehouse
  Elsewhere,    \* Elsewhere[i]: its stock in the other warehouse
  Counts,       \* what can be counted of an item
  Deployments,  \* may complete_stocktake exist? a subset of BOOLEAN
  LossForms,    \* how a lost answer shows in the browser: "thrown", "error"
  MaxNo,        \* bound: document numbers a panel draws
  MaxKeys,      \* bound: key generations a panel draws
  MaxMoves,     \* bound: other postings on the counted stock
  MaxFaults     \* bound: lost answers and changes of account

Item == 1 .. NItem
No == Panel \X (1 .. MaxNo)

ASSUME StocktakeConstants ==
  /\ {NItem, MaxKeys, MaxMoves, MaxFaults} \subseteq Nat /\ MaxNo \in Nat \ {0}
  /\ IsFiniteSet(Request)
  /\ Wants \in [Request -> SUBSET Item]
  /\ AtFirst \in [Item -> Nat] /\ Elsewhere \in [Item -> Nat]
  /\ Counts \subseteq Nat /\ Deployments \subseteq BOOLEAN
  /\ LossForms \subseteq {"thrown", "error"}
  /\ None \notin Nat \cup No
  /\ None \notin [book : Nat, ver : Nat, counted : Nat, null : BOOLEAN]
  /\ None \notin [counted : Nat, reason : BOOLEAN, seen : Nat]

VARIABLES
  db,       \* the database: see Init
  atomic,   \* does it have complete_stocktake (0127)?
  panel,    \* what each panel holds
  moves, faults

vars == <<db, atomic, panel, moves, faults>>

NoLines == [i \in Item |-> None]
NoDoc == [status |-> "NONE", lines |-> NoLines, form |-> None]
NoKeys == [create |-> None, update |-> None, post |-> None]
NoCall == [op |-> "none"]
Blank ==
  [form |-> 1, no |-> 1, lines |-> NoLines, doc |-> None, shown |-> "NONE",
   recount |-> FALSE, unknown |-> FALSE, keys |-> NoKeys, drawn |-> 0,
   call |-> NoCall, told |-> "nothing"]

Init ==
  /\ db = [stock |-> [i \in Item |-> [qty |-> AtFirst[i], ver |-> 0]],
           reservation |-> [r \in Request |-> [i \in Item |-> "NONE"]],
           request |-> [r \in Request |-> "DRAFT"],
           doc |-> [n \in No |-> NoDoc],
           commands |-> {}]
  /\ atomic \in Deployments
  /\ panel = [p \in Panel |-> Blank]
  /\ moves = 0 /\ faults = 0

Reserved(d, i) == Cardinality({r \in Request : d.reservation[r][i] = "ACTIVE"})
Combined(d, i) == d.stock[i].qty + Elsewhere[i]

-----------------------------------------------------------------------------
(* What else happens to the stock: HrFulfilment has the rules.             *)

Submit(r) ==
  /\ db.request[r] = "DRAFT"
  /\ \A i \in Wants[r] : Reserved(db, i) < Combined(db, i)
  /\ db' = [db EXCEPT !.request[r] = "SUBMITTED",
                      !.reservation[r] = [i \in Item |->
                         IF i \in Wants[r] THEN "ACTIVE" ELSE "NONE"]]
  /\ UNCHANGED <<atomic, panel, moves, faults>>

\* A receipt, a return or an adjustment, or one and then its reversal; none
\* of them takes reserved stock.
Move(i, delta) ==
  /\ moves < MaxMoves /\ moves' = moves + 1
  /\ db.stock[i].qty + delta >= 0
  /\ delta < 0 => Combined(db, i) + delta >= Reserved(db, i)
  /\ db' = [db EXCEPT !.stock[i] = [qty |-> @.qty + delta, ver |-> @.ver + (IF delta = 0 THEN 2 ELSE 1)]]
  /\ UNCHANGED <<atomic, panel, faults>>

-----------------------------------------------------------------------------
(* The transactions: what becomes of the database d, and what is answered. *)

Done(d, no) == [db |-> d, no |-> no, error |-> "none"]
Refused(d) == [db |-> d, no |-> None, error |-> "refused"]

\* operation_commands: the same key again finds what it has done before.
\* Keys are unique: those a panel draws are used for its own documents.
Once(d, op, n, key, print, fresh) ==
  LET prior == {c \in d.commands : c.op = op /\ c.no[1] = n[1] /\ c.key = key}
  IN  IF prior = {} THEN fresh
      ELSE LET c == CHOOSE c \in prior : TRUE
           IN  IF c.print = print /\ c.succeeded THEN Done(d, c.no) ELSE Refused(d)

Remember(d, op, key, print, succeeded, no) ==
  [d EXCEPT !.commands = @ \cup
     {[op |-> op, key |-> key, print |-> print, succeeded |-> succeeded, no |-> no]}]

\* The book is read now, whatever the user saw when the count was entered.
Captured(d, lines) ==
  [i \in Item |-> IF lines[i] = None THEN None
     ELSE [book |-> d.stock[i].qty, ver |-> d.stock[i].ver, counted |-> lines[i].counted,
           null |-> ~lines[i].reason]]

DifferencesExplained(d, lines) ==
  \A i \in Item : lines[i] # None /\ lines[i].counted # d.stock[i].qty => lines[i].reason

\* create_stocktake_draft; stocktake_no is unique.
CreateTx(d, c) ==
  Once(d, "CREATE", c.no, c.keys.create, c.print,
    IF d.doc[c.no].status # "NONE" THEN [Refused(d) EXCEPT !.error = "duplicate"]
    ELSE IF ~DifferencesExplained(d, c.lines) THEN Refused(d)
    ELSE Done(Remember([d EXCEPT !.doc[c.no] =
                 [status |-> "DRAFT", lines |-> Captured(d, c.lines), form |-> c.form]],
               "CREATE", c.keys.create, c.print, TRUE, c.no), c.no))

\* The guard on stocktake_lines ends with RETURN NEW, which is null for a
\* DELETE: PostgreSQL skips the row and the statement succeeds.
AfterGuardedDelete(lines) == lines

\* update_stocktake_draft deletes the lines and inserts the new ones, of
\* which there is one per item at most.
UpdateTx(d, c, key, lines, recount) ==
  LET s == d.doc[c.no]
      kept == AfterGuardedDelete(s.lines)
      accepted ==
        /\ s.status = "DRAFT" \/ (s.status = "STALE_COUNT" /\ recount)
        /\ \A i \in Item : kept[i] = None \/ lines[i] = None
        /\ DifferencesExplained(d, lines)
  IN  Once(d, "UPDATE", c.no, key, c.print,
        IF ~accepted THEN Refused(d)
        ELSE Done(Remember([d EXCEPT !.doc[c.no].status = "DRAFT",
                                     !.doc[c.no].lines = [i \in Item |->
                                        IF lines[i] = None THEN kept[i] ELSE Captured(d, lines)[i]]],
                           "UPDATE", key, c.print, TRUE, c.no), c.no))

\* recapture_stocktake_draft: every counted item anew, at what the book says.
RecaptureTx(d, c) ==
  LET s == d.doc[c.no]
      anew == [i \in Item |-> IF s.lines[i] = None THEN None
                 ELSE [counted |-> d.stock[i].qty, reason |-> FALSE, seen |-> d.stock[i].ver]]
      done == {x \in d.commands : x.op = "UPDATE" /\ x.no[1] = c.no[1]
                                /\ x.key = <<"RECOUNT", c.keys.update>>}
  IN  IF done = {} /\ s.status # "STALE_COUNT" THEN Refused(d)
      ELSE UpdateTx(d, c, <<"RECOUNT", c.keys.update>>, anew, TRUE)

\* Mutant: only the reservations of the item that is short.
ConflictOfItem(d, i) ==
  LET hit == {r \in Request : d.reservation[r][i] \in {"ACTIVE", "CONFLICTED"}}
  IN  [d EXCEPT
        !.reservation = [r \in Request |-> [j \in Item |->
           IF r \in hit /\ j = i /\ @[r][j] = "ACTIVE" THEN "CONFLICTED" ELSE @[r][j]]],
        !.request = [r \in Request |->
           IF r \in hit /\ @[r] = "SUBMITTED" THEN "INVENTORY_REVIEW_REQUIRED" ELSE @[r]]]
\* Item i is short: every reservation of every request that has some of it.
Conflict(d, i) ==
  LET hit == {r \in Request : d.reservation[r][i] \in {"ACTIVE", "CONFLICTED"}}
  IN  [d EXCEPT
        !.reservation = [r \in Request |-> [j \in Item |->
           IF r \in hit /\ @[r][j] = "ACTIVE" THEN "CONFLICTED" ELSE @[r][j]]],
        !.request = [r \in Request |->
           IF r \in hit /\ @[r] = "SUBMITTED" THEN "INVENTORY_REVIEW_REQUIRED" ELSE @[r]]]

Short(d, i, line) == Combined(d, i) + line.counted - line.book < Reserved(d, i)

\* The lines are gone through in the order of their items: a conflict at one
\* frees what the next is compared with.
Uncovered(d, lines, items) ==
  LET upTo[n \in 0 .. NItem] ==
        IF n = 0 THEN d
        ELSE IF n \in items /\ Short(upTo[n - 1], n, lines[n])
               THEN Conflict(upTo[n - 1], n) ELSE upTo[n - 1]
  IN  upTo[NItem]

\* Mutant: the quantity is compared, and the version is not.
QuantityMoved(d, i, line) == d.stock[i].qty # line.book
\* Has item i moved since its line was captured?
Moved(d, i, line) == d.stock[i].ver # line.ver \/ d.stock[i].qty # line.book

\* Mutant: the sign of the difference.
AdjustedBackwards(d, lines) == [i \in Item |->
  IF lines[i] = None THEN d.stock[i]
  ELSE [qty |-> d.stock[i].qty + lines[i].book - lines[i].counted, ver |-> d.stock[i].ver + 1]]
\* The ledger entry of a line is its difference.
Adjusted(d, lines) == [i \in Item |->
  IF lines[i] = None THEN d.stock[i]
  ELSE [qty |-> d.stock[i].qty + lines[i].counted - lines[i].book, ver |-> d.stock[i].ver + 1]]

\* post_stocktake: a line that has moved ends it with STALE_COUNT, and what
\* the lines before it have done to reservations stays done.
PostTx(d, c, no) ==
  LET s == d.doc[no]
      counted == {i \in Item : s.lines[i] # None}
      moved == {i \in counted : Moved(d, i, s.lines[i])}
      before == {i \in counted : \A j \in moved : i < j}
      after == Uncovered(d, s.lines, before)
      end(x, status, succeeded) ==
        Done(Remember([x EXCEPT !.doc[no].status = status],
                      "POST", c.keys.post, <<no, c.print>>, succeeded, no), no)
  IN  Once(d, "POST", no, c.keys.post, <<no, c.print>>,
        CASE s.status # "DRAFT" -> Refused(d)
          [] s.status = "DRAFT" /\ moved # {} -> end(after, "STALE_COUNT", FALSE)
          [] OTHER -> end([after EXCEPT !.stock = Adjusted(d, s.lines)], "POSTED", TRUE))

SaveTx(d, c) ==
  IF c.saved THEN UpdateTx(d, c, <<"UPDATE", c.keys.update>>, c.lines, FALSE) ELSE CreateTx(d, c)

\* complete_stocktake: saved and posted in one transaction, or neither.
CompleteTx(d, c) ==
  LET s == SaveTx(d, c)
      x == PostTx(s.db, c, s.no)
  IN  IF s.error # "none" THEN [s EXCEPT !.db = d]
      ELSE IF x.error # "none" THEN Refused(d) ELSE x

Transaction(d, c) ==
  CASE c.op = "create" -> CreateTx(d, c)
    [] c.op = "save" -> UpdateTx(d, c, <<"UPDATE", c.keys.update>>, c.lines, FALSE)
    [] c.op = "recapture" -> RecaptureTx(d, c)
    [] c.op = "complete" -> CompleteTx(d, c)
    [] c.op = "draft" -> SaveTx(d, c)
    [] c.op = "post" -> PostTx(d, c, c.no)

-----------------------------------------------------------------------------
(* The panel                                                               *)

\* A line of the panel has no reason to trim.
Unreadable(p) == \E i \in Item : panel[p].lines[i] # None /\ panel[p].lines[i].null

Free(p) == panel[p].call = NoCall /\ ~panel[p].unknown /\ panel[p].told # "thrown"
Set(p, new) == panel' = [panel EXCEPT ![p] = new] /\ UNCHANGED <<atomic, moves>>
Local(p, new) == Set(p, new) /\ UNCHANGED <<db, faults>>

\* Lines are added with the book and the version that are on the screen, and
\* counted; nothing is sent, so that both are one step.  Keys are reset.
Count(p) ==
  /\ Free(p) /\ panel[p].doc = None /\ panel[p].lines = NoLines
  /\ \E lines \in [Item -> {None} \cup Counts] :
       /\ lines # NoLines
       /\ Local(p, [panel[p] EXCEPT !.keys = NoKeys,
            !.lines = [i \in Item |-> IF lines[i] = None THEN None
              ELSE [book |-> db.stock[i].qty, ver |-> db.stock[i].ver, counted |-> lines[i],
                    null |-> FALSE]]])

\* updateLine: while there is no document, or a draft.
Correct(p) ==
  /\ Free(p) /\ panel[p].shown \in {"NONE", "DRAFT"}
  /\ \E i \in Item, n \in Counts :
       /\ panel[p].lines[i] # None /\ ~panel[p].lines[i].null
       /\ panel[p].lines[i].counted # n
       /\ Local(p, [panel[p] EXCEPT !.lines[i].counted = n, !.keys = NoKeys])

\* All lines are removed.
Clear(p) ==
  /\ Free(p) /\ panel[p].doc = None /\ panel[p].lines # NoLines
  /\ Local(p, [panel[p] EXCEPT !.lines = NoLines, !.keys = NoKeys])

\* The number in the form is edited.
Renumber(p) ==
  /\ Free(p) /\ panel[p].doc = None /\ panel[p].no < MaxNo
  /\ Local(p, [panel[p] EXCEPT !.no = @ + 1, !.keys = NoKeys])

\* startNextStocktake
StartNext(p) ==
  /\ Free(p) /\ panel[p].shown = "POSTED" /\ panel[p].no < MaxNo
  /\ Local(p, [Blank EXCEPT !.form = panel[p].form + 1, !.no = panel[p].no + 1,
                             !.drawn = panel[p].drawn])

\* A key that is held is used again; one that is missing is drawn.
Held(p, used) ==
  [k \in DOMAIN NoKeys |->
     IF k \in used /\ panel[p].keys[k] = None THEN panel[p].drawn + 1 ELSE panel[p].keys[k]]

Sent(p) ==
  [i \in Item |-> LET l == panel[p].lines[i]
     IN  IF l = None THEN None
         ELSE [counted |-> l.counted, reason |-> l.counted # l.book, seen |-> l.ver]]

\* The fingerprint names the form of the payload, as createDraft and
\* completeStocktake write the same lines differently.
Press(p, op, used) ==
  LET v == panel[p]
      keys == Held(p, used)
      print == IF op = "recapture" THEN <<op, v.no>>
               ELSE <<IF op \in {"create", "save"} THEN "saved" ELSE "completed", v.no, Sent(p)>>
  IN  /\ v.call = NoCall /\ v.lines # NoLines
      /\ op = "recapture" \/ ~Unreadable(p)
      /\ keys # v.keys => v.drawn < MaxKeys
      /\ Local(p, [v EXCEPT !.keys = keys, !.told = "nothing",
           !.drawn = IF keys = v.keys THEN @ ELSE @ + 1,
           !.call = [op |-> op, no |-> <<p, v.no>>, form |-> v.form, saved |-> v.doc # None,
                     lines |-> Sent(p), keys |-> keys, print |-> print]])

CreateDraft(p) == Free(p) /\ panel[p].doc = None /\ Press(p, "create", {"create"})
UpdateDraft(p) == Free(p) /\ panel[p].shown = "DRAFT" /\ Press(p, "save", {"update"})
RecaptureBook(p) == Free(p) /\ panel[p].shown = "STALE_COUNT" /\ Press(p, "recapture", {"update"})

\* completeStocktake: also the way to ask again after an unknown outcome.
CompleteStocktake(p) ==
  /\ panel[p].shown \in {"NONE", "DRAFT"} /\ ~panel[p].recount
  /\ Press(p, IF atomic THEN "complete" ELSE "draft", DOMAIN NoKeys)

\* A saved draft with a line without a reason: saving and completing draw their
\* keys and throw before they send anything, and the buttons stay busy; so
\* does the page when the count of such a line is changed.
Throws(p) ==
  /\ panel[p].call = NoCall /\ panel[p].told # "thrown"
  /\ panel[p].shown = "DRAFT" /\ Unreadable(p)
  /\ Local(p, [panel[p] EXCEPT !.told = "thrown"])

\* loadDraftLines: what the document holds.
Loaded(d, no) == d.doc[no].lines
\* recapture_stocktake_draft answers '' for null.
Recaptured(d, no) ==
  [i \in Item |-> IF d.doc[no].lines[i] = None THEN None
     ELSE [d.doc[no].lines[i] EXCEPT !.null = FALSE]]

Showing(v, d, no) == [v EXCEPT !.doc = no, !.shown = d.doc[no].status]

\* What the panel holds when the call has come back with a document.
Told(v, d, no) ==
  LET s == Showing([v EXCEPT !.call = NoCall], d, no)
  IN  CASE v.call.op = "create" -> [s EXCEPT !.keys.create = None, !.lines = Loaded(d, no)]
        [] v.call.op = "save" ->
             [s EXCEPT !.keys.update = None, !.lines = Loaded(d, no), !.recount = FALSE]
        [] v.call.op = "recapture" ->
             [s EXCEPT !.keys.update = None, !.lines = Recaptured(d, no), !.recount = TRUE]
        [] v.call.op = "draft" /\ s.shown = "DRAFT" ->
             [v EXCEPT !.call.op = "post", !.call.no = no]
        [] OTHER ->
             [s EXCEPT !.keys = NoKeys, !.unknown = FALSE, !.recount = FALSE,
                       !.told = IF s.shown = "POSTED" THEN "done" ELSE "stale"]

\* The document that was saved before a failed posting stays on the screen.
AfterSave(v, d) ==
  IF v.call.op = "post" THEN [Showing(v, d, v.call.no) EXCEPT !.shown = "DRAFT",
                                !.lines = Loaded(d, v.call.no)]
  ELSE v

\* An error: nothing has been done.  A number that exists is drawn anew.
ToldError(v, d, error) ==
  IF error = "duplicate" /\ v.call.op = "create"
    THEN [v EXCEPT !.call = NoCall, !.keys.create = None, !.no = @ + 1, !.told = "failed"]
    ELSE [AfterSave(v, d) EXCEPT !.call = NoCall, !.unknown = FALSE, !.told = "failed"]

\* Mutant: what was thrown is taken for an error, and the form is free again.
ToldNothingFreed(v, d) ==
  [AfterSave(v, d) EXCEPT !.call = NoCall, !.unknown = FALSE, !.keys = NoKeys, !.told = "failed"]
\* No answer: completeStocktake locks the form, the other buttons do not.
ToldNothing(v, d) ==
  IF v.call.op \in {"complete", "draft", "post"}
    THEN [AfterSave(v, d) EXCEPT !.call = NoCall, !.unknown = TRUE, !.told = "unknown"]
    ELSE [v EXCEPT !.call = NoCall, !.told = "unknown"]

Answered(p) ==
  /\ panel[p].call # NoCall
  /\ LET x == Transaction(db, panel[p].call)
     IN  /\ x.error = "duplicate" => panel[p].no < MaxNo
         /\ db' = x.db
         /\ Set(p, IF x.error = "none" THEN Told(panel[p], x.db, x.no)
                   ELSE ToldError(panel[p], x.db, x.error))
  /\ UNCHANGED faults

\* The answer is lost, whether or not the call has arrived.
Lost(p) ==
  /\ panel[p].call # NoCall
  /\ faults < MaxFaults /\ faults' = faults + 1
  /\ \E d \in {db, Transaction(db, panel[p].call).db}, loss \in LossForms :
       /\ db' = d
       /\ Set(p, IF loss = "thrown" THEN ToldNothing(panel[p], d)
                 ELSE ToldError(panel[p], d, "network"))

\* The account, or its roles, change: the form is emptied, but neither the
\* keys nor the lock of an unknown outcome.
AccessChanges(p) ==
  /\ panel[p].call = NoCall /\ panel[p].told # "thrown"
  /\ faults < MaxFaults /\ faults' = faults + 1
  /\ Set(p, [panel[p] EXCEPT !.lines = NoLines, !.doc = None, !.shown = "NONE",
                             !.recount = FALSE, !.form = @ + 1, !.told = "nothing"])
  /\ UNCHANGED db

-----------------------------------------------------------------------------
PanelStep(p) ==
  \/ Count(p) \/ Correct(p) \/ Clear(p) \/ Renumber(p) \/ StartNext(p)
  \/ CreateDraft(p) \/ UpdateDraft(p) \/ RecaptureBook(p) \/ CompleteStocktake(p) \/ Throws(p)
  \/ Answered(p) \/ Lost(p) \/ AccessChanges(p)

Next ==
  \/ \E p \in Panel : PanelStep(p)
  \/ \E r \in Request : Submit(r)
  \/ \E i \in Item, delta \in -1 .. 1 : Move(i, delta)

(* Calls end, and a user who has a saved draft goes on trying to complete it. *)
Fairness == \A p \in Panel : WF_vars(Answered(p)) /\ WF_vars(CompleteStocktake(p))

Spec == Init /\ [][Next]_vars /\ Fairness

-----------------------------------------------------------------------------
(* Properties                                                              *)

DocLines == [Item -> [book : Nat, ver : Nat, counted : Nat, null : BOOLEAN] \cup {None}]
SentLines == [Item -> [counted : Nat, reason : BOOLEAN, seen : Nat] \cup {None}]
Keys == [DOMAIN NoKeys -> Nat \cup {None}]

(* The types of the tables and of the panels.                              *)
TypeOK ==
  /\ db.stock \in [Item -> [qty : Nat, ver : Nat]]
  /\ db.reservation \in [Request -> [Item -> {"NONE", "ACTIVE", "CONFLICTED"}]]
  /\ db.request \in [Request -> {"DRAFT", "SUBMITTED", "INVENTORY_REVIEW_REQUIRED"}]
  /\ db.doc \in [No -> [status : {"NONE", "DRAFT", "STALE_COUNT", "POSTED"},
                        lines : DocLines, form : Nat \cup {None}]]
  /\ \A c \in db.commands : c.op \in {"CREATE", "UPDATE", "POST"} /\ c.no \in No
  /\ \A p \in Panel :
       LET v == panel[p]
       IN  /\ v.lines \in DocLines /\ v.keys \in Keys /\ v.drawn \in 0 .. MaxKeys
           /\ v.no \in 1 .. MaxNo /\ v.form \in Nat
           /\ v.doc \in No \cup {None}
           /\ v.shown \in {"NONE", "DRAFT", "STALE_COUNT", "POSTED"}
           /\ v.call # NoCall => v.call.lines \in SentLines /\ v.call.keys \in Keys
           /\ v.told \in {"nothing", "done", "stale", "failed", "unknown", "thrown"}

PostedOf(p, form) == {n \in No : n[1] = p /\ db.doc[n].status = "POSTED" /\ db.doc[n].form = form}

(* However often the button is pressed, whatever answers are lost and      *)
(* whatever number is typed: a form is posted at most once.                *)
OneStocktakePerForm ==
  \A p \in Panel : \A form \in 1 .. panel[p].form : Cardinality(PostedOf(p, form)) <= 1

(* A panel that says the count is posted shows the count that was posted,  *)
(* and one that says it failed, or is stale, has not posted it (the last   *)
(* where one transaction does both; see the README for the two-step path). *)
ToldTheTruth ==
  \A p \in Panel :
    LET v == panel[p]
    IN  /\ v.told = "done" => /\ v.doc \in PostedOf(p, v.form)
                              /\ \A i \in Item :
                                   LET l == db.doc[v.doc].lines[i]
                                   IN  IF v.lines[i] = None THEN l = None
                                       ELSE l # None /\ l.counted = v.lines[i].counted
        /\ v.told \in {"failed", "stale"} /\ atomic => PostedOf(p, v.form) = {}

(* Stock covers what is reserved after any posting, and a request that lost*)
(* a reservation to a count holds none that could still be shipped.        *)
ShortageNeverHidden ==
  /\ \A i \in Item : Reserved(db, i) <= Combined(db, i)
  /\ \A r \in Request :
       (\E i \in Item : db.reservation[r][i] = "CONFLICTED") =>
         /\ db.request[r] = "INVENTORY_REVIEW_REQUIRED"
         /\ \A i \in Item : db.reservation[r][i] # "ACTIVE"

PostedNow(n) == db.doc[n].status # "POSTED" /\ db'.doc[n].status = "POSTED"

(* A posting makes the book what was counted, and changes the very book the*)
(* count was saved against: no posting in between is overwritten.          *)
NothingOverwritten ==
  [][\A n \in No : PostedNow(n) =>
       \A i \in Item : db'.doc[n].lines[i] # None =>
         /\ db'.stock[i].qty = db'.doc[n].lines[i].counted
         /\ db.stock[i].ver = db'.doc[n].lines[i].ver]_vars

(* A draft that is saved and that its user goes on completing is completed *)
(* in the end, or found stale.                                             *)
SavedDraftCompletes ==
  \A p \in Panel : (panel[p].shown = "DRAFT" /\ ~panel[p].recount) ~> panel[p].shown # "DRAFT"
=============================================================================
