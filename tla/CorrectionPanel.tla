-------------------------- MODULE CorrectionPanel --------------------------
(***************************************************************************)
(* The correction panels: a difference is entered for a posted line, and a *)
(* correction is drafted, posted or completed under keys that are kept in  *)
(* the browser, over the transactions of CorrectionPosting.  The five      *)
(* panels are written alike; those of issues and of returns derive the     *)
(* number from the history of the line, in the others it is typed.         *)
(*                                                                         *)
(* A call whose answer is lost reaches the database before the next press, *)
(* or never.  The keys are held in refs and in localStorage; the two differ*)
(* only while the panel is mounted, and are one here.                      *)
(***************************************************************************)
EXTENDS CorrectionPosting, FiniteSetsExt

CONSTANTS
  Derived,      \* the kinds whose number is derived
  Deployments,  \* may complete_*_correction exist? a subset of BOOLEAN
  LossForms,    \* how a lost answer shows in the browser: "thrown", "error"
  MaxKeys,      \* bound: key generations a panel draws
  MaxFaults     \* bound: lost answers, reloads and failed status reads

ASSUME PanelConstants ==
  /\ Derived \subseteq Kind /\ Deployments \subseteq BOOLEAN
  /\ LossForms \subseteq {"thrown", "error"}
  /\ {MaxKeys, MaxFaults} \subseteq Nat /\ MaxNo # 0
  /\ None \notin Nat \cup No

VARIABLES
  commands,  \* operation_commands of the panels
  forms,     \* forms[k][f]: the corrections that came of form f of panel k
  atomic,    \* does the database have complete_*_correction (0131)?
  panel,     \* what the panel of each kind holds
  faults

vars == <<db, commands, forms, atomic, panel, faults>>

NoKeys == [create |-> None, post |-> None]
NoCall == [op |-> "none"]

\* What outlives a reload: localStorage.  A form is what the user means to
\* be one correction; drawn counts the keys.
Kept == [keys |-> NoKeys, id |-> None, print |-> None, form |-> 1, drawn |-> 0]
\* As the panel is mounted over what was kept: locked, until it knows what
\* the last call did.
Mounted(kept) ==
  [line |-> None, delta |-> None, no |-> 1, history |-> {}, reading |-> FALSE,
   note |-> None, shown |-> "NONE", unresolved |-> TRUE, asking |-> TRUE, call |-> NoCall,
   told |-> "nothing", keys |-> kept.keys, id |-> kept.id, print |-> kept.print,
   form |-> kept.form, drawn |-> kept.drawn]

PanelInit ==
  /\ Init
  /\ commands = {} /\ forms = [n \in No |-> 0]
  /\ atomic \in Deployments
  /\ panel = [k \in Kind |-> Mounted(Kept)]
  /\ faults = 0

-----------------------------------------------------------------------------
(* The calls: what becomes of <<db, commands, forms>>, and what is said.   *)

Now == [db |-> db, commands |-> commands, forms |-> forms]
Done(x, n) == [at |-> x, no |-> n, error |-> "none"]
Refused(x, error) == [at |-> x, no |-> None, error |-> error]

\* operation_commands: the same key again finds what it has done before.
Once(x, op, n, key, print, fresh) ==
  LET prior == {c \in x.commands : c.op = op /\ c.kind = n[1] /\ c.key = key}
  IN  IF prior = {} THEN fresh
      ELSE LET c == CHOOSE c \in prior : TRUE
           IN  IF c.print = print THEN Done(x, c.no) ELSE Refused(x, "conflict")

Remember(x, op, n, key, print) ==
  [x EXCEPT !.commands = @ \cup {[op |-> op, kind |-> n[1], key |-> key, print |-> print, no |-> n]}]

CreateTx(x, c) ==
  Once(x, "CREATE", c.no, c.keys.create, c.print,
    IF ~CanCreate(x.db, c.no) THEN Refused(x, "duplicate")
    ELSE Done(Remember([x EXCEPT !.db = Created(x.db, c.no, c.line, c.delta), !.forms[c.no] = c.form],
                       "CREATE", c.no, c.keys.create, c.print), c.no))

\* Mutant: what has been posted is not looked at.
PostTxUnchecked(x, c, n) ==
  Once(x, "POST", n, c.keys.post, c.postPrint,
    Done(Remember([x EXCEPT !.db = Posted(x.db, n)], "POST", n, c.keys.post, c.postPrint), n))
PostTx(x, c, n) ==
  Once(x, "POST", n, c.keys.post, c.postPrint,
    IF ~CanPost(x.db, n) THEN Refused(x, "refused")
    ELSE Done(Remember([x EXCEPT !.db = Posted(x.db, n)], "POST", n, c.keys.post, c.postPrint), n))

\* complete_*_correction: both, or neither.
CompleteTx(x, c) ==
  LET made == CreateTx(x, c)
      done == PostTx(made.at, c, made.no)
  IN  IF made.error # "none" THEN made
      ELSE IF made.at.db.note[made.no].status = "POSTED" THEN made
      ELSE IF done.error # "none" THEN Refused(x, done.error) ELSE done

Transaction(x, c) ==
  CASE c.op = "complete" -> CompleteTx(x, c)
    [] c.op \in {"create", "draft"} -> CreateTx(x, c)
    [] c.op \in {"post", "finish"} -> PostTx(x, c, c.no)

\* get_*_correction_status: the id first, then the keys.
Found(k, v) ==
  LET of(op, key) == {c.no : c \in {c \in commands : c.op = op /\ c.kind = k /\ c.key = key}}
      byKey == IF of("CREATE", v.keys.create) # {} THEN of("CREATE", v.keys.create)
               ELSE of("POST", v.keys.post)
  IN  IF v.id # None THEN v.id
      ELSE IF byKey = {} THEN None ELSE CHOOSE n \in byKey : TRUE

-----------------------------------------------------------------------------
(* The panel                                                               *)

Set(k, new) == panel' = [panel EXCEPT ![k] = new] /\ UNCHANGED atomic
Local(k, new) == Set(k, new) /\ UNCHANGED <<db, commands, forms, faults>>

Open(v) == v.call = NoCall /\ ~v.unresolved /\ v.note = None

\* resetKeys
Reset(v) == [v EXCEPT !.unresolved = FALSE, !.keys = NoKeys, !.print = None]

\* chooseLine: the history that is held stays until the new one is read.
\* Another line than the one before begins another form.
ChooseLine(k, l) ==
  LET v == panel[k]
  IN  /\ Open(v) /\ v.line # l
      /\ Local(k, [Reset(v) EXCEPT !.id = None, !.line = l, !.delta = None, !.no = 1,
                     !.reading = TRUE, !.told = "nothing",
                     !.form = IF v.line = None THEN @ ELSE @ + 1])

EnterDelta(k, delta) ==
  /\ Open(panel[k]) /\ panel[k].line # None /\ panel[k].delta # delta
  /\ Local(k, [Reset(panel[k]) EXCEPT !.delta = delta])

\* The number is typed where it is not derived.
EnterNumber(k) ==
  /\ Open(panel[k]) /\ panel[k].line # None /\ k \notin Derived /\ panel[k].no < MaxNo
  /\ Local(k, [Reset(panel[k]) EXCEPT !.no = @ + 1])

\* loadHistory: the corrections of the line, drafts among them.
HistoryArrives(k) ==
  /\ panel[k].reading
  /\ Local(k, [panel[k] EXCEPT !.reading = FALSE,
                 !.history = {n \in No : n[1] = k /\ db.note[n].line = panel[k].line}])

\* buildNextCorrectionNo: the first number the history does not have.
Free(history, k) == {i \in 1 .. MaxNo : <<k, i>> \notin history}
Number(k, v) ==
  IF v.note # None THEN v.note
  ELSE IF k \in Derived THEN <<k, Min(Free(v.history, k))>> ELSE <<k, v.no>>
Numbered(k, v) == v.note # None \/ k \notin Derived \/ Free(v.history, k) # {}

\* A key that is held is used again; one that is missing is drawn.
Held(v, used) ==
  [x \in DOMAIN NoKeys |-> IF x \in used /\ v.keys[x] = None THEN v.drawn + 1 ELSE v.keys[x]]

Press(k, op, used, print) ==
  LET v == panel[k]
      keys == Held(v, used)
  IN  /\ v.call = NoCall /\ v.line # None /\ Numbered(k, v)
      /\ keys # v.keys => v.drawn < MaxKeys
      /\ Local(k, [v EXCEPT !.keys = keys, !.print = print, !.told = "nothing",
           !.drawn = IF keys = v.keys THEN @ ELSE @ + 1,
           !.call = [op |-> op, no |-> Number(k, v), line |-> v.line, delta |-> v.delta,
                     form |-> v.form, keys |-> keys,
                     print |-> <<Number(k, v), v.line, v.delta>>,
                     postPrint |-> IF print = None THEN <<"document", Number(k, v)>> ELSE print]])

\* createDraft
CreateDraft(k) ==
  Open(panel[k]) /\ panel[k].delta # None /\ Press(k, "create", {"create"}, panel[k].print)

\* completeCorrection of a draft: postCorrection.
PostDraft(k) ==
  panel[k].shown = "DRAFT" /\ Press(k, "post", {"post"}, panel[k].print)

\* completeCorrection: also the way to ask again after an unknown outcome.
CompleteCorrection(k) ==
  /\ panel[k].note = None /\ panel[k].delta # None
  /\ Press(k, IF atomic THEN "complete" ELSE "draft", DOMAIN NoKeys,
           <<"key", Held(panel[k], DOMAIN NoKeys).post>>)

\* startAnother
StartAnother(k) ==
  LET v == panel[k]
  IN  /\ v.call = NoCall /\ v.note # None
      /\ Local(k, [Reset(v) EXCEPT !.id = None, !.line = None, !.note = None, !.shown = "NONE",
                     !.delta = None, !.no = 1, !.form = @ + 1, !.told = "nothing"])

-----------------------------------------------------------------------------
(* What the panel makes of an answer                                       *)

\* Mutant: the number alone is shown.
ShowingNumber(v, x, n) == [v EXCEPT !.note = n, !.id = n]
Showing(v, x, n) == [v EXCEPT !.note = n, !.shown = x.db.note[n].status, !.id = n]

Told(v, x, n) ==
  LET s == Showing(v, x, n)
  IN  CASE v.call.op = "draft" /\ s.shown = "DRAFT" -> [v EXCEPT !.call.op = "finish", !.call.no = n]
        [] v.call.op = "create" -> [s EXCEPT !.call = NoCall, !.keys.create = None, !.told = "drafted"]
        [] v.call.op = "post" ->
             [s EXCEPT !.call = NoCall, !.keys.post = None, !.print = None, !.unresolved = FALSE, !.told = "done"]
        [] OTHER -> [Reset(s) EXCEPT !.call = NoCall, !.told = "done"]

\* The draft that was made before a failed posting stays on the screen, with
\* the key of the posting.
Drafted(v, x, told) ==
  [Showing(v, x, v.call.no) EXCEPT !.shown = "DRAFT", !.keys.create = None,
     !.unresolved = FALSE, !.call = NoCall, !.told = told]

\* An error: nothing has been done.  createDraft and postCorrection keep the
\* key, completeCorrection does not.
ToldError(v, x) ==
  CASE v.call.op = "finish" -> Drafted(v, x, "failed")
    [] v.call.op \in {"create", "post"} -> [v EXCEPT !.call = NoCall, !.told = "unknown"]
    [] OTHER -> [Reset(v) EXCEPT !.call = NoCall, !.told = "failed"]

\* Mutant: what was thrown is taken for an error.
ToldThrownAsError(v, x) == ToldError(v, x)
\* What was thrown is caught where a correction is completed; the other two
\* buttons stay busy for good.
ToldThrown(v, x) ==
  CASE v.call.op = "finish" -> Drafted(v, x, "unknown")
    [] v.call.op \in {"create", "post"} -> [v EXCEPT !.call.op = "stuck"]
    [] OTHER -> [v EXCEPT !.call = NoCall, !.unresolved = TRUE, !.told = "unknown"]

Calling(k) == panel[k].call # NoCall /\ panel[k].call.op # "stuck"

Reaches(x) == db' = x.db /\ commands' = x.commands /\ forms' = x.forms

Answered(k) ==
  /\ Calling(k)
  /\ LET x == Transaction(Now, panel[k].call)
     IN  /\ Reaches(x.at)
         /\ Set(k, IF x.error = "none" THEN Told(panel[k], x.at, x.no) ELSE ToldError(panel[k], x.at))
  /\ UNCHANGED faults

Fault == faults < MaxFaults /\ faults' = faults + 1

\* The answer is lost, whether or not the call has arrived.
Lost(k) ==
  /\ Calling(k) /\ Fault
  /\ \E x \in {Now, Transaction(Now, panel[k].call).at}, loss \in LossForms :
       /\ Reaches(x)
       /\ Set(k, IF loss = "thrown" THEN ToldThrown(panel[k], x) ELSE ToldError(panel[k], x))

\* The page is reloaded, with or without a call under way.
Reload(k) ==
  /\ Fault
  /\ \E x \in {Now} \cup (IF Calling(k) THEN {Transaction(Now, panel[k].call).at} ELSE {}) :
       Reaches(x)
  /\ Set(k, Mounted(panel[k]))

\* recover: what became of the call whose keys are stored?
Recovered(k) ==
  LET v == panel[k]
      n == Found(k, v)
  IN  /\ v.asking
      /\ Local(k, CASE v.keys = NoKeys /\ v.id = None ->
                        [v EXCEPT !.asking = FALSE, !.unresolved = FALSE]
                    [] n # None ->
                        [Showing(v, [db |-> db], n) EXCEPT !.asking = FALSE, !.unresolved = FALSE,
                           !.line = db.note[n].line, !.reading = TRUE, !.told = "recovered"]
                    [] OTHER ->
                        [Reset(v) EXCEPT !.asking = FALSE, !.id = None, !.told = "none"])

\* The status cannot be read: locked, with what the panel holds.
StatusFails(k) ==
  /\ panel[k].asking /\ Fault
  /\ panel[k].keys # NoKeys \/ panel[k].id # None
  /\ Set(k, [panel[k] EXCEPT !.asking = FALSE, !.unresolved = TRUE])
  /\ UNCHANGED <<db, commands, forms>>

-----------------------------------------------------------------------------
PanelStep(k) ==
  \/ \E l \in Line : ChooseLine(k, l)
  \/ \E delta \in Delta : EnterDelta(k, delta)
  \/ EnterNumber(k) \/ HistoryArrives(k)
  \/ CreateDraft(k) \/ PostDraft(k) \/ CompleteCorrection(k) \/ StartAnother(k)
  \/ Answered(k) \/ Lost(k) \/ Reload(k) \/ Recovered(k) \/ StatusFails(k)

\* What other users do; a panel finds its own drafts only.
Others ==
  /\ Next /\ UNCHANGED <<commands, forms, atomic, panel, faults>>
  /\ \A n \in No : forms[n] # 0 => db'.note[n] = db.note[n]

PanelNext == Others \/ \E k \in Kind : PanelStep(k)

PanelSpec == PanelInit /\ [][PanelNext]_vars

-----------------------------------------------------------------------------
(* Properties                                                              *)

Keys == [DOMAIN NoKeys -> Nat \cup {None}]

(* The types of what the panels hold.                                      *)
PanelTypeOK ==
  /\ \A c \in commands : c.op \in {"CREATE", "POST"} /\ c.no \in No /\ c.key \in Nat
  /\ forms \in [No -> Nat]
  /\ \A k \in Kind :
       LET v == panel[k]
       IN  /\ v.line \in Line \cup {None} /\ v.delta \in Delta \cup {None}
           /\ v.no \in 1 .. MaxNo /\ v.history \subseteq No /\ v.note \in No \cup {None}
           /\ v.shown \in {"NONE", "DRAFT", "POSTED"} /\ (v.shown = "NONE") = (v.note = None)
           /\ {v.reading, v.unresolved, v.asking} \subseteq BOOLEAN
           /\ v.keys \in Keys /\ v.id \in No \cup {None} /\ v.drawn \in 0 .. MaxKeys
           /\ v.told \in {"nothing", "done", "drafted", "failed", "unknown", "recovered", "none"}
           /\ v.call # NoCall => v.call.no \in No /\ v.call.keys \in Keys

PostedOf(k, form) ==
  {n \in No : n[1] = k /\ db.note[n].status = "POSTED" /\ forms[n] = form}

(* All that the panels ever do to the database, retries, lost answers and  *)
(* reloads included, is what the transactions allow: no call reaches it    *)
(* twice, and none but as a whole.                                         *)
PostsAsSpecified == Spec

(* However often a button is pressed, whatever answers are lost and however*)
(* often the page is reloaded: what the user meant as one correction is    *)
(* posted at most once.                                                    *)
OneCorrectionPerForm ==
  \A k \in Kind : \A form \in 1 .. panel[k].form : Cardinality(PostedOf(k, form)) <= 1

(* A panel that says the correction is posted shows the one of its form,   *)
(* and one that says that it failed, or that there is none to be found, has*)
(* posted none.                                                            *)
ToldTheTruth ==
  \A k \in Kind :
    LET v == panel[k]
    IN  /\ v.told = "done" => v.note \in PostedOf(k, v.form)
        /\ v.told \in {"failed", "none"} => PostedOf(k, v.form) = {}
=============================================================================
