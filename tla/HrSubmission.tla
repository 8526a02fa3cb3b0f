---------------------------- MODULE HrSubmission ----------------------------
(***************************************************************************)
(* The request form of the HR workbench against the idempotent RPCs: one   *)
(* user fills the form, presses the submit button, presses again when no   *)
(* answer came, edits, cancels, and goes on to the next form.  The browser *)
(* holds the idempotency keys; what it has been told may be less than what *)
(* the database has done.                                                  *)
(*                                                                         *)
(* The stock rules are HrFulfilment's: here an RPC that is not replayed    *)
(* may be refused for reasons of its own.  A request the browser has given *)
(* up reaches the database before the next press, or never.  What the form *)
(* sends is what it is filled with: the automatic split by stock on hand,  *)
(* a change of account and a reload of the page are left out.              *)
(*                                                                         *)
(* A definition commented "Mutant" is no part of the specification: it is  *)
(* the next definition with a bug in it, which a run must tell apart.      *)
(***************************************************************************)
EXTENDS Integers, Sequences, FiniteSets

CONSTANTS
    Contents,       \* what the form can be filled with
    MaxForms,       \* bound: forms filled one after the other
    MaxKeys,        \* bound: key generations drawn
    LossForms,      \* how a lost answer shows in the browser: "thrown", "error"
    RolloutSeen     \* may a form that is being retried see 0128 deployed?

None == 0   \* no request, no key

ASSUME SubmissionConstants ==
    {MaxForms, MaxKeys} \subseteq Nat /\ None \notin Contents

VARIABLES
    requests,    \* hr_requests: status, content and the form it came from
    commands,    \* operation_commands that have SUCCEEDED
    deployed,    \* does the database have submit_hr_request_with_lines?
    form,        \* which form is on the screen, counted from 1
    content,     \* what it is filled with; None when it is empty
    operation,   \* operationRef
    entry,       \* requestEntryState: the draft it is about, None for "new"
    recovery,    \* submissionRecovery
    missing,     \* is the RPC remembered as missing?
    keys,        \* key generations drawn so far
    call,        \* the RPC under way
    told         \* what the last press told the user, and about which form

server == <<requests, commands>>
vars == <<requests, commands, deployed, form, content, operation, entry,
          recovery, missing, keys, call, told>>

NoOperation == [create |-> None, update |-> None, submit |-> None, draftId |-> None]
NoInput == [requestId |-> None, content |-> None,
            create |-> None, update |-> None, submit |-> None]
NoCall == [stage |-> "none", input |-> NoInput, draft |-> None]
NothingTold == [outcome |-> "none", form |-> None, content |-> None]

Init ==
    /\ requests = <<>> /\ commands = {}
    /\ deployed \in BOOLEAN
    /\ form = 1 /\ content = None
    /\ operation = NoOperation /\ entry = None /\ recovery = NoInput
    /\ missing = FALSE /\ keys = 0
    /\ call = NoCall /\ told = NothingTold

Idle == call = NoCall
Recovering == recovery # NoInput

-----------------------------------------------------------------------------
(* The RPCs: each returns a set of outcomes, of which one happens.         *)

Db(rs, cs) == [requests |-> rs, commands |-> cs]
Done(db, r) == [db |-> db, error |-> "none", request |-> r]
Failed(db, error) == [db |-> db, error |-> error, request |-> None]

\* A command is claimed, carried out and remembered in one transaction; the
\* same key and fingerprint again get the same request, as it is by then.
Once(db, op, key, fingerprint, fresh) ==
    LET prior == {c \in db.commands : c.op = op /\ c.key = key}
    IN  IF prior = {}
        THEN {Failed(db, "refused")}
             \cup {Done(Db(f.requests, db.commands \cup
                     {[op |-> op, key |-> key, fingerprint |-> fingerprint,
                       request |-> f.request]}), f.request) : f \in fresh}
        ELSE {IF c.fingerprint = fingerprint
              THEN Done(db, c.request) ELSE Failed(db, "conflict") : c \in prior}

CreateDraft(db, input) ==
    Once(db, "create", input.create, <<input.content>>,
         {[requests |-> Append(db.requests,
              [status |-> "DRAFT", content |-> input.content, form |-> form]),
           request |-> Len(db.requests) + 1]})

InStatus(db, r, statuses, change) ==
    IF db.requests[r].status \in statuses
    THEN {[requests |-> [db.requests EXCEPT ![r] = change], request |-> r]}
    ELSE {}

UpdateDraft(db, input) ==
    LET r == input.requestId
    IN  Once(db, "update", input.update, <<r, input.content>>,
             InStatus(db, r, {"DRAFT"}, [db.requests[r] EXCEPT !.content = input.content]))

SaveDraft(db, input) ==
    IF input.requestId = None THEN CreateDraft(db, input) ELSE UpdateDraft(db, input)

Submit(db, r, input, fingerprint) ==
    Once(db, "submit", input.submit, fingerprint,
         InStatus(db, r, {"DRAFT"}, [db.requests[r] EXCEPT !.status = "SUBMITTED"]))

\* Mutant: a failed submission undoes the draft, not its command.
SubmitWithLinesHalfUndone(db, input) == UNION {
    IF d.error # "none" THEN {d}
    ELSE {IF s.error = "none" THEN s ELSE Failed(Db(db.requests, d.db.commands), s.error) :
            s \in Submit(d.db, d.request, input, <<input.requestId, input.content>>)} :
    d \in SaveDraft(db, input)}
\* Both in one transaction, which a failure of either undoes.
SubmitWithLines(db, input) == UNION {
    IF d.error # "none" THEN {d}
    ELSE {IF s.error = "none" THEN s ELSE Failed(db, s.error) :
            s \in Submit(d.db, d.request, input, <<input.requestId, input.content>>)} :
    d \in SaveDraft(db, input)}

Outcomes(db) ==
    CASE call.stage = "atomic" -> SubmitWithLines(db, call.input)
      [] call.stage = "draft" -> SaveDraft(db, call.input)
      [] call.stage = "submit" ->
             Submit(db, call.draft, call.input, <<call.draft, call.input.content>>)
      [] call.stage = "cancel" ->
             Once(db, "cancel", form, <<call.draft>>,
                  InStatus(db, call.draft, {"DRAFT", "SUBMITTED"},
                      [db.requests[call.draft] EXCEPT !.status = "CANCELLED"]))

-----------------------------------------------------------------------------
(* The form                                                                *)

Draw == keys' = keys + 1 /\ keys < MaxKeys

\* Mutant: an edit of a saved draft keeps the key of its update.
RotateCreateKeyOnly(op) ==
    [op EXCEPT !.create = IF op.draftId = None THEN keys + 1 ELSE @, !.submit = keys + 1]
RotateDraftKeys(op) ==
    [op EXCEPT !.create = IF op.draftId = None THEN keys + 1 ELSE @,
               !.update = keys + 1, !.submit = keys + 1]

Edit(c) ==
    /\ Idle /\ ~Recovering /\ form <= MaxForms /\ c # content
    /\ content' = c
    /\ IF operation = NoOperation THEN UNCHANGED <<operation, keys>>
       ELSE Draw /\ operation' = RotateDraftKeys(operation)
    /\ UNCHANGED <<server, deployed, form, entry, recovery, missing, call, told>>

\* The ids of the operation and of the form must agree; the input of an
\* unknown outcome is used again as it was.
RouteValid == operation.draftId = entry
InputOf(op) ==
    IF Recovering THEN recovery
    ELSE [requestId |-> entry, content |-> content,
          create |-> op.create, update |-> op.update, submit |-> op.submit]

Press ==
    /\ Idle /\ form <= MaxForms /\ RouteValid /\ (content # None \/ Recovering)
    /\ IF operation = NoOperation
       THEN Draw /\ operation' = [create |-> keys + 1, update |-> keys + 1,
                                  submit |-> keys + 1, draftId |-> None]
       ELSE UNCHANGED <<operation, keys>>
    /\ call' = [stage |-> IF missing THEN "draft" ELSE "atomic",
                input |-> InputOf(operation'), draft |-> None]
    /\ told' = NothingTold
    /\ UNCHANGED <<server, deployed, form, content, entry, recovery, missing>>

CancelDraft ==
    /\ Idle /\ ~Recovering /\ entry # None /\ RouteValid
    /\ call' = [stage |-> "cancel", input |-> NoInput, draft |-> entry]
    /\ told' = NothingTold
    /\ UNCHANGED <<server, deployed, form, content, operation, entry, recovery, missing, keys>>

-----------------------------------------------------------------------------
(* What the browser makes of an answer, or of none                         *)

ResetForm ==
    /\ form' = form + 1 /\ content' = None
    /\ operation' = NoOperation /\ entry' = None /\ recovery' = NoInput

Tell(outcome) ==
    told' = [outcome |-> outcome, form |-> form,
             content |-> call.input.content]

Succeed ==
    /\ ResetForm /\ Tell("success") /\ call' = NoCall

\* Mutant: the input of an unknown outcome is not kept.
GiveUpForgetful(r, draft, outcome) ==
    /\ recovery' = NoInput
    /\ operation' = IF r = None THEN operation ELSE [operation EXCEPT !.draftId = r]
    /\ entry' = IF draft THEN r ELSE entry
    /\ Tell(outcome) /\ call' = NoCall
    /\ UNCHANGED <<form, content>>
\* The press has failed or its outcome is unknown; r is what is known of the
\* request, and draft whether it was a draft.
GiveUp(r, draft, outcome) ==
    /\ recovery' = IF outcome = "unknown" THEN call.input ELSE NoInput
    /\ operation' = IF r = None THEN operation ELSE [operation EXCEPT !.draftId = r]
    /\ entry' = IF draft THEN r ELSE entry
    /\ Tell(outcome) /\ call' = NoCall
    /\ UNCHANGED <<form, content>>

Refusal(error) == IF error = "conflict" THEN "conflict" ELSE "failed"

AnsweredAtomic(o, status) ==
    CASE o.error # "none" -> GiveUp(None, FALSE, Refusal(o.error))
      [] status = "SUBMITTED" -> Succeed
      [] OTHER -> GiveUp(o.request, status = "DRAFT", "unknown")

AnsweredDraft(o, status) ==
    CASE o.error # "none" -> GiveUp(None, FALSE, Refusal(o.error))
      [] status = "SUBMITTED" -> Succeed
      [] status = "DRAFT" ->
            /\ call' = [call EXCEPT !.stage = "submit", !.draft = o.request]
            /\ UNCHANGED <<form, content, operation, entry, recovery, told>>
      [] OTHER -> GiveUp(o.request, FALSE, "unknown")

AnsweredSubmit(o, status) ==
    CASE o.error # "none" -> GiveUp(call.draft, TRUE, Refusal(o.error))
      [] status = "SUBMITTED" -> Succeed
      [] OTHER -> GiveUp(call.draft, TRUE, "unknown")

AnsweredCancel(o) ==
    /\ IF o.error = "none" THEN ResetForm
       ELSE UNCHANGED <<form, content, operation, entry, recovery>>
    /\ call' = NoCall /\ UNCHANGED told

Answered(o) ==
    LET status == IF o.error = "none" THEN o.db.requests[o.request].status ELSE "NONE"
    IN  CASE call.stage = "atomic" -> AnsweredAtomic(o, status)
          [] call.stage = "draft" -> AnsweredDraft(o, status)
          [] call.stage = "submit" -> AnsweredSubmit(o, status)
          [] call.stage = "cancel" -> AnsweredCancel(o)

\* Mutant: a call that throws has failed.
LossOutcomeFailed(lossForm) == "failed"
\* A call that throws has an unknown outcome; one that ends with an error
\* has failed, whatever the error says.
LossOutcome(lossForm) == IF lossForm = "thrown" THEN "unknown" ELSE "failed"

Unanswered(lossForm) ==
    IF call.stage = "cancel"
    THEN /\ call' = NoCall
         /\ UNCHANGED <<form, content, operation, entry, recovery, told>>
    ELSE GiveUp(call.draft, call.draft # None, LossOutcome(lossForm))

-----------------------------------------------------------------------------
(* Calls on their way                                                      *)

Present == call.stage = "atomic" => deployed
PerformedBy(o) == requests' = o.db.requests /\ commands' = o.db.commands

\* The RPC runs and its answer arrives.
Answer ==
    /\ ~Idle /\ Present
    /\ \E o \in Outcomes(Db(requests, commands)) : PerformedBy(o) /\ Answered(o)
    /\ UNCHANGED <<deployed, missing, keys>>

\* The database does not have the RPC and says so: the older sequence begins.
AnswerMissing ==
    /\ ~Idle /\ ~Present
    /\ missing' = TRUE
    /\ call' = [call EXCEPT !.stage = "draft"]
    /\ UNCHANGED <<server, deployed, form, content, operation, entry, recovery, keys, told>>

\* The connection fails before the RPC ran, or after.
LoseCall ==
    /\ ~Idle
    /\ \/ UNCHANGED server
       \/ Present /\ \E o \in Outcomes(Db(requests, commands)) : PerformedBy(o)
    /\ \E lossForm \in LossForms : Unanswered(lossForm)
    /\ UNCHANGED <<deployed, missing, keys>>

\* The minute for which the RPC is remembered as missing is over.
ForgetMissing ==
    /\ missing
    /\ missing' = FALSE
    /\ UNCHANGED <<server, deployed, form, content, operation, entry, recovery, keys, call, told>>

\* Without RolloutSeen 0128 is deployed before the form has learnt that the
\* RPC is missing.
Deploy ==
    /\ ~deployed
    /\ RolloutSeen \/ (Idle /\ ~Recovering /\ ~missing)
    /\ deployed' = TRUE
    /\ UNCHANGED <<server, form, content, operation, entry, recovery, missing, keys, call, told>>

\* The request is cancelled or shipped from another page.  (SHIPPED also
\* stands for INVENTORY_REVIEW_REQUIRED: neither DRAFT nor SUBMITTED.)
ChangeElsewhere(r) ==
    /\ \E status \in {"CANCELLED", "SHIPPED"} :
          /\ requests[r].status = "SUBMITTED" \/ (requests[r].status = "DRAFT" /\ status = "CANCELLED")
          /\ requests' = [requests EXCEPT ![r].status = status]
    /\ UNCHANGED <<commands, deployed, form, content, operation, entry, recovery,
                   missing, keys, call, told>>

Next ==
    \/ \E c \in Contents : Edit(c)
    \/ Press
    \/ CancelDraft
    \/ Answer
    \/ AnswerMissing
    \/ LoseCall
    \/ ForgetMissing
    \/ Deploy
    \/ \E r \in 1..Len(requests) : ChangeElsewhere(r)

Spec == Init /\ [][Next]_vars

-----------------------------------------------------------------------------
(* Properties                                                              *)

Keys == 0..MaxKeys
Statuses == {"DRAFT", "SUBMITTED", "SHIPPED", "CANCELLED"}
Input == [requestId : Nat, content : Contents \cup {None},
          create : Keys, update : Keys, submit : Keys]

\* The typing of the browser's and the database's state; every command, form
\* and call is about a request that exists, if about any.
TypeOK ==
    /\ requests \in Seq([status : Statuses, content : Contents, form : 1..MaxForms])
    /\ \A c \in commands : c.request \in 1..Len(requests)
    /\ form \in 1..(MaxForms + 1) /\ content \in Contents \cup {None}
    /\ operation \in [create : Keys, update : Keys, submit : Keys, draftId : 0..Len(requests)]
    /\ entry \in 0..Len(requests)
    /\ recovery \in Input
    /\ call \in [stage : {"none", "atomic", "draft", "submit", "cancel"},
                 input : Input, draft : 0..Len(requests)]
    /\ told.outcome \in {"none", "success", "failed", "conflict", "unknown"}

RequestsOf(f) == {r \in 1..Len(requests) : requests[r].form = f}

\* However often the user presses, edits and retries, a form makes at most
\* one request: "Unknown outcomes retain all operation keys and never start a
\* second write path" (hr-request-submission.ts:128-129).
OneRequestPerForm == \A f \in 1..MaxForms : Cardinality(RequestsOf(f)) <= 1

\* What the user is told of a press is so: after "sent" the form's request is
\* as it was pressed and has been submitted, after "failed" nothing of the
\* form has been.
ToldTheTruth ==
    /\ told.outcome = "success" => \E r \in RequestsOf(told.form) :
          requests[r].content = told.content /\ requests[r].status # "DRAFT"
    /\ told.outcome \in {"failed", "conflict"} => \A r \in RequestsOf(told.form) :
          requests[r].status \in {"DRAFT", "CANCELLED"}

\* No press is refused for a key that the same form used with other data.
NoKeyConflict == told.outcome # "conflict"
=============================================================================
