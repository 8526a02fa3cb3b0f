---------------------------- MODULE ImportPromise ----------------------------
(***************************************************************************)
(* What a durable import promises its user, whatever happens to the files, *)
(* the leases and the workers behind it: a batch is published at most      *)
(* once, only after somebody confirmed it, and what is published is what   *)
(* was on the screen when it was confirmed.  docs/spec/data-model.md:587   *)
(* states the promise; DurableImport keeps it.                             *)
(***************************************************************************)

CONSTANTS
  Batch,    \* the import batches
  Preview   \* what a screen may show of a batch, and what may be published

VARIABLES
  outcome,  \* outcome[b]: what has become of batch b
  shown,    \* shown[b]: the set of previews the user of b has confirmed
  public    \* public[b]: what was published of b, in order

vars == <<outcome, shown, public>>

Init ==
  /\ outcome = [b \in Batch |-> "open"]
  /\ shown = [b \in Batch |-> {}]
  /\ public = [b \in Batch |-> <<>>]

(* The user confirms the preview that is on the screen.                    *)
Confirm(b) ==
  /\ outcome[b] = "open"
  /\ \E p \in Preview : shown' = [shown EXCEPT ![b] = @ \cup {p}]
  /\ UNCHANGED <<outcome, public>>

(* The confirmed preview becomes master data: all of it, in one step.      *)
Publish(b) ==
  /\ outcome[b] = "open"
  /\ outcome' = [outcome EXCEPT ![b] = "published"]
  /\ \E p \in shown[b] : public' = [public EXCEPT ![b] = <<p>>]
  /\ UNCHANGED shown

Fail(b) ==
  /\ outcome[b] = "open"
  /\ outcome' = [outcome EXCEPT ![b] = "failed"]
  /\ UNCHANGED <<shown, public>>

(* A failed batch may still be cancelled; a published one never is.        *)
Cancel(b) ==
  /\ outcome[b] \in {"open", "failed"}
  /\ outcome' = [outcome EXCEPT ![b] = "cancelled"]
  /\ UNCHANGED <<shown, public>>

Next == \E b \in Batch : Confirm(b) \/ Publish(b) \/ Fail(b) \/ Cancel(b)

Spec == Init /\ [][Next]_vars
=============================================================================
