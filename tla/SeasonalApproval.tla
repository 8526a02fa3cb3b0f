-------------------------- MODULE SeasonalApproval --------------------------
(***************************************************************************)
(* The approval of a season's demand: HR corrects what was asked for and   *)
(* submits it, the CEO approves or returns the version on the screen       *)
(* (migrations 0008 and 0021, SeasonalApprovalPanel).                      *)
(*                                                                         *)
(* One item: its demand is what the lines of all employees come to.  Each  *)
(* transaction locks the campaign and is one step.  The lines of a         *)
(* submission are never changed, so that they stand for its hash, too.     *)
(*                                                                         *)
(* A definition commented "Mutant" is no part of the specification: it is  *)
(* the next definition with a bug in it, which a run must tell apart.      *)
(***************************************************************************)
EXTENDS Integers, Sequences

CONSTANTS
  Demand,     \* what the demand lines may come to
  None,
  Screen,     \* where the CEO's panel is open
  MaxRevision \* bound: submissions of the campaign

ASSUME ApprovalConstants == Demand \subseteq Nat /\ MaxRevision \in Nat

VARIABLES
  campaign,  \* seasonal_campaigns with its demand and its submissions
  approval,  \* seasonal_approvals; shown is what the CEO saw
  ceo        \* ceo[w]: the versions read, the one selected and its lines

approvalVars == <<campaign, approval, ceo>>

\* Demand lines that are there; none can be entered, see the README.
ApprovalInit ==
  /\ campaign \in [status : {"OPEN"}, demand : Demand, submissions : {<<>>}]
  /\ approval = None
  /\ ceo = [w \in Screen |-> [queue |-> {}, selected |-> None, lines |-> None]]

Revisions == DOMAIN campaign.submissions
Pending == {s \in Revisions : campaign.submissions[s].status = "PENDING"}

-----------------------------------------------------------------------------
(* HR                                                                      *)

\* close_seasonal_campaign, after its closing time
CloseCampaign ==
  /\ campaign.status = "OPEN"
  /\ campaign' = [campaign EXCEPT !.status = "HR_REVIEW"]
  /\ UNCHANGED <<approval, ceo>>

\* correct_seasonal_demand_line
CorrectDemand(q) ==
  /\ campaign.status = "HR_REVIEW" /\ q # campaign.demand
  /\ campaign' = [campaign EXCEPT !.demand = q]
  /\ UNCHANGED <<approval, ceo>>

\* submit_seasonal_campaign: lines without a quantity are left out.
Submit ==
  /\ campaign.status = "HR_REVIEW" /\ Pending = {}
  /\ Len(campaign.submissions) < MaxRevision
  /\ campaign' = [campaign EXCEPT !.status = "PENDING_APPROVAL",
       !.submissions = Append(@, [status |-> "PENDING", demand |-> campaign.demand])]
  /\ UNCHANGED <<approval, ceo>>

-----------------------------------------------------------------------------
(* The CEO                                                                 *)

Sees(w, v) == ceo' = [ceo EXCEPT ![w] = v]
Without(queue) == [queue |-> queue, selected |-> None, lines |-> None]

\* v_seasonal_approval_queue; a selection that is no longer listed is gone.
ReadQueue(w) ==
  /\ ceo[w].queue # Pending
  /\ Sees(w, IF ceo[w].selected \in Pending THEN [ceo[w] EXCEPT !.queue = Pending] ELSE Without(Pending))
  /\ UNCHANGED <<campaign, approval>>

Select(w, s) ==
  /\ s \in ceo[w].queue /\ ceo[w].selected # s
  /\ Sees(w, [ceo[w] EXCEPT !.selected = s, !.lines = None])
  /\ UNCHANGED <<campaign, approval>>

\* A submission without a line is shown as one that is still being read.
ReadLines(w) ==
  LET s == ceo[w].selected
  IN  /\ s # None /\ ceo[w].lines = None
      /\ campaign.submissions[s].demand > 0
      /\ Sees(w, [ceo[w] EXCEPT !.lines = campaign.submissions[s].demand])
      /\ UNCHANGED <<campaign, approval>>

\* Mutant: the decision is applied to whatever is pending.
DecidedPending(s) == CHOOSE p \in Revisions : Pending # {} => p \in Pending
\* The version that is decided: the id, the revision and the hash are those
\* of the screen.
Decided(s) == s

\* review_seasonal_submission
Review(w, decision) ==
  LET s == Decided(ceo[w].selected)
      approves == decision = "APPROVE"
  IN  /\ ceo[w].lines # None
      /\ s \in Pending /\ campaign.status = "PENDING_APPROVAL"
      /\ campaign' = [campaign EXCEPT
           !.submissions[s].status = IF approves THEN "APPROVED" ELSE "RETURNED",
           !.status = IF approves THEN "APPROVED" ELSE "HR_REVIEW"]
      /\ approval' = IF ~approves THEN approval
                     ELSE [of |-> s, quantity |-> campaign.submissions[s].demand, shown |-> ceo[w].lines]
      /\ Sees(w, Without(ceo[w].queue \ {ceo[w].selected}))

ScreenStep(w) ==
  \/ ReadQueue(w) \/ ReadLines(w)
  \/ \E s \in 1 .. MaxRevision : Select(w, s)
  \/ \E decision \in {"APPROVE", "RETURN"} : Review(w, decision)

ApprovalNext ==
  \/ CloseCampaign \/ Submit
  \/ \E q \in Demand : CorrectDemand(q)
  \/ \E w \in Screen : ScreenStep(w)

-----------------------------------------------------------------------------
(* Properties                                                              *)

(* What is approved is what the CEO had on the screen when approving, and  *)
(* the last version there is: corrected and submitted again behind an old  *)
(* screen, a version is neither approved nor left pending beside an        *)
(* approved one (AC-33).                                                   *)
ApprovedAsShown ==
  approval # None =>
    /\ approval.quantity = approval.shown
    /\ approval.of = Len(campaign.submissions) /\ Pending = {}
=============================================================================
