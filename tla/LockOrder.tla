----------------------------- MODULE LockOrder -----------------------------
(***************************************************************************)
(* Transactions that take row locks one after the other and keep them to   *)
(* the end, as PostgreSQL runs the stock RPCs: what a transaction locks,   *)
(* and in which order, is its program.  RpcLocks has the programs of the   *)
(* RPCs; this module says how they run side by side, and what keeps them   *)
(* from waiting on each other in a circle.                                 *)
(*                                                                         *)
(* All locks are exclusive: FOR UPDATE, UPDATE and DELETE block each other *)
(* on a row, and nothing is unlocked before COMMIT or ROLLBACK.            *)
(*                                                                         *)
(* A definition commented "Mutant" is no part of the specification: it is  *)
(* the next definition with a bug in it, which a run must tell apart.      *)
(***************************************************************************)
EXTENDS Integers, Sequences

CONSTANTS
    Sessions,   \* database sessions
    Programs,   \* the sequences of locks the RPCs take
    Rank,       \* the place of each lock in the documented global order
    Guard       \* locks only taken by holders of another lock, and that lock

VARIABLES
    program,    \* the locks of the RPC each session runs; <<>> when it is idle
    taken       \* how many of them it has

vars == <<program, taken>>

Init ==
    /\ program = [s \in Sessions |-> <<>>]
    /\ taken = [s \in Sessions |-> 0]

Held(s) == {program[s][n] : n \in 1..taken[s]}
Pending(s) == taken[s] < Len(program[s])
Wanted(s) == program[s][taken[s] + 1]

\* s cannot go on before t has ended.
Waits(s, t) == s # t /\ Pending(s) /\ Wanted(s) \in Held(t)

Begin(s) ==
    /\ program[s] = <<>>
    /\ \E p \in Programs : program' = [program EXCEPT ![s] = p]
    /\ UNCHANGED taken

Acquire(s) ==
    /\ Pending(s)
    /\ \A t \in Sessions : ~Waits(s, t)
    /\ taken' = [taken EXCEPT ![s] = @ + 1]
    /\ UNCHANGED program

\* Mutant: the session goes on with the locks of the RPC that has ended.
EndKeepsLocks(s) ==
    /\ program' = [program EXCEPT ![s] = <<>>]
    /\ UNCHANGED taken
End(s) ==
    /\ program' = [program EXCEPT ![s] = <<>>]
    /\ taken' = [taken EXCEPT ![s] = 0]

Commit(s) ==
    /\ program[s] # <<>> /\ ~Pending(s)
    /\ End(s)

\* An exception, a replayed command that returns at once, or a lost client.
\* A waiting session does not abort: that would be the deadlock detector.
Abort(s) ==
    /\ program[s] # <<>>
    /\ \A t \in Sessions : ~Waits(s, t)
    /\ End(s)

Next == \E s \in Sessions : Begin(s) \/ Acquire(s) \/ Commit(s) \/ Abort(s)

\* Mutant: a waiter is only served if the lock stays free.
FairnessNoQueue == \A s \in Sessions : WF_vars(Acquire(s)) /\ WF_vars(Commit(s))

\* PostgreSQL queues the waiters of a lock in order of arrival: a lock that is
\* released again and again is not withheld from a waiter for ever.
Fairness == \A s \in Sessions : SF_vars(Acquire(s)) /\ WF_vars(Commit(s))

Spec == Init /\ [][Next]_vars
FairSpec == Spec /\ Fairness

-----------------------------------------------------------------------------
\* Sessions run RPCs of the program or none, with a part of its locks.
TypeOK ==
    /\ program \in [Sessions -> Programs \cup {<<>>}]
    /\ taken \in [Sessions -> Nat]
    /\ \A s \in Sessions : taken[s] <= Len(program[s])

\* No lock is held twice: the row locks do what the RPCs count on.
Exclusive == \A s, t \in Sessions : s # t => Held(s) \cap Held(t) = {}

\* A program takes a guarded lock under its guard, and any other lock, unless
\* it has it already, after unguarded locks of lower rank only: the documented
\* order (data-model.md:601-610) of the locks that have no guard.
HasBefore(p, n, l) == \E m \in 1..(n - 1) : p[m] = l
KeepsOrder(p) == \A n \in 1..Len(p) :
    IF p[n] \in DOMAIN Guard
    THEN HasBefore(p, n, Guard[p[n]])
    ELSE \/ HasBefore(p, n, p[n])
         \/ \A m \in 1..(n - 1) : p[m] \in DOMAIN Guard \/ Rank[p[m]] < Rank[p[n]]

\* Each RPC among Programs takes the locks without a guard in the documented
\* order, and the others under their guard: what this forbids is a deadlock
\* that no single RPC shows.  It says nothing of an RPC that is not among
\* them; which those are, and why, is in MCRpcLocks.
RpcsKeepOrder == \A s \in Sessions : KeepsOrder(program[s])

\* No set of RPCs waits in a circle: one of them can always go on
\* (acceptance-criteria.md:423, README.md:9).
NoWaitCycle == \A S \in SUBSET Sessions :
    S # {} => \E s \in S : \A t \in S : ~Waits(s, t)

\* Every RPC that has begun ends: it gets all its locks without the help of
\* the deadlock detector, whatever the others do.
EveryRpcEnds == \A s \in Sessions : program[s] # <<>> ~> program[s] = <<>>
=============================================================================
