-------------------------- MODULE LockOrderProofs --------------------------
(***************************************************************************)
(* No circle of waiting RPCs, for any number of sessions and any programs  *)
(* of which each, taken alone, does as KeepsOrder says.                    *)
(***************************************************************************)
EXTENDS LockOrder, SequenceTheorems, WellFoundedInduction, TLAPS

CONSTANTS
    Locks,   \* whatever can be locked
    Top      \* an upper bound of the ranks

\* The programs are finite sequences of locks, the ranks bounded numbers.
ProgramsKeepOrder ==
    /\ Programs \subseteq Seq(Locks)
    /\ Top \in Nat
    /\ Rank \in [Locks -> 0..Top]
    /\ \A p \in Programs : KeepsOrder(p)

IInv ==
    /\ TypeOK
    /\ Exclusive

-----------------------------------------------------------------------------
(* The inductive invariant                                                 *)

\* What a session runs is a sequence of locks.
LEMMA ProgramType ==
    ASSUME ProgramsKeepOrder
    PROVE  \A p \in Programs \cup {<<>>} : p \in Seq(Locks) /\ Len(p) \in Nat
<1> SUFFICES ASSUME NEW p \in Programs \cup {<<>>}
             PROVE  p \in Seq(Locks) /\ Len(p) \in Nat
  OBVIOUS
<1>1. p \in Seq(Locks)
  BY EmptySeq, Zenon DEF ProgramsKeepOrder
<1> QED BY <1>1, LenProperties

LEMMA InitInvariant == Init => IInv
<1> SUFFICES ASSUME Init PROVE IInv
  OBVIOUS
<1>1. \A s \in Sessions : program[s] = <<>> /\ taken[s] = 0 /\ Len(program[s]) = 0
  BY DEF Init
<1>2. \A s \in Sessions : Held(s) = {}
  <2>1. 1..0 = {}
    OBVIOUS
  <2> QED BY <1>1, <2>1, Zenon DEF Held
<1>3. TypeOK
  <2>1. program \in [Sessions -> Programs \cup {<<>>}] /\ taken \in [Sessions -> Nat]
    BY DEF Init
  <2>2. 0 <= 0
    OBVIOUS
  <2>3. \A s \in Sessions : taken[s] <= Len(program[s])
    BY <1>1, <2>2, Zenon
  <2> QED BY <2>1, <2>3 DEF TypeOK
<1> QED BY <1>2, <1>3 DEF IInv, Exclusive

\* Taking a lock that nobody else holds keeps the locks of any two sessions
\* apart.
LEMMA AcquireInvariant ==
    ASSUME ProgramsKeepOrder, IInv, NEW s \in Sessions, Acquire(s)
    PROVE  IInv'
<1>1. program' = program /\ taken' = [taken EXCEPT ![s] = @ + 1] /\ Pending(s)
  BY DEF Acquire
<1>2. \A t \in Sessions : program[t] \in Seq(Locks) /\ Len(program[t]) \in Nat
  BY ProgramType, Zenon DEF IInv, TypeOK
<1>3. TypeOK'
  <2>1. program' \in [Sessions -> Programs \cup {<<>>}] /\ taken' \in [Sessions -> Nat]
    BY <1>1 DEF IInv, TypeOK
  <2>2. \A t \in Sessions : taken'[t] <= Len(program'[t])
    BY <1>1, <1>2 DEF IInv, TypeOK, Pending
  <2> QED BY <2>1, <2>2 DEF TypeOK
<1>4. \A t \in Sessions : t # s => Held(t)' = Held(t)
  BY <1>1 DEF IInv, TypeOK, Held
<1>5. Held(s)' = Held(s) \cup {Wanted(s)}
  BY <1>1, <1>2 DEF IInv, TypeOK, Held, Wanted, Pending
<1>6. \A t \in Sessions : t # s => Wanted(s) \notin Held(t)
  BY <1>1 DEF Acquire, Waits
<1>7. Exclusive'
  BY <1>4, <1>5, <1>6 DEF IInv, Exclusive
<1> QED BY <1>3, <1>7 DEF IInv

\* Beginning and ending an RPC leave the session with no lock.
LEMMA BeginEndInvariant ==
    ASSUME ProgramsKeepOrder, IInv, NEW s \in Sessions, Begin(s) \/ End(s)
    PROVE  IInv'
<1>1. \A t \in Sessions : t # s =>
        program'[t] = program[t] /\ taken'[t] = taken[t]
  BY DEF Begin, End, IInv, TypeOK
<1>2. taken'[s] = 0 /\ program'[s] \in Programs \cup {<<>>}
  BY DEF Begin, End, IInv, TypeOK
<1>3. TypeOK'
  <2>1. program' \in [Sessions -> Programs \cup {<<>>}] /\ taken' \in [Sessions -> Nat]
    BY DEF Begin, End, IInv, TypeOK
  <2>2. program'[s] \in Seq(Locks) /\ Len(program'[s]) \in Nat
    BY <1>2, ProgramType, Zenon
  <2>3. \A t \in Sessions : taken'[t] <= Len(program'[t])
    BY <1>1, <1>2, <2>2 DEF IInv, TypeOK
  <2> QED BY <2>1, <2>3 DEF TypeOK
<1>4. Held(s)' = {}
  BY <1>2 DEF Held
<1>5. \A t \in Sessions : t # s => Held(t)' = Held(t)
  BY <1>1 DEF Held
<1> QED BY <1>3, <1>4, <1>5 DEF IInv, Exclusive

LEMMA NextInvariant ==
    ASSUME ProgramsKeepOrder, IInv, [Next]_vars
    PROVE  IInv'
<1>1. CASE UNCHANGED vars
  <2>1. program' = program /\ taken' = taken
    BY <1>1 DEF vars
  <2>2. \A t \in Sessions : Held(t)' = Held(t)
    BY <2>1 DEF Held
  <2> QED BY <2>1, <2>2 DEF IInv, TypeOK, Exclusive
<1>2. ASSUME NEW s \in Sessions, Begin(s) \/ Acquire(s) \/ Commit(s) \/ Abort(s)
      PROVE  IInv'
  BY <1>2, AcquireInvariant, BeginEndInvariant DEF Commit, Abort
<1> QED BY <1>1, <1>2 DEF Next

-----------------------------------------------------------------------------
(* Why nobody waits in a circle                                            *)

\* A program that is in use keeps the order, and its locks are locks.
LEMMA InUse ==
    ASSUME ProgramsKeepOrder, IInv, NEW s \in Sessions, Pending(s)
    PROVE  /\ program[s] \in Seq(Locks)
           /\ KeepsOrder(program[s])
           /\ taken[s] \in Nat /\ taken[s] + 1 \in 1..Len(program[s])
           /\ Wanted(s) \in Locks
<1>1. program[s] # <<>> /\ taken[s] \in Nat
  BY DEF IInv, TypeOK, Pending
<1>2. program[s] \in Programs
  BY <1>1 DEF IInv, TypeOK
<1> QED BY <1>1, <1>2 DEF ProgramsKeepOrder, Pending, Wanted

\* What a session holds, it took under the guard, if the lock has one.
LEMMA HolderHasGuard ==
    ASSUME ProgramsKeepOrder, IInv, NEW s \in Sessions, NEW l \in Held(s),
           l \in DOMAIN Guard
    PROVE  Guard[l] \in Held(s)
<1>1. PICK n \in 1..taken[s] : program[s][n] = l
  BY DEF Held
<1>2. program[s] # <<>> /\ taken[s] \in Nat /\ taken[s] <= Len(program[s])
  BY <1>1 DEF IInv, TypeOK
<1>3. program[s] \in Seq(Locks) /\ KeepsOrder(program[s])
  BY <1>2 DEF IInv, TypeOK, ProgramsKeepOrder
<1>4. PICK m \in 1..(n - 1) : program[s][m] = Guard[l]
  BY <1>1, <1>2, <1>3 DEF KeepsOrder, HasBefore
<1>5. m \in 1..taken[s]
  BY <1>2
<1> QED BY <1>4, <1>5 DEF Held

\* A session never waits for a guarded lock: it has the guard, and so nobody
\* else can have the lock.
LEMMA WaitsUnguarded ==
    ASSUME ProgramsKeepOrder, IInv, NEW s \in Sessions, NEW t \in Sessions,
           Waits(s, t)
    PROVE  Wanted(s) \notin DOMAIN Guard
<1> SUFFICES ASSUME Wanted(s) \in DOMAIN Guard PROVE FALSE
  OBVIOUS
<1>1. s # t /\ Pending(s) /\ Wanted(s) \in Held(t)
  BY DEF Waits
<1>2. Guard[Wanted(s)] \in Held(t)
  BY <1>1, HolderHasGuard
<1>3. KeepsOrder(program[s]) /\ taken[s] \in Nat /\ taken[s] + 1 \in 1..Len(program[s])
  BY <1>1, InUse
<1>4. HasBefore(program[s], taken[s] + 1, Guard[Wanted(s)])
  BY <1>3 DEF KeepsOrder, Wanted
<1>5. Guard[Wanted(s)] \in Held(s)
  BY <1>3, <1>4 DEF HasBefore, Held
<1> QED BY <1>1, <1>2, <1>5 DEF IInv, Exclusive

\* A session that waits holds only unguarded locks of lower rank than the
\* lock it waits for, so along a chain of waiting sessions the ranks rise.
LEMMA RankRises ==
    ASSUME ProgramsKeepOrder, IInv, NEW s \in Sessions, NEW t \in Sessions,
           NEW u \in Sessions, Waits(s, t), Waits(t, u)
    PROVE  Rank[Wanted(s)] < Rank[Wanted(t)]
<1>1. Wanted(s) \notin DOMAIN Guard /\ Wanted(t) \notin DOMAIN Guard
  BY WaitsUnguarded
<1>2. Pending(t) /\ t # u /\ Wanted(s) \in Held(t) /\ Wanted(t) \in Held(u)
  BY DEF Waits
<1>3. KeepsOrder(program[t]) /\ taken[t] \in Nat /\ taken[t] + 1 \in 1..Len(program[t])
  BY <1>2, InUse
<1>4. Wanted(t) \notin Held(t)
  BY <1>2 DEF IInv, Exclusive
<1>5. ~HasBefore(program[t], taken[t] + 1, Wanted(t))
  BY <1>3, <1>4 DEF HasBefore, Held
<1>6. PICK m \in 1..taken[t] : program[t][m] = Wanted(s)
  BY <1>2 DEF Held
<1>7. \A k \in 1..((taken[t] + 1) - 1) :
        program[t][k] \in DOMAIN Guard \/ Rank[program[t][k]] < Rank[Wanted(t)]
  BY <1>1, <1>3, <1>5 DEF KeepsOrder, Wanted
<1>8. m \in 1..((taken[t] + 1) - 1)
  BY <1>3
<1> QED BY <1>1, <1>6, <1>7, <1>8

\* Of any sessions, one that waits for a lock of the highest rank cannot wait
\* for another of them that waits too.
LEMMA NoCircle == ASSUME ProgramsKeepOrder, IInv PROVE NoWaitCycle
<1> SUFFICES ASSUME NEW S \in SUBSET Sessions, S # {},
                    \A s \in S : \E t \in S : Waits(s, t)
             PROVE  FALSE
  BY DEF NoWaitCycle
<1> DEFINE Below(s) == Top - Rank[Wanted(s)]
           T == {Below(s) : s \in S}
<1>1. \A s \in S : Below(s) \in Nat
  <2> TAKE s \in S
  <2>1. Wanted(s) \in Locks
    BY InUse DEF Waits
  <2> QED BY <2>1 DEF ProgramsKeepOrder
<1>2. PICK x \in T : \A y \in T : ~(<<y, x>> \in OpToRel(<, Nat))
  <2>1. T \subseteq Nat /\ T # {}
    BY <1>1
  <2> HIDE DEF T
  <2> QED BY <2>1, NatLessThanWellFounded, WFMin
<1>3. PICK s \in S : x = Below(s)
  OBVIOUS
<1>4. PICK t \in S : Waits(s, t)
  OBVIOUS
<1>5. PICK u \in S : Waits(t, u)
  OBVIOUS
<1>6. Rank[Wanted(s)] < Rank[Wanted(t)]
  BY <1>4, <1>5, RankRises
<1>7. Wanted(s) \in Locks /\ Wanted(t) \in Locks
  BY <1>4, <1>5, InUse DEF Waits
<1>8. Below(t) < Below(s)
  BY <1>6, <1>7 DEF ProgramsKeepOrder
<1>9. <<Below(t), Below(s)>> \in OpToRel(<, Nat)
  BY <1>1, <1>8 DEF OpToRel
<1> QED BY <1>2, <1>3, <1>9

-----------------------------------------------------------------------------
(* Theorems                                                                *)

\* Whatever the RPCs, no row lock is held by two sessions, so what an RPC
\* reads under its locks is still so when it writes.
THEOREM LocksExclusive == ProgramsKeepOrder => (Spec => [](TypeOK /\ Exclusive))
<1> SUFFICES ASSUME ProgramsKeepOrder PROVE Spec => [](TypeOK /\ Exclusive)
  OBVIOUS
<1>1. Init => IInv
  BY InitInvariant
<1>2. IInv /\ [Next]_vars => IInv'
  BY NextInvariant
<1>3. IInv => TypeOK /\ Exclusive
  BY DEF IInv
<1> QED BY <1>1, <1>2, <1>3, PTL DEF Spec

\* RPCs that each take their locks without a guard in the global order of
\* data-model.md:601-610, and the others under their guard, never wait on each
\* other in a circle, for any number of sessions, items and documents:
\* PostgreSQL never has to abort one for a deadlock.
THEOREM OrderPreventsDeadlock == ProgramsKeepOrder => (Spec => []NoWaitCycle)
<1> SUFFICES ASSUME ProgramsKeepOrder PROVE Spec => []NoWaitCycle
  OBVIOUS
<1>1. Init => IInv
  BY InitInvariant
<1>2. IInv /\ [Next]_vars => IInv'
  BY NextInvariant
<1>3. IInv => NoWaitCycle
  BY NoCircle
<1> QED BY <1>1, <1>2, <1>3, PTL DEF Spec
=============================================================================
