-------------------------- MODULE WriterLockProofs --------------------------
(***************************************************************************)
(* Proofs about WriterLock, for every finite set of threads.               *)
(***************************************************************************)
EXTENDS WriterLock, FiniteSetTheorems, TLAPS

\* The four invariants together are inductive: which threads may sleep depends on
\* who owns the writer, and who owns it on who has a guard.
Inv == TypeOK /\ GuardIsExclusive /\ NoSelfDeadlock /\ NoLostWakeup

\* The threads inside wait_while are finitely many, so a thread that starts or ends
\* its wait changes their number by one.
LEMMA WaitersCount ==
    /\ IsFiniteSet(Waiters)
    /\ \A t \in Threads \ Waiters :
          Cardinality(Waiters \cup {t}) = Cardinality(Waiters) + 1
    /\ \A t \in Waiters : Cardinality(Waiters \ {t}) = Cardinality(Waiters) - 1
PROOF
  <1>1. IsFiniteSet(Waiters)
    BY WriterLockAssumption, FS_Subset DEF Waiters
  <1>2. QED
    BY <1>1, FS_AddElement, FS_RemoveElement

\* A fresh WriterLock is free, with no guard and no waiter.
LEMMA InitInv == Init => Inv
PROOF
  <1> SUFFICES ASSUME Init PROVE Inv
    OBVIOUS
  <1>1. Waiters = {} /\ Asleep = {}
    BY DEF Init, Waiters, Asleep
  <1>2. Cardinality(Waiters) = 0
    BY <1>1, FS_EmptySet
  <1>3. TypeOK
    BY <1>2 DEF Init, TypeOK
  <1>4. QED
    BY <1>1, <1>3 DEF Inv, Init, GuardIsExclusive, NoSelfDeadlock, NoLostWakeup

\* Calling acquire disturbs nothing.
LEMMA CallKeeps == ASSUME Inv, NEW t \in Threads, Call(t) PROVE Inv'
PROOF
  <1>1. Waiters' = Waiters
    BY DEF Inv, TypeOK, Call, Waiters
  <1>2. TypeOK'
    BY <1>1 DEF Inv, TypeOK, Call
  <1>3. GuardIsExclusive' /\ NoSelfDeadlock'
    BY DEF Inv, TypeOK, Call, GuardIsExclusive, NoSelfDeadlock
  <1>4. NoLostWakeup'
    BY DEF Inv, TypeOK, Call, NoLostWakeup, Asleep
  <1>5. QED
    BY <1>2, <1>3, <1>4 DEF Inv

\* A thread that takes a free writer becomes its only guard.
LEMMA TakeKeeps ==
    ASSUME Inv, NEW t \in Threads, owner = None, Take(t)
    PROVE  GuardIsExclusive' /\ NoSelfDeadlock' /\ NoLostWakeup'
PROOF
  <1>1. guards' = {t} /\ owner' = t /\ owner' # None
    BY WriterLockAssumption DEF Inv, GuardIsExclusive, Take
  <1>2. pc'[t] = "running"
    BY DEF Inv, TypeOK, Take
  <1>3. QED
    BY <1>1, <1>2 DEF GuardIsExclusive, NoSelfDeadlock, NoLostWakeup

\* The first critical section of acquire, in its three outcomes.
LEMMA EnterKeeps == ASSUME Inv, NEW t \in Threads, Enter(t) PROVE Inv'
PROOF
  <1>0. t \notin Waiters
    BY DEF Enter, Waiters
  <1>1. CASE /\ owner = t
             /\ pc' = [pc EXCEPT ![t] = "running"]
             /\ UNCHANGED <<owner, waiting, guards>>
    <2>1. Waiters' = Waiters
      BY <1>1 DEF Inv, TypeOK, Enter, Waiters
    <2>2. TypeOK'
      BY <1>1, <2>1 DEF Inv, TypeOK
    <2>3. GuardIsExclusive' /\ NoSelfDeadlock' /\ NoLostWakeup'
      BY <1>1, WriterLockAssumption
      DEF Inv, TypeOK, GuardIsExclusive, NoSelfDeadlock, NoLostWakeup
    <2>4. QED
      BY <2>2, <2>3 DEF Inv
  <1>2. CASE /\ owner \notin {t, None}
             /\ waiting' = waiting + 1
             /\ pc' = [pc EXCEPT ![t] = "asleep"]
             /\ UNCHANGED <<owner, guards>>
    <2>1. Waiters' = Waiters \cup {t}
      BY <1>2 DEF Inv, TypeOK, Waiters
    <2>2. TypeOK'
      BY <1>0, <1>2, <2>1, WaitersCount DEF Inv, TypeOK
    <2>3. GuardIsExclusive' /\ NoSelfDeadlock' /\ NoLostWakeup'
      BY <1>2 DEF Inv, TypeOK, GuardIsExclusive, NoSelfDeadlock, NoLostWakeup
    <2>4. QED
      BY <2>2, <2>3 DEF Inv
  <1>3. CASE owner = None /\ Take(t) /\ UNCHANGED waiting
    <2>1. Waiters' = Waiters
      BY <1>0, <1>3 DEF Inv, TypeOK, Take, Waiters
    <2>2. TypeOK'
      BY <1>3, <2>1 DEF Inv, TypeOK, Take
    <2>3. QED
      BY <1>3, <2>2, TakeKeeps DEF Inv
  <1>4. QED
    BY <1>1, <1>2, <1>3 DEF Enter

\* A wake-up without a cause loses none that is due.
LEMMA WakeSpuriouslyKeeps == ASSUME Inv, NEW t \in Threads, WakeSpuriously(t) PROVE Inv'
PROOF
  <1>1. Waiters' = Waiters
    BY DEF Inv, TypeOK, WakeSpuriously, Waiters
  <1>2. TypeOK'
    BY <1>1 DEF Inv, TypeOK, WakeSpuriously
  <1>3. GuardIsExclusive' /\ NoSelfDeadlock'
    BY DEF Inv, TypeOK, WakeSpuriously, GuardIsExclusive, NoSelfDeadlock
  <1>4. pc'[t] = "woken"
    BY DEF Inv, TypeOK, WakeSpuriously
  <1>5. QED
    BY <1>2, <1>3, <1>4 DEF Inv, NoLostWakeup

\* A woken thread that looks again sleeps only under an owner.
LEMMA WokenKeeps == ASSUME Inv, NEW t \in Threads, Woken(t) PROVE Inv'
PROOF
  <1>0. t \in Waiters
    BY DEF Woken, Waiters
  <1>1. CASE /\ owner # None
             /\ pc' = [pc EXCEPT ![t] = "asleep"]
             /\ UNCHANGED <<owner, waiting, guards>>
    <2>1. Waiters' = Waiters
      BY <1>0, <1>1 DEF Inv, TypeOK, Waiters
    <2>2. TypeOK'
      BY <1>1, <2>1 DEF Inv, TypeOK
    <2>3. t \notin guards
      BY DEF Inv, NoSelfDeadlock, Woken
    <2>4. GuardIsExclusive' /\ NoSelfDeadlock' /\ NoLostWakeup'
      BY <1>1, <2>3 DEF Inv, TypeOK, GuardIsExclusive, NoSelfDeadlock, NoLostWakeup
    <2>5. QED
      BY <2>2, <2>4 DEF Inv
  <1>2. CASE owner = None /\ waiting' = waiting - 1 /\ Take(t)
    <2>1. Waiters' = Waiters \ {t}
      BY <1>2 DEF Inv, TypeOK, Take, Waiters
    <2>2. TypeOK'
      BY <1>0, <1>2, <2>1, WaitersCount DEF Inv, TypeOK, Take
    <2>3. QED
      BY <1>2, <2>2, TakeKeeps DEF Inv
  <1>3. QED
    BY <1>1, <1>2 DEF Woken

\* A guard's drop frees the writer and owes a notification.
LEMMA DropKeeps == ASSUME Inv, NEW t \in Threads, Drop(t) PROVE Inv'
PROOF
  <1>1. Waiters' = Waiters
    BY DEF Inv, TypeOK, Drop, Waiters
  <1>2. TypeOK'
    BY <1>1 DEF Inv, TypeOK, Drop
  <1>3. guards' = {} /\ owner' = None /\ pc'[t] = "notifying"
    BY DEF Inv, TypeOK, Drop, GuardIsExclusive
  <1>4. QED
    BY <1>2, <1>3 DEF Inv, GuardIsExclusive, NoSelfDeadlock, NoLostWakeup

\* A notification leaves a woken thread behind, or nobody was asleep.
LEMMA NotifyKeeps == ASSUME Inv, NEW t \in Threads, Notify(t) PROVE Inv'
PROOF
  <1>1. CASE Asleep = {} /\ pc' = [pc EXCEPT ![t] = "running"]
    <2>1. Waiters' = Waiters /\ Asleep' = {}
      BY <1>1 DEF Inv, TypeOK, Notify, Waiters, Asleep
    <2>2. TypeOK'
      BY <1>1, <2>1 DEF Inv, TypeOK, Notify
    <2>3. GuardIsExclusive' /\ NoSelfDeadlock'
      BY <1>1 DEF Inv, TypeOK, Notify, GuardIsExclusive, NoSelfDeadlock
    <2>4. QED
      BY <2>1, <2>2, <2>3 DEF Inv, NoLostWakeup
  <1>2. ASSUME NEW u \in Asleep, pc' = [pc EXCEPT ![t] = "running", ![u] = "woken"]
        PROVE  Inv'
    <2>1. Waiters' = Waiters /\ u \in Threads /\ pc'[u] = "woken"
      BY <1>2 DEF Inv, TypeOK, Notify, Waiters, Asleep
    <2>2. TypeOK'
      BY <1>2, <2>1 DEF Inv, TypeOK, Notify
    <2>3. u \notin guards
      BY <1>2 DEF Inv, NoSelfDeadlock, Asleep
    <2>4. GuardIsExclusive' /\ NoSelfDeadlock'
      BY <1>2, <2>3 DEF Inv, TypeOK, Notify, GuardIsExclusive, NoSelfDeadlock
    <2>5. QED
      BY <2>1, <2>2, <2>4 DEF Inv, NoLostWakeup
  <1>3. QED
    BY <1>1, <1>2 DEF Notify

\* Every step of every thread keeps the invariant.
LEMMA NextKeepsInv == Inv /\ [Next]_vars => Inv'
PROOF
  <1> SUFFICES ASSUME Inv, [Next]_vars PROVE Inv'
    OBVIOUS
  <1>1. ASSUME NEW t \in Threads, Call(t) \/ Step(t) \/ WakeSpuriously(t) \/ Drop(t)
        PROVE  Inv'
    BY <1>1, CallKeeps, EnterKeeps, WokenKeeps, NotifyKeeps, WakeSpuriouslyKeeps, DropKeeps
    DEF Step
  <1>2. CASE UNCHANGED vars
    BY <1>2 DEF Inv, TypeOK, GuardIsExclusive, NoSelfDeadlock, NoLostWakeup, Waiters,
                Asleep, vars
  <1>3. QED
    BY <1>1, <1>2 DEF Next

\* Everything below follows from the inductive invariant of writer.rs.
THEOREM LockInvariance == Spec => []Inv
PROOF
  <1>1. QED
    BY InitInv, NextKeepsInv, PTL DEF Spec

\* The count that acquire raises before wait_while and lowers after it is that of the
\* threads inside wait_while, asleep or awake: whoever lowers it is counted in it, so the
\* subtraction never goes below zero.  Nothing is decided by the count (a drop notifies
\* without reading it); Debug reports it.
THEOREM WriterTyped == Spec => []TypeOK
PROOF
  <1>1. Inv => TypeOK
    BY DEF Inv
  <1>2. QED
    BY <1>1, LockInvariance, PTL

\* acquire gives out at most one guard at a time, to the thread it records as owner,
\* however many threads contend and whatever wakes them.
THEOREM MutualExclusion == Spec => []GuardIsExclusive
PROOF
  <1>1. Inv => GuardIsExclusive
    BY DEF Inv
  <1>2. QED
    BY <1>1, LockInvariance, PTL

\* The single notify_one of a guard's drop is enough for any number of sleepers.
THEOREM NoWakeupIsLost == Spec => []NoLostWakeup
PROOF
  <1>1. Inv => NoLostWakeup
    BY DEF Inv
  <1>2. QED
    BY <1>1, LockInvariance, PTL

\* No thread sleeps on a writer it holds.
THEOREM NobodyWaitsForItself == Spec => []NoSelfDeadlock
PROOF
  <1>1. Inv => NoSelfDeadlock
    BY DEF Inv
  <1>2. QED
    BY <1>1, LockInvariance, PTL

\* WriterLock implements the lock LifecycleDriver assumes: the writer changes hands
\* only through None.
THEOREM HandsOver == Spec => HandsOverByRelease
PROOF
  <1>1. ASSUME Inv, [Next]_vars PROVE [owner = None \/ owner' = None]_owner
    BY <1>1 DEF Next, Call, Step, Enter, Woken, Notify, WakeSpuriously, Drop, Take, vars
  <1>2. QED
    BY <1>1, LockInvariance, PTL DEF Spec, HandsOverByRelease
=============================================================================
