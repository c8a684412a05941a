------------------------ MODULE BackendWritersProofs ------------------------
(***************************************************************************)
(* The lock order of two backends, for any number of threads: callers that *)
(* never ask for the first writer with only the second in hand never wait  *)
(* for each other.                                                         *)
(*                                                                         *)
(* The order is checked when a call starts, and the wait comes later.  The *)
(* invariant carries the check over to the wait: a thread is inside one    *)
(* call at a time, so what it held when it asked it still holds.           *)
(***************************************************************************)
EXTENDS BackendWriters, TLAPS

\* One writer: who has its guard, and where each thread is in acquire or drop.
LockOK(owner, guards, pc) ==
    /\ owner \in Threads \cup {None}
    /\ guards = IF owner = None THEN {} ELSE {owner}
    /\ pc \in [Threads -> {"running", "entering", "asleep", "woken", "notifying"}]
    /\ \A t \in guards : pc[t] \notin {"asleep", "woken", "notifying"}

\* A thread is inside a call of one writer at most, and asked for the first one in order.
OrderOK ==
    \A t \in Threads :
        /\ pc1[t] = "running" \/ pc2[t] = "running"
        /\ pc1[t] \in {"entering", "asleep", "woken"} => InOrderFirst(t)

Inv ==
    /\ LockOK(owner1, guards1, pc1)
    /\ LockOK(owner2, guards2, pc2)
    /\ OrderOK

\* Two new backends are free, and no thread is inside a call.
LEMMA InitInv == Init => Inv
  BY DEF Init, First!Init, Second!Init, Inv, LockOK, OrderOK, InOrderFirst

\* The first writer stays a lock, through acquire, wake-up and drop.
LEMMA FirstKeeps ==
    ASSUME LockOK(owner1, guards1, pc1), NEW t \in Threads,
           First!Call(t) \/ First!Step(t) \/ First!WakeSpuriously(t) \/ First!Drop(t)
    PROVE  LockOK(owner1, guards1, pc1)'
PROOF
  <1>1. CASE First!Call(t)
    BY <1>1 DEF First!Call, LockOK
  <1>2. CASE First!Enter(t)
    BY <1>2, BackendWritersAssumption DEF First!Enter, First!Take, LockOK
  <1>3. CASE First!Woken(t)
    BY <1>3, BackendWritersAssumption DEF First!Woken, First!Take, LockOK
  <1>4. CASE First!Notify(t)
    BY <1>4 DEF First!Notify, First!Asleep, LockOK
  <1>5. CASE First!WakeSpuriously(t)
    BY <1>5 DEF First!WakeSpuriously, LockOK
  <1>6. CASE First!Drop(t)
    BY <1>6 DEF First!Drop, LockOK
  <1>7. QED
    BY <1>1, <1>2, <1>3, <1>4, <1>5, <1>6 DEF First!Step

\* So does the second.
LEMMA SecondKeeps ==
    ASSUME LockOK(owner2, guards2, pc2), NEW t \in Threads,
           Second!Call(t) \/ Second!Step(t) \/ Second!WakeSpuriously(t) \/ Second!Drop(t)
    PROVE  LockOK(owner2, guards2, pc2)'
PROOF
  <1>1. CASE Second!Call(t)
    BY <1>1 DEF Second!Call, LockOK
  <1>2. CASE Second!Enter(t)
    BY <1>2, BackendWritersAssumption DEF Second!Enter, Second!Take, LockOK
  <1>3. CASE Second!Woken(t)
    BY <1>3, BackendWritersAssumption DEF Second!Woken, Second!Take, LockOK
  <1>4. CASE Second!Notify(t)
    BY <1>4 DEF Second!Notify, Second!Asleep, LockOK
  <1>5. CASE Second!WakeSpuriously(t)
    BY <1>5 DEF Second!WakeSpuriously, LockOK
  <1>6. CASE Second!Drop(t)
    BY <1>6 DEF Second!Drop, LockOK
  <1>7. QED
    BY <1>1, <1>2, <1>3, <1>4, <1>5, <1>6 DEF Second!Step

\* A step at the first writer keeps the order: a call starts in order, a guard is
\* gained, and the guard of a thread inside a call is not dropped by another.
LEMMA FirstKeepsOrder ==
    ASSUME Inv, NEW t \in Threads,
           CallFirst(t) \/ StepFirst(t) \/ WakeFirst(t) \/ DropFirst(t)
    PROVE  OrderOK'
PROOF
  <1>1. UNCHANGED <<guards2, pc2>>
    BY DEF CallFirst, StepFirst, WakeFirst, DropFirst, second
  <1>2. CASE CallFirst(t)
    BY <1>1, <1>2 DEF CallFirst, First!Call, Inv, LockOK, OrderOK, InOrderFirst
  <1>3. CASE First!Enter(t)
    BY <1>1, <1>3 DEF First!Enter, First!Take, Inv, LockOK, OrderOK, InOrderFirst
  <1>4. CASE First!Woken(t)
    BY <1>1, <1>4 DEF First!Woken, First!Take, Inv, LockOK, OrderOK, InOrderFirst
  <1>5. CASE First!Notify(t)
    BY <1>1, <1>5 DEF First!Notify, First!Asleep, Inv, LockOK, OrderOK, InOrderFirst
  <1>6. CASE WakeFirst(t)
    BY <1>1, <1>6 DEF WakeFirst, First!WakeSpuriously, Inv, LockOK, OrderOK, InOrderFirst
  <1>7. CASE DropFirst(t)
    BY <1>1, <1>7, BackendWritersAssumption
    DEF DropFirst, First!Drop, Inv, LockOK, OrderOK, InOrderFirst
  <1>8. QED
    BY <1>2, <1>3, <1>4, <1>5, <1>6, <1>7 DEF StepFirst, First!Step

\* A step at the second writer keeps it too: a thread inside a call of the first takes
\* no second guard.
LEMMA SecondKeepsOrder ==
    ASSUME Inv, NEW t \in Threads,
           CallSecond(t) \/ StepSecond(t) \/ WakeSecond(t) \/ DropSecond(t)
    PROVE  OrderOK'
PROOF
  <1>1. UNCHANGED <<guards1, pc1>>
    BY DEF CallSecond, StepSecond, WakeSecond, DropSecond, first
  <1>2. CASE CallSecond(t)
    BY <1>1, <1>2 DEF CallSecond, Second!Call, Inv, LockOK, OrderOK, InOrderFirst
  <1>3. CASE Second!Enter(t)
    BY <1>1, <1>3 DEF Second!Enter, Second!Take, Inv, LockOK, OrderOK, InOrderFirst
  <1>4. CASE Second!Woken(t)
    BY <1>1, <1>4 DEF Second!Woken, Second!Take, Inv, LockOK, OrderOK, InOrderFirst
  <1>5. CASE Second!Notify(t)
    BY <1>1, <1>5 DEF Second!Notify, Second!Asleep, Inv, LockOK, OrderOK, InOrderFirst
  <1>6. CASE WakeSecond(t)
    BY <1>1, <1>6 DEF WakeSecond, Second!WakeSpuriously, Inv, LockOK, OrderOK, InOrderFirst
  <1>7. CASE DropSecond(t)
    BY <1>1, <1>7 DEF DropSecond, Second!Drop, Inv, LockOK, OrderOK, InOrderFirst
  <1>8. QED
    BY <1>2, <1>3, <1>4, <1>5, <1>6, <1>7 DEF StepSecond, Second!Step

\* Every step keeps both locks and the order.
LEMMA NextKeepsInv == Inv /\ [Next]_vars => Inv'
PROOF
  <1> SUFFICES ASSUME Inv, [Next]_vars PROVE Inv'
    OBVIOUS
  <1>1. ASSUME NEW t \in Threads, CallFirst(t) \/ StepFirst(t) \/ WakeFirst(t) \/ DropFirst(t)
        PROVE  Inv'
    <2>1. LockOK(owner1, guards1, pc1)'
      BY <1>1, FirstKeeps DEF Inv, CallFirst, StepFirst, WakeFirst, DropFirst
    <2>2. LockOK(owner2, guards2, pc2)'
      BY <1>1 DEF Inv, CallFirst, StepFirst, WakeFirst, DropFirst, second, LockOK
    <2>3. QED
      BY <1>1, <2>1, <2>2, FirstKeepsOrder DEF Inv
  <1>2. ASSUME NEW t \in Threads,
               CallSecond(t) \/ StepSecond(t) \/ WakeSecond(t) \/ DropSecond(t)
        PROVE  Inv'
    <2>1. LockOK(owner2, guards2, pc2)'
      BY <1>2, SecondKeeps DEF Inv, CallSecond, StepSecond, WakeSecond, DropSecond
    <2>2. LockOK(owner1, guards1, pc1)'
      BY <1>2 DEF Inv, CallSecond, StepSecond, WakeSecond, DropSecond, first, LockOK
    <2>3. QED
      BY <1>2, <2>1, <2>2, SecondKeepsOrder DEF Inv
  <1>3. CASE UNCHANGED vars
    BY <1>3 DEF vars, first, second, Inv, LockOK, OrderOK, InOrderFirst
  <1>4. QED
    BY <1>1, <1>2, <1>3 DEF Next

\* Both locks and the order hold in every reachable state.
THEOREM OrderInvariance == Spec => []Inv
PROOF
  <1>1. QED
    BY InitInv, NextKeepsInv, PTL DEF Spec

\* Two threads never hold one backend's writer each and wait for the other's, when
\* callers ask in one order (the warning on WriterLock in writer.rs), however many
\* threads there are, through barging, spurious wake-ups and drops in either order.
THEOREM NoDeadlockAcrossBackends == Spec => []NoCircularWait
PROOF
  <1>1. Inv => NoCircularWait
    BY BackendWritersAssumption DEF Inv, LockOK, OrderOK, InOrderFirst, NoCircularWait
  <1>2. QED
    BY <1>1, OrderInvariance, PTL
=============================================================================
