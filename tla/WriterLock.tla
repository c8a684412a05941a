----------------------------- MODULE WriterLock -----------------------------
(***************************************************************************)
(* The writer every lifecycle over one backend shares (lifecycle/writer.rs *)
(* of heurema): a mutex around the owner and a count of waiters, and a     *)
(* condition variable.                                                     *)
(*                                                                         *)
(* Each critical section of the mutex is one step.  A wait gives up the    *)
(* mutex and falls asleep in the step that found the writer taken, and a   *)
(* sleeper may wake without a notification, as condition variables allow.  *)
(* The drop of a guard notifies after its critical section, so any thread  *)
(* may step in between.                                                    *)
(***************************************************************************)
EXTENDS Integers, FiniteSets

CONSTANTS
    Threads,        \* the threads that share the writer
    None            \* no thread

ASSUME WriterLockAssumption == None \notin Threads /\ IsFiniteSet(Threads)

VARIABLES
    owner,          \* WriterState::owner
    waiting,        \* WriterState::waiting
    guards,         \* the threads that hold a WriterGuard
    pc              \* where each thread is in acquire or in the drop of its guard

vars == <<owner, waiting, guards, pc>>

Init ==
    /\ owner = None
    /\ waiting = 0
    /\ guards = {}
    /\ pc = [t \in Threads |-> "running"]

Asleep == {t \in Threads : pc[t] = "asleep"}

\* The end of acquire: the writer is the thread's, and it has a guard for it.
Take(t) ==
    /\ owner' = t
    /\ guards' = guards \cup {t}
    /\ pc' = [pc EXCEPT ![t] = "running"]

\* A call of acquire, by a thread with or without a guard.
Call(t) ==
    /\ pc[t] = "running"
    /\ pc' = [pc EXCEPT ![t] = "entering"]
    /\ UNCHANGED <<owner, waiting, guards>>

\* An acquire that does not look for its own thread first.
EnterUnchecked(t) ==
    /\ pc[t] = "entering"
    /\ \/ /\ owner # None
          /\ waiting' = waiting + 1
          /\ pc' = [pc EXCEPT ![t] = "asleep"]
          /\ UNCHANGED <<owner, guards>>
       \/ /\ owner = None
          /\ Take(t)
          /\ UNCHANGED waiting

\* The first critical section: WriterHeld, a first wait, or the writer at once.
Enter(t) ==
    /\ pc[t] = "entering"
    /\ \/ /\ owner = t
          /\ pc' = [pc EXCEPT ![t] = "running"]
          /\ UNCHANGED <<owner, waiting, guards>>
       \/ /\ owner \notin {t, None}
          /\ waiting' = waiting + 1
          /\ pc' = [pc EXCEPT ![t] = "asleep"]
          /\ UNCHANGED <<owner, guards>>
       \/ /\ owner = None
          /\ Take(t)
          /\ UNCHANGED waiting

\* A wake-up nobody asked for.
WakeSpuriously(t) ==
    /\ pc[t] = "asleep"
    /\ pc' = [pc EXCEPT ![t] = "woken"]
    /\ UNCHANGED <<owner, waiting, guards>>

\* A waiter that takes a wake-up for the writer itself.
WokenTrusting(t) ==
    /\ pc[t] = "woken"
    /\ waiting' = waiting - 1
    /\ Take(t)

\* A waiter that is not counted out.
WokenUncounted(t) ==
    /\ pc[t] = "woken"
    /\ \/ /\ owner # None
          /\ pc' = [pc EXCEPT ![t] = "asleep"]
          /\ UNCHANGED <<owner, waiting, guards>>
       \/ /\ owner = None
          /\ UNCHANGED waiting
          /\ Take(t)

\* wait_while: a woken thread looks again, and sleeps again or takes the writer.
Woken(t) ==
    /\ pc[t] = "woken"
    /\ \/ /\ owner # None
          /\ pc' = [pc EXCEPT ![t] = "asleep"]
          /\ UNCHANGED <<owner, waiting, guards>>
       \/ /\ owner = None
          /\ waiting' = waiting - 1
          /\ Take(t)

\* A drop that releases the writer and tells nobody.
DropSilently(t) ==
    /\ pc[t] = "running"
    /\ t \in guards
    /\ owner' = None
    /\ guards' = guards \ {t}
    /\ UNCHANGED <<waiting, pc>>

\* The critical section of WriterGuard::drop.
Drop(t) ==
    /\ pc[t] = "running"
    /\ t \in guards
    /\ owner' = None
    /\ guards' = guards \ {t}
    /\ pc' = [pc EXCEPT ![t] = "notifying"]
    /\ UNCHANGED waiting

\* notify_one: one sleeper wakes, if there is one.
Notify(t) ==
    /\ pc[t] = "notifying"
    /\ \/ Asleep = {} /\ pc' = [pc EXCEPT ![t] = "running"]
       \/ \E u \in Asleep : pc' = [pc EXCEPT ![t] = "running", ![u] = "woken"]
    /\ UNCHANGED <<owner, waiting, guards>>

Step(t) == Enter(t) \/ Woken(t) \/ Notify(t)

Next == \E t \in Threads : Call(t) \/ Step(t) \/ WakeSpuriously(t) \/ Drop(t)

Spec == Init /\ [][Next]_vars

\* A thread inside acquire or drop keeps being scheduled; a holder may keep its
\* guard for ever, and no order among those that contend is assumed.
FairSpec == Spec /\ \A t \in Threads : WF_vars(Step(t))

(***************************************************************************)
(* Properties.                                                             *)
(***************************************************************************)
\* The types of WriterState and of the threads; `waiting' counts the threads that
\* are inside wait_while, asleep or awake.
Waiters == {t \in Threads : pc[t] \in {"asleep", "woken"}}

TypeOK ==
    /\ owner \in Threads \cup {None}
    /\ guards \subseteq Threads
    /\ pc \in [Threads -> {"running", "entering", "asleep", "woken", "notifying"}]
    /\ waiting = Cardinality(Waiters)

\* At most one operation is between its head read and its publish: a guard is held
\* by the owner alone, through every wake-up and every barging acquire.
GuardIsExclusive == guards = IF owner = None THEN {} ELSE {owner}

\* A thread never waits for a writer it holds itself: it is refused (WriterHeld)
\* "instead of deadlocking".
NoSelfDeadlock == \A t \in guards : pc[t] \notin {"asleep", "woken", "notifying"}

\* A free writer is never left with sleepers only: a thread is awake or about to
\* notify, although a drop notifies one sleeper, after its critical section, and an
\* acquire may take the writer in between.
NoLostWakeup ==
    owner = None /\ Asleep # {} => \E t \in Threads : pc[t] \in {"woken", "notifying"}

\* The writer goes from one thread to another only through a release, which is the
\* lock LifecycleDriver takes and gives back in one step each.
HandsOverByRelease == [][owner = None \/ owner' = None]_owner

\* A free writer that threads wait for is taken.
FreeWriterIsTaken == owner = None /\ waiting > 0 ~> owner # None
=============================================================================
