--------------------------- MODULE BackendWriters ---------------------------
(***************************************************************************)
(* Two backends, each with a writer of its own, and threads that use both  *)
(* (lifecycle/writer.rs).  A writer knows nothing of the other; what keeps *)
(* two threads from waiting for each other is the caller's order, which    *)
(* the warning on WriterLock asks for.                                     *)
(*                                                                         *)
(* Each writer is a WriterLock with its own state; a thread is inside one  *)
(* call at a time.                                                         *)
(***************************************************************************)
EXTENDS Naturals

CONSTANTS
    Threads,        \* the threads that use both backends
    None            \* no thread

ASSUME BackendWritersAssumption == None \notin Threads

VARIABLES
    owner1, waiting1, guards1, pc1,     \* the first backend's writer
    owner2, waiting2, guards2, pc2      \* the second backend's writer

first == <<owner1, waiting1, guards1, pc1>>
second == <<owner2, waiting2, guards2, pc2>>
vars == <<first, second>>

First == INSTANCE WriterLock
            WITH owner <- owner1, waiting <- waiting1, guards <- guards1, pc <- pc1
Second == INSTANCE WriterLock
            WITH owner <- owner2, waiting <- waiting2, guards <- guards2, pc <- pc2

Init == First!Init /\ Second!Init

\* The first writer requested in whatever order.
UnorderedFirst(t) == TRUE

\* The caller's order: the first writer is never requested with only the second held.
InOrderFirst(t) == t \in guards2 => t \in guards1

CallFirst(t) ==
    /\ pc2[t] = "running"
    /\ InOrderFirst(t)
    /\ First!Call(t)
    /\ UNCHANGED second

CallSecond(t) ==
    /\ pc1[t] = "running"
    /\ Second!Call(t)
    /\ UNCHANGED first

DropFirst(t) == pc2[t] = "running" /\ First!Drop(t) /\ UNCHANGED second
DropSecond(t) == pc1[t] = "running" /\ Second!Drop(t) /\ UNCHANGED first

\* A step inside a call, or a sleeper woken by nothing.
StepFirst(t) == First!Step(t) /\ UNCHANGED second
StepSecond(t) == Second!Step(t) /\ UNCHANGED first
WakeFirst(t) == First!WakeSpuriously(t) /\ UNCHANGED second
WakeSecond(t) == Second!WakeSpuriously(t) /\ UNCHANGED first

Next ==
    \E t \in Threads :
        \/ CallFirst(t) \/ StepFirst(t) \/ WakeFirst(t) \/ DropFirst(t)
        \/ CallSecond(t) \/ StepSecond(t) \/ WakeSecond(t) \/ DropSecond(t)

Spec == Init /\ [][Next]_vars

\* A thread inside acquire or drop keeps being scheduled, and a caller that runs
\* with a guard ends its operation at last, however often it asks again for a
\* writer it holds: prepare, stage and publish are finite.
FairSpec ==
    /\ Spec
    /\ \A t \in Threads :
        /\ WF_vars(StepFirst(t)) /\ WF_vars(StepSecond(t))
        /\ SF_vars(DropFirst(t)) /\ SF_vars(DropSecond(t))

(***************************************************************************)
(* Properties.                                                             *)
(***************************************************************************)
\* Two threads never hold one writer each and wait for the other's (the lock
\* order warning on WriterLock): through barging, spurious wake-ups, refused
\* re-entry and drops in either order.
NoCircularWait ==
    ~ \E t, u \in Threads :
        /\ t \in guards1 /\ pc2[t] \in {"asleep", "woken"}
        /\ u \in guards2 /\ pc1[u] \in {"asleep", "woken"}

\* When both writers are held, one of them is given back: no thread waits for
\* itself, nor both for each other (acquire, WriterGuard::drop).
HeldWritersAreGivenBack ==
    owner1 # None /\ owner2 # None ~> owner1 = None \/ owner2 = None
=============================================================================
