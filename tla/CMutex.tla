------------------------------- MODULE CMutex -------------------------------
(***************************************************************************)
(* toolbox-mutex.c, pthread build: a recursive mutex made of a plain       *)
(* pthread mutex, a condition variable and three fields (acquired_count,   *)
(* waiting, owner).                                                        *)
(*                                                                         *)
(* The fields are written only between pthread_mutex_lock and              *)
(* pthread_mutex_unlock (pthread_cond_wait included), so such a section is *)
(* one step here and the inner mutex needs no variable.  The one access    *)
(* outside a section, CMutex_Release's test of owner, is a step of its own.*)
(* It is a word-sized read that is compared with the reader's own id, so   *)
(* the racing outcomes are the value before or after a section.            *)
(*                                                                         *)
(* Calls that return before touching a field (NULL, not initialised) leave *)
(* the state alone and are stuttering steps.                               *)
(***************************************************************************)
EXTENDS Naturals, FiniteSets

CONSTANTS
  Threads,      \* the threads that share the mutex
  NoThread,     \* owner before the first acquisition (the code's 0)
  WakeLimit,    \* wake-ups after which CMutex_Acquire gives up (300 in the code)
  MaxDepth,     \* bound: recursive acquisitions by one thread
  Disciplined,  \* do callers release only what they were granted?
  Spurious      \* may pthread_cond_wait return without a signal?

ASSUME CMutexAssumption ==
  /\ IsFiniteSet(Threads)
  /\ NoThread \notin Threads
  /\ WakeLimit \in Nat
  /\ MaxDepth \in Nat \ {0}
  /\ Disciplined \in BOOLEAN
  /\ Spurious \in BOOLEAN

VARIABLES
  life,            \* "raw" memory, "ready", "destroyed", or the process "exited"
  acquired_count,
  waiting,
  owner,
  pc,              \* where each thread is
  call,            \* the entry point the thread is in, or was in last
  wakeups,         \* the local "count" of CMutex_Acquire
  held             \* history: acquisitions granted to the thread and not given back

fields == <<acquired_count, waiting, owner>>
vars == <<life, acquired_count, waiting, owner, pc, call, wakeups, held>>

Calls == {"Acquire", "AcquireTimeout", "AcquireForever"}

At(place) == {t \in Threads : pc[t] = place}

Waiters == At("asleep") \cup At("signalled") \cup At("timedout")

Init ==
  /\ life = "raw"
  /\ acquired_count = 0
  /\ waiting = 0
  /\ owner = NoThread
  /\ pc = [t \in Threads |-> "idle"]
  /\ call = [t \in Threads |-> "Acquire"]
  /\ wakeups = [t \in Threads |-> 0]
  /\ held = [t \in Threads |-> 0]

-----------------------------------------------------------------------------
(* CMutex_Constructor.  createAndAcquire hands the mutex to its creator.   *)
Construct(t, createAndAcquire) ==
  /\ life = "raw"
  /\ life' = "ready"
  /\ IF createAndAcquire
     THEN /\ acquired_count' = 1
          /\ owner' = t
          /\ held' = [held EXCEPT ![t] = 1]
     ELSE UNCHANGED <<acquired_count, owner, held>>
  /\ UNCHANGED <<waiting, pc, call, wakeups>>

(* CMutex_Destructor, called when no thread is inside an operation.        *)
Destruct ==
  /\ life = "ready"
  /\ At("idle") = Threads
  /\ life' = "destroyed"
  /\ UNCHANGED <<fields, pc, call, wakeups, held>>

-----------------------------------------------------------------------------
(* Acquiring.  "AcquireForever" is CMutex_AcquireTimeout(GNUC_WAIT_FOREVER).*)
CallAcquire(t, c) ==
  /\ life = "ready"
  /\ pc[t] = "idle"
  /\ held[t] < MaxDepth
  /\ pc' = [pc EXCEPT ![t] = "acquiring"]
  /\ call' = [call EXCEPT ![t] = c]
  /\ wakeups' = [wakeups EXCEPT ![t] = 0]
  /\ UNCHANGED <<life, fields, held>>

(* The tail of both acquire functions.  The mutant leaves owner alone.     *)
TakeUnowned(t) ==
  /\ owner' = owner
  /\ acquired_count' = acquired_count + 1
  /\ held' = [held EXCEPT ![t] = @ + 1]
  /\ pc' = [pc EXCEPT ![t] = "idle"]

Take(t) ==
  /\ owner' = t
  /\ acquired_count' = acquired_count + 1
  /\ held' = [held EXCEPT ![t] = @ + 1]
  /\ pc' = [pc EXCEPT ![t] = "idle"]

(* First pass through the locked section: free or already ours is taken,   *)
(* otherwise the thread counts itself and sleeps.  The mutant of EnterFree *)
(* does not ask.                                                           *)
EnterUnasked(t) ==
  /\ life = "ready"
  /\ pc[t] = "acquiring"
  /\ Take(t)
  /\ UNCHANGED <<life, waiting, call, wakeups>>

EnterFree(t) ==
  /\ life = "ready"
  /\ pc[t] = "acquiring"
  /\ acquired_count = 0 \/ owner = t
  /\ Take(t)
  /\ UNCHANGED <<life, waiting, call, wakeups>>

EnterBusy(t) ==
  /\ life = "ready"
  /\ pc[t] = "acquiring"
  /\ acquired_count # 0
  /\ owner # t
  /\ waiting' = waiting + 1
  /\ pc' = [pc EXCEPT ![t] = "asleep"]
  /\ UNCHANGED <<life, acquired_count, owner, call, wakeups, held>>

(* Mutant of TimeOut: counts the sleeper out, as ReturnTimeout does again. *)
TimeOutCounted(t) ==
  /\ life = "ready"
  /\ pc[t] = "asleep"
  /\ call[t] = "AcquireTimeout"
  /\ waiting' = waiting - 1
  /\ pc' = [pc EXCEPT ![t] = "timedout"]
  /\ UNCHANGED <<life, acquired_count, owner, call, wakeups, held>>

(* The sleeper's deadline passes; it still has to regain the inner mutex.  *)
TimeOut(t) ==
  /\ life = "ready"
  /\ pc[t] = "asleep"
  /\ call[t] = "AcquireTimeout"
  /\ pc' = [pc EXCEPT ![t] = "timedout"]
  /\ UNCHANGED <<life, fields, call, wakeups, held>>

(* Mutant of ReturnTimeout: the sleeper is not counted out.                *)
ReturnTimeoutUncounted(t) ==
  /\ life = "ready"
  /\ pc[t] = "timedout"
  /\ pc' = [pc EXCEPT ![t] = "idle"]
  /\ UNCHANGED <<life, fields, call, wakeups, held>>

ReturnTimeout(t) ==
  /\ life = "ready"
  /\ pc[t] = "timedout"
  /\ waiting' = waiting - 1
  /\ pc' = [pc EXCEPT ![t] = "idle"]
  /\ UNCHANGED <<life, acquired_count, owner, call, wakeups, held>>

WakeSpuriously(t) ==
  /\ Spurious
  /\ life = "ready"
  /\ pc[t] = "asleep"
  /\ pc' = [pc EXCEPT ![t] = "signalled"]
  /\ UNCHANGED <<life, fields, call, wakeups, held>>

(* Only CMutex_Acquire counts its wake-ups; past the limit it calls exit(0).*)
GivesUp(t) == call[t] = "Acquire" /\ wakeups[t] + 1 > WakeLimit

CountWake(t) ==
  wakeups' = IF call[t] = "Acquire" THEN [wakeups EXCEPT ![t] = @ + 1] ELSE wakeups

(* Back from pthread_cond_wait: exit, take the free mutex, or sleep again. *)
WakeAndExit(t) ==
  /\ life = "ready"
  /\ pc[t] = "signalled"
  /\ GivesUp(t)
  /\ life' = "exited"
  /\ waiting' = waiting - 1
  /\ CountWake(t)
  /\ UNCHANGED <<acquired_count, owner, pc, call, held>>

(* Mutant of WakeAndTake: "if" in place of "while", no second look.        *)
WakeAndTakeUnchecked(t) ==
  /\ life = "ready"
  /\ pc[t] = "signalled"
  /\ ~ GivesUp(t)
  /\ waiting' = waiting - 1
  /\ CountWake(t)
  /\ Take(t)
  /\ UNCHANGED <<life, call>>

WakeAndTake(t) ==
  /\ life = "ready"
  /\ pc[t] = "signalled"
  /\ ~ GivesUp(t)
  /\ acquired_count = 0
  /\ waiting' = waiting - 1
  /\ CountWake(t)
  /\ Take(t)
  /\ UNCHANGED <<life, call>>

WakeAndSleep(t) ==
  /\ life = "ready"
  /\ pc[t] = "signalled"
  /\ ~ GivesUp(t)
  /\ acquired_count # 0
  /\ waiting' = (waiting - 1) + 1
  /\ CountWake(t)
  /\ pc' = [pc EXCEPT ![t] = "asleep"]
  /\ UNCHANGED <<life, acquired_count, owner, call, held>>

-----------------------------------------------------------------------------
(* CMutex_Release.  The owner test runs outside the locked section and     *)
(* refuses others with -10 (no change of state).                           *)
CallRelease(t) ==
  /\ life = "ready"
  /\ pc[t] = "idle"
  /\ Disciplined => held[t] > 0
  /\ owner = t
  /\ pc' = [pc EXCEPT ![t] = "releasing"]
  /\ UNCHANGED <<life, fields, call, wakeups, held>>

(* pthread_cond_signal wakes one sleeper, if any is asleep.  The mutant is *)
(* a forgotten call.                                                       *)
SignalForgotten(base) == pc' = base

Signal(base) ==
  IF At("asleep") = {}
  THEN pc' = base
  ELSE \E s \in At("asleep") : pc' = [base EXCEPT ![s] = "signalled"]

(* Mutants of ReleaseHeld: the signal is sent for more than one waiter     *)
(* only, and one release gives back every recursive acquisition.           *)
ReleaseHeldOffByOne(t) ==
  /\ life = "ready"
  /\ pc[t] = "releasing"
  /\ acquired_count > 0
  /\ acquired_count' = acquired_count - 1
  /\ held' = [held EXCEPT ![t] = IF @ > 0 THEN @ - 1 ELSE 0]
  /\ LET base == [pc EXCEPT ![t] = "idle"]
     IN  IF acquired_count' = 0 /\ waiting > 1 THEN Signal(base) ELSE pc' = base
  /\ UNCHANGED <<life, waiting, owner, call, wakeups>>

ReleaseAll(t) ==
  /\ life = "ready"
  /\ pc[t] = "releasing"
  /\ acquired_count > 0
  /\ acquired_count' = 0
  /\ held' = [held EXCEPT ![t] = IF @ > 0 THEN @ - 1 ELSE 0]
  /\ LET base == [pc EXCEPT ![t] = "idle"]
     IN  IF waiting > 0 THEN Signal(base) ELSE pc' = base
  /\ UNCHANGED <<life, waiting, owner, call, wakeups>>

ReleaseHeld(t) ==
  /\ life = "ready"
  /\ pc[t] = "releasing"
  /\ acquired_count > 0
  /\ acquired_count' = acquired_count - 1
  /\ held' = [held EXCEPT ![t] = IF @ > 0 THEN @ - 1 ELSE 0]
  /\ LET base == [pc EXCEPT ![t] = "idle"]
     IN  IF acquired_count' = 0 /\ waiting > 0 THEN Signal(base) ELSE pc' = base
  /\ UNCHANGED <<life, waiting, owner, call, wakeups>>

(* The count would go negative: exit(0).                                   *)
ReleaseUnheld(t) ==
  /\ life = "ready"
  /\ pc[t] = "releasing"
  /\ acquired_count = 0
  /\ life' = "exited"
  /\ UNCHANGED <<fields, pc, call, wakeups, held>>

-----------------------------------------------------------------------------
Stopped == life \in {"destroyed", "exited"} /\ UNCHANGED vars

Enter(t) == EnterFree(t) \/ EnterBusy(t)

Wake(t) == WakeAndExit(t) \/ WakeAndTake(t) \/ WakeAndSleep(t)

Next ==
  \/ \E t \in Threads, b \in BOOLEAN : Construct(t, b)
  \/ Destruct
  \/ \E t \in Threads, c \in Calls : CallAcquire(t, c)
  \/ \E t \in Threads : Enter(t)
  \/ \E t \in Threads : TimeOut(t)
  \/ \E t \in Threads : ReturnTimeout(t)
  \/ \E t \in Threads : WakeSpuriously(t)
  \/ \E t \in Threads : Wake(t)
  \/ \E t \in Threads : CallRelease(t)
  \/ \E t \in Threads : ReleaseHeld(t)
  \/ \E t \in Threads : ReleaseUnheld(t)
  \/ Stopped

Spec == Init /\ [][Next]_vars

(* A thread inside an operation is runnable unless it sleeps, and the      *)
(* scheduler runs it; nothing is assumed of callers or of deadlines.       *)
Fairness ==
  \A t \in Threads : /\ WF_vars(Enter(t))
                     /\ WF_vars(Wake(t))
                     /\ WF_vars(ReturnTimeout(t))
                     /\ WF_vars(ReleaseHeld(t))

FairSpec == Spec /\ Fairness
-----------------------------------------------------------------------------
(* Type correctness of the fields and of the threads' places.  The count   *)
(* never goes below zero: CMutex_Release exits the process instead.        *)
TypeOK ==
  /\ life \in {"raw", "ready", "destroyed", "exited"}
  /\ acquired_count \in Nat
  /\ waiting \in Nat
  /\ owner \in Threads \cup {NoThread}
  /\ pc \in [Threads -> {"idle", "acquiring", "asleep", "signalled", "timedout", "releasing"}]
  /\ call \in [Threads -> Calls]
  /\ wakeups \in [Threads -> Nat]
  /\ held \in [Threads -> Nat]

(* At most one thread has been told that it holds the mutex.               *)
MutualExclusion ==
  \A t, u \in Threads : held[t] > 0 /\ held[u] > 0 => t = u

(* toolbox-mutex.h: acquired_count is the "recursive count of the acquire  *)
(* calls made by the same owning thread".                                  *)
CountIsOwners ==
  /\ acquired_count > 0 => owner \in Threads /\ held[owner] = acquired_count
  /\ \A t \in Threads : held[t] > 0 => owner = t /\ acquired_count > 0

(* CMutex_Release tests owner before it takes the inner mutex.  What it saw *)
(* is still true when it decrements the count.                             *)
OwnerTestStable ==
  \A t \in At("releasing") : owner = t /\ acquired_count > 0

(* waiting counts exactly the threads that gave up the inner mutex in an   *)
(* acquire and have not regained it, whichever way they leave the wait.    *)
WaitingCountsWaiters ==
  life # "exited" => waiting = Cardinality(Waiters)

(* No wake-up is lost: a sleeper next to a free mutex is about to be joined *)
(* by a thread already signalled, which will take the mutex or find a      *)
(* holder whose release signals again.                                     *)
NoLostWakeup ==
  acquired_count = 0 /\ At("asleep") # {} => At("signalled") # {}

(* The client's view is a recursive lock.                                  *)
Lock == INSTANCE RecursiveLock

LockSpec == Lock!Spec

(* A free mutex with waiters does not stay that way, unless the mutex or   *)
(* the process ends.                                                       *)
FreeMutexIsTaken ==
  (life = "ready" /\ acquired_count = 0 /\ waiting > 0)
     ~> (acquired_count > 0 \/ waiting = 0 \/ life # "ready")
=============================================================================
