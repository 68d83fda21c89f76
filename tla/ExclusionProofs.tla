-------------------------- MODULE ExclusionProofs --------------------------
(***************************************************************************)
(* What keeps threads and processes apart: the mutex, and the lock of the   *)
(* pid file.                                                                *)
(*                                                                         *)
(* CMutex, for any set of threads, any nesting depth and any wake-up limit: *)
(* 1. For all callers: type correctness, the meaning of waiting, and that   *)
(*    no wake-up is lost.                                                   *)
(* 2. For callers that release only what they were granted: mutual          *)
(*    exclusion, and that the mutex implements RecursiveLock.               *)
(*                                                                         *)
(* PidFile, for any number of processes, files and starts: OneDaemon.  The  *)
(* lock makes it true: between locking its file and its exit a process is   *)
(* the one the lock of that file names (Locked), so whoever truncates or    *)
(* writes a file is the only one who does.  As long as the handler has not  *)
(* removed the name there is one file at most (OneFile).                    *)
(***************************************************************************)
EXTENDS CMutex, PidFile, FiniteSetTheorems, TLAPS

(* A thread that is no waiter can be added, a waiter removed: what either  *)
(* does to the number of waiters.                                          *)
LEMMA WaitersFinite ==
  ASSUME CMutexAssumption
  PROVE  /\ IsFiniteSet(Waiters)
         /\ Cardinality(Waiters) \in Nat
         /\ \A t \in Threads \ Waiters : Cardinality(Waiters \cup {t}) = Cardinality(Waiters) + 1
         /\ \A t \in Waiters : /\ Cardinality(Waiters) > 0
                               /\ Cardinality(Waiters \ {t}) = Cardinality(Waiters) - 1
<1>1. Waiters \subseteq Threads
  BY DEF Waiters, At
<1>2. IsFiniteSet(Waiters)
  BY <1>1, FS_Subset DEF CMutexAssumption
<1>3. Cardinality(Waiters) \in Nat
  BY <1>2, FS_CardinalityType
<1>4. ASSUME NEW t \in Threads \ Waiters
      PROVE  Cardinality(Waiters \cup {t}) = Cardinality(Waiters) + 1
  BY <1>2, <1>4, FS_AddElement
<1>5. ASSUME NEW t \in Waiters
      PROVE  /\ Cardinality(Waiters) > 0
             /\ Cardinality(Waiters \ {t}) = Cardinality(Waiters) - 1
  <2>1. Cardinality(Waiters \ {t}) = Cardinality(Waiters) - 1
    BY <1>2, <1>5, FS_RemoveElement
  <2>2. Cardinality(Waiters) # 0
    BY <1>2, <1>5, FS_EmptySet
  <2>3. QED
    BY <2>1, <2>2, <1>3
<1>6. QED
  BY <1>2, <1>3, <1>4, <1>5

(* The invariant of part 1.  TypeOK alone is not inductive: that waiting   *)
(* stays a natural number when it is decremented takes its meaning.        *)
WaitInv == TypeOK /\ WaitingCountsWaiters /\ NoLostWakeup

(* A step of an arbitrary caller, or of the scheduler, keeps WaitInv.      *)
LEMMA WaitInvStep ==
  ASSUME CMutexAssumption, WaitInv, [Next]_vars
  PROVE  WaitInv'
<1> USE DEF fields
<1>0. Calls = {"Acquire", "AcquireTimeout", "AcquireForever"}
  BY DEF Calls
<1>1. ASSUME NEW t \in Threads, NEW b \in BOOLEAN, Construct(t, b)
      PROVE  WaitInv'
  BY <1>1 DEF Construct, WaitInv, TypeOK, WaitingCountsWaiters, NoLostWakeup, Waiters, At
<1>2. CASE Destruct
  BY <1>2 DEF Destruct, WaitInv, TypeOK, WaitingCountsWaiters, NoLostWakeup, Waiters, At
<1>3. ASSUME NEW t \in Threads, NEW c \in Calls, CallAcquire(t, c)
      PROVE  WaitInv'
  <2>1. Waiters' = Waiters /\ At("asleep")' = At("asleep") /\ At("signalled")' = At("signalled")
    BY <1>3 DEF CallAcquire, WaitInv, TypeOK, Waiters, At
  <2>2. TypeOK'
    BY <1>3 DEF CallAcquire, WaitInv, TypeOK
  <2>3. QED
    BY <1>3, <2>1, <2>2 DEF CallAcquire, WaitInv, WaitingCountsWaiters, NoLostWakeup
<1>4. ASSUME NEW t \in Threads, EnterFree(t)
      PROVE  WaitInv'
  <2>1. Waiters' = Waiters /\ acquired_count' # 0
    BY <1>4 DEF EnterFree, Take, WaitInv, TypeOK, Waiters, At
  <2>2. TypeOK'
    BY <1>4 DEF EnterFree, Take, WaitInv, TypeOK
  <2>3. QED
    BY <1>4, <2>1, <2>2 DEF EnterFree, WaitInv, WaitingCountsWaiters, NoLostWakeup
<1>5. ASSUME NEW t \in Threads, EnterBusy(t)
      PROVE  WaitInv'
  <2>1. Waiters' = Waiters \cup {t} /\ t \in Threads \ Waiters
    BY <1>5 DEF EnterBusy, WaitInv, TypeOK, Waiters, At
  <2>2. TypeOK'
    BY <1>5 DEF EnterBusy, WaitInv, TypeOK
  <2>3. Cardinality(Waiters') = Cardinality(Waiters) + 1
    BY <2>1, WaitersFinite
  <2>4. WaitingCountsWaiters'
    BY <1>5, <2>3 DEF EnterBusy, WaitInv, WaitingCountsWaiters
  <2>5. QED
    BY <1>5, <2>2, <2>4 DEF EnterBusy, WaitInv, NoLostWakeup
<1>6. ASSUME NEW t \in Threads, TimeOut(t)
      PROVE  WaitInv'
  <2>1. /\ Waiters' = Waiters
        /\ At("signalled")' = At("signalled")
        /\ At("asleep")' \subseteq At("asleep")
    BY <1>6 DEF TimeOut, WaitInv, TypeOK, Waiters, At
  <2>2. TypeOK'
    BY <1>6 DEF TimeOut, WaitInv, TypeOK
  <2>3. QED
    BY <1>6, <2>1, <2>2 DEF TimeOut, WaitInv, WaitingCountsWaiters, NoLostWakeup
<1>7. ASSUME NEW t \in Threads, ReturnTimeout(t)
      PROVE  WaitInv'
  <2>1. /\ Waiters' = Waiters \ {t}
        /\ t \in Waiters
        /\ At("asleep")' = At("asleep")
        /\ At("signalled")' = At("signalled")
    BY <1>7 DEF ReturnTimeout, WaitInv, TypeOK, Waiters, At
  <2>2. /\ Cardinality(Waiters) > 0
        /\ Cardinality(Waiters') = Cardinality(Waiters) - 1
    BY <2>1, WaitersFinite
  <2>3. waiting > 0
    BY <1>7, <2>2 DEF ReturnTimeout, WaitInv, WaitingCountsWaiters
  <2>4. TypeOK'
    BY <1>7, <2>3 DEF ReturnTimeout, WaitInv, TypeOK
  <2>5. WaitingCountsWaiters'
    BY <1>7, <2>2 DEF ReturnTimeout, WaitInv, WaitingCountsWaiters
  <2>6. QED
    BY <1>7, <2>1, <2>4, <2>5 DEF ReturnTimeout, WaitInv, NoLostWakeup
<1>8. ASSUME NEW t \in Threads, WakeSpuriously(t)
      PROVE  WaitInv'
  <2>1. Waiters' = Waiters /\ At("signalled")' # {}
    BY <1>8 DEF WakeSpuriously, WaitInv, TypeOK, Waiters, At
  <2>2. TypeOK'
    BY <1>8 DEF WakeSpuriously, WaitInv, TypeOK
  <2>3. QED
    BY <1>8, <2>1, <2>2 DEF WakeSpuriously, WaitInv, WaitingCountsWaiters, NoLostWakeup
<1>9. ASSUME NEW t \in Threads, pc[t] = "signalled"
      PROVE  t \in Waiters /\ (life # "exited" => waiting > 0)
  <2>1. t \in Waiters
    BY <1>9 DEF Waiters, At
  <2>2. QED
    BY <2>1, WaitersFinite DEF WaitInv, WaitingCountsWaiters
<1>10. ASSUME NEW t \in Threads, WakeAndExit(t)
       PROVE  WaitInv'
  <2>1. waiting > 0
    BY <1>9, <1>10 DEF WakeAndExit
  <2>2. At("asleep")' = At("asleep") /\ At("signalled")' = At("signalled")
    BY <1>10 DEF WakeAndExit, At
  <2>3. QED
    BY <1>10, <2>1, <2>2 DEF WakeAndExit, CountWake, WaitInv, TypeOK, WaitingCountsWaiters, NoLostWakeup
<1>11. ASSUME NEW t \in Threads, WakeAndTake(t)
       PROVE  WaitInv'
  <2>1. t \in Waiters /\ waiting > 0
    BY <1>9, <1>11 DEF WakeAndTake
  <2>2. Waiters' = Waiters \ {t} /\ acquired_count' # 0
    BY <1>11 DEF WakeAndTake, Take, WaitInv, TypeOK, Waiters, At
  <2>3. TypeOK'
    BY <1>11, <2>1 DEF WakeAndTake, Take, CountWake, WaitInv, TypeOK
  <2>4. Cardinality(Waiters') = Cardinality(Waiters) - 1
    BY <2>1, <2>2, WaitersFinite
  <2>5. WaitingCountsWaiters'
    BY <1>11, <2>4 DEF WakeAndTake, WaitInv, WaitingCountsWaiters
  <2>6. QED
    BY <2>2, <2>3, <2>5 DEF WaitInv, NoLostWakeup
<1>12. ASSUME NEW t \in Threads, WakeAndSleep(t)
       PROVE  WaitInv'
  <2>1. Waiters' = Waiters
    BY <1>12 DEF WakeAndSleep, WaitInv, TypeOK, Waiters, At
  <2>2. waiting' = waiting
    BY <1>12 DEF WakeAndSleep, WaitInv, TypeOK
  <2>3. TypeOK'
    BY <1>12, <2>2 DEF WakeAndSleep, CountWake, WaitInv, TypeOK
  <2>4. QED
    BY <1>12, <2>1, <2>2, <2>3 DEF WakeAndSleep, WaitInv, WaitingCountsWaiters, NoLostWakeup
<1>13. ASSUME NEW t \in Threads, CallRelease(t)
       PROVE  WaitInv'
  <2>1. Waiters' = Waiters /\ At("asleep")' = At("asleep") /\ At("signalled")' = At("signalled")
    BY <1>13 DEF CallRelease, WaitInv, TypeOK, Waiters, At
  <2>2. TypeOK'
    BY <1>13 DEF CallRelease, WaitInv, TypeOK
  <2>3. QED
    BY <1>13, <2>1, <2>2 DEF CallRelease, WaitInv, WaitingCountsWaiters, NoLostWakeup
<1>14. ASSUME NEW t \in Threads, ReleaseHeld(t)
       PROVE  WaitInv'
  <2> DEFINE base == [pc EXCEPT ![t] = "idle"]
  <2>0. /\ pc[t] = "releasing"
        /\ acquired_count \in Nat
        /\ acquired_count > 0
        /\ acquired_count' = acquired_count - 1
    BY <1>14 DEF ReleaseHeld, WaitInv, TypeOK
  <2>1. CASE pc' = base /\ ~ (acquired_count' = 0 /\ At("asleep") # {})
    <3>1. Waiters' = Waiters /\ At("asleep")' = At("asleep")
      BY <2>0, <2>1 DEF WaitInv, TypeOK, Waiters, At
    <3>2. TypeOK'
      BY <1>14, <2>0, <2>1 DEF ReleaseHeld, WaitInv, TypeOK
    <3>3. QED
      BY <1>14, <2>1, <3>1, <3>2 DEF ReleaseHeld, WaitInv, WaitingCountsWaiters, NoLostWakeup
  <2>2. ASSUME NEW s \in At("asleep"), pc' = [base EXCEPT ![s] = "signalled"]
        PROVE  WaitInv'
    <3>1. Waiters' = Waiters /\ At("signalled")' # {}
      BY <2>0, <2>2 DEF WaitInv, TypeOK, Waiters, At
    <3>2. TypeOK'
      BY <1>14, <2>0, <2>2 DEF ReleaseHeld, WaitInv, TypeOK, At
    <3>3. QED
      BY <1>14, <3>1, <3>2 DEF ReleaseHeld, WaitInv, WaitingCountsWaiters, NoLostWakeup
  <2>3. ASSUME At("asleep") # {}
        PROVE  waiting > 0
    <3>1. PICK s \in Waiters : TRUE
      BY <2>3 DEF Waiters
    <3>2. QED
      BY <1>14, <3>1, WaitersFinite DEF ReleaseHeld, WaitInv, WaitingCountsWaiters
  <2>4. CASE acquired_count' = 0 /\ waiting > 0
    <3>1. \/ pc' = base /\ At("asleep") = {}
          \/ \E s \in At("asleep") : pc' = [base EXCEPT ![s] = "signalled"]
      BY <1>14, <2>4 DEF ReleaseHeld, Signal
    <3>2. QED
      BY <2>1, <2>2, <3>1
  <2>5. CASE ~ (acquired_count' = 0 /\ waiting > 0)
    <3>1. pc' = base
      BY <1>14, <2>5 DEF ReleaseHeld
    <3>2. QED
      BY <2>1, <2>3, <2>5, <3>1
  <2>6. QED
    BY <2>4, <2>5
<1>15. ASSUME NEW t \in Threads, ReleaseUnheld(t)
       PROVE  WaitInv'
  BY <1>15 DEF ReleaseUnheld, WaitInv, TypeOK, WaitingCountsWaiters, NoLostWakeup, At
<1>16. CASE UNCHANGED vars
  BY <1>16 DEF vars, WaitInv, TypeOK, WaitingCountsWaiters, NoLostWakeup, Waiters, At
<1>17. QED
  BY <1>1, <1>2, <1>3, <1>4, <1>5, <1>6, <1>7, <1>8, <1>10, <1>11, <1>12, <1>13,
     <1>14, <1>15, <1>16 DEF Next, Enter, Wake, Stopped

(* The initial state has no waiter.                                        *)
LEMMA WaitInvInit ==
  ASSUME CMutexAssumption, Init
  PROVE  WaitInv
<1>1. Waiters = {} /\ At("asleep") = {}
  BY DEF Init, Waiters, At
<1>2. Cardinality(Waiters) = 0
  BY <1>1, FS_EmptySet
<1>3. TypeOK
  BY DEF Init, TypeOK, Calls
<1>4. QED
  BY <1>1, <1>2, <1>3 DEF Init, WaitInv, WaitingCountsWaiters, NoLostWakeup

(* Every field keeps its type whatever callers do; in particular neither   *)
(* acquired_count nor waiting ever goes below zero.                        *)
THEOREM TypeCorrect == Spec => []TypeOK
<1>1. Init => WaitInv
  BY WaitInvInit, CMutexAssumption
<1>2. WaitInv /\ [Next]_vars => WaitInv'
  BY WaitInvStep, CMutexAssumption
<1>3. WaitInv => TypeOK
  BY DEF WaitInv
<1>4. QED
  BY <1>1, <1>2, <1>3, PTL DEF Spec

(* waiting is the number of threads inside a wait, whatever callers do.    *)
THEOREM WaitingCorrect == Spec => []WaitingCountsWaiters
<1>1. Init => WaitInv
  BY WaitInvInit, CMutexAssumption
<1>2. WaitInv /\ [Next]_vars => WaitInv'
  BY WaitInvStep, CMutexAssumption
<1>3. WaitInv => WaitingCountsWaiters
  BY DEF WaitInv
<1>4. QED
  BY <1>1, <1>2, <1>3, PTL DEF Spec

(* A release never leaves sleepers behind a free mutex without a thread on *)
(* its way to it.                                                          *)
THEOREM WakeupsNotLost == Spec => []NoLostWakeup
<1>1. Init => WaitInv
  BY WaitInvInit, CMutexAssumption
<1>2. WaitInv /\ [Next]_vars => WaitInv'
  BY WaitInvStep, CMutexAssumption
<1>3. WaitInv => NoLostWakeup
  BY DEF WaitInv
<1>4. QED
  BY <1>1, <1>2, <1>3, PTL DEF Spec

-----------------------------------------------------------------------------
(* The invariant of part 2.  MutualExclusion is not inductive: it needs    *)
(* that owner names the one holder (CountIsOwners), that the owner test of *)
(* a release is not outrun (a releasing thread still holds), and that the  *)
(* memory a constructor initialises holds no acquisition.                  *)
OwnInv ==
  /\ CountIsOwners
  /\ \A t \in At("releasing") : held[t] > 0
  /\ life = "raw" => acquired_count = 0

(* A step of disciplined callers keeps OwnInv and is, for the callers, a   *)
(* step of a recursive lock or none at all.                                *)
LEMMA OwnInvStep ==
  ASSUME CMutexAssumption, Disciplined, TypeOK, OwnInv, [Next]_vars
  PROVE  OwnInv' /\ [Lock!Next]_held
<1> USE DEF fields
<1>1. ASSUME NEW t \in Threads, NEW b \in BOOLEAN, Construct(t, b)
      PROVE  OwnInv' /\ [Lock!Next]_held
  <2>1. \A u \in Threads : held[u] = 0
    BY <1>1 DEF Construct, TypeOK, OwnInv, CountIsOwners
  <2>2. OwnInv'
    BY <1>1, <2>1 DEF Construct, TypeOK, OwnInv, CountIsOwners, At
  <2>3. CASE b
    <3>1. held' = [held EXCEPT ![t] = @ + 1]
      BY <1>1, <2>1, <2>3 DEF Construct, TypeOK
    <3>2. Lock!Acquire(t)
      BY <2>1, <3>1 DEF Lock!Acquire
    <3>3. QED
      BY <2>2, <3>2 DEF Lock!Next
  <2>4. CASE ~ b
    BY <1>1, <2>2, <2>4 DEF Construct
  <2>5. QED
    BY <2>3, <2>4
<1>2. ASSUME UNCHANGED <<acquired_count, owner, held>>,
             At("releasing")' \subseteq At("releasing"),
             life' = "raw" => life = "raw"
      PROVE  OwnInv' /\ [Lock!Next]_held
  BY <1>2 DEF OwnInv, CountIsOwners
<1>3. CASE Destruct
  BY <1>2, <1>3 DEF Destruct, At
<1>4. ASSUME NEW t \in Threads, NEW c \in Calls, CallAcquire(t, c)
      PROVE  OwnInv' /\ [Lock!Next]_held
  <2>1. At("releasing")' = At("releasing")
    BY <1>4 DEF CallAcquire, TypeOK, At
  <2>2. QED
    BY <1>2, <1>4, <2>1 DEF CallAcquire
<1>5. ASSUME NEW t \in Threads, life = "ready", life' = life, pc[t] # "releasing",
             acquired_count = 0 \/ owner = t, Take(t)
      PROVE  OwnInv' /\ [Lock!Next]_held
  <2>1. \A u \in Threads \ {t} : held[u] = 0
    BY <1>5 DEF TypeOK, OwnInv, CountIsOwners
  <2>2. Lock!Acquire(t)
    BY <1>5, <2>1 DEF Take, Lock!Acquire
  <2>3. held[t] = acquired_count
    BY <1>5 DEF TypeOK, OwnInv, CountIsOwners
  <2>4. CountIsOwners'
    BY <1>5, <2>1, <2>3 DEF Take, TypeOK, CountIsOwners
  <2>5. OwnInv'
    BY <1>5, <2>1, <2>4 DEF Take, TypeOK, OwnInv, At
  <2>6. QED
    BY <2>2, <2>5 DEF Lock!Next
<1>6. ASSUME NEW t \in Threads, Enter(t)
      PROVE  OwnInv' /\ [Lock!Next]_held
  <2>1. CASE EnterFree(t)
    BY <1>5, <2>1 DEF EnterFree
  <2>2. CASE EnterBusy(t)
    <3>1. At("releasing")' = At("releasing")
      BY <2>2 DEF EnterBusy, TypeOK, At
    <3>2. QED
      BY <1>2, <2>2, <3>1 DEF EnterBusy
  <2>3. QED
    BY <1>6, <2>1, <2>2 DEF Enter
<1>7. ASSUME NEW t \in Threads, TimeOut(t) \/ ReturnTimeout(t) \/ WakeSpuriously(t)
      PROVE  OwnInv' /\ [Lock!Next]_held
  <2>1. At("releasing")' = At("releasing")
    BY <1>7 DEF TimeOut, ReturnTimeout, WakeSpuriously, TypeOK, At
  <2>2. QED
    BY <1>2, <1>7, <2>1 DEF TimeOut, ReturnTimeout, WakeSpuriously
<1>8. ASSUME NEW t \in Threads, Wake(t)
      PROVE  OwnInv' /\ [Lock!Next]_held
  <2>1. CASE WakeAndExit(t)
    BY <1>2, <2>1 DEF WakeAndExit, At
  <2>2. CASE WakeAndTake(t)
    BY <1>5, <2>2 DEF WakeAndTake
  <2>3. CASE WakeAndSleep(t)
    <3>1. At("releasing")' = At("releasing")
      BY <2>3 DEF WakeAndSleep, TypeOK, At
    <3>2. QED
      BY <1>2, <2>3, <3>1 DEF WakeAndSleep
  <2>4. QED
    BY <1>8, <2>1, <2>2, <2>3 DEF Wake
<1>9. ASSUME NEW t \in Threads, CallRelease(t)
      PROVE  OwnInv' /\ [Lock!Next]_held
  BY <1>9 DEF CallRelease, TypeOK, OwnInv, CountIsOwners, At
<1>10. ASSUME NEW t \in Threads, ReleaseHeld(t)
       PROVE  OwnInv' /\ [Lock!Next]_held
  <2>1. /\ pc[t] = "releasing"
        /\ life = "ready" /\ life' = life
        /\ owner' = owner
        /\ acquired_count' = acquired_count - 1
        /\ acquired_count \in Nat /\ acquired_count > 0
    BY <1>10 DEF ReleaseHeld, TypeOK
  <2>2. /\ held[t] > 0
        /\ owner = t
        /\ held[t] = acquired_count
        /\ \A u \in Threads \ {t} : held[u] = 0
    BY <2>1 DEF TypeOK, OwnInv, CountIsOwners, At
  <2>3. held' = [held EXCEPT ![t] = @ - 1]
    BY <1>10, <2>2 DEF ReleaseHeld, TypeOK
  <2>4. Lock!Release(t)
    BY <2>2, <2>3 DEF Lock!Release
  <2>5. At("releasing") = {t}
    BY <2>1, <2>2 DEF TypeOK, OwnInv, At
  <2>6. At("releasing")' \subseteq At("releasing") \ {t}
    BY <1>10 DEF ReleaseHeld, Signal, TypeOK, At
  <2>7. OwnInv'
    BY <2>1, <2>2, <2>3, <2>5, <2>6 DEF TypeOK, OwnInv, CountIsOwners
  <2>8. QED
    BY <2>4, <2>7 DEF Lock!Next
<1>11. ASSUME NEW t \in Threads, ReleaseUnheld(t)
       PROVE  OwnInv' /\ [Lock!Next]_held
  BY <1>2, <1>11 DEF ReleaseUnheld, At
<1>12. CASE UNCHANGED vars
  BY <1>2, <1>12 DEF vars, At
<1>13. QED
  BY <1>1, <1>3, <1>4, <1>6, <1>7, <1>8, <1>9, <1>10, <1>11, <1>12 DEF Next, Stopped

LEMMA OwnInvInit ==
  ASSUME CMutexAssumption, Init
  PROVE  OwnInv /\ Lock!Init
BY DEF Init, OwnInv, CountIsOwners, At, Lock!Init

(* acquired_count is the owner's recursive count, as the header says.      *)
THEOREM CountCorrect ==
  ASSUME Disciplined
  PROVE  Spec => []CountIsOwners
<1>1. Init => OwnInv
  BY OwnInvInit, CMutexAssumption
<1>2. TypeOK /\ OwnInv /\ [Next]_vars => OwnInv'
  BY OwnInvStep, CMutexAssumption, Disciplined
<1>3. OwnInv => CountIsOwners
  BY DEF OwnInv
<1>4. QED
  BY <1>1, <1>2, <1>3, TypeCorrect, PTL DEF Spec

(* Two threads never hold the mutex together.                              *)
THEOREM Exclusion ==
  ASSUME Disciplined
  PROVE  Spec => []MutualExclusion
<1>1. CountIsOwners => MutualExclusion
  BY DEF CountIsOwners, MutualExclusion
<1>2. QED
  BY <1>1, CountCorrect, PTL

(* The unlocked owner test of a release is still true when the count is    *)
(* decremented.                                                            *)
THEOREM OwnerTestSound ==
  ASSUME Disciplined
  PROVE  Spec => []OwnerTestStable
<1>1. Init => OwnInv
  BY OwnInvInit, CMutexAssumption
<1>2. TypeOK /\ OwnInv /\ [Next]_vars => OwnInv'
  BY OwnInvStep, CMutexAssumption, Disciplined
<1>3. OwnInv => OwnerTestStable
  BY DEF OwnInv, CountIsOwners, OwnerTestStable, At
<1>4. QED
  BY <1>1, <1>2, <1>3, TypeCorrect, PTL DEF Spec

(* For its callers the mutex is a recursive lock.                          *)
THEOREM ImplementsRecursiveLock ==
  ASSUME Disciplined
  PROVE  Spec => LockSpec
<1>1. Init => OwnInv /\ Lock!Init
  BY OwnInvInit, CMutexAssumption
<1>2. TypeOK /\ OwnInv /\ [Next]_vars => OwnInv' /\ [Lock!Next]_held
  BY OwnInvStep, CMutexAssumption, Disciplined
<1>3. QED
  BY <1>1, <1>2, TypeCorrect, PTL DEF Spec, LockSpec, Lock!Spec
-----------------------------------------------------------------------------

(* The places between the lock and the exit.                               *)
Owning == {"truncate", "write", "daemon", "exiting"}

Typed ==
  /\ created \in 0..FileMax
  /\ name \in 0..created
  /\ contents \in [Files -> Processes \cup {"empty"}]
  /\ lock \in [Files -> Processes \cup {Nobody}]
  /\ at \in [Processes -> {"out", "open", "lock"} \cup Owning]
  /\ fd \in [Processes -> 0..created]
  /\ removed \in BOOLEAN

(* A process has a file once it has opened one, and has it locked from then *)
(* on that it has locked it.                                               *)
Opened == \A p \in Processes : at[p] \in {"lock"} \cup Owning => fd[p] # NoFile

Locked == \A p \in Processes : at[p] \in Owning => lock[fd[p]] = p

OneFile == ~ removed => created <= 1 /\ name = created

Written == \A p \in Processes : at[p] = "daemon" => contents[fd[p]] = p

PidInv == Typed /\ Opened /\ Locked /\ OneFile /\ Written

-----------------------------------------------------------------------------
LEMMA PidInvInit ==
  ASSUME PidFileAssumption, PidInit
  PROVE  PidInv
<1>1. Typed
  <2>1. created = 0 /\ name = 0 /\ removed = FALSE
    BY DEF PidInit, NoFile
  <2>2. contents \in [Files -> Processes \cup {"empty"}] /\ lock \in [Files -> Processes \cup {Nobody}]
    BY DEF PidInit
  <2>3. at \in [Processes -> {"out", "open", "lock"} \cup Owning]
    BY DEF PidInit
  <2>4. fd \in [Processes -> 0..created]
    BY <2>1 DEF PidInit, NoFile
  <2>5. created \in 0..FileMax /\ name \in 0..created
    BY <2>1 DEF PidFileAssumption
  <2>6. QED
    BY <2>1, <2>2, <2>3, <2>4, <2>5 DEF Typed
<1>2. Opened /\ Locked /\ OneFile /\ Written
  BY DEF PidInit, Opened, Locked, OneFile, Written, Owning, NoFile
<1>3. QED
  BY <1>1, <1>2 DEF PidInv

(* The exit of a process frees what it had locked, and nothing else.       *)
LEMMA GoneKeeps ==
  ASSUME PidFileAssumption, PidInv, NEW p \in Processes, Gone(p),
         UNCHANGED <<created, contents, removed>>, name' = name
  PROVE  PidInv'
<1> USE DEF PidFileAssumption, PidInv, Owning, Files, NoFile
<1>1. /\ at'[p] = "out"
      /\ \A q \in Processes \ {p} : at'[q] = at[q] /\ fd'[q] = fd[q]
  BY DEF Gone, Typed
<1>2. Typed'
  BY DEF Gone, Typed
<1>3. Opened' /\ OneFile' /\ Written'
  BY <1>1 DEF Typed, Opened, OneFile, Written
<1>4. Locked'
  <2>1. SUFFICES ASSUME NEW q \in Processes, at'[q] \in Owning
                 PROVE  lock'[fd'[q]] = q
    BY DEF Locked
  <2>2. q # p /\ at[q] \in Owning /\ fd'[q] = fd[q]
    BY <1>1, <2>1
  <2>3. fd[q] \in Files /\ lock[fd[q]] = q
    BY <2>2 DEF Typed, Opened, Locked
  <2>4. QED
    BY <2>2, <2>3 DEF Gone
<1>5. QED
  BY <1>2, <1>3, <1>4

(* A step of a process keeps PidInv.                                       *)
LEMMA PidInvStep ==
  ASSUME PidFileAssumption, PidInv, [PidNext]_pidVars
  PROVE  PidInv'
<1> USE DEF PidFileAssumption, PidInv, Owning, Files, NoFile
<1>1. ASSUME NEW p \in Processes, Start(p)
      PROVE  PidInv'
  BY <1>1 DEF Start, Goes, Typed, Opened, Locked, OneFile, Written
<1>2. ASSUME NEW p \in Processes, Open(p)
      PROVE  PidInv'
  <2>1. /\ at[p] = "open" /\ at'[p] = "lock"
        /\ \A q \in Processes \ {p} : at'[q] = at[q] /\ fd'[q] = fd[q]
        /\ fd'[p] # NoFile
    BY <1>2 DEF Open, Goes, Typed
  <2>2. /\ created' \in 0..FileMax /\ created <= created' /\ name' \in 0..created'
        /\ fd' = [fd EXCEPT ![p] = name'] /\ name' # NoFile
        /\ ~ removed => created' <= 1 /\ name' = created'
    BY <1>2 DEF Open, Typed, OneFile
  <2>3. fd' \in [Processes -> 0..created']
    BY <2>2 DEF Typed
  <2>4. Typed'
    BY <1>2, <2>2, <2>3 DEF Open, Goes, Typed
  <2>5. Opened' /\ Locked' /\ OneFile' /\ Written'
    BY <1>2, <2>1, <2>2 DEF Open, Typed, Opened, Locked, OneFile, Written
  <2>6. QED
    BY <2>4, <2>5
<1>3. ASSUME NEW p \in Processes, LockFile(p)
      PROVE  PidInv'
  <2>1. CASE Locks(fd[p])
    <3>1. /\ at' = [at EXCEPT ![p] = "truncate"]
          /\ lock' = [lock EXCEPT ![fd[p]] = p]
          /\ lock[fd[p]] = Nobody
          /\ at[p] = "lock" /\ fd[p] \in Files
      BY <1>3, <2>1 DEF LockFile, Goes, Locks, Free, Typed, Opened
    <3>2. Typed' /\ Opened' /\ OneFile' /\ Written'
      BY <1>3, <2>1, <3>1 DEF LockFile, Typed, Opened, OneFile, Written
    <3>3. Locked'
      BY <1>3, <2>1, <3>1 DEF LockFile, Typed, Opened, Locked
    <3>4. QED
      BY <3>2, <3>3
  <2>2. CASE ~ Locks(fd[p])
    BY <1>3, <2>2, GoneKeeps DEF LockFile
  <2>3. QED
    BY <2>1, <2>2
<1>4. ASSUME NEW p \in Processes, Truncate(p) \/ Write(p)
      PROVE  PidInv'
  <2>1. /\ at[p] \in {"truncate", "write"}
        /\ at'[p] \in {"write", "daemon"}
        /\ at'[p] = "daemon" => contents'[fd[p]] = p
        /\ \A q \in Processes \ {p} : at'[q] = at[q]
        /\ \A f \in Files \ {fd[p]} : contents'[f] = contents[f]
    BY <1>4 DEF Truncate, Write, Goes, Typed, Opened
  <2>2. Typed'
    <3>1. CASE Truncate(p)
      BY <3>1 DEF Truncate, Goes, Typed
    <3>2. CASE Write(p)
      BY <3>2 DEF Write, Goes, Typed
    <3>3. QED
      BY <1>4, <3>1, <3>2
  <2>3. Opened' /\ Locked' /\ OneFile'
    BY <1>4, <2>1 DEF Truncate, Write, Typed, Opened, Locked, OneFile
  <2>4. Written'
    <3>1. SUFFICES ASSUME NEW q \in Processes, at'[q] = "daemon", q # p
                   PROVE  contents'[fd'[q]] = q
      BY <1>4, <2>1 DEF Truncate, Write, Written
    <3>2. at[q] = "daemon" /\ fd[q] \in Files /\ fd[q] # fd[p]
      BY <2>1, <3>1 DEF Typed, Opened, Locked
    <3>3. QED
      BY <1>4, <2>1, <3>1, <3>2 DEF Truncate, Write, Written
  <2>5. QED
    BY <2>2, <2>3, <2>4
<1>5. ASSUME NEW p \in Processes, daemon_exit_handler(p)
      PROVE  PidInv'
  BY <1>5 DEF daemon_exit_handler, Goes, Typed, Opened, Locked, OneFile, Written
<1>6. ASSUME NEW p \in Processes, Fails(p) \/ Exit(p) \/ Killed(p)
      PROVE  PidInv'
  BY <1>6, GoneKeeps DEF Fails, Exit, Killed
<1>7. CASE UNCHANGED pidVars
  BY <1>7 DEF pidVars, Typed, Opened, Locked, OneFile, Written
<1>8. QED
  BY <1>1, <1>2, <1>3, <1>4, <1>5, <1>6, <1>7 DEF PidNext, create_pid_file

(* Two daemons have locked different files; of these one is without a name, *)
(* so it was removed.                                                      *)
LEMMA PidInvSuffices ==
  ASSUME PidFileAssumption, PidInv
  PROVE  OneDaemon
<1> USE DEF PidFileAssumption, PidInv, Daemons, Owning, NoFile
<1>1. ASSUME NEW p \in Daemons, NEW q \in Daemons, p # q
      PROVE  removed /\ fd[p] # fd[q]
  <2>1. fd[p] # fd[q]
    BY <1>1 DEF Locked
  <2>2. fd[p] \in 1..created /\ fd[q] \in 1..created
    BY <1>1 DEF Typed, Opened
  <2>3. QED
    BY <2>1, <2>2 DEF Typed, OneFile
<1>2. ASSUME NEW p \in Daemons
      PROVE  contents[fd[p]] = p /\ (name = fd[p] \/ removed)
  BY <1>2 DEF Typed, Opened, OneFile, Written
<1>3. QED
  BY <1>1, <1>2 DEF OneDaemon

(* daemon.c: whatever processes start, fail, are killed or terminated, and  *)
(* in whatever order, one daemon at a time has the named pid file, and that *)
(* file holds its pid.                                                     *)
THEOREM OneDaemonAlways ==
  ASSUME PidFileAssumption
  PROVE  PidSpec => []OneDaemon
<1>1. PidInit => PidInv
  BY PidInvInit
<1>2. PidInv /\ [PidNext]_pidVars => PidInv'
  BY PidInvStep
<1>3. PidInv => OneDaemon
  BY PidInvSuffices
<1>4. QED
  BY <1>1, <1>2, <1>3, PTL DEF PidSpec
=============================================================================
