-------------------------- MODULE SyncObjectProofs -------------------------
(***************************************************************************)
(* Theorems about SyncObject for every set of threads, every kind of       *)
(* object and every choice of the calls the threads make: the mutex        *)
(* excludes, no wakeup is lost, and the pthread code implements the        *)
(* atomic object.                                                          *)
(***************************************************************************)
EXTENDS SyncObject, FiniteSetTheorems, TLAPS

Waits == {"wait", "timed_wait"}

(* What each thread may be doing at each place: only a wait sleeps, only a *)
(* timed wait goes on without a test, and only it may have expired.        *)
CallsConsistent ==
    \A t \in Threads :
        /\ op[t] \in Calls[kind][t] \cup {"none"}
        /\ pc[t] \in {"blocked", "relock"} => op[t] \in Waits
        /\ pc[t] = "woken" => op[t] = "timed_wait"
        /\ res[t] = "task_working" =>
              op[t] = "timed_wait" /\ pc[t] \in {"relock", "woken", "unlock"}

\* The inductive invariant behind the mutex and the refinement.
IInv == TypeOK /\ MutexHeld /\ CallsConsistent

-----------------------------------------------------------------------------
(* What the assumption says of the calls on each kind of object.           *)
LEMMA CallFacts ==
    ASSUME TypeOK, NEW t \in Threads
    PROVE  /\ Calls[kind][t] \subseteq Operations
           /\ kind = "semaphore" => Calls[kind][t] \subseteq {"post", "wait"}
           /\ kind # "semaphore" => "post" \notin Calls[kind][t]
           /\ NoThread \notin Threads
<1> USE SyncAssumption
<1>1. kind \in Kinds
  BY DEF TypeOK
<1>2. Calls[kind] \in [Threads -> SUBSET Operations]
  BY <1>1
<1> QED
  BY <1>1, <1>2 DEF Kinds

(* The first state: nobody called anything.                                *)
LEMMA InitHolds == Init => IInv
<1> SUFFICES ASSUME Init PROVE IInv
  OBVIOUS
<1>1. TypeOK
  BY SyncAssumption DEF Init, TypeOK, Kinds
<1>2. MutexHeld
  BY SyncAssumption DEF Init, MutexHeld, Holding
<1>3. CallsConsistent
  BY DEF Init, CallsConsistent
<1> QED
  BY <1>1, <1>2, <1>3 DEF IInv

(* A wait that finds something, or a timed wait that was woken, leaves a   *)
(* value of the object's type.                                             *)
LEMMA TakenTyped ==
    ASSUME TypeOK, kind = "semaphore" => value # 0
    PROVE  Taken \in (IF kind = "semaphore" THEN Nat ELSE {0, 1})
<1>1. CASE kind = "automatic"
  BY <1>1 DEF Taken
<1>2. CASE kind = "manual"
  BY <1>2 DEF Taken, TypeOK
<1>3. CASE kind = "semaphore"
  BY <1>3 DEF Taken, TypeOK
<1> QED
  BY <1>1, <1>2, <1>3 DEF TypeOK, Kinds

-----------------------------------------------------------------------------
(* Signal and Post: the value becomes v, the thread goes on to unlock, and *)
(* some sleepers to take the mutex.                                        *)
LEMMA RaiseStep ==
    ASSUME IInv, NEW t \in Threads, op[t] \in {"signal", "post"},
           NEW v \in (IF kind = "semaphore" THEN Nat ELSE {0, 1}),
           Raise(t, v), UNCHANGED kind
    PROVE  IInv'
<1> USE DEF IInv
<1>1. PICK w \in SUBSET Blocked :
        pc' = [u \in Threads |->
                 IF u = t THEN "unlock" ELSE IF u \in w THEN "relock" ELSE pc[u]]
  BY DEF Raise
<1>2. pc[t] = "body" /\ value' = v /\ UNCHANGED <<owner, op, res, kind>>
  BY DEF Raise
<1>3. \A u \in w : u \in Threads /\ pc[u] = "blocked"
  BY DEF Blocked
<1>4. TypeOK'
  BY <1>1, <1>2 DEF TypeOK, Holding
<1>5. MutexHeld'
  BY <1>1, <1>2, <1>3 DEF MutexHeld, Holding, TypeOK
<1>6. CallsConsistent'
  BY <1>1, <1>2, <1>3 DEF CallsConsistent, Waits, TypeOK
<1> QED
  BY <1>4, <1>5, <1>6

(* Every action preserves the invariant.                                   *)
LEMMA StepPreserves == IInv /\ [Next]_vars => IInv'
<1> SUFFICES ASSUME IInv, [Next]_vars PROVE IInv'
  OBVIOUS
<1> USE DEF IInv
<1>1. ASSUME NEW t \in Threads, Call(t), UNCHANGED kind PROVE IInv'
  <2>1. PICK o \in Calls[kind][t] : op' = [op EXCEPT ![t] = o]
    BY <1>1 DEF Call
  <2>2. o \in Operations
    BY <2>1, CallFacts
  <2>3. TypeOK'
    BY <1>1, <2>1, <2>2 DEF Call, TypeOK
  <2>4. MutexHeld'
    BY <1>1 DEF Call, MutexHeld, Holding, TypeOK
  <2>5. CallsConsistent'
    BY <1>1, <2>1 DEF Call, CallsConsistent, TypeOK, Waits
  <2> QED
    BY <2>3, <2>4, <2>5
<1>2. ASSUME NEW t \in Threads, Lock(t), UNCHANGED kind PROVE IInv'
  <2>1. TypeOK'
    BY <1>2 DEF Lock, TypeOK, Holding
  <2>2. MutexHeld'
    BY <1>2, SyncAssumption DEF Lock, MutexHeld, Holding, TypeOK
  <2>3. CallsConsistent'
    BY <1>2 DEF Lock, CallsConsistent, TypeOK
  <2> QED
    BY <2>1, <2>2, <2>3
<1>3. ASSUME NEW t \in Threads, Signal(t), UNCHANGED kind PROVE IInv'
  <2>1. kind # "semaphore"
    BY <1>3, CallFacts DEF Signal, CallsConsistent
  <2> QED
    BY <1>3, <2>1, RaiseStep DEF Signal
<1>4. ASSUME NEW t \in Threads, Post(t), UNCHANGED kind PROVE IInv'
  <2>1. kind = "semaphore"
    BY <1>4, CallFacts DEF Post, CallsConsistent
  <2>2. value + 1 \in Nat
    BY <2>1 DEF TypeOK
  <2> QED
    BY <1>4, <2>1, <2>2, RaiseStep DEF Post
<1>5. ASSUME NEW t \in Threads, Reset(t), UNCHANGED kind PROVE IInv'
  <2>1. TypeOK'
    BY <1>5 DEF Reset, TypeOK, Holding
  <2>2. MutexHeld'
    BY <1>5 DEF Reset, MutexHeld, Holding, TypeOK
  <2>3. CallsConsistent'
    BY <1>5 DEF Reset, CallsConsistent, TypeOK
  <2> QED
    BY <2>1, <2>2, <2>3
<1>6. ASSUME NEW t \in Threads, Test(t), UNCHANGED kind PROVE IInv'
  <2>1. CASE value # 0
    <3>1. pc' = [pc EXCEPT ![t] = "unlock"] /\ value' = Taken
          /\ UNCHANGED <<owner, op, res, kind>> /\ pc[t] = "body"
      BY <1>6, <2>1 DEF Test
    <3>2. TypeOK'
      BY <2>1, <3>1, TakenTyped DEF TypeOK, Holding
    <3>3. MutexHeld'
      BY <3>1 DEF MutexHeld, Holding, TypeOK
    <3>4. CallsConsistent'
      BY <3>1 DEF CallsConsistent, TypeOK
    <3> QED
      BY <3>2, <3>3, <3>4
  <2>2. CASE value = 0
    <3>1. pc' = [pc EXCEPT ![t] = "blocked"] /\ owner' = NoThread
          /\ UNCHANGED <<value, op, res, kind>>
          /\ pc[t] = "body" /\ op[t] \in Waits
      BY <1>6, <2>2 DEF Test, Waits
    <3>2. TypeOK'
      BY <3>1 DEF TypeOK
    <3>3. MutexHeld'
      BY <3>1, SyncAssumption DEF MutexHeld, Holding, TypeOK
    <3>4. CallsConsistent'
      BY <3>1 DEF CallsConsistent, TypeOK
    <3> QED
      BY <3>2, <3>3, <3>4
  <2> QED
    BY <2>1, <2>2
<1>7. ASSUME NEW t \in Threads, WakeByChance(t) \/ Expire(t), UNCHANGED kind
      PROVE  IInv'
  <2>1. TypeOK'
    BY <1>7 DEF WakeByChance, Expire, TypeOK
  <2>2. MutexHeld'
    BY <1>7 DEF WakeByChance, Expire, MutexHeld, Holding, TypeOK
  <2>3. CallsConsistent'
    BY <1>7 DEF WakeByChance, Expire, CallsConsistent, TypeOK
  <2> QED
    BY <2>1, <2>2, <2>3
<1>8. ASSUME NEW t \in Threads, Relock(t), UNCHANGED kind PROVE IInv'
  <2>1. TypeOK'
    BY <1>8 DEF Relock, TypeOK, Holding
  <2>2. MutexHeld'
    BY <1>8, SyncAssumption DEF Relock, MutexHeld, Holding, TypeOK
  <2>3. CallsConsistent'
    BY <1>8 DEF Relock, CallsConsistent, TypeOK, Waits
  <2> QED
    BY <2>1, <2>2, <2>3
<1>9. ASSUME NEW t \in Threads, Woken(t), UNCHANGED kind PROVE IInv'
  <2>1. kind # "semaphore"
    BY <1>9, CallFacts DEF Woken, CallsConsistent
  <2>2. TypeOK'
    BY <1>9, <2>1, TakenTyped DEF Woken, TypeOK, Holding
  <2>3. MutexHeld'
    BY <1>9 DEF Woken, MutexHeld, Holding, TypeOK
  <2>4. CallsConsistent'
    BY <1>9 DEF Woken, CallsConsistent, TypeOK
  <2> QED
    BY <2>2, <2>3, <2>4
<1>10. ASSUME NEW t \in Threads, Unlock(t), UNCHANGED kind PROVE IInv'
  <2>1. TypeOK'
    BY <1>10 DEF Unlock, TypeOK
  <2>2. MutexHeld'
    BY <1>10, SyncAssumption DEF Unlock, MutexHeld, Holding, TypeOK
  <2>3. CallsConsistent'
    BY <1>10 DEF Unlock, CallsConsistent, TypeOK
  <2> QED
    BY <2>1, <2>2, <2>3
<1>11. CASE UNCHANGED vars
  BY <1>11 DEF vars, TypeOK, MutexHeld, CallsConsistent
<1> QED
  BY <1>1, <1>2, <1>3, <1>4, <1>5, <1>6, <1>7, <1>8, <1>9, <1>10, <1>11
     DEF Next, Step

(* The mutex excludes the bodies of the operations.                        *)
THEOREM SyncMutexHeld == Spec => []MutexHeld
<1>1. IInv => MutexHeld
  BY DEF IInv
<1> QED
  BY <1>1, InitHolds, StepPreserves, PTL DEF Spec

(* Every variable keeps its type: in particular m_count of a semaphore,    *)
(* which Wait decrements, is never negative.                               *)
THEOREM SyncTypeCorrect == Spec => []TypeOK
<1>1. IInv => TypeOK
  BY DEF IInv
<1> QED
  BY <1>1, InitHolds, StepPreserves, PTL DEF Spec

-----------------------------------------------------------------------------
(* No wakeup is lost.  Signal and Post wake somebody only at the value 0.  *)
(* For an automatic event that is enough because the thread they wake, or  *)
(* one that is awake already, sets the value to 0 before it returns.  A    *)
(* manual event and a semaphore with one waiting thread keep nobody asleep *)
(* while the value is not 0.                                               *)

OnItsWay(t) == pc[t] \in {"relock", "woken"} \/ (pc[t] = "body" /\ op[t] \in Waits)

Awake == kind # "automatic" /\ value # 0 => Blocked = {}

\* One thread waits on the semaphore: the delivery thread of DecodePipeline.
OneWaits ==
    \A t, u \in Threads :
        "wait" \in Calls["semaphore"][t] /\ "wait" \in Calls["semaphore"][u] => t = u

(* A step that neither sets the value nor lets a thread fall asleep, and   *)
(* keeps who is on its way, loses no wakeup.                               *)
LEMMA NobodyFallsAsleep ==
    ASSUME Awake, NoLostWakeup, UNCHANGED kind,
           value' = value, Blocked' \subseteq Blocked,
           \A u \in Threads : OnItsWay(u) => OnItsWay(u)'
    PROVE  Awake' /\ NoLostWakeup'
<1>1. Awake'
  BY DEF Awake
<1>2. ASSUME value # 0, Blocked # {} PROVE \E u \in Threads : OnItsWay(u)
  BY <1>2 DEF NoLostWakeup, OnItsWay, Waits
<1>3. value' # 0 /\ Blocked' # {} => \E u \in Threads : OnItsWay(u)'
  BY <1>2
<1>4. NoLostWakeup'
  BY <1>3 DEF NoLostWakeup, OnItsWay, Waits
<1> QED
  BY <1>1, <1>4

(* A step after which there is nothing to take loses no wakeup.            *)
LEMMA NothingToTake == value' = 0 => Awake' /\ NoLostWakeup'
  BY DEF Awake, NoLostWakeup

(* The threads that sleep on a semaphore are at most one.                  *)
LEMMA AtMostOneSleeps ==
    ASSUME IInv, OneWaits, kind = "semaphore", NEW t \in Blocked, NEW u \in Blocked
    PROVE  t = u
<1>1. \A x \in Blocked : x \in Threads /\ "wait" \in Calls["semaphore"][x]
  BY CallFacts DEF Blocked, IInv, CallsConsistent, Waits
<1> QED
  BY <1>1 DEF OneWaits

(* Signal and Post: nobody sleeps on, or the thread they wake is on its    *)
(* way.                                                                    *)
LEMMA RaiseLosesNone ==
    ASSUME IInv, OneWaits, Awake, NoLostWakeup, UNCHANGED kind,
           NEW t \in Threads, op[t] \in {"signal", "post"}, NEW v, Raise(t, v)
    PROVE  Awake' /\ NoLostWakeup'
<1>1. PICK w \in SUBSET Blocked :
        /\ Wakes(w)
        /\ pc' = [u \in Threads |->
                    IF u = t THEN "unlock" ELSE IF u \in w THEN "relock" ELSE pc[u]]
  BY DEF Raise
<1>2. Blocked' = Blocked \ w
  BY <1>1 DEF Blocked, Raise
<1>3. \A u \in Threads : OnItsWay(u) => OnItsWay(u)'
  BY <1>1 DEF OnItsWay, Raise, Waits, Blocked
<1>4. CASE value # 0
  <2>1. w = {}
    BY <1>1, <1>4 DEF Wakes
  <2>2. Awake'
    BY <1>2, <1>4 DEF Awake
  <2>3. Blocked # {} => \E u \in Threads : OnItsWay(u)
    BY <1>4 DEF NoLostWakeup, OnItsWay, Waits
  <2>4. Blocked' # {} => \E u \in Threads : OnItsWay(u)'
    BY <1>2, <1>3, <2>3
  <2>5. NoLostWakeup'
    BY <2>4 DEF NoLostWakeup, OnItsWay, Waits
  <2> QED
    BY <2>2, <2>5
<1>5. CASE value = 0 /\ Blocked = {}
  BY <1>2, <1>5 DEF Awake, NoLostWakeup
<1>6. CASE value = 0 /\ Blocked # {} /\ kind = "manual"
  <2>1. Blocked' = {}
    BY <1>1, <1>2, <1>6 DEF Wakes
  <2> QED
    BY <2>1 DEF Awake, NoLostWakeup
<1>7. CASE value = 0 /\ Blocked # {} /\ kind # "manual"
  <2>1. w # {}
    BY <1>1, <1>7, FS_EmptySet DEF Wakes
  <2>2. PICK x \in w : x \in Blocked
    BY <2>1
  <2>3. OnItsWay(x)' /\ x \in Threads
    BY <1>1, <2>2 DEF OnItsWay, Blocked, Raise
  <2>4. NoLostWakeup'
    BY <2>3 DEF NoLostWakeup, OnItsWay, Waits
  <2>5. ASSUME kind = "semaphore" PROVE Blocked' = {}
    BY <1>2, <2>2, <2>5, AtMostOneSleeps
  <2>6. Awake'
    BY <1>7, <2>5 DEF Awake, IInv, TypeOK, Kinds
  <2> QED
    BY <2>4, <2>6
<1> QED
  BY <1>4, <1>5, <1>6, <1>7

(* The same of every step.                                                 *)
LEMMA StepLosesNone ==
    ASSUME IInv, OneWaits, Awake, NoLostWakeup, [Next]_vars
    PROVE  Awake' /\ NoLostWakeup'
<1> USE DEF IInv
<1>1. ASSUME NEW t \in Threads, Call(t) \/ Lock(t) \/ Unlock(t) \/ Relock(t)
                                \/ WakeByChance(t) \/ Expire(t),
             UNCHANGED kind
      PROVE  Awake' /\ NoLostWakeup'
  <2>1. value' = value
    BY <1>1 DEF Call, Lock, Unlock, Relock, WakeByChance, Expire
  <2>2. Blocked' \subseteq Blocked
    BY <1>1 DEF Call, Lock, Unlock, Relock, WakeByChance, Expire, Blocked, TypeOK
  <2>3. \A u \in Threads : OnItsWay(u) => OnItsWay(u)'
    BY <1>1 DEF Call, Lock, Unlock, Relock, WakeByChance, Expire, OnItsWay,
                Waits, TypeOK, CallsConsistent
  <2> QED
    BY <1>1, <2>1, <2>2, <2>3, NobodyFallsAsleep
<1>2. ASSUME NEW t \in Threads, Signal(t) \/ Post(t), UNCHANGED kind
      PROVE  Awake' /\ NoLostWakeup'
  BY <1>2, RaiseLosesNone DEF Signal, Post
<1>3. ASSUME NEW t \in Threads, Reset(t) PROVE Awake' /\ NoLostWakeup'
  BY <1>3, NothingToTake DEF Reset
<1>4. ASSUME NEW t \in Threads, Test(t) \/ Woken(t), UNCHANGED kind
      PROVE  Awake' /\ NoLostWakeup'
  <2>1. CASE Test(t) /\ value = 0
    BY <2>1, NothingToTake DEF Test
  <2>2. CASE kind = "automatic" /\ ~(Test(t) /\ value = 0)
    BY <1>4, <2>2, NothingToTake DEF Test, Woken, Taken
  <2>3. CASE kind # "automatic" /\ ~(Test(t) /\ value = 0)
    <3>1. Blocked' = Blocked
      BY <1>4, <2>3 DEF Test, Woken, Blocked, TypeOK
    <3>2. value' # 0 => value # 0
      <4>1. Woken(t) => kind # "semaphore"
        BY CallFacts DEF Woken, CallsConsistent
      <4> QED
        BY <1>4, <2>3, <4>1 DEF Test, Woken, Taken, TypeOK, Kinds
    <3>3. value' # 0 => Blocked' = {}
      BY <2>3, <3>1, <3>2 DEF Awake
    <3> QED
      BY <3>3 DEF Awake, NoLostWakeup
  <2> QED
    BY <2>1, <2>2, <2>3
<1>5. CASE UNCHANGED vars
  BY <1>5 DEF vars, Awake, NoLostWakeup, Blocked
<1> QED
  BY <1>1, <1>2, <1>3, <1>4, <1>5 DEF Next, Step

(* While there is something to take and a thread sleeps, another thread is *)
(* on its way to look: no wakeup of Signal or Post is lost.                *)
THEOREM SyncNoLostWakeup ==
    ASSUME OneWaits
    PROVE  Spec => []NoLostWakeup
<1>1. Init => Awake /\ NoLostWakeup
  BY DEF Init, Awake, NoLostWakeup, Blocked
<1>2. IInv /\ Awake /\ NoLostWakeup /\ [Next]_vars => Awake' /\ NoLostWakeup'
  BY StepLosesNone
<1> QED
  BY <1>1, <1>2, InitHolds, StepPreserves, PTL DEF Spec

-----------------------------------------------------------------------------
(* The pthread code implements the atomic object.                          *)

(* What a caller sees of a thread that moves to the place p.               *)
LEMMA PhaseSteps ==
    ASSUME TypeOK, NEW t \in Threads, NEW p, pc' = [pc EXCEPT ![t] = p]
    PROVE  Phase' = [Phase EXCEPT ![t] = CASE p = "idle" -> "idle"
                                           [] p = "unlock" -> "done"
                                           [] OTHER -> "called"]
  BY DEF Phase, TypeOK

(* The initial states are initial states of the atomic object.             *)
LEMMA AbsInit == Init => Abs!Init
<1> SUFFICES ASSUME Init PROVE Abs!Init
  OBVIOUS
<1>1. Phase = [t \in Threads |-> "idle"] /\ Status = [t \in Threads |-> "none"]
  BY DEF Init, Phase, Status
<1> QED
  BY <1>1 DEF Init, Abs!Init

(* A step that ends an operation is its effect on the atomic object.       *)
LEMMA EffectStep ==
    ASSUME IInv, NEW t \in Threads, pc[t] \in {"body", "woken"},
           UNCHANGED <<op, res>>, NEW w \in SUBSET Blocked,
           pc' = [u \in Threads |->
                    IF u = t THEN "unlock" ELSE IF u \in w THEN "relock" ELSE pc[u]]
    PROVE  Abs!Effect(t, value', res[t])
<1>1. \A u \in w : pc[u] = "blocked"
  BY DEF Blocked
<1>2. Phase[t] = "called" /\ Phase' = [Phase EXCEPT ![t] = "done"]
  BY <1>1 DEF Phase, IInv, TypeOK
<1>3. Status' = [Status EXCEPT ![t] = res[t]]
  BY <1>1 DEF Status, IInv, TypeOK
<1> QED
  BY <1>2, <1>3 DEF Abs!Effect

(* Each step is a step of the atomic object, or one that it does not see.  *)
LEMMA AbsStep == IInv /\ [Next]_vars => [Abs!Next]_(Abs!avars)
<1> SUFFICES ASSUME IInv, [Next]_vars PROVE [Abs!Next]_(Abs!avars)
  OBVIOUS
<1> USE DEF IInv
<1>1. ASSUME NEW t \in Threads, Call(t), UNCHANGED kind PROVE Abs!Next
  <2>1. Phase[t] = "idle" /\ Phase' = [Phase EXCEPT ![t] = "called"]
    BY <1>1 DEF Call, Phase, TypeOK
  <2>2. UNCHANGED Status
    BY <1>1 DEF Call, Status, TypeOK
  <2>3. Abs!Call(t)
    BY <1>1, <2>1, <2>2 DEF Call, Abs!Call
  <2> QED
    BY <1>1, <2>3 DEF Abs!Next
<1>2. ASSUME NEW t \in Threads, Lock(t) \/ Relock(t) \/ WakeByChance(t) \/ Expire(t),
             UNCHANGED kind
      PROVE  UNCHANGED Abs!avars
  <2>1. UNCHANGED <<Phase, Status>>
    BY <1>2 DEF Lock, Relock, WakeByChance, Expire, Phase, Status, TypeOK
  <2> QED
    BY <1>2, <2>1 DEF Lock, Relock, WakeByChance, Expire, Abs!avars
<1>3. ASSUME NEW t \in Threads, Signal(t) \/ Post(t), UNCHANGED kind PROVE Abs!Next
  <2>1. Abs!Effect(t, value', res[t])
    BY <1>3, EffectStep DEF Signal, Post, Raise
  <2>2. res[t] = "none"
    BY <1>3 DEF Signal, Post, TypeOK, CallsConsistent
  <2>3. Abs!Signal(t) \/ Abs!Post(t)
    BY <1>3, <2>1, <2>2 DEF Signal, Post, Raise, Abs!Signal, Abs!Post
  <2> QED
    BY <1>3, <2>3 DEF Abs!Next
<1>4. ASSUME NEW t \in Threads, Reset(t), UNCHANGED kind PROVE Abs!Next
  <2>1. Abs!Effect(t, value', res[t])
    BY <1>4, EffectStep, {} \in SUBSET Blocked DEF Reset, TypeOK
  <2>2. Abs!Reset(t)
    BY <1>4, <2>1 DEF Reset, TypeOK, CallsConsistent, Abs!Reset
  <2> QED
    BY <1>4, <2>2 DEF Abs!Next
<1>5. ASSUME NEW t \in Threads, Test(t), UNCHANGED kind
      PROVE  Abs!Next \/ UNCHANGED Abs!avars
  <2>1. CASE value = 0
    <3>1. UNCHANGED <<Phase, Status>>
      BY <1>5, <2>1 DEF Test, Phase, Status, TypeOK
    <3> QED
      BY <1>5, <2>1, <3>1 DEF Test, Abs!avars
  <2>2. CASE value # 0
    <3>1. Abs!Effect(t, Taken, "none")
      <4>1. Abs!Effect(t, value', res[t])
        BY <1>5, <2>2, EffectStep, {} \in SUBSET Blocked DEF Test, TypeOK
      <4> QED
        BY <1>5, <2>2, <4>1 DEF Test, TypeOK, CallsConsistent
    <3>2. Taken = Abs!Taken
      BY DEF Taken, Abs!Taken
    <3>3. value > 0
      BY <2>2 DEF TypeOK
    <3>4. Abs!Wait(t) \/ Abs!TimedWait(t)
      BY <1>5, <3>1, <3>2, <3>3 DEF Test, Abs!Wait, Abs!TimedWait
    <3> QED
      BY <1>5, <3>4 DEF Abs!Next
  <2> QED
    BY <2>1, <2>2
<1>6. ASSUME NEW t \in Threads, Woken(t), UNCHANGED kind PROVE Abs!Next
  <2>1. Abs!Effect(t, value', res[t])
    BY <1>6, EffectStep, {} \in SUBSET Blocked DEF Woken, TypeOK
  <2>2. value' = Abs!Taken
    BY <1>6 DEF Woken, Taken, Abs!Taken
  <2>3. res[t] \in {"none", "task_working"} /\ op[t] = "timed_wait"
    BY <1>6 DEF Woken, TypeOK, CallsConsistent
  <2>4. Abs!TimedWait(t)
    BY <2>1, <2>2, <2>3 DEF Abs!TimedWait
  <2> QED
    BY <1>6, <2>4 DEF Abs!Next
<1>7. ASSUME NEW t \in Threads, Unlock(t), UNCHANGED kind PROVE Abs!Next
  <2>1. Phase[t] = "done" /\ Phase' = [Phase EXCEPT ![t] = "idle"]
    BY <1>7 DEF Unlock, Phase, TypeOK
  <2>2. Status' = [Status EXCEPT ![t] = "none"]
    BY <1>7 DEF Unlock, Status, TypeOK
  <2>3. Abs!Return(t)
    BY <1>7, <2>1, <2>2 DEF Unlock, Abs!Return
  <2> QED
    BY <1>7, <2>3 DEF Abs!Next
<1>8. CASE UNCHANGED vars
  BY <1>8 DEF vars, Abs!avars, Phase, Status
<1> QED
  BY <1>1, <1>2, <1>3, <1>4, <1>5, <1>6, <1>7, <1>8 DEF Next, Step

(* Each call of an event or a semaphore takes effect at one moment between *)
(* its call and its return: the pthread code refines the atomic object.    *)
THEOREM SyncImplementsAbstract == Spec => ImplementsAbstract
  BY AbsInit, AbsStep, InitHolds, StepPreserves, PTL
     DEF Spec, ImplementsAbstract, Abs!Spec

=============================================================================
