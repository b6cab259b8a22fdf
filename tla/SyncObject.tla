---------------------------- MODULE SyncObject -----------------------------
(***************************************************************************)
(* MSDKEvent and MSDKSemaphore of sample_common/src/vm/thread_linux.cpp:   *)
(* a flag or a count guarded by a pthread mutex, with a condition variable *)
(* for the threads that wait.  The two classes repeat one construction, so *)
(* one module has them both; kind says which object it is.                 *)
(*                                                                         *)
(* Threads call the operations in any order.  The pthread calls succeed;   *)
(* pthread_cond_wait may return by chance and pthread_cond_timedwait may   *)
(* also return with ETIMEDOUT, and both take the mutex again first.        *)
(***************************************************************************)
EXTENDS Integers, FiniteSets

CONSTANTS
    Threads,
    NoThread,
    Calls,          \* the operations each thread may call on each kind
    InitialCount,   \* of a semaphore
    MaxCount        \* a bound: nobody posts when the count is this high

Kinds == {"automatic", "manual", "semaphore"}    \* m_manual, or a semaphore
Operations == {"signal", "post", "reset", "wait", "timed_wait"}

ASSUME SyncAssumption ==
    /\ NoThread \notin Threads
    /\ Calls \in [Kinds -> [Threads -> SUBSET Operations]]
    /\ \A t \in Threads : /\ Calls["semaphore"][t] \subseteq {"post", "wait"}
                          /\ "post" \notin Calls["automatic"][t]
                          /\ "post" \notin Calls["manual"][t]
    /\ InitialCount \in Nat /\ MaxCount \in Nat

VARIABLES
    kind,
    value,     \* m_state of an event (0 or 1), m_count of a semaphore
    owner,     \* the thread that has m_mutex
    pc,        \* where each thread is
    op, res    \* its operation, and the status that will be returned

vars == <<kind, value, owner, pc, op, res>>

Init ==
    /\ \/ kind \in {"automatic", "manual"} /\ value = 0
       \/ kind = "semaphore" /\ value = InitialCount
    /\ owner = NoThread /\ pc = [t \in Threads |-> "idle"]
    /\ op = [t \in Threads |-> "none"] /\ res = [t \in Threads |-> "none"]

Blocked == {t \in Threads : pc[t] = "blocked"}

\* A mutant: the signal of an automatic event is left for the next wait.
TakenNever == IF kind = "semaphore" THEN value - 1 ELSE value

\* What a wait that succeeds leaves: if (!m_manual) m_state = false, or
\* --m_count.
Taken == CASE kind = "automatic" -> 0
           [] kind = "manual" -> value
           [] kind = "semaphore" -> value - 1

Call(t) ==
    /\ pc[t] = "idle" /\ pc' = [pc EXCEPT ![t] = "lock"]
    /\ \E o \in Calls[kind][t] : /\ o = "post" => value < MaxCount
                                 /\ op' = [op EXCEPT ![t] = o]
    /\ UNCHANGED <<value, owner, res>>

Lock(t) ==
    /\ pc[t] = "lock" /\ owner = NoThread
    /\ owner' = t /\ pc' = [pc EXCEPT ![t] = "body"]
    /\ UNCHANGED <<value, op, res>>

\* A mutant: the condition variable is signalled for a value that was not 0.
WakesLate(w) ==
    IF value = 0 THEN w = {}
    ELSE IF kind = "manual" THEN w = Blocked
    ELSE Cardinality(w) = (IF Blocked = {} THEN 0 ELSE 1)

\* The threads that wake up: only a call that finds the value at 0 wakes
\* anybody, all of the sleepers (pthread_cond_broadcast) or one of them.
Wakes(w) ==
    IF value # 0 THEN w = {}
    ELSE IF kind = "manual" THEN w = Blocked
    ELSE Cardinality(w) = (IF Blocked = {} THEN 0 ELSE 1)

Raise(t, v) ==
    /\ pc[t] = "body" /\ value' = v
    /\ \E w \in SUBSET Blocked :
         /\ Wakes(w)
         /\ pc' = [u \in Threads |->
                     IF u = t THEN "unlock" ELSE IF u \in w THEN "relock" ELSE pc[u]]
    /\ UNCHANGED <<owner, op, res>>

Signal(t) == op[t] = "signal" /\ Raise(t, 1)

Post(t) == op[t] = "post" /\ Raise(t, value + 1)

Reset(t) ==
    /\ pc[t] = "body" /\ op[t] = "reset"
    /\ value' = 0 /\ pc' = [pc EXCEPT ![t] = "unlock"]
    /\ UNCHANGED <<owner, op, res>>

\* A mutant: the thread goes to sleep without giving the mutex back.
TestKeepingMutex(t) ==
    /\ pc[t] = "body" /\ op[t] \in {"wait", "timed_wait"}
    /\ IF value # 0 THEN pc' = [pc EXCEPT ![t] = "unlock"] /\ value' = Taken
       ELSE pc' = [pc EXCEPT ![t] = "blocked"] /\ UNCHANGED value
    /\ UNCHANGED <<owner, op, res>>

\* Wait and TimedWait test the value with the mutex held: take it, or sleep.
Test(t) ==
    /\ pc[t] = "body" /\ op[t] \in {"wait", "timed_wait"}
    /\ IF value # 0
       THEN pc' = [pc EXCEPT ![t] = "unlock"] /\ value' = Taken /\ UNCHANGED owner
       ELSE /\ pc' = [pc EXCEPT ![t] = "blocked"] /\ owner' = NoThread
            /\ UNCHANGED value
    /\ UNCHANGED <<op, res>>

\* The wait ends without a signal.
WakeByChance(t) ==
    /\ pc[t] = "blocked" /\ pc' = [pc EXCEPT ![t] = "relock"]
    /\ UNCHANGED <<value, owner, op, res>>

Expire(t) ==
    /\ pc[t] = "blocked" /\ op[t] = "timed_wait"
    /\ pc' = [pc EXCEPT ![t] = "relock"]
    /\ res' = [res EXCEPT ![t] = "task_working"]
    /\ UNCHANGED <<value, owner, op>>

\* A mutant: Wait does not test the value again either.
RelockOnce(t) ==
    /\ pc[t] = "relock" /\ owner = NoThread /\ owner' = t
    /\ pc' = [pc EXCEPT ![t] = "woken"]
    /\ UNCHANGED <<value, op, res>>

\* The condition variable gives the mutex back: Wait tests the value again,
\* TimedWait does not.
Relock(t) ==
    /\ pc[t] = "relock" /\ owner = NoThread /\ owner' = t
    /\ pc' = [pc EXCEPT ![t] = IF op[t] = "wait" THEN "body" ELSE "woken"]
    /\ UNCHANGED <<value, op, res>>

\* The rest of TimedWait; the value is taken whatever ended the wait.
Woken(t) ==
    /\ pc[t] = "woken" /\ pc' = [pc EXCEPT ![t] = "unlock"]
    /\ value' = Taken /\ UNCHANGED <<owner, op, res>>

Unlock(t) ==
    /\ pc[t] = "unlock" /\ pc' = [pc EXCEPT ![t] = "idle"]
    /\ owner' = NoThread /\ res' = [res EXCEPT ![t] = "none"]
    /\ UNCHANGED <<value, op>>

Step(t) ==
    /\ \/ Lock(t) \/ Signal(t) \/ Post(t) \/ Reset(t) \/ Test(t)
       \/ Relock(t) \/ Woken(t) \/ Unlock(t)
    /\ UNCHANGED kind

Next ==
    \/ \E t \in Threads : Step(t)
    \/ (\E t \in Threads : Call(t) \/ WakeByChance(t) \/ Expire(t)) /\ UNCHANGED kind

Spec == Init /\ [][Next]_vars

\* A thread that can run does, and the mutex is fair; a thread need not call,
\* and is not woken by chance.
FairSpec ==
    Spec /\ \A t \in Threads : WF_vars(Step(t)) /\ SF_vars((Lock(t) \/ Relock(t)) /\ UNCHANGED kind)
-----------------------------------------------------------------------------
Holding == {"body", "woken", "unlock"}

TypeOK ==
    /\ kind \in Kinds
    /\ value \in (IF kind = "semaphore" THEN Nat ELSE {0, 1})
    /\ owner \in Threads \cup {NoThread}
    /\ pc \in [Threads -> {"idle", "lock", "blocked", "relock"} \cup Holding]
    /\ op \in [Threads -> Operations \cup {"none"}]
    /\ res \in [Threads -> {"none", "task_working"}]

(* m_mutex excludes: the thread that is in the body of an operation is its *)
(* owner, so no two of them are.                                           *)
MutexHeld == \A t \in Threads : pc[t] \in Holding <=> owner = t

(* No wakeup is lost: while there is something to take and a thread        *)
(* sleeps, a thread that will look at the value is on its way.  (Signal    *)
(* and Post wake nobody when the value is not 0.  For a semaphore this     *)
(* needs that one thread waits, as in DecodePipeline.)                     *)
NoLostWakeup ==
    value # 0 /\ Blocked # {} =>
        \E t \in Threads : pc[t] \in {"relock", "woken"}
                           \/ (pc[t] = "body" /\ op[t] \in {"wait", "timed_wait"})

\* the phase of a call and its status as the caller sees them
Phase == [t \in Threads |-> CASE pc[t] = "idle" -> "idle"
                              [] pc[t] = "unlock" -> "done"
                              [] OTHER -> "called"]
Status == [t \in Threads |-> IF pc[t] = "unlock" THEN res[t] ELSE "none"]

Abs == INSTANCE AbstractSyncObject WITH phase <- Phase, res <- Status

(* Each operation takes effect at one moment between its call and its      *)
(* return, as the code that uses events and semaphores assumes.            *)
ImplementsAbstract == Abs!Spec

(* A sleeping thread does not sleep for ever while there is something for  *)
(* it to take.                                                             *)
SleeperWakes ==
    \A t \in Threads : (pc[t] = "blocked" /\ value # 0) ~> (pc[t] # "blocked" \/ value = 0)
=============================================================================
