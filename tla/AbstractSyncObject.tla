------------------------ MODULE AbstractSyncObject -------------------------
(***************************************************************************)
(* What MSDKEvent and MSDKSemaphore promise the code that uses them: each  *)
(* call takes effect in one step between its call and its return.          *)
(* TranscodeSessions and DecodePipeline use the objects in this form;      *)
(* SyncObject shows that the pthread code implements it.                   *)
(***************************************************************************)
EXTENDS Integers

CONSTANTS Threads, Calls, InitialCount

VARIABLES kind, value, phase, op, res

avars == <<kind, value, phase, op, res>>

\* what a wait that succeeds leaves of the value
Taken == CASE kind = "automatic" -> 0
           [] kind = "manual" -> value
           [] kind = "semaphore" -> value - 1

Init ==
    /\ \/ kind \in {"automatic", "manual"} /\ value = 0
       \/ kind = "semaphore" /\ value = InitialCount
    /\ phase = [t \in Threads |-> "idle"]
    /\ op = [t \in Threads |-> "none"] /\ res = [t \in Threads |-> "none"]

Call(t) ==
    /\ phase[t] = "idle" /\ phase' = [phase EXCEPT ![t] = "called"]
    /\ \E o \in Calls[kind][t] : op' = [op EXCEPT ![t] = o]
    /\ UNCHANGED <<value, res>>

Effect(t, v, r) ==
    /\ phase[t] = "called" /\ phase' = [phase EXCEPT ![t] = "done"]
    /\ value' = v /\ res' = [res EXCEPT ![t] = r] /\ UNCHANGED op

Signal(t) == op[t] = "signal" /\ Effect(t, 1, "none")

Post(t) == op[t] = "post" /\ Effect(t, value + 1, "none")

Reset(t) == op[t] = "reset" /\ Effect(t, 0, "none")

Wait(t) == op[t] = "wait" /\ value > 0 /\ Effect(t, Taken, "none")

\* A timed wait may end without a signal, after its time or by chance; it
\* takes a signal that came meanwhile in either case.
TimedWait(t) ==
    op[t] = "timed_wait" /\ (Effect(t, Taken, "none") \/ Effect(t, Taken, "task_working"))

Return(t) ==
    /\ phase[t] = "done" /\ phase' = [phase EXCEPT ![t] = "idle"]
    /\ res' = [res EXCEPT ![t] = "none"] /\ UNCHANGED <<value, op>>

Next ==
    /\ \E t \in Threads :
         Call(t) \/ Signal(t) \/ Post(t) \/ Reset(t) \/ Wait(t) \/ TimedWait(t) \/ Return(t)
    /\ UNCHANGED kind

Spec == Init /\ [][Next]_avars
=============================================================================
