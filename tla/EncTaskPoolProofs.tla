------------------------- MODULE EncTaskPoolProofs -------------------------
(***************************************************************************)
(* Theorems about EncTaskPool for any number of pools of any size: the     *)
(* tasks in execution stay one run of the ring, and the ring implements    *)
(* AbstractTaskQueue.                                                      *)
(***************************************************************************)
EXTENDS EncTaskPool, TLAPS

IInv == PoolTypeOK /\ RingIsContiguous

\* At without the remainder.
Around(n, s, k) == IF s + k < n THEN s + k ELSE s + k - n

(* The remainder of a number below twice the divisor.                      *)
LEMMA ModAround ==
    ASSUME NEW n \in Nat \ {0}, NEW s \in 0..(n - 1), NEW k \in 0..n
    PROVE  (s + k) % n = Around(n, s, k) /\ Around(n, s, k) \in 0..(n - 1)
<1> DEFINE a == s + k
<1>1. a \in 0..(2 * n - 1)
  OBVIOUS
<1>2. a % n = (IF a < n THEN a ELSE a - n)
  BY <1>1, Z3
<1> QED
  BY <1>2 DEF Around

(* A number below the divisor is its own remainder.                        *)
LEMMA ModStays ==
    ASSUME NEW n \in Nat \ {0}, NEW a \in 0..(n - 1)
    PROVE  a % n = a
  OBVIOUS

(* The sizes are positive and the start is a slot.                         *)
LEMMA SizeFacts ==
    ASSUME PoolTypeOK, NEW p \in Pools
    PROVE  /\ PoolSize[p] \in Nat \ {0}
           /\ m_nTaskBufferStart[p] \in 0..(PoolSize[p] - 1)
           /\ m_pTasks[p] \in [Slots(p) -> Jobs \cup {NoTask}]
  BY PoolAssumption DEF PoolTypeOK, Slots

(* Walking around the ring stays in it, meets no slot twice before a full  *)
(* turn, and meets them all.                                               *)
LEMMA AtFacts ==
    ASSUME PoolTypeOK, NEW p \in Pools
    PROVE  /\ \A k \in 0..PoolSize[p] :
                /\ At(p, k) = Around(PoolSize[p], m_nTaskBufferStart[p], k)
                /\ At(p, k) \in Slots(p)
           /\ \A k, l \in Slots(p) : At(p, k) = At(p, l) => k = l
           /\ \A i \in Slots(p) : \E k \in Slots(p) : At(p, k) = i
           /\ At(p, 0) = m_nTaskBufferStart[p]
           /\ At(p, PoolSize[p]) = m_nTaskBufferStart[p]
<1> DEFINE n == PoolSize[p]
           s == m_nTaskBufferStart[p]
<1>1. n \in Nat \ {0} /\ s \in 0..(n - 1)
  BY SizeFacts
<1>2. \A k \in 0..n : At(p, k) = Around(n, s, k) /\ At(p, k) \in Slots(p)
  BY <1>1, ModAround DEF At, Slots
<1> HIDE DEF n, s
<1>3. \A k, l \in 0..(n - 1) : Around(n, s, k) = Around(n, s, l) => k = l
  BY <1>1 DEF Around
<1>4. ASSUME NEW i \in 0..(n - 1)
      PROVE  \E k \in 0..(n - 1) : Around(n, s, k) = i
  <2>1. CASE i >= s
    <3>1. i - s \in 0..(n - 1) /\ Around(n, s, i - s) = i
      BY <1>1, <2>1 DEF Around
    <3> QED
      BY <3>1
  <2>2. CASE i < s
    <3>1. i - s + n \in 0..(n - 1) /\ Around(n, s, i - s + n) = i
      BY <1>1, <2>2 DEF Around
    <3> QED
      BY <3>1
  <2> QED
    BY <1>1, <2>1, <2>2
<1>5. Around(n, s, 0) = s /\ Around(n, s, n) = s
  BY <1>1 DEF Around
<1>6. Slots(p) = 0..(n - 1) /\ \A k \in 0..(n - 1) : k \in 0..n
  BY <1>1 DEF Slots, n
<1>7. \A k, l \in Slots(p) : At(p, k) = At(p, l) => k = l
  BY <1>2, <1>3, <1>6
<1>8. \A i \in Slots(p) : \E k \in Slots(p) : At(p, k) = i
  BY <1>2, <1>4, <1>6
<1>9. At(p, 0) = s /\ At(p, n) = s
  BY <1>1, <1>2, <1>5
<1> QED
  BY <1>2, <1>7, <1>8, <1>9 DEF n, s

(* There is only one length a run of tasks may have.                       *)
LEMMA RunLength ==
    ASSUME PoolTypeOK, NEW p \in Pools, NEW n \in 0..PoolSize[p], RunOfTasks(p, n)
    PROVE  NumInExecution(p) = n
<1>1. \A l \in 0..PoolSize[p] : RunOfTasks(p, l) => l = n
  <2> SUFFICES ASSUME NEW l \in 0..PoolSize[p], RunOfTasks(p, l), l # n PROVE FALSE
    OBVIOUS
  <2>1. PoolSize[p] \in Nat \ {0}
    BY SizeFacts
  <2>2. CASE l < n
    <3>1. l \in Slots(p)
      BY <2>1, <2>2 DEF Slots
    <3> QED
      BY <2>2, <3>1 DEF RunOfTasks
  <2>3. CASE n < l
    <3>1. n \in Slots(p)
      BY <2>1, <2>3 DEF Slots
    <3> QED
      BY <2>3, <3>1 DEF RunOfTasks
  <2> QED
    BY <2>1, <2>2, <2>3
<1> QED
  BY <1>1 DEF NumInExecution

(* The invariant gives each pool its length.                               *)
LEMMA InvRun ==
    ASSUME IInv, NEW p \in Pools
    PROVE  /\ NumInExecution(p) \in 0..PoolSize[p]
           /\ RunOfTasks(p, NumInExecution(p))
<1>1. PICK n \in 0..PoolSize[p] : RunOfTasks(p, n)
  BY DEF IInv, RingIsContiguous
<1> QED
  BY <1>1, RunLength DEF IInv

(* The free task is the one after the run, and there is one unless the run *)
(* is the whole ring.                                                      *)
LEMMA FreeIndex ==
    ASSUME PoolTypeOK, NEW p \in Pools, NEW n \in 0..PoolSize[p], RunOfTasks(p, n)
    PROVE  /\ n = PoolSize[p] => Full(p)
           /\ n < PoolSize[p] => ~Full(p) /\ GetFreeTaskIndex(p) = At(p, n)
<1>1. PoolSize[p] \in Nat \ {0}
  BY SizeFacts
<1>2. \A k \in 0..PoolSize[p] : At(p, k) \in Slots(p)
  BY AtFacts
<1>3. CASE n = PoolSize[p]
  <2>1. \A k \in Slots(p) : InExecution(p, At(p, k))
    BY <1>1, <1>3 DEF RunOfTasks, Slots
  <2>2. \A i \in Slots(p) : InExecution(p, i)
    BY <2>1, AtFacts
  <2> QED
    BY <1>1, <1>3, <2>2 DEF Full, GetFreeTaskIndex
<1>4. CASE n < PoolSize[p]
  <2>1. n \in Slots(p)
    BY <1>1, <1>4 DEF Slots
  <2>2. ~InExecution(p, At(p, n))
    BY <2>1, <1>1 DEF RunOfTasks
  <2>3. \A l \in 0..(n - 1) : l \in Slots(p) /\ InExecution(p, At(p, l))
    BY <1>1, <1>4 DEF RunOfTasks, Slots
  <2>4. \A k \in Slots(p) :
          (~InExecution(p, At(p, k)) /\ \A l \in 0..(k - 1) : InExecution(p, At(p, l)))
            => k = n
    <3> SUFFICES ASSUME NEW k \in Slots(p), ~InExecution(p, At(p, k)),
                        \A l \in 0..(k - 1) : InExecution(p, At(p, l)), k # n
                 PROVE  FALSE
      OBVIOUS
    <3>1. k \in Nat /\ n \in Nat
      BY <1>1 DEF Slots
    <3>2. CASE k < n
      BY <3>1, <3>2, <2>3
    <3>3. CASE n < k
      BY <3>1, <3>3, <2>2
    <3> QED
      BY <3>1, <3>2, <3>3
  <2>5. (CHOOSE k \in Slots(p) :
          ~InExecution(p, At(p, k)) /\ \A l \in 0..(k - 1) : InExecution(p, At(p, l))) = n
    BY <2>1, <2>2, <2>3, <2>4
  <2>6. ~\A i \in Slots(p) : InExecution(p, i)
    BY <2>2, <1>2, <1>1
  <2>7. GetFreeTaskIndex(p) = At(p, n)
    BY <2>5, <2>6 DEF GetFreeTaskIndex
  <2>8. At(p, n) # PoolSize[p]
    BY <1>1, <1>2 DEF Slots
  <2> QED
    BY <1>4, <2>7, <2>8 DEF Full
<1> QED
  BY <1>1, <1>3, <1>4

(* After the oldest task is done the start is the second one, or stays.    *)
LEMMA NextStartIs ==
    ASSUME PoolTypeOK, NEW p \in Pools, NEW n \in 1..PoolSize[p], RunOfTasks(p, n)
    PROVE  NextStart(p) = IF n = 1 THEN m_nTaskBufferStart[p] ELSE At(p, 1)
<1> DEFINE Stop(d) == d = PoolSize[p] \/ InExecution(p, At(p, d))
           First(d) == Stop(d) /\ \A l \in 1..(d - 1) : ~InExecution(p, At(p, l))
<1>1. PoolSize[p] \in Nat \ {0}
  BY SizeFacts
<1>2. CASE n = 1
  <2>1. \A l \in 1..(PoolSize[p] - 1) : l \in Slots(p) /\ ~InExecution(p, At(p, l))
    BY <1>1, <1>2 DEF RunOfTasks, Slots
  <2>2. First(PoolSize[p])
    BY <2>1
  <2>3. \A d \in 1..PoolSize[p] : First(d) => d = PoolSize[p]
    BY <1>1, <2>1
  <2>4. (CHOOSE d \in 1..PoolSize[p] : First(d)) = PoolSize[p]
    BY <1>1, <2>2, <2>3
  <2> QED
    BY <1>2, <2>4, AtFacts DEF NextStart
<1>3. CASE n > 1
  <2>1. 1 \in Slots(p) /\ InExecution(p, At(p, 1))
    BY <1>1, <1>3 DEF RunOfTasks, Slots
  <2>2. First(1)
    BY <2>1
  <2>3. \A d \in 1..PoolSize[p] : First(d) => d = 1
    <3> SUFFICES ASSUME NEW d \in 1..PoolSize[p], First(d), d # 1 PROVE FALSE
      OBVIOUS
    <3>1. 1 \in 1..(d - 1)
      BY <1>1
    <3> QED
      BY <2>1, <3>1
  <2>4. (CHOOSE d \in 1..PoolSize[p] : First(d)) = 1
    BY <1>1, <2>2, <2>3
  <2>5. NextStart(p) = At(p, CHOOSE d \in 1..PoolSize[p] : First(d))
    BY DEF NextStart
  <2>6. NextStart(p) = At(p, 1)
    BY <2>4, <2>5
  <2>7. n # 1
    BY <1>1, <1>3
  <2> QED
    BY <2>6, <2>7
<1> QED
  BY <1>1, <1>2, <1>3

(* The same of the next state: the length of the run there.                *)
LEMMA RunLengthNext ==
    ASSUME NEW p \in Pools, NEW n \in 0..PoolSize[p], RunOfTasks(p, n)'
    PROVE  NumInExecution(p)' = n
<1>1. \A l \in 0..PoolSize[p] : RunOfTasks(p, l)' => l = n
  <2> SUFFICES ASSUME NEW l \in 0..PoolSize[p], RunOfTasks(p, l)', l # n PROVE FALSE
    OBVIOUS
  <2>1. PoolSize[p] \in Nat \ {0}
    BY PoolAssumption
  <2>2. CASE l < n
    <3>1. l \in Slots(p)
      BY <2>1, <2>2 DEF Slots
    <3> QED
      BY <2>2, <3>1 DEF RunOfTasks
  <2>3. CASE n < l
    <3>1. n \in Slots(p)
      BY <2>1, <2>3 DEF Slots
    <3> QED
      BY <2>3, <3>1 DEF RunOfTasks
  <2> QED
    BY <2>1, <2>2, <2>3
<1> QED
  BY <1>1 DEF NumInExecution

(* A pool that a step leaves alone keeps its run and its queue.            *)
LEMMA PoolUnchanged ==
    ASSUME IInv, NEW p \in Pools, m_pTasks'[p] = m_pTasks[p],
           m_nTaskBufferStart'[p] = m_nTaskBufferStart[p]
    PROVE  /\ \E n \in 0..PoolSize[p] : RunOfTasks(p, n)'
           /\ QueueOf(p)' = QueueOf(p)
<1>1. \A k : At(p, k)' = At(p, k)
  BY DEF At
<1>2. PICK n \in 0..PoolSize[p] : RunOfTasks(p, n)
  BY DEF IInv, RingIsContiguous
<1>3. RunOfTasks(p, n)'
  BY <1>1, <1>2 DEF RunOfTasks, InExecution
<1>4. NumInExecution(p) = n /\ NumInExecution(p)' = n
  BY <1>2, <1>3, RunLength, RunLengthNext DEF IInv
<1> QED
  BY <1>1, <1>3, <1>4 DEF QueueOf

(* What Submit of the free task does to the ring and to the queue.         *)
LEMMA SubmitStep ==
    ASSUME IInv, NEW p \in Pools, NEW j \in Jobs, ~Full(p),
           Submit(p, GetFreeTaskIndex(p), j)
    PROVE  /\ \E n \in 0..PoolSize[p] : RunOfTasks(p, n)'
           /\ Len(QueueOf(p)) < PoolSize[p]
           /\ QueueOf(p)' = Append(QueueOf(p), j)
<1>0. PICK n \in 0..PoolSize[p] : RunOfTasks(p, n)
  BY DEF IInv, RingIsContiguous
<1>1. PoolTypeOK /\ n \in 0..PoolSize[p] /\ RunOfTasks(p, n) /\ NumInExecution(p) = n
  BY <1>0, RunLength DEF IInv
<1>2. PoolSize[p] \in Nat \ {0} /\ m_pTasks[p] \in [Slots(p) -> Jobs \cup {NoTask}]
  BY <1>1, SizeFacts
<1>3. n < PoolSize[p] /\ GetFreeTaskIndex(p) = At(p, n)
  BY <1>1, <1>2, FreeIndex
<1>4. \A k : At(p, k)' = At(p, k)
  BY DEF Submit, At
<1>5. m_pTasks'[p] = [m_pTasks[p] EXCEPT ![At(p, n)] = j]
  BY <1>1, <1>3 DEF Submit, PoolTypeOK
<1>6. n \in Slots(p) /\ \A k \in Slots(p) : At(p, k) \in Slots(p) /\ (At(p, k) = At(p, n) => k = n)
  <2>1. n \in Slots(p)
    BY <1>2, <1>3, <1>1 DEF Slots
  <2>2. \A k \in Slots(p) : k \in 0..PoolSize[p]
    BY <1>2 DEF Slots
  <2> QED
    BY <1>1, <2>1, <2>2, AtFacts
<1>7. \A k \in Slots(p) : m_pTasks'[p][At(p, k)] = IF k = n THEN j ELSE m_pTasks[p][At(p, k)]
  BY <1>2, <1>5, <1>6
<1>8. RunOfTasks(p, n + 1)'
  <2> SUFFICES ASSUME NEW k \in Slots(p) PROVE InExecution(p, At(p, k))' <=> k < n + 1
    BY DEF RunOfTasks, Slots
  <2>1. InExecution(p, At(p, k))' <=> (IF k = n THEN j ELSE m_pTasks[p][At(p, k)]) # NoTask
    BY <1>4, <1>7 DEF InExecution
  <2>2. k # n => (InExecution(p, At(p, k))' <=> k < n)
    BY <1>1, <2>1 DEF RunOfTasks, InExecution
  <2>3. k \in Int /\ n \in Int
    BY <1>1, <1>2 DEF Slots
  <2> QED
    BY <2>1, <2>2, <2>3, PoolAssumption
<1>9. n + 1 \in 0..PoolSize[p]
  BY <1>1, <1>2, <1>3
<1>10. NumInExecution(p)' = n + 1
  BY <1>8, <1>9, RunLengthNext
<1>11. QueueOf(p) = [k \in 1..n |-> m_pTasks[p][At(p, k - 1)]] /\ Len(QueueOf(p)) = n
  BY <1>1, <1>2 DEF QueueOf
<1>12. QueueOf(p)' = [k \in 1..(n + 1) |-> m_pTasks'[p][At(p, k - 1)]]
  BY <1>4, <1>10 DEF QueueOf
<1>13. \A k \in 1..(n + 1) : k - 1 \in Slots(p)
  BY <1>1, <1>2, <1>3 DEF Slots
<1>14. QueueOf(p)' = [k \in 1..(n + 1) |-> IF k = n + 1 THEN j ELSE m_pTasks[p][At(p, k - 1)]]
  <2>1. \A k \in 1..(n + 1) : (k - 1 = n) <=> (k = n + 1)
    BY <1>1
  <2> QED
    BY <1>7, <1>12, <1>13, <2>1
<1>15. Append(QueueOf(p), j) = [k \in 1..(n + 1) |-> IF k = n + 1 THEN j ELSE m_pTasks[p][At(p, k - 1)]]
  <2>1. Append(QueueOf(p), j) = [k \in 1..(n + 1) |-> IF k = n + 1 THEN j ELSE QueueOf(p)[k]]
    BY <1>1, <1>11
  <2>2. \A k \in 1..(n + 1) : k # n + 1 => k \in 1..n
    BY <1>1
  <2> QED
    BY <1>11, <2>1, <2>2
<1> QED
  BY <1>3, <1>8, <1>9, <1>11, <1>14, <1>15

(* What SynchronizeFirstTask does: the head of the queue is written and    *)
(* the rest stays as it was.                                               *)
LEMMA SyncStep ==
    ASSUME IInv, NEW p \in Pools, SynchronizeFirstTask(p)
    PROVE  /\ \E n \in 0..PoolSize[p] : RunOfTasks(p, n)'
           /\ m_nTaskBufferStart'[p] \in Slots(p)
           /\ QueueOf(p) # <<>>
           /\ Head(QueueOf(p)) \in Jobs
           /\ delivered' = Append(delivered, Head(QueueOf(p)))
           /\ QueueOf(p)' = Tail(QueueOf(p))
<1> DEFINE s == m_nTaskBufferStart[p]
<1>0. PICK n \in 0..PoolSize[p] : RunOfTasks(p, n)
  BY DEF IInv, RingIsContiguous
<1>1. PoolTypeOK /\ NumInExecution(p) = n
  BY <1>0, RunLength DEF IInv
<1>2. /\ PoolSize[p] \in Nat \ {0} /\ s \in 0..(PoolSize[p] - 1)
      /\ m_pTasks[p] \in [Slots(p) -> Jobs \cup {NoTask}]
  BY <1>1, SizeFacts
<1>3. n >= 1 /\ At(p, 0) = s /\ 0 \in Slots(p)
  <2>1. At(p, 0) = s /\ 0 \in Slots(p)
    BY <1>1, <1>2, AtFacts DEF Slots
  <2>2. InExecution(p, At(p, 0))
    BY <2>1 DEF SynchronizeFirstTask
  <2> QED
    BY <1>0, <2>1, <2>2 DEF RunOfTasks
<1>4. m_pTasks'[p] = [m_pTasks[p] EXCEPT ![s] = NoTask]
  BY <1>1 DEF SynchronizeFirstTask, PoolTypeOK
<1>5. m_nTaskBufferStart'[p] = IF n = 1 THEN s ELSE At(p, 1)
  <2>1. n \in 1..PoolSize[p]
    BY <1>2, <1>3
  <2> QED
    BY <1>0, <1>1, <2>1, NextStartIs DEF SynchronizeFirstTask, PoolTypeOK
<1>6. QueueOf(p) = [k \in 1..n |-> m_pTasks[p][At(p, k - 1)]] /\ Len(QueueOf(p)) = n
  BY <1>1, <1>2 DEF QueueOf
<1>7. QueueOf(p) # <<>> /\ Head(QueueOf(p)) = m_pTasks[p][s]
  BY <1>2, <1>3, <1>6
<1>8. delivered' = Append(delivered, Head(QueueOf(p)))
  BY <1>7 DEF SynchronizeFirstTask
<1>9. Head(QueueOf(p)) \in Jobs
  BY <1>2, <1>3, <1>7 DEF SynchronizeFirstTask, InExecution, Slots
<1>10. \A k \in Slots(p) : At(p, k) \in Slots(p) /\ (At(p, k) = s => k = 0)
  <2>1. \A k \in Slots(p) : k \in 0..PoolSize[p]
    BY <1>2 DEF Slots
  <2> QED
    BY <1>1, <1>3, <2>1, AtFacts
<1>11. \A k \in Slots(p) : m_pTasks'[p][At(p, k)] = IF k = 0 THEN NoTask ELSE m_pTasks[p][At(p, k)]
  BY <1>2, <1>3, <1>4, <1>10
<1>12. \A k \in Slots(p) : m_pTasks'[p][At(p, k)] # NoTask <=> k # 0 /\ k < n
  BY <1>0, <1>11 DEF RunOfTasks, InExecution
<1>13. CASE n = 1
  <2>1. \A k : At(p, k)' = At(p, k)
    BY <1>5, <1>13 DEF At
  <2>2. RunOfTasks(p, 0)'
    <3>1. \A k \in Slots(p) : m_pTasks'[p][At(p, k)] = NoTask /\ ~(k < 0)
      BY <1>2, <1>12, <1>13 DEF Slots
    <3> QED
      BY <2>1, <3>1 DEF RunOfTasks, InExecution, Slots
  <2>3. 0 \in 0..PoolSize[p]
    BY <1>2
  <2>4. NumInExecution(p)' = 0
    BY <2>2, <2>3, RunLengthNext
  <2>5. QueueOf(p)' = <<>>
    BY <2>4 DEF QueueOf
  <2>6. Tail(QueueOf(p)) = <<>>
    BY <1>6, <1>13
  <2>7. m_nTaskBufferStart'[p] \in Slots(p)
    BY <1>2, <1>5, <1>13 DEF Slots
  <2> QED
    BY <1>7, <1>8, <1>9, <2>2, <2>3, <2>5, <2>6, <2>7
<1>14. CASE n > 1
  <2>1. 1 \in Slots(p) /\ 1 \in 0..PoolSize[p] /\ PoolSize[p] > 1
    BY <1>2, <1>14 DEF Slots
  <2>2. m_nTaskBufferStart'[p] = At(p, 1) /\ At(p, 1) \in Slots(p)
    BY <1>5, <1>10, <1>14, <2>1
  <2>3. \A k \in Slots(p) : At(p, k)' = IF k + 1 = PoolSize[p] THEN At(p, 0) ELSE At(p, k + 1)
    <3> SUFFICES ASSUME NEW k \in Slots(p)
                 PROVE  At(p, k)' = IF k + 1 = PoolSize[p] THEN At(p, 0) ELSE At(p, k + 1)
      OBVIOUS
    <3>1. k \in 0..(PoolSize[p] - 1) /\ k + 1 \in 0..PoolSize[p] /\ k \in 0..PoolSize[p]
      BY <1>2 DEF Slots
    <3>2. At(p, 1) \in 0..(PoolSize[p] - 1)
      BY <2>2 DEF Slots
    <3>3. At(p, k)' = Around(PoolSize[p], At(p, 1), k)
      BY <1>2, <2>2, <3>1, <3>2, ModAround DEF At
    <3>4. At(p, 1) = Around(PoolSize[p], s, 1) /\ At(p, k + 1) = Around(PoolSize[p], s, k + 1)
      BY <1>1, <2>1, <3>1, AtFacts
    <3>5. Around(PoolSize[p], Around(PoolSize[p], s, 1), k)
            = IF k + 1 = PoolSize[p] THEN s ELSE Around(PoolSize[p], s, k + 1)
      BY <1>2, <2>1, <3>1 DEF Around
    <3> QED
      BY <1>3, <3>3, <3>4, <3>5
  <2>4. \A k \in Slots(p) : k + 1 # PoolSize[p] => k + 1 \in Slots(p) /\ k + 1 # 0
    BY <1>2 DEF Slots
  <2>5. RunOfTasks(p, n - 1)'
    <3> SUFFICES ASSUME NEW k \in Slots(p) PROVE InExecution(p, At(p, k))' <=> k < n - 1
      BY DEF RunOfTasks, Slots
    <3>1. CASE k + 1 = PoolSize[p]
      <4>1. m_pTasks'[p][At(p, k)'] = NoTask
        BY <1>3, <1>11, <2>3, <3>1
      <4>2. k \in Int
        BY <1>2 DEF Slots
      <4>3. ~(k < n - 1)
        BY <1>2, <3>1, <4>2
      <4> QED
        BY <4>1, <4>3 DEF InExecution
    <3>2. CASE k + 1 # PoolSize[p]
      <4>1. m_pTasks'[p][At(p, k)'] # NoTask <=> k + 1 < n
        BY <1>12, <2>3, <2>4, <3>2
      <4>2. k \in Int
        BY <1>2 DEF Slots
      <4>3. k + 1 < n <=> k < n - 1
        BY <4>2
      <4> QED
        BY <4>1, <4>3 DEF InExecution
    <3> QED
      BY <3>1, <3>2
  <2>6. n - 1 \in 0..PoolSize[p]
    BY <1>2, <1>14
  <2>7. NumInExecution(p)' = n - 1
    BY <2>5, <2>6, RunLengthNext
  <2>8. QueueOf(p)' = [k \in 1..(n - 1) |-> m_pTasks'[p][At(p, k - 1)']]
    BY <2>7 DEF QueueOf
  <2>9. ASSUME NEW k \in 1..(n - 1)
        PROVE  m_pTasks'[p][At(p, k - 1)'] = m_pTasks[p][At(p, k)]
    <3>1. k - 1 \in Slots(p) /\ k \in Slots(p) /\ k # 0 /\ (k - 1) + 1 = k /\ k # PoolSize[p]
      BY <1>2, <1>14 DEF Slots
    <3>2. At(p, k - 1)' = At(p, k)
      BY <2>3, <3>1
    <3> QED
      BY <1>11, <3>1, <3>2
  <2>10. QueueOf(p)' = [k \in 1..(n - 1) |-> m_pTasks[p][At(p, k)]]
    BY <2>8, <2>9
  <2>11. Tail(QueueOf(p)) = [k \in 1..(n - 1) |-> m_pTasks[p][At(p, k)]]
    <3>1. Tail(QueueOf(p)) = [k \in 1..(n - 1) |-> QueueOf(p)[k + 1]]
      BY <1>6, <1>14
    <3>2. \A k \in 1..(n - 1) : k + 1 \in 1..n /\ (k + 1) - 1 = k
      BY <1>14
    <3> QED
      BY <1>6, <3>1, <3>2
  <2> QED
    BY <1>7, <1>8, <1>9, <2>2, <2>5, <2>6, <2>10, <2>11
<1> QED
  BY <1>3, <1>13, <1>14

(* A pool that was cleared is an empty queue.                              *)
LEMMA EmptyPool ==
    ASSUME NEW p \in Pools, m_pTasks'[p] = [i \in Slots(p) |-> NoTask],
           m_nTaskBufferStart'[p] = 0
    PROVE  /\ \E n \in 0..PoolSize[p] : RunOfTasks(p, n)'
           /\ QueueOf(p)' = <<>>
<1>1. PoolSize[p] \in Nat \ {0}
  BY PoolAssumption
<1>2. \A k \in Slots(p) : At(p, k)' \in Slots(p)
  <2> SUFFICES ASSUME NEW k \in Slots(p) PROVE At(p, k)' \in Slots(p)
    BY DEF Slots
  <2>1. k \in 0..(PoolSize[p] - 1)
    BY <1>1 DEF Slots
  <2>2. k % PoolSize[p] = k
    BY <1>1, <2>1, ModStays
  <2>3. 0 + k = k
    BY <1>1, <2>1
  <2>4. At(p, k)' = k
    BY <2>2, <2>3 DEF At
  <2> QED
    BY <1>1, <2>1, <2>4 DEF Slots
<1>3. RunOfTasks(p, 0)'
  <2>1. \A k \in Slots(p) : m_pTasks'[p][At(p, k)'] = NoTask /\ ~(k < 0)
    BY <1>1, <1>2 DEF Slots
  <2> QED
    BY <2>1 DEF RunOfTasks, InExecution, Slots
<1>4. 0 \in 0..PoolSize[p]
  BY <1>1
<1>5. NumInExecution(p)' = 0
  BY <1>3, <1>4, RunLengthNext
<1> QED
  BY <1>3, <1>4, <1>5 DEF QueueOf

(* The first state: all pools are empty.                                   *)
LEMMA InitHolds == PoolInit => IInv /\ TaskQueue!Init
<1> SUFFICES ASSUME PoolInit PROVE IInv /\ TaskQueue!Init
  OBVIOUS
<1>1. \A p \in Pools : PoolSize[p] \in Nat \ {0}
  BY PoolAssumption
<1>2. PoolTypeOK
  BY <1>1 DEF PoolInit, PoolTypeOK, Slots
<1>3. ASSUME NEW p \in Pools
      PROVE  0 \in 0..PoolSize[p] /\ RunOfTasks(p, 0)
  <2>1. \A k \in Slots(p) : m_pTasks[p][At(p, k)] = NoTask /\ ~(k < 0)
    <3>1. \A k \in Slots(p) : k \in 0..PoolSize[p] /\ k \in Nat
      BY <1>1 DEF Slots
    <3> QED
      BY <1>2, <3>1, AtFacts DEF PoolInit
  <2> QED
    BY <1>1, <2>1 DEF RunOfTasks, InExecution
<1>4. \A p \in Pools : QueueOf(p) = <<>>
  <2> SUFFICES ASSUME NEW p \in Pools PROVE QueueOf(p) = <<>>
    OBVIOUS
  <2>1. NumInExecution(p) = 0
    BY <1>2, <1>3, RunLength
  <2> QED
    BY <2>1 DEF QueueOf
<1> QED
  BY <1>2, <1>3, <1>4 DEF IInv, RingIsContiguous, TaskQueue!Init, PoolInit

(* Every step preserves the invariant and is a step of the queue.          *)
LEMMA StepPreserves ==
    IInv /\ [PoolNext]_poolVars => IInv' /\ [TaskQueue!Next]_(TaskQueue!qvars)
<1> SUFFICES ASSUME IInv, [PoolNext]_poolVars
             PROVE  IInv' /\ [TaskQueue!Next]_(TaskQueue!qvars)
  OBVIOUS
<1>1. ASSUME NEW p \in Pools, SynchronizeFirstTask(p)
      PROVE  IInv' /\ TaskQueue!Deliver(p)
  <2>1. \A q \in Pools : q # p =>
          m_pTasks'[q] = m_pTasks[q] /\ m_nTaskBufferStart'[q] = m_nTaskBufferStart[q]
    BY <1>1 DEF SynchronizeFirstTask, IInv, PoolTypeOK
  <2>2. RingIsContiguous'
    BY <1>1, <2>1, SyncStep, PoolUnchanged DEF RingIsContiguous
  <2>3. PoolTypeOK'
    <3>1. DOMAIN m_pTasks' = Pools /\ DOMAIN m_nTaskBufferStart' = Pools
      BY <1>1 DEF SynchronizeFirstTask, IInv, PoolTypeOK
    <3>2. delivered' \in Seq(Jobs)
      BY <1>1, SyncStep DEF IInv, PoolTypeOK
    <3>3. \A q \in Pools : m_nTaskBufferStart'[q] \in Slots(q)
      BY <1>1, <2>1, SyncStep DEF IInv, PoolTypeOK
    <3>4. \A q \in Pools : m_pTasks'[q] \in [Slots(q) -> Jobs \cup {NoTask}]
      BY <1>1, <2>1 DEF SynchronizeFirstTask, IInv, PoolTypeOK
    <3> QED
      BY <3>1, <3>2, <3>3, <3>4 DEF PoolTypeOK, Slots
  <2>4. TaskQueue!Deliver(p)
    <3>1. \A q \in Pools : QueueOf(q)' = IF q = p THEN Tail(QueueOf(q)) ELSE QueueOf(q)
      BY <1>1, <2>1, SyncStep, PoolUnchanged
    <3> QED
      BY <1>1, <3>1, SyncStep DEF TaskQueue!Deliver
  <2> QED
    BY <2>2, <2>3, <2>4 DEF IInv
<1>2. ASSUME NEW p \in Pools, NEW j \in Jobs, ~Full(p), Submit(p, GetFreeTaskIndex(p), j)
      PROVE  IInv' /\ TaskQueue!Start(p, j)
  <2>1. \A q \in Pools : q # p => m_pTasks'[q] = m_pTasks[q]
    BY <1>2 DEF Submit, IInv, PoolTypeOK
  <2>2. m_nTaskBufferStart' = m_nTaskBufferStart /\ delivered' = delivered
    BY <1>2 DEF Submit
  <2>3. RingIsContiguous'
    BY <1>2, <2>1, <2>2, SubmitStep, PoolUnchanged DEF RingIsContiguous
  <2>4. PoolTypeOK'
    <3>1. \A q \in Pools : m_pTasks'[q] \in [Slots(q) -> Jobs \cup {NoTask}]
      BY <1>2, <2>1 DEF Submit, IInv, PoolTypeOK
    <3>2. DOMAIN m_pTasks' = Pools
      BY <1>2 DEF Submit, IInv, PoolTypeOK
    <3> QED
      BY <2>2, <3>1, <3>2 DEF PoolTypeOK, IInv, Slots
  <2>5. TaskQueue!Start(p, j)
    <3>1. \A q \in Pools : QueueOf(q)' = IF q = p THEN Append(QueueOf(q), j) ELSE QueueOf(q)
      BY <1>2, <2>1, <2>2, SubmitStep, PoolUnchanged
    <3> QED
      BY <1>2, <2>2, <3>1, SubmitStep DEF TaskQueue!Start
  <2> QED
    BY <2>3, <2>4, <2>5 DEF IInv
<1>3. ASSUME NEW P \in SUBSET Pools, ClearTasks(P)
      PROVE  IInv' /\ TaskQueue!Forget(P)
  <2>1. \A p \in P : /\ m_pTasks'[p] = [i \in Slots(p) |-> NoTask]
                     /\ m_nTaskBufferStart'[p] = 0
    BY <1>3 DEF ClearTasks
  <2>2. \A q \in Pools \ P : /\ m_pTasks'[q] = m_pTasks[q]
                             /\ m_nTaskBufferStart'[q] = m_nTaskBufferStart[q]
    BY <1>3 DEF ClearTasks
  <2>3. RingIsContiguous'
    BY <2>1, <2>2, EmptyPool, PoolUnchanged DEF RingIsContiguous
  <2>4. PoolTypeOK'
    <3>1. \A p \in Pools : 0 \in Slots(p)
      BY PoolAssumption DEF Slots
    <3>2. DOMAIN m_pTasks' = Pools /\ DOMAIN m_nTaskBufferStart' = Pools /\ delivered' = delivered
      BY <1>3 DEF ClearTasks
    <3>3. \A p \in Pools : m_nTaskBufferStart'[p] \in Slots(p)
      BY <2>1, <2>2, <3>1 DEF IInv, PoolTypeOK
    <3>4. \A p \in Pools : m_pTasks'[p] \in [Slots(p) -> Jobs \cup {NoTask}]
      BY ZenonT(60), <2>1, <2>2 DEF IInv, PoolTypeOK
    <3> QED
      BY <3>2, <3>3, <3>4 DEF IInv, PoolTypeOK, Slots
  <2>5. TaskQueue!Forget(P)
    <3>1. \A q \in Pools : QueueOf(q)' = IF q \in P THEN <<>> ELSE QueueOf(q)
      BY <2>1, <2>2, EmptyPool, PoolUnchanged
    <3> QED
      BY <1>3, <3>1 DEF TaskQueue!Forget, ClearTasks
  <2> QED
    BY <2>3, <2>4, <2>5 DEF IInv
<1>4. ASSUME UNCHANGED poolVars
      PROVE  IInv' /\ UNCHANGED TaskQueue!qvars
  <2>1. UNCHANGED <<m_pTasks, m_nTaskBufferStart, delivered>>
    BY <1>4 DEF poolVars
  <2>2. RingIsContiguous'
    BY <2>1, PoolUnchanged DEF RingIsContiguous
  <2>3. PoolTypeOK'
    BY <2>1 DEF IInv, PoolTypeOK, Slots
  <2>4. \A q \in Pools : QueueOf(q)' = QueueOf(q)
    BY <2>1, PoolUnchanged
  <2> QED
    BY <2>1, <2>2, <2>3, <2>4 DEF IInv, TaskQueue!qvars
<1> QED
  BY <1>1, <1>2, <1>3, <1>4 DEF PoolNext, TaskQueue!Next

-----------------------------------------------------------------------------
(* The tasks in execution always follow each other around the ring from    *)
(* m_nTaskBufferStart, in every pool of every size.                        *)
THEOREM RingStaysContiguous == PoolSpec => []RingIsContiguous
<1>1. PoolInit => IInv
  BY InitHolds
<1>2. IInv /\ [PoolNext]_poolVars => IInv'
  BY StepPreserves
<1>3. IInv => RingIsContiguous
  BY DEF IInv
<1> QED
  BY <1>1, <1>2, <1>3, PTL DEF PoolSpec

(* CEncTaskPool is a first-in first-out queue of tasks: bitstreams are     *)
(* written in the order their tasks were started in.                       *)
THEOREM RingIsAQueue == PoolSpec => RingImplementsQueue
<1>1. PoolInit => IInv /\ TaskQueue!Init
  BY InitHolds
<1>2. IInv /\ [PoolNext]_poolVars => IInv' /\ [TaskQueue!Next]_(TaskQueue!qvars)
  BY StepPreserves
<1> QED
  BY <1>1, <1>2, PTL DEF PoolSpec, RingImplementsQueue, TaskQueue!Spec
=============================================================================
