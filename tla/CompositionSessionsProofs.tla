--------------------- MODULE CompositionSessionsProofs ---------------------
(***************************************************************************)
(* Proofs about CompositionSessions, for every number of decode sessions,  *)
(* streams of any lengths and every size of the ration.                    *)
(***************************************************************************)
EXTENDS CompositionSessions, SequenceLemmas, FiniteSetTheorems, SequenceTheorems,
        TLAPS

(* CompositionTypeOK, but with counters that might become negative, and    *)
(* with the facts the typing of PutBS and of the frame in hand needs.      *)
Typed ==
    /\ refs \in [Frames -> Int] /\ Locked \in [Frames -> Int]
    /\ SynchronizerTypes /\ LibraryTypes /\ DecoderTypes /\ BufferTypes
    /\ ComposerTypes /\ LauncherTypes
    /\ epc = "put" => m_BSPool # <<>>
    /\ \A d \in Decoders :
          dpc[d] \in {"push", "ration", "waiting", "add", "sync"} => Current(d) \in Frames

(* A surface in buffer d belongs to decoder d, is in it once, and is not   *)
(* younger than the frame decoded last.                                    *)
QueueOwnership(d) ==
    /\ Once(m_SList[d], Frames)
    /\ \A s \in Range(m_SList[d]) \ {NoSurface} : s[1] = d /\ s[2] <= nDecoded[d]

(* The frame in hand is nowhere else until it is registered and added.     *)
HandOwnership(d) ==
    /\ dpc[d] \in {"push", "ration", "waiting", "add"} =>
           Current(d) \notin Range(m_SList[d]) /\ Current(d) \notin vppHold
    /\ dpc[d] = "push" => Current(d) \notin Range(m_Surfaces)

(* Who else holds a frame: nobody holds one that is not decoded yet, none  *)
(* is registered twice, and a surface that VPP locks is in a buffer only   *)
(* while the composing session has it at hand to release it.               *)
HolderOwnership ==
    /\ Once(m_Surfaces, Frames)
    /\ \A s \in decHold \cup vppHold \cup Range(m_Surfaces) : s[2] <= nDecoded[s[1]]
    /\ \A s \in vppHold : s \in Range(m_SList[s[1]]) =>
           epc \in {"more", "composed"} /\ s = decExt
    /\ epc \in {"vpp", "more", "composed"} /\ decExt # NoSurface =>
           decExt \in Range(m_SList[curBuffer])

Ownership ==
    HolderOwnership /\ \A d \in Decoders : QueueOwnership(d) /\ HandOwnership(d)

IInv == Typed /\ Ownership /\ ReferencesBalanced

----------------------------------------------------------------------------
(* Frames and the operations on a buffer.                                  *)

LEMMA FrameFacts ==
    /\ NumDec \in Nat /\ NumDec >= 1 /\ 1 \in Decoders
    /\ NoSurface \notin Frames
    /\ \A s \in Frames : s[1] \in Decoders /\ s[2] \in Nat /\ s = <<s[1], s[2]>>
    /\ \A d \in Decoders : \A k \in 1..NumFrames[d] : <<d, k>> \in Frames
    /\ \A d \in Decoders : NumFrames[d] \in Nat
<1>1. NumDec \in Nat /\ NumDec >= 1 /\ \A d \in Decoders : NumFrames[d] \in Nat
    BY CompositionAssumption
<1>2. \A s \in Frames : \E d \in Decoders : \E k \in 1..NumFrames[d] : s = <<d, k>>
    BY DEF Frames
<1>3. \A s \in Frames : s[1] \in Decoders /\ s[2] \in Nat /\ s = <<s[1], s[2]>>
    BY <1>1, <1>2
<1>4. NoSurface \notin Frames
  <2>1. NoSurface[1] = 0 /\ 0 \notin Decoders
    BY DEF NoSurface, Decoders
  <2> QED  BY <1>3, <2>1
<1>5. \A d \in Decoders : \A k \in 1..NumFrames[d] : <<d, k>> \in Frames
    BY DEF Frames
<1> QED  BY <1>1, <1>3, <1>4, <1>5 DEF Decoders

Surf0 == Frames \cup {NoSurface}
Queued(s) == s \in Range(m_SList[s[1]])

(* ReleaseSurface takes x out of buffer d, with its reference and its      *)
(* lock, when it is there.                                                 *)
LEMMA ReleaseEffect ==
    ASSUME Typed, NEW d \in Decoders, QueueOwnership(d), NEW x \in Surf0,
           ReleaseSurface(d, x)
    PROVE  /\ m_SList' \in [Decoders -> Seq(Surf0)]
           /\ m_SList'[d] = RemoveFirst(m_SList[d], x)
           /\ \A f \in Decoders : f # d => m_SList'[f] = m_SList[f]
           /\ Once(m_SList'[d], Frames)
           /\ Range(m_SList'[d]) \subseteq Range(m_SList[d])
           /\ refs' \in [Frames -> Int] /\ Locked' \in [Frames -> Int]
           /\ \A s \in Frames :
                LET gone == s = x /\ s[1] = d /\ Queued(s) IN
                /\ s \in Range(m_SList'[s[1]]) <=> Queued(s) /\ ~ gone
                /\ refs'[s] = refs[s] - Count(gone)
                /\ Locked'[s] = Locked[s] - Count(gone)
<1>1. m_SList \in [Decoders -> Seq(Surf0)] /\ m_SList[d] \in Seq(Surf0)
      /\ refs \in [Frames -> Int] /\ Locked \in [Frames -> Int]
    BY DEF Typed, BufferTypes, Surf0
<1>2. /\ RemoveFirst(m_SList[d], x) \in Seq(Surf0)
      /\ Range(RemoveFirst(m_SList[d], x)) \subseteq Range(m_SList[d])
    BY <1>1, RemoveFirstRange
<1>3. /\ Once(RemoveFirst(m_SList[d], x), Frames)
      /\ Range(RemoveFirst(m_SList[d], x)) \cap Frames = (Range(m_SList[d]) \cap Frames) \ {x}
    BY <1>1, RemoveFirstOnce DEF QueueOwnership
<1>4. /\ m_SList' \in [Decoders -> Seq(Surf0)]
      /\ m_SList'[d] = RemoveFirst(m_SList[d], x)
      /\ \A f \in Decoders : f # d => m_SList'[f] = m_SList[f]
    BY <1>1, <1>2 DEF ReleaseSurface
<1>5. /\ refs' \in [Frames -> Int] /\ Locked' \in [Frames -> Int]
      /\ \A s \in Frames :
           LET gone == s = x /\ s \in Range(m_SList[d]) IN
           refs'[s] = refs[s] - Count(gone) /\ Locked'[s] = Locked[s] - Count(gone)
  <2>1. CASE x \in Range(m_SList[d]) \ {NoSurface}
    BY <1>1, <2>1 DEF ReleaseSurface, Release, Unlock, Surf0, Count
  <2>2. CASE ~ (x \in Range(m_SList[d]) \ {NoSurface})
    BY <1>1, <2>2, FrameFacts DEF ReleaseSurface, Count
  <2> QED  BY <2>1, <2>2
<1>6. ASSUME NEW s \in Frames, s = x /\ s \in Range(m_SList[d])
      PROVE  s[1] = d
    BY <1>6, FrameFacts DEF QueueOwnership
<1>7. ASSUME NEW s \in Frames
      PROVE  LET gone == s = x /\ s[1] = d /\ Queued(s) IN
             /\ s \in Range(m_SList'[s[1]]) <=> Queued(s) /\ ~ gone
             /\ refs'[s] = refs[s] - Count(gone)
             /\ Locked'[s] = Locked[s] - Count(gone)
  <2>1. s[1] \in Decoders
    BY FrameFacts
  <2>2. (s = x /\ s[1] = d /\ Queued(s)) <=> (s = x /\ s \in Range(m_SList[d]))
    BY <1>6 DEF Queued
  <2>3. s \in Range(m_SList'[s[1]]) <=> Queued(s) /\ ~ (s = x /\ s[1] = d /\ Queued(s))
    BY <1>3, <1>4, <2>1 DEF Queued
  <2> QED  BY <1>5, <2>2, <2>3
<1> QED  BY <1>2, <1>3, <1>4, <1>5, <1>7

(* AddSurface puts x into buffer d, with a reference and a lock, when the  *)
(* buffer takes surfaces.                                                  *)
LEMMA AddEffect ==
    ASSUME Typed, NEW d \in Decoders, QueueOwnership(d), NEW x \in Surf0,
           x # NoSurface => x[1] = d /\ x \notin Range(m_SList[d]) /\ x[2] <= nDecoded[d],
           AddSurface(d, x)
    PROVE  /\ m_SList' \in [Decoders -> Seq(Surf0)]
           /\ m_SList'[d] \in {m_SList[d], Append(m_SList[d], x)}
           /\ m_IsBufferingAllowed[d] => m_SList'[d] = Append(m_SList[d], x)
           /\ pInsEvent' \in [Decoders -> BOOLEAN]
           /\ \A f \in Decoders : f # d => m_SList'[f] = m_SList[f]
           /\ Once(m_SList'[d], Frames)
           /\ Range(m_SList'[d]) \subseteq Range(m_SList[d]) \cup {x}
           /\ \A s \in Range(m_SList'[d]) \ {NoSurface} : s[1] = d /\ s[2] <= nDecoded[d]
           /\ refs' \in [Frames -> Int] /\ Locked' \in [Frames -> Int]
           /\ \A s \in Frames :
                LET come == s = x /\ m_IsBufferingAllowed[d] IN
                /\ s \in Range(m_SList'[s[1]]) <=> Queued(s) \/ come
                /\ refs'[s] = refs[s] + Count(come)
                /\ Locked'[s] = Locked[s] + Count(come)
<1>1. /\ m_SList \in [Decoders -> Seq(Surf0)] /\ m_SList[d] \in Seq(Surf0)
      /\ refs \in [Frames -> Int] /\ Locked \in [Frames -> Int]
      /\ pInsEvent \in [Decoders -> BOOLEAN] /\ d \in Decoders
    BY DEF Typed, BufferTypes, Surf0
<1>2. CASE ~ m_IsBufferingAllowed[d]
    BY <1>1, <1>2 DEF AddSurface, Queued, Count, QueueOwnership
<1>3. CASE m_IsBufferingAllowed[d]
  <2> DEFINE q == Append(m_SList[d], x)
  <2>1. q \in Seq(Surf0) /\ Range(q) = Range(m_SList[d]) \cup {x}
    BY <1>1, AppendElements
  <2>2. Once(q, Frames)
    BY <1>1, AppendOnce, FrameFacts DEF QueueOwnership
  <2> HIDE DEF q
  <2>3. m_SList' = [m_SList EXCEPT ![d] = q] /\ pInsEvent' = [pInsEvent EXCEPT ![d] = TRUE]
    BY <1>3 DEF AddSurface, q
  <2>4. /\ m_SList' \in [Decoders -> Seq(Surf0)] /\ m_SList'[d] = q
        /\ pInsEvent' \in [Decoders -> BOOLEAN]
        /\ \A f \in Decoders : f # d => m_SList'[f] = m_SList[f]
    BY <1>1, <2>1, <2>3
  <2>5. \A s \in Range(q) \ {NoSurface} : s[1] = d /\ s[2] <= nDecoded[d]
    BY <2>1 DEF QueueOwnership
  <2>6. /\ refs' \in [Frames -> Int] /\ Locked' \in [Frames -> Int]
        /\ \A s \in Frames : refs'[s] = refs[s] + Count(s = x)
                             /\ Locked'[s] = Locked[s] + Count(s = x)
    <3>1. CASE x = NoSurface
      BY <1>1, <1>3, <3>1, FrameFacts DEF AddSurface, Count
    <3>2. CASE x # NoSurface
      BY <1>1, <1>3, <3>2 DEF AddSurface, AddRef, Lock, Surf0, Count
    <3> QED  BY <3>1, <3>2
  <2>7. ASSUME NEW s \in Frames
        PROVE  s \in Range(m_SList'[s[1]]) <=> Queued(s) \/ s = x
    <3>1. s[1] \in Decoders /\ s # NoSurface
      BY FrameFacts
    <3>2. CASE s[1] = d
      BY <2>1, <2>4, <3>2 DEF Queued
    <3>3. CASE s[1] # d
      BY <2>4, <3>1, <3>3 DEF Queued
    <3> QED  BY <3>2, <3>3
  <2> QED  BY <1>3, <2>1, <2>2, <2>4, <2>5, <2>6, <2>7 DEF q
<1> QED  BY <1>2, <1>3

(* QueryFree and NotifyFreeCome give at most one registered surface back.  *)
GivesBack(s) ==
    /\ s \in Range(m_Surfaces)
    /\ m_Surfaces' \in Seq(Frames) /\ Once(m_Surfaces', Frames)
    /\ Range(m_Surfaces') = Range(m_Surfaces) \ {s}
    /\ refs' = [refs EXCEPT ![s] = @ - 1]

SyncStep == UNCHANGED <<m_Surfaces, refs>> \/ \E s \in Frames : GivesBack(s)

LEMMA QueryFreeEffect ==
    ASSUME Typed, HolderOwnership, CanQueryFree, QueryFree
    PROVE  SyncStep
<1>1. m_Surfaces \in Seq(Frames) /\ Once(m_Surfaces, Frames) /\ Len(m_Surfaces) \in Nat
    BY LenProperties DEF Typed, SynchronizerTypes, HolderOwnership
<1>2. CASE Room
    BY <1>2 DEF QueryFree, SyncStep
<1>3. CASE ~ Room
  <2> DEFINE I == {j \in 1..Len(m_Surfaces) : IsFree(m_Surfaces[j])}
             i == SelectInSeq(m_Surfaces, IsFree)
  <2>1. I \in SUBSET Nat /\ I # {}
    BY <1>1, <1>3 DEF CanQueryFree
  <2>2. \E m \in I : \A j \in I : m <= j
    <3> HIDE DEF I
    <3> QED  BY <2>1, LeastElement
  <2>3. i = Min(I)
    BY <2>1 DEF SelectInSeq
  <2>4. Min(I) \in I
    <3> HIDE DEF I
    <3> QED  BY <2>2 DEF Min
  <2>5. i \in 1..Len(m_Surfaces)
    BY <2>3, <2>4
  <2>6. m_Surfaces' = RemoveAt(m_Surfaces, i) /\ Release(m_Surfaces[i])
    BY <1>3 DEF QueryFree
  <2> HIDE DEF i
  <2>7. GivesBack(m_Surfaces[i]) /\ m_Surfaces[i] \in Frames
    BY <1>1, <2>5, <2>6, RemoveAtOnce DEF GivesBack, Release
  <2> QED  BY <2>7 DEF SyncStep
<1> QED  BY <1>2, <1>3

LEMMA NotifyEffect ==
    ASSUME Typed, HolderOwnership, NotifyFreeCome
    PROVE  SyncStep /\ m_wait' \in BOOLEAN
<1>1. CASE m_wait /\ CanQueryFree
    BY <1>1, QueryFreeEffect DEF NotifyFreeCome
<1>2. CASE ~ (m_wait /\ CanQueryFree)
    BY <1>2 DEF NotifyFreeCome, SyncStep, Typed, SynchronizerTypes
<1> QED  BY <1>1, <1>2

LEMMA SyncStepTypes ==
    ASSUME Typed, SyncStep
    PROVE  /\ m_Surfaces' \in Seq(Frames) /\ refs' \in [Frames -> Int]
           /\ Range(m_Surfaces') \subseteq Range(m_Surfaces)
           /\ Once(m_Surfaces, Frames) => Once(m_Surfaces', Frames)
           /\ \A s \in Frames : refs'[s] - Count(s \in Range(m_Surfaces'))
                                = refs[s] - Count(s \in Range(m_Surfaces))
<1>1. m_Surfaces \in Seq(Frames) /\ refs \in [Frames -> Int]
    BY DEF Typed, SynchronizerTypes
<1>2. CASE UNCHANGED <<m_Surfaces, refs>>
    BY <1>1, <1>2
<1>3. CASE \E s \in Frames : GivesBack(s)
    BY <1>1, <1>3 DEF GivesBack, Count
<1> QED  BY <1>2, <1>3 DEF SyncStep

----------------------------------------------------------------------------
(* Typing.                                                                 *)

(* What is appended to the sequences of the composing session.             *)
LEMMA ComposerSequences ==
    ASSUME Typed
    PROVE  /\ \A s \in Frames : Append(vppIn, s) \in Seq(Frames)
           /\ \A q \in Seq(Frames) : /\ Append(m_BSPool, q) \in Seq(Seq(Frames))
                                     /\ Append(m_BSPool, q) # <<>>
           /\ m_BSPool # <<>> =>
                 /\ Head(m_BSPool) \in Seq(Frames) /\ Tail(m_BSPool) \in Seq(Seq(Frames))
                 /\ Append(written, Head(m_BSPool)) \in Seq(Seq(Frames))
           /\ Submitted \in Seq(Frames) /\ <<>> \in Seq(Frames)
           /\ \A d \in Decoders : m_SList[d] # <<>> => Head(m_SList[d]) \in Surf0
<1>1. /\ vppIn \in Seq(Frames) /\ vppExt \in Seq(Frames)
      /\ m_BSPool \in Seq(Seq(Frames)) /\ written \in Seq(Seq(Frames))
      /\ \A d \in Decoders : m_SList[d] \in Seq(Surf0)
    BY DEF Typed, LibraryTypes, ComposerTypes, BufferTypes, Surf0
<1>2. \A s \in Frames : Append(vppIn, s) \in Seq(Frames)
    BY <1>1, AppendElements
<1>3. \A q \in Seq(Frames) : /\ Append(m_BSPool, q) \in Seq(Seq(Frames))
                             /\ Append(m_BSPool, q) # <<>>
    BY <1>1, AppendElements, AppendNonempty
<1>4. m_BSPool # <<>> =>
          /\ Head(m_BSPool) \in Seq(Frames) /\ Tail(m_BSPool) \in Seq(Seq(Frames))
          /\ Append(written, Head(m_BSPool)) \in Seq(Seq(Frames))
    BY <1>1, TailElements, AppendElements
<1>5. Submitted \in Seq(Frames) /\ <<>> \in Seq(Frames)
    BY <1>1, EmptySeq DEF Submitted
<1>6. \A d \in Decoders : m_SList[d] # <<>> => Head(m_SList[d]) \in Surf0
    BY <1>1, TailElements
<1> QED  BY <1>2, <1>3, <1>4, <1>5, <1>6

(* What the decoder appends, and what it may assume of its frame in hand.  *)
LEMMA HandFacts ==
    ASSUME Typed, Ownership, NEW d \in Decoders
    PROVE  /\ Current(d) = <<d, nDecoded[d]>> /\ Current(d)[1] = d
           /\ Current(d)[2] = nDecoded[d] /\ nDecoded[d] \in Nat
           /\ NoSurface \in Surf0 /\ Frames \subseteq Surf0
           /\ QueueOwnership(d) /\ HandOwnership(d)
           /\ dpc[d] \in {"push", "ration", "waiting", "add", "sync"} =>
                  Current(d) \in Frames /\ Current(d) # NoSurface
           /\ nDecoded[d] < NumFrames[d] => <<d, nDecoded[d] + 1>> \in Frames
<1>1. nDecoded[d] \in Nat /\ NumFrames[d] \in Nat
    BY FrameFacts DEF Typed, DecoderTypes
<1>2. nDecoded[d] < NumFrames[d] => nDecoded[d] + 1 \in 1..NumFrames[d]
    BY <1>1
<1>3. nDecoded[d] < NumFrames[d] => <<d, nDecoded[d] + 1>> \in Frames
    BY <1>2, FrameFacts
<1> QED  BY <1>1, <1>3, FrameFacts DEF Typed, Ownership, Current, Surf0

(* The steps of decoder d keep the types.                                  *)
LEMMA DecoderTypesStep ==
    ASSUME Typed, Ownership, NEW d \in Decoders, DecodeSession(d)
    PROVE  Typed'
<1> DEFINE Goal == /\ refs' \in [Frames -> Int] /\ Locked' \in [Frames -> Int]
                   /\ SynchronizerTypes' /\ decHold' \subseteq Frames
                   /\ DecoderTypes' /\ BufferTypes' /\ faults' \in Nat
                   /\ dpc'[d] \in {"push", "ration", "waiting", "add", "sync"} =>
                         <<d, nDecoded'[d]>> \in Frames
                   /\ \A f \in Decoders : f # d => UNCHANGED <<dpc[f], nDecoded[f]>>
<1>1. /\ refs \in [Frames -> Int] /\ Locked \in [Frames -> Int]
      /\ SynchronizerTypes /\ decHold \subseteq Frames
      /\ DecoderTypes /\ BufferTypes /\ faults \in Nat
    BY DEF Typed, LibraryTypes, LauncherTypes
<1>2. /\ m_SList \in [Decoders -> Seq(Surf0)] /\ m_Surfaces \in Seq(Frames)
      /\ m_IsBufferingAllowed \in [Decoders -> BOOLEAN]
      /\ pInsEvent \in [Decoders -> BOOLEAN] /\ "err" \in Statuses /\ "ok" \in Statuses
    BY <1>1 DEF BufferTypes, SynchronizerTypes, Surf0, Statuses
<1>3. OtherThreads
    BY DEF DecodeSession, DecodeStart, DecodeFrame, NoMoreFramesSignal, RegisterSurface,
       StartWaitingForFree, WakeUp, AddToBuffer, FinishTurn
<1>4. /\ dpc[d] \in {"push", "ration", "waiting", "add", "sync"} => Current(d) \in Frames
      /\ Current(d) = <<d, nDecoded[d]>>
    BY HandFacts
<1>5. ASSUME DecodeStart(d) \/ WakeUp(d) PROVE Goal
  <2>1. /\ UNCHANGED <<refs, Locked, syncVars, decHold, nDecoded, m_nProcessedFramesNum,
                       bufVars, faults>>
    BY <1>5 DEF DecodeStart, WakeUp
  <2>2. /\ dpc' \in [Decoders -> {"start", "decode", "signal", "push", "ration",
                                  "waiting", "add", "sync", "done"}]
        /\ decSts' \in [Decoders -> Statuses]
        /\ \A f \in Decoders : f # d => dpc'[f] = dpc[f]
        /\ dpc'[d] \notin {"push", "ration", "waiting", "sync"}
        /\ dpc'[d] = "add" => dpc[d] = "waiting"
    BY ZenonT(60), <1>1, <1>2, <1>5 DEF DecodeStart, WakeUp, GotoD, EndDecode, DecoderTypes
  <2> QED  BY <1>1, <1>4, <2>1, <2>2
           DEF syncVars, bufVars, SynchronizerTypes, BufferTypes, DecoderTypes
<1>6. ASSUME RegisterSurface(d) PROVE Goal
  <2>1. Append(m_Surfaces, Current(d)) \in Seq(Frames) /\ dpc[d] = "push"
    BY <1>2, <1>4, <1>6, AppendElements DEF RegisterSurface
  <2>2. refs' \in [Frames -> Int] /\ m_Surfaces' \in Seq(Frames)
    BY <1>1, <1>4, <1>6, <2>1 DEF RegisterSurface, PushSurface, AddRef
  <2>3. /\ dpc' \in [Decoders -> {"start", "decode", "signal", "push", "ration",
                                  "waiting", "add", "sync", "done"}]
        /\ \A f \in Decoders : f # d => dpc'[f] = dpc[f]
    BY <1>1, <1>6 DEF RegisterSurface, GotoD, DecoderTypes
  <2> QED  BY <1>1, <1>4, <1>6, <2>1, <2>2, <2>3
           DEF RegisterSurface, bufVars, SynchronizerTypes, BufferTypes, DecoderTypes
<1>7. ASSUME StartWaitingForFree(d) PROVE Goal
  <2>1. SyncStep /\ m_wait' \in BOOLEAN
    <3>1. CASE TakeFree
      BY <1>1, <3>1, QueryFreeEffect DEF TakeFree, Ownership, SynchronizerTypes
    <3>2. CASE StartWaiting
      BY <3>2 DEF StartWaiting, SyncStep
    <3> QED  BY <1>7, <3>1, <3>2 DEF StartWaitingForFree
  <2>2. refs' \in [Frames -> Int] /\ m_Surfaces' \in Seq(Frames)
    BY <2>1, SyncStepTypes
  <2>3. /\ dpc' \in [Decoders -> {"start", "decode", "signal", "push", "ration",
                                  "waiting", "add", "sync", "done"}]
        /\ \A f \in Decoders : f # d => dpc'[f] = dpc[f]
    BY <1>1, <1>7 DEF StartWaitingForFree, GotoD, DecoderTypes
  <2> QED  BY <1>1, <1>4, <1>7, <2>1, <2>2, <2>3
           DEF StartWaitingForFree, bufVars, SynchronizerTypes, BufferTypes, DecoderTypes
<1>8. ASSUME NoMoreFramesSignal(d) PROVE Goal
  <2>1. /\ m_SList' \in [Decoders -> Seq(Surf0)] /\ pInsEvent' \in [Decoders -> BOOLEAN]
        /\ refs' \in [Frames -> Int] /\ Locked' \in [Frames -> Int]
    BY <1>8, HandFacts, AddEffect DEF NoMoreFramesSignal
  <2>2. /\ dpc' \in [Decoders -> {"start", "decode", "signal", "push", "ration",
                                  "waiting", "add", "sync", "done"}]
        /\ dpc'[d] = "done" /\ \A f \in Decoders : f # d => dpc'[f] = dpc[f]
    BY <1>1, <1>8 DEF NoMoreFramesSignal, GotoD, DecoderTypes
  <2> QED  BY <1>1, <1>8, <2>1, <2>2
           DEF NoMoreFramesSignal, syncVars, SynchronizerTypes, BufferTypes, DecoderTypes,
               Surf0
<1>9. ASSUME AddToBuffer(d) PROVE Goal
  <2>1. /\ m_SList' \in [Decoders -> Seq(Surf0)] /\ pInsEvent' \in [Decoders -> BOOLEAN]
        /\ refs' \in [Frames -> Int] /\ Locked' \in [Frames -> Int]
    <3> HIDE DEF Goal
    <3>0. dpc[d] = "add"
      BY <1>9 DEF AddToBuffer
    <3>1. /\ QueueOwnership(d) /\ Current(d) \in Surf0 /\ Current(d)[1] = d
          /\ Current(d) \notin Range(m_SList[d]) /\ Current(d)[2] <= nDecoded[d]
      <4>1. QueueOwnership(d) /\ HandOwnership(d) /\ Current(d)[1] = d
        BY HandFacts
      <4>2. Current(d)[2] = nDecoded[d] /\ nDecoded[d] \in Nat
        BY HandFacts
      <4>3. Current(d) \in Surf0
        BY <3>0, HandFacts
      <4> HIDE DEF Current
      <4> QED  BY <3>0, <4>1, <4>2, <4>3 DEF HandOwnership
    <3>2. AddSurface(d, Current(d))
      BY <1>9 DEF AddToBuffer
    <3> QED  BY <3>1, <3>2, AddEffect
  <2>2. /\ dpc' \in [Decoders -> {"start", "decode", "signal", "push", "ration",
                                  "waiting", "add", "sync", "done"}]
        /\ dpc[d] = "add" /\ \A f \in Decoders : f # d => dpc'[f] = dpc[f]
    BY <1>1, <1>9 DEF AddToBuffer, GotoD, DecoderTypes
  <2> QED  BY <1>1, <1>4, <1>9, <2>1, <2>2
           DEF AddToBuffer, syncVars, SynchronizerTypes, BufferTypes, DecoderTypes, Surf0
<1>10. ASSUME FinishTurn(d) PROVE Goal
  <2>1. refs' \in [Frames -> Int] /\ faults' \in Nat
    BY <1>1, <1>4, <1>10 DEF FinishTurn, Release, MayFail
  <2>2. /\ dpc' \in [Decoders -> {"start", "decode", "signal", "push", "ration",
                                  "waiting", "add", "sync", "done"}]
        /\ decSts' \in [Decoders -> Statuses]
        /\ m_nProcessedFramesNum' \in [Decoders -> Nat]
        /\ dpc'[d] \in {"decode", "done"} /\ \A f \in Decoders : f # d => dpc'[f] = dpc[f]
    <3>1. /\ m_nProcessedFramesNum' = [m_nProcessedFramesNum EXCEPT ![d] = @ + 1]
             \/ UNCHANGED m_nProcessedFramesNum
          /\ UNCHANGED decSts \/ decSts' = [decSts EXCEPT ![d] = "err"]
          /\ GotoD(d, "decode") \/ GotoD(d, "done")
      BY <1>10 DEF FinishTurn, EndDecode
    <3>2. m_nProcessedFramesNum' \in [Decoders -> Nat]
      BY <1>1, <3>1 DEF DecoderTypes
    <3>3. decSts' \in [Decoders -> Statuses]
      BY <1>1, <1>2, <3>1 DEF DecoderTypes
    <3> QED  BY <1>1, <3>1, <3>2, <3>3 DEF GotoD, DecoderTypes
  <2> QED  BY <1>1, <1>10, <2>1, <2>2
           DEF FinishTurn, syncVars, bufVars, SynchronizerTypes, BufferTypes, DecoderTypes
<1>11. ASSUME DecodeFrame(d) PROVE Goal
  <2> DEFINE x == <<d, nDecoded[d] + 1>>
  <2>1. CASE /\ nDecoded[d] < NumFrames[d]
             /\ nDecoded' = [nDecoded EXCEPT ![d] = @ + 1]
             /\ AddRef(x) /\ Lock({x}) /\ decHold' = decHold \cup {x}
             /\ GotoD(d, "push") /\ UNCHANGED <<m_SList, pInsEvent, decSts, faults>>
    <3>1. x \in Frames
      BY <2>1, HandFacts
    <3>2. refs' \in [Frames -> Int] /\ Locked' \in [Frames -> Int] /\ decHold' \subseteq Frames
      BY <1>1, <2>1, <3>1 DEF AddRef, Lock
    <3>3. /\ dpc' \in [Decoders -> {"start", "decode", "signal", "push", "ration",
                                    "waiting", "add", "sync", "done"}]
          /\ nDecoded' \in [Decoders -> Nat] /\ <<d, nDecoded'[d]>> = x
          /\ \A f \in Decoders : f # d => dpc'[f] = dpc[f] /\ nDecoded'[f] = nDecoded[f]
      BY <1>1, <2>1 DEF GotoD, DecoderTypes
    <3> QED  BY <1>1, <1>11, <2>1, <3>1, <3>2, <3>3
             DEF DecodeFrame, syncVars, SynchronizerTypes, BufferTypes, DecoderTypes
  <2>2. CASE /\ UNCHANGED <<decHold, nDecoded>>
             /\ \/ UNCHANGED <<refs, Locked, m_SList, pInsEvent>> \/ AddSurface(d, NoSurface)
             /\ EndDecode(d, "signal", "ok") \/ EndDecode(d, "signal", "err")
             /\ faults' \in Nat
    <3>1. /\ m_SList' \in [Decoders -> Seq(Surf0)] /\ pInsEvent' \in [Decoders -> BOOLEAN]
          /\ refs' \in [Frames -> Int] /\ Locked' \in [Frames -> Int]
      <4>1. CASE UNCHANGED <<refs, Locked, m_SList, pInsEvent>>
        BY <1>1, <1>2, <4>1
      <4>2. CASE AddSurface(d, NoSurface)
        BY <4>2, HandFacts, AddEffect
      <4> QED  BY <2>2, <4>1, <4>2
    <3>2. /\ dpc' \in [Decoders -> {"start", "decode", "signal", "push", "ration",
                                    "waiting", "add", "sync", "done"}]
          /\ decSts' \in [Decoders -> Statuses] /\ dpc'[d] = "signal"
          /\ \A f \in Decoders : f # d => dpc'[f] = dpc[f]
      BY ZenonT(60), <1>1, <1>2, <2>2 DEF EndDecode, GotoD, DecoderTypes
    <3> QED  BY <1>1, <1>11, <2>2, <3>1, <3>2
             DEF DecodeFrame, syncVars, SynchronizerTypes, BufferTypes, DecoderTypes, Surf0
  <2> QED  BY <1>1, <1>11, <2>1, <2>2 DEF DecodeFrame, MayFail
<1>12. Goal
  <2> HIDE DEF Goal
  <2> QED  BY <1>5, <1>6, <1>7, <1>8, <1>9, <1>10, <1>11 DEF DecodeSession
<1>13. \A f \in Decoders :
           dpc'[f] \in {"push", "ration", "waiting", "add", "sync"} =>
               <<f, nDecoded'[f]>> \in Frames
    BY <1>12 DEF Typed, Current
<1> QED  BY <1>3, <1>12, <1>13 DEF Typed, LibraryTypes, ComposerTypes, LauncherTypes,
             OtherThreads, encVars, outVars, runVars, Current

(* What the composing session leaves of its types when it does not call    *)
(* the synchronizer or a buffer.                                           *)
LEMMA ComposerFrame ==
    ASSUME EncodeSession
    PROVE  DecodersAndLauncher /\ epc # "done"
BY DEF EncodeSession, GetSurface, WaitForSurfaceInsertion, VPPOneFrame, SwitchBuffer,
   ReleaseComposed, EncodeOneFrame, PutBS, CleanUp, StartCleanUp, CleanBuffer, CloseVPP,
   NotifyAtEnd

(* The steps of the composing session keep the types.                      *)
LEMMA ComposerTypesStep ==
    ASSUME Typed, Ownership, EncodeSession
    PROVE  Typed'
<1> DEFINE Goal == /\ refs' \in [Frames -> Int] /\ Locked' \in [Frames -> Int]
                   /\ SynchronizerTypes' /\ vppHold' \subseteq Frames
                   /\ vppIn' \in Seq(Frames)
                   /\ ComposerTypes' /\ BufferTypes' /\ faults' \in Nat
                   /\ epc' = "put" => m_BSPool' # <<>>
<1>1. /\ refs \in [Frames -> Int] /\ Locked \in [Frames -> Int]
      /\ SynchronizerTypes /\ vppHold \subseteq Frames /\ vppIn \in Seq(Frames)
      /\ ComposerTypes /\ BufferTypes /\ faults \in Nat
      /\ (epc = "put" => m_BSPool # <<>>) /\ curBuffer \in Decoders /\ decExt \in Surf0
      /\ "err" \in Statuses /\ "ok" \in Statuses
    BY DEF Typed, LibraryTypes, LauncherTypes, ComposerTypes, Statuses, Surf0
<1>2. /\ m_SList \in [Decoders -> Seq(Surf0)] /\ m_Surfaces \in Seq(Frames)
      /\ m_IsBufferingAllowed \in [Decoders -> BOOLEAN]
      /\ pInsEvent \in [Decoders -> BOOLEAN]
    BY <1>1 DEF BufferTypes, SynchronizerTypes, Surf0
<1>3. \A f \in Decoders, x \in Surf0 : ReleaseSurface(f, x) =>
          /\ m_SList' \in [Decoders -> Seq(Surf0)]
          /\ refs' \in [Frames -> Int] /\ Locked' \in [Frames -> Int]
    BY ReleaseEffect DEF Ownership
<1>4. NotifyFreeCome \/ UNCHANGED <<refs, syncVars>> =>
          refs' \in [Frames -> Int] /\ SynchronizerTypes'
  <2>1. UNCHANGED <<refs, syncVars>> => SyncStep /\ m_wait' \in BOOLEAN
    BY <1>1 DEF SyncStep, syncVars, SynchronizerTypes
  <2>2. NotifyFreeCome => SyncStep /\ m_wait' \in BOOLEAN
    BY NotifyEffect DEF Ownership
  <2>3. SyncStep => refs' \in [Frames -> Int] /\ m_Surfaces' \in Seq(Frames)
    BY SyncStepTypes
  <2> QED  BY <2>1, <2>2, <2>3 DEF SynchronizerTypes
<1>5. /\ \A q \in Seq(Frames) : Append(m_BSPool, q) \in Seq(Seq(Frames))
                                /\ Append(m_BSPool, q) # <<>>
      /\ m_BSPool # <<>> =>
            /\ Head(m_BSPool) \in Seq(Frames) /\ Tail(m_BSPool) \in Seq(Seq(Frames))
            /\ Append(written, Head(m_BSPool)) \in Seq(Seq(Frames))
      /\ Submitted \in Seq(Frames) /\ <<>> \in Seq(Frames)
      /\ \A d \in Decoders : m_SList[d] # <<>> => Head(m_SList[d]) \in Surf0
      /\ \A s \in Frames : Append(vppIn, s) \in Seq(Frames)
    BY ComposerSequences
<1>6. ASSUME GetSurface PROVE Goal
  <2>1. /\ UNCHANGED <<refs, Locked, syncVars, vppHold, vppIn, bufVars, curBuffer, vppExt,
                       outVars, faults, encSts>>
        /\ epc' \in {"vpp", "wait"} /\ isQuit' \in BOOLEAN /\ decExt' \in Surf0
    BY <1>1, <1>5, <1>6 DEF GetSurface, Goto, ComposerTypes, Surf0
  <2> QED  BY <1>1, <2>1 DEF syncVars, bufVars, outVars, SynchronizerTypes, BufferTypes,
           ComposerTypes, Surf0
<1>7. ASSUME WaitForSurfaceInsertion PROVE Goal
  <2>1. /\ UNCHANGED <<Locked, vppHold, vppIn, m_SList, m_IsBufferingAllowed, curBuffer,
                       isQuit, decExt, vppExt, outVars>>
        /\ pInsEvent' \in [Decoders -> BOOLEAN] /\ faults' \in Nat
        /\ epc' \in {"get", "wait", "done"} /\ encSts' \in Statuses
        /\ NotifyFreeCome \/ UNCHANGED <<refs, syncVars>>
    <3> HIDE DEF Goal
    <3>1. epc \in {"wait"} /\ encSts \in Statuses
      BY <1>1, <1>7 DEF WaitForSurfaceInsertion, ComposerTypes
    <3>2. CASE /\ pInsEvent' = [pInsEvent EXCEPT ![curBuffer] = FALSE]
               /\ Goto("get") /\ UNCHANGED <<refs, syncVars, faults>>
      BY <1>1, <1>2, <1>7, <3>1, <3>2 DEF WaitForSurfaceInsertion, Goto
    <3>3. CASE /\ NotifyFreeCome /\ UNCHANGED pInsEvent
               /\ \/ UNCHANGED <<epc, encSts, faults>>
                  \/ EndEncode("err") /\ (UNCHANGED faults \/ MayFail)
      BY <1>1, <1>2, <1>7, <3>1, <3>3 DEF WaitForSurfaceInsertion, EndEncode, MayFail
    <3> QED  BY <1>7, <3>2, <3>3 DEF WaitForSurfaceInsertion
  <2> QED  BY <1>1, <1>4, <2>1 DEF outVars, BufferTypes, ComposerTypes
<1>8. ASSUME VPPOneFrame PROVE Goal
  <2>1. /\ UNCHANGED <<refs, syncVars, bufVars, curBuffer, isQuit, decExt, outVars>>
        /\ faults' \in Nat /\ encSts' \in Statuses
        /\ epc' \in {"more", "composed", "done"}
    BY SMTT(40), <1>1, <1>8 DEF VPPOneFrame, Goto, EndEncode, MayFail, ComposerTypes
  <2>2. /\ Locked' \in [Frames -> Int] /\ vppHold' \subseteq Frames
        /\ vppIn' \in Seq(Frames) /\ vppExt' \in Seq(Frames)
    <3>1. CASE /\ decExt # NoSurface
               /\ vppHold' = vppHold \cup {decExt} /\ Lock({decExt})
               /\ \/ vppIn' = Append(vppIn, decExt) /\ UNCHANGED vppExt
                  \/ vppIn' = <<>> /\ vppExt' = Append(vppIn, decExt)
      <4>1. decExt \in Frames /\ Append(vppIn, decExt) \in Seq(Frames)
        BY <1>1, <1>5, <3>1 DEF Surf0
      <4>2. Locked' \in [Frames -> Int]
        BY <1>1, <3>1 DEF Lock
      <4> QED  BY <1>1, <1>5, <3>1, <4>1, <4>2 DEF ComposerTypes
    <3>2. CASE /\ UNCHANGED <<Locked, vppHold>>
               /\ vppExt' \in {<<>>, vppIn, vppExt} /\ vppIn' \in {<<>>, vppIn}
      BY <1>1, <1>5, <3>2 DEF ComposerTypes
    <3> QED  BY <1>8, <3>1, <3>2 DEF VPPOneFrame
  <2> QED  BY <1>1, <2>1, <2>2
           DEF syncVars, bufVars, outVars, SynchronizerTypes, BufferTypes, ComposerTypes
<1>9. ASSUME SwitchBuffer \/ ReleaseComposed PROVE Goal
  <2>1. /\ UNCHANGED <<syncVars, vppHold, vppIn, m_IsBufferingAllowed, pInsEvent, isQuit,
                       decExt, vppExt, outVars, faults, encSts>>
        /\ ReleaseSurface(curBuffer, decExt) /\ epc' \in {"get", "encode"}
        /\ curBuffer' \in Decoders
    BY <1>1, <1>9, FrameFacts DEF SwitchBuffer, ReleaseComposed, Goto, NextBuffer,
       FirstBuffer, Decoders
  <2> QED  BY <1>1, <1>3, <2>1
           DEF syncVars, outVars, SynchronizerTypes, BufferTypes, ComposerTypes, Surf0
<1>10. ASSUME EncodeOneFrame PROVE Goal
  <2>1. /\ UNCHANGED <<syncVars, vppHold, vppIn, m_IsBufferingAllowed, pInsEvent,
                       curBuffer, isQuit, decExt, vppExt, written>>
        /\ ReleaseSurface(1, decExt) /\ faults' \in Nat /\ encSts' \in Statuses
        /\ epc' \in {"put", "get", "flush", "done"}
        /\ m_BSPool' = Append(m_BSPool, Submitted) \/ (UNCHANGED m_BSPool /\ epc' # "put")
    BY <1>1, <1>10 DEF EncodeOneFrame, Goto, EndEncode, MayFail, ComposerTypes
  <2>2. m_BSPool' \in Seq(Seq(Frames)) /\ (epc' = "put" => m_BSPool' # <<>>)
    BY <1>1, <1>5, <2>1 DEF ComposerTypes
  <2> QED  BY <1>1, <1>3, <2>1, <2>2, FrameFacts
           DEF syncVars, SynchronizerTypes, BufferTypes, ComposerTypes, Surf0
<1>11. ASSUME PutBS PROVE Goal
  <2>1. /\ UNCHANGED <<Locked, vppHold, vppIn, bufVars, curBuffer, isQuit, decExt, vppExt>>
        /\ faults' \in Nat /\ encSts' \in Statuses /\ epc' \in {"get", "flush", "done"}
        /\ NotifyFreeCome \/ UNCHANGED <<refs, syncVars>>
        /\ m_BSPool # <<>>
        /\ \/ written' = Append(written, Head(m_BSPool)) /\ m_BSPool' = Tail(m_BSPool)
           \/ UNCHANGED <<written, m_BSPool>>
    <3> HIDE DEF Goal
    <3>1. m_BSPool # <<>> /\ encSts \in Statuses
      BY <1>1, <1>11 DEF PutBS, ComposerTypes
    <3>2. CASE /\ NotifyFreeCome /\ UNCHANGED faults
               /\ written' = Append(written, Head(m_BSPool)) /\ m_BSPool' = Tail(m_BSPool)
               /\ Goto("get") \/ Goto("flush")
      BY <1>1, <1>11, <3>1, <3>2 DEF PutBS, Goto
    <3>3. CASE /\ NotifyFreeCome \/ UNCHANGED <<refs, syncVars>>
               /\ EndEncode("err") /\ MayFail /\ UNCHANGED outVars
      BY <1>1, <1>11, <3>1, <3>3 DEF PutBS, EndEncode, MayFail, outVars
    <3> QED  BY <1>11, <3>2, <3>3 DEF PutBS
  <2>2. m_BSPool' \in Seq(Seq(Frames)) /\ written' \in Seq(Seq(Frames))
    BY <1>1, <1>5, <2>1 DEF ComposerTypes
  <2> QED  BY <1>1, <1>4, <2>1, <2>2 DEF bufVars, BufferTypes, ComposerTypes
<1>12. ASSUME CleanBuffer PROVE Goal
  <2>1. /\ UNCHANGED <<syncVars, vppHold, vppIn, pInsEvent, isQuit, vppExt, outVars,
                       encSts, faults>>
        /\ m_IsBufferingAllowed' \in [Decoders -> BOOLEAN]
        /\ curBuffer' \in Decoders /\ epc' \in {"clean", "close"} /\ decExt' \in Surf0
        /\ \/ ReleaseSurface(curBuffer, decExt') \/ UNCHANGED <<refs, Locked, m_SList>>
    <3>1. curBuffer < NumDec => curBuffer + 1 \in Decoders
      BY <1>1, FrameFacts DEF Decoders
    <3> QED  BY <1>1, <1>2, <1>5, <1>12, <3>1 DEF CleanBuffer
  <2> QED  BY <1>1, <1>2, <1>3, <2>1
           DEF syncVars, outVars, SynchronizerTypes, BufferTypes, ComposerTypes, Surf0
<1>13. ASSUME CleanUp \/ CloseVPP PROVE Goal
  <2>1. /\ UNCHANGED <<refs, syncVars, bufVars, isQuit, decExt, vppExt, outVars, faults,
                       encSts>>
        /\ curBuffer' \in Decoders /\ epc' \in {"clean", "notify"}
        /\ Locked' \in [Frames -> Int] /\ vppHold' \subseteq Frames /\ vppIn' \in Seq(Frames)
    <3>1. CASE CleanUp
      BY <1>1, <3>1, FrameFacts DEF CleanUp, Goto
    <3>2. CASE CloseVPP
      <4>1. Locked' \in [Frames -> Int]
        BY <1>1, <3>2 DEF CloseVPP, Unlock
      <4> QED  BY <1>1, <1>5, <3>2, <4>1 DEF CloseVPP, Goto
    <3> QED  BY <1>13, <3>1, <3>2
  <2> QED  BY <1>1, <2>1
           DEF syncVars, bufVars, outVars, SynchronizerTypes, BufferTypes, ComposerTypes
<1>14. ASSUME NotifyAtEnd PROVE Goal
  <2>1. /\ UNCHANGED <<Locked, vppHold, vppIn, bufVars, curBuffer, isQuit, decExt, vppExt,
                       outVars, faults>>
        /\ NotifyFreeCome /\ epc' = "done" /\ encSts' = "ok"
    BY <1>14 DEF NotifyAtEnd, EndEncode
  <2> QED  BY <1>1, <1>4, <2>1 DEF bufVars, outVars, BufferTypes, ComposerTypes
<1>15. Goal
  <2> HIDE DEF Goal
  <2> QED  BY <1>6, <1>7, <1>8, <1>9, <1>10, <1>11, <1>12, <1>13, <1>14
           DEF EncodeSession
<1>16. UNCHANGED <<decHold, decVars, runVars>>
    BY ComposerFrame DEF DecodersAndLauncher
<1> QED  BY <1>15, <1>16 DEF Typed, LibraryTypes, DecoderTypes, LauncherTypes, decVars,
         runVars, Current

(* So does every other step.                                               *)
LEMMA TypedStep == Typed /\ Ownership /\ [Next]_vars => Typed'
<1> SUFFICES ASSUME Typed, Ownership, [Next]_vars PROVE Typed'
    OBVIOUS
<1>1. ASSUME DecoderUnlocks \/ VPPUnlocks PROVE Typed'
  <2>1. /\ UNCHANGED <<refs, syncVars, vppIn, decVars, bufVars, encVars, runVars, faults>>
        /\ decHold' \subseteq Frames /\ vppHold' \subseteq Frames
        /\ Locked' \in [Frames -> Int]
    BY <1>1 DEF DecoderUnlocks, VPPUnlocks, OtherThreads, DecodersAndLauncher, Unlock, Typed,
       LibraryTypes
  <2> QED  BY <2>1 DEF Typed, SynchronizerTypes, LibraryTypes, DecoderTypes, BufferTypes,
           ComposerTypes, LauncherTypes, syncVars, decVars, bufVars, encVars, outVars,
           runVars, Current
<1>2. ASSUME NEW i \in Sessions, CollectSession(i) PROVE Typed'
  <2>1. /\ UNCHANGED <<refs, Locked, syncVars, libVars, decVars, bufVars, encVars, faults>>
        /\ m_bForceStop' \in BOOLEAN /\ collected' \subseteq Sessions
    BY <1>2 DEF CollectSession, Typed, LauncherTypes
  <2> QED  BY <2>1 DEF Typed, SynchronizerTypes, LibraryTypes, DecoderTypes, BufferTypes,
           ComposerTypes, LauncherTypes, syncVars, libVars, decVars, bufVars, encVars,
           outVars, Current, Sessions
<1>3. ASSUME UNCHANGED vars PROVE Typed'
    BY <1>3 DEF vars, Typed, SynchronizerTypes, LibraryTypes, DecoderTypes, BufferTypes,
       ComposerTypes, LauncherTypes, syncVars, libVars, decVars, bufVars, encVars, outVars,
       runVars, Current
<1> QED  BY <1>1, <1>2, <1>3, DecoderTypesStep, ComposerTypesStep DEF Next

----------------------------------------------------------------------------
(* Who owns a surface.                                                     *)

(* What a step of decoder d may do to the surfaces.                        *)
DecoderEffect(d) ==
    /\ \A f \in Decoders : f # d => UNCHANGED <<dpc[f], nDecoded[f], m_SList[f]>>
    /\ nDecoded'[d] \in {nDecoded[d], nDecoded[d] + 1}
    /\ Once(m_Surfaces', Frames)
    /\ Range(m_Surfaces') \subseteq Range(m_Surfaces) \cup {Current(d)}
    /\ decHold' \subseteq decHold \cup {<<d, nDecoded'[d]>>}
    /\ Once(m_SList'[d], Frames)
    /\ \A s \in Range(m_SList'[d]) \ {NoSurface} : s[1] = d /\ s[2] <= nDecoded'[d]
    /\ \A s \in Frames :
          /\ s \in Range(m_SList'[s[1]]) => Queued(s) \/ (s = Current(d) /\ dpc[d] = "add")
          /\ Queued(s) => s \in Range(m_SList'[s[1]])
    /\ dpc'[d] \in {"push", "ration", "waiting", "add"} =>
           /\ <<d, nDecoded'[d]>> \notin Range(m_SList'[d])
           /\ <<d, nDecoded'[d]>> \notin vppHold
    /\ dpc'[d] = "push" => <<d, nDecoded'[d]>> \notin Range(m_Surfaces')

LEMMA DecoderHasEffect ==
    ASSUME Typed, Ownership, NEW d \in Decoders, DecodeSession(d)
    PROVE  DecoderEffect(d)
<1>1. /\ m_SList \in [Decoders -> Seq(Surf0)] /\ m_Surfaces \in Seq(Frames)
      /\ nDecoded \in [Decoders -> Nat] /\ DecoderTypes
    BY DEF Typed, BufferTypes, SynchronizerTypes, DecoderTypes, Surf0
<1>2. /\ QueueOwnership(d) /\ HandOwnership(d) /\ Once(m_Surfaces, Frames)
      /\ Current(d) = <<d, nDecoded[d]>> /\ nDecoded[d] \in Nat
      /\ NoSurface \in Surf0 /\ \A s \in Frames : s # NoSurface
    BY HandFacts, FrameFacts DEF Ownership, HolderOwnership
<1>3. ASSUME UNCHANGED <<m_SList, m_Surfaces, decHold, nDecoded>>,
             \A f \in Decoders : f # d => UNCHANGED dpc[f],
             \/ dpc'[d] \notin {"push", "ration", "waiting", "add"}
             \/ dpc[d] = "waiting" /\ dpc'[d] = "add"
      PROVE  DecoderEffect(d)
    BY <1>1, <1>2, <1>3 DEF DecoderEffect, QueueOwnership, HandOwnership, Queued
<1>4. ASSUME DecodeStart(d) \/ WakeUp(d) \/ FinishTurn(d) PROVE DecoderEffect(d)
  <2>1. UNCHANGED <<m_SList, m_Surfaces, decHold, nDecoded>>
    BY <1>4 DEF DecodeStart, WakeUp, FinishTurn, syncVars, bufVars
  <2>2. /\ \A f \in Decoders : f # d => UNCHANGED dpc[f]
        /\ \/ dpc'[d] \notin {"push", "ration", "waiting", "add"}
           \/ dpc[d] = "waiting" /\ dpc'[d] = "add"
    BY <1>1, <1>4 DEF DecodeStart, WakeUp, FinishTurn, GotoD, EndDecode, DecoderTypes
  <2> QED  BY <1>3, <2>1, <2>2
<1>5. ASSUME RegisterSurface(d) PROVE DecoderEffect(d)
  <2>1. /\ Current(d) \in Frames /\ dpc[d] = "push"
        /\ m_Surfaces' = Append(m_Surfaces, Current(d))
        /\ UNCHANGED <<m_SList, decHold, nDecoded>>
    BY <1>5, HandFacts DEF RegisterSurface, PushSurface, bufVars
  <2>2. /\ Once(m_Surfaces', Frames)
        /\ Range(m_Surfaces') = Range(m_Surfaces) \cup {Current(d)}
    <3>1. Current(d) \notin Range(m_Surfaces)
      BY <1>2, <2>1 DEF HandOwnership
    <3> HIDE DEF Current
    <3>2. Range(Append(m_Surfaces, Current(d))) = Range(m_Surfaces) \cup {Current(d)}
      BY <1>1, <2>1, AppendElements
    <3>3. Once(Append(m_Surfaces, Current(d)), Frames)
      BY <1>1, <1>2, <2>1, <3>1, AppendOnce
    <3> QED  BY <2>1, <3>2, <3>3
  <2>3. /\ \A f \in Decoders : f # d => UNCHANGED dpc[f]
        /\ dpc'[d] \in {"ration", "add"}
    BY <1>1, <1>5 DEF RegisterSurface, GotoD, DecoderTypes
  <2> QED  BY <1>1, <1>2, <2>1, <2>2, <2>3
           DEF DecoderEffect, QueueOwnership, HandOwnership, Queued
<1>6. ASSUME StartWaitingForFree(d) PROVE DecoderEffect(d)
  <2>1. SyncStep
    BY <1>6, QueryFreeEffect DEF StartWaitingForFree, TakeFree, StartWaiting, SyncStep,
       Ownership
  <2>2. Range(m_Surfaces') \subseteq Range(m_Surfaces) /\ Once(m_Surfaces', Frames)
    BY <1>2, <2>1, SyncStepTypes
  <2>3. /\ UNCHANGED <<m_SList, decHold, nDecoded>> /\ dpc[d] = "ration"
        /\ \A f \in Decoders : f # d => UNCHANGED dpc[f]
        /\ dpc'[d] \in {"waiting", "add"}
    BY <1>1, <1>6 DEF StartWaitingForFree, GotoD, DecoderTypes, bufVars
  <2> QED  BY <1>1, <1>2, <2>2, <2>3
           DEF DecoderEffect, QueueOwnership, HandOwnership, Queued
\* the end mark goes to the buffer
<1>7. ASSUME AddSurface(d, NoSurface), UNCHANGED <<m_Surfaces, decHold, nDecoded>>,
             \A f \in Decoders : f # d => UNCHANGED dpc[f],
             dpc'[d] \notin {"push", "ration", "waiting", "add"}
      PROVE  DecoderEffect(d)
  <2>1. /\ \A f \in Decoders : f # d => m_SList'[f] = m_SList[f]
        /\ Once(m_SList'[d], Frames)
        /\ \A s \in Range(m_SList'[d]) \ {NoSurface} : s[1] = d /\ s[2] <= nDecoded[d]
        /\ \A s \in Frames : s \in Range(m_SList'[s[1]]) <=> Queued(s)
    BY <1>2, <1>7, AddEffect
  <2> QED  BY <1>2, <1>7, <2>1 DEF DecoderEffect
<1>8. ASSUME NoMoreFramesSignal(d) PROVE DecoderEffect(d)
  <2>1. /\ AddSurface(d, NoSurface) /\ UNCHANGED <<m_Surfaces, decHold, nDecoded>>
        /\ \A f \in Decoders : f # d => UNCHANGED dpc[f]
        /\ dpc'[d] = "done"
    BY <1>1, <1>8 DEF NoMoreFramesSignal, GotoD, DecoderTypes, syncVars
  <2> QED  BY <1>7, <2>1
<1>9. ASSUME AddToBuffer(d) PROVE DecoderEffect(d)
  <2>1. /\ AddSurface(d, Current(d)) /\ UNCHANGED <<m_Surfaces, decHold, nDecoded>>
        /\ \A f \in Decoders : f # d => UNCHANGED dpc[f]
        /\ dpc[d] = "add" /\ dpc'[d] = "sync"
    BY <1>1, <1>9 DEF AddToBuffer, GotoD, DecoderTypes, syncVars
  <2>2. /\ Current(d)[1] = d /\ Current(d)[2] <= nDecoded[d] /\ Current(d) \in Surf0
        /\ Current(d) \notin Range(m_SList[d])
    <3>1. Current(d)[1] = d /\ Current(d)[2] = nDecoded[d] /\ Current(d) \in Surf0
      BY <2>1, HandFacts
    <3> HIDE DEF Current
    <3> QED  BY <1>2, <2>1, <3>1 DEF HandOwnership
  <2>3. /\ \A f \in Decoders : f # d => m_SList'[f] = m_SList[f]
        /\ Once(m_SList'[d], Frames)
        /\ \A s \in Range(m_SList'[d]) \ {NoSurface} : s[1] = d /\ s[2] <= nDecoded[d]
        /\ \A s \in Frames :
              s \in Range(m_SList'[s[1]])
                  <=> Queued(s) \/ (s = Current(d) /\ m_IsBufferingAllowed[d])
    BY <1>2, <2>1, <2>2, AddEffect
  <2> QED  BY <1>2, <2>1, <2>3 DEF DecoderEffect
<1>10. ASSUME DecodeFrame(d) PROVE DecoderEffect(d)
  <2> DEFINE x == <<d, nDecoded[d] + 1>>
  <2>0. UNCHANGED m_Surfaces
    BY <1>10 DEF DecodeFrame, syncVars
  <2>1. CASE /\ nDecoded[d] < NumFrames[d]
             /\ nDecoded' = [nDecoded EXCEPT ![d] = @ + 1]
             /\ decHold' = decHold \cup {x} /\ GotoD(d, "push") /\ UNCHANGED m_SList
    <3>1. /\ nDecoded'[d] = nDecoded[d] + 1 /\ dpc'[d] = "push" /\ x \in Frames
          /\ \A f \in Decoders : f # d => UNCHANGED <<dpc[f], nDecoded[f]>>
      BY <1>1, <2>1, HandFacts DEF GotoD, DecoderTypes
    <3>2. x[1] = d /\ x[2] = nDecoded[d] + 1 /\ x # NoSurface
      BY <1>2, <3>1
    <3>3. ~ (x[2] <= nDecoded[x[1]])
      BY <1>2, <3>2
    <3>4. x \notin vppHold /\ x \notin Range(m_Surfaces)
      BY <3>3 DEF Ownership, HolderOwnership
    <3>5. x \notin Range(m_SList[d])
      BY <1>2, <3>2, <3>3 DEF QueueOwnership
    <3>6. \A s \in Range(m_SList[d]) \ {NoSurface} : s[1] = d /\ s[2] <= nDecoded[d] + 1
      <4> SUFFICES ASSUME NEW s \in Range(m_SList[d]) \ {NoSurface}
                   PROVE  s[1] = d /\ s[2] <= nDecoded[d] + 1
        OBVIOUS
      <4>1. s[1] = d /\ s[2] <= nDecoded[d] /\ s \in Frames
        <5>1. m_SList[d] \in Seq(Surf0)
          BY <1>1
        <5>2. \A i \in 1..Len(m_SList[d]) : m_SList[d][i] \in Surf0
          BY <5>1, ElementOfSeq
        <5>3. Range(m_SList[d]) = {m_SList[d][i] : i \in 1..Len(m_SList[d])}
          BY <5>1, RangeEquality
        <5> QED  BY <1>2, <5>2, <5>3 DEF QueueOwnership, Surf0
      <4> QED  BY <1>2, <4>1, FrameFacts
    <3> HIDE DEF x
    <3>7. <<d, nDecoded'[d]>> = x
      BY <3>1 DEF x
    <3> QED  BY <1>2, <2>0, <2>1, <3>1, <3>4, <3>5, <3>6, <3>7
             DEF DecoderEffect, Queued, QueueOwnership
  <2>2. CASE /\ UNCHANGED <<decHold, nDecoded>>
             /\ UNCHANGED m_SList \/ AddSurface(d, NoSurface)
             /\ EndDecode(d, "signal", "ok") \/ EndDecode(d, "signal", "err")
    <3>1. /\ \A f \in Decoders : f # d => UNCHANGED dpc[f]
          /\ dpc'[d] = "signal"
      BY <1>1, <2>2 DEF EndDecode, GotoD, DecoderTypes
    <3> HIDE DEF x
    <3> QED  BY <1>3, <1>7, <2>0, <2>2, <3>1
  <2> QED  BY <1>10, <2>1, <2>2 DEF DecodeFrame
<1> QED  BY <1>4, <1>5, <1>6, <1>8, <1>9, <1>10 DEF DecodeSession

(* So a step of a decoder keeps the ownership.                             *)
LEMMA DecoderOwnershipStep ==
    ASSUME Typed, Ownership, NEW d \in Decoders, DecodeSession(d)
    PROVE  Ownership'
<1>1. /\ DecoderEffect(d) /\ nDecoded \in [Decoders -> Nat] /\ vppHold \subseteq Frames
      /\ decHold \subseteq Frames /\ m_Surfaces \in Seq(Frames) /\ decExt \in Surf0
      /\ UNCHANGED <<vppHold, epc, decExt, curBuffer>>
  <2>1. OtherThreads
    BY DEF DecodeSession, DecodeStart, DecodeFrame, NoMoreFramesSignal, RegisterSurface,
       StartWaitingForFree, WakeUp, AddToBuffer, FinishTurn
  <2> QED  BY <2>1, DecoderHasEffect DEF OtherThreads, encVars, Typed, DecoderTypes,
           LibraryTypes, SynchronizerTypes, ComposerTypes, Surf0
<1>2. /\ Current(d) = <<d, nDecoded[d]>> /\ nDecoded[d] \in Nat
      /\ QueueOwnership(d) /\ HandOwnership(d) /\ HolderOwnership
    BY HandFacts DEF Ownership
<1>3. \A f \in Decoders : nDecoded[f] \in Nat /\ nDecoded'[f] \in Nat
                          /\ nDecoded[f] <= nDecoded'[f]
    BY <1>1 DEF DecoderEffect
<1>4. HolderOwnership'
  <2>1. \A s \in decHold' \cup vppHold' \cup Range(m_Surfaces') :
            s[2] <= nDecoded'[s[1]]
    <3>1. \A s \in decHold \cup vppHold \cup Range(m_Surfaces) : s \in Frames
      <4>1. Range(m_Surfaces) = {m_Surfaces[i] : i \in 1..Len(m_Surfaces)}
        BY <1>1, RangeEquality
      <4>2. \A i \in 1..Len(m_Surfaces) : m_Surfaces[i] \in Frames
        BY <1>1, ElementOfSeq
      <4> QED  BY <1>1, <4>1, <4>2
    <3>2. \A s \in decHold \cup vppHold \cup Range(m_Surfaces) : s[2] <= nDecoded'[s[1]]
      <4> SUFFICES ASSUME NEW s \in decHold \cup vppHold \cup Range(m_Surfaces)
                   PROVE  s[2] <= nDecoded'[s[1]]
        OBVIOUS
      <4>1. s[1] \in Decoders /\ s[2] \in Nat /\ s[2] <= nDecoded[s[1]]
        BY <1>2, <3>1, FrameFacts DEF HolderOwnership
      <4> QED  BY <1>3, <4>1
    <3>3. /\ Current(d)[2] <= nDecoded'[Current(d)[1]]
          /\ <<d, nDecoded'[d]>>[2] <= nDecoded'[<<d, nDecoded'[d]>>[1]]
      BY <1>2, <1>3
    <3> QED  BY <1>1, <3>2, <3>3 DEF DecoderEffect
  <2>2. ASSUME NEW s \in vppHold', s \in Range(m_SList'[s[1]])
        PROVE  epc' \in {"more", "composed"} /\ s = decExt'
    <3>1. s \in Frames /\ s \in vppHold
      BY <1>1
    <3>2. ~ (s = Current(d) /\ dpc[d] = "add")
      BY <1>2, <3>1 DEF HandOwnership
    <3>3. Queued(s)
      BY <1>1, <2>2, <3>1, <3>2 DEF DecoderEffect
    <3> QED  BY <1>1, <1>2, <3>1, <3>3 DEF HolderOwnership, Queued
  <2>3. ASSUME epc' \in {"vpp", "more", "composed"}, decExt' # NoSurface
        PROVE  decExt' \in Range(m_SList'[curBuffer'])
    <3>1. decExt \in Frames /\ decExt \in Range(m_SList[curBuffer]) /\ curBuffer \in Decoders
      BY <1>1, <1>2, <2>3 DEF HolderOwnership, Surf0, Typed, ComposerTypes
    <3>2. decExt[1] = curBuffer /\ Queued(decExt)
      BY <3>1, FrameFacts DEF Ownership, QueueOwnership, Queued
    <3> QED  BY <1>1, <3>1, <3>2 DEF DecoderEffect
  <2> QED  BY <1>1, <2>1, <2>2, <2>3 DEF HolderOwnership, DecoderEffect
<1>5. ASSUME NEW f \in Decoders PROVE QueueOwnership(f)' /\ HandOwnership(f)'
  <2>1. CASE f = d
    BY <1>1, <2>1 DEF DecoderEffect, QueueOwnership, HandOwnership, Current
  <2>2. CASE f # d
    <3>1. /\ UNCHANGED <<dpc[f], nDecoded[f], m_SList[f]>>
          /\ Range(m_Surfaces') \subseteq Range(m_Surfaces) \cup {Current(d)}
      BY <1>1, <2>2 DEF DecoderEffect
    <3>2. QueueOwnership(f) /\ HandOwnership(f) /\ <<f, nDecoded[f]>> # Current(d)
      BY <1>2, <2>2 DEF Ownership
    <3> QED  BY <1>1, <3>1, <3>2 DEF QueueOwnership, HandOwnership, Current
  <2> QED  BY <2>1, <2>2
<1> QED  BY <1>4, <1>5 DEF Ownership

(* What a step of the composing session may do to the surfaces.            *)
ComposerEffect ==
    /\ UNCHANGED <<decHold, dpc, nDecoded>>
    /\ \A d \in Decoders : /\ Once(m_SList'[d], Frames)
                           /\ Range(m_SList'[d]) \subseteq Range(m_SList[d])
    /\ Once(m_Surfaces', Frames) /\ Range(m_Surfaces') \subseteq Range(m_Surfaces)
    /\ \A s \in vppHold' :
          s \in vppHold \/ (epc = "vpp" /\ s = decExt /\ decExt # NoSurface)
    /\ \A s \in vppHold' : s \in Range(m_SList'[s[1]]) =>
           epc' \in {"more", "composed"} /\ s = decExt'
    /\ epc' \in {"vpp", "more", "composed"} /\ decExt' # NoSurface =>
           decExt' \in Range(m_SList'[curBuffer'])

LEMMA ComposerHasEffect ==
    ASSUME Typed, Ownership, EncodeSession
    PROVE  ComposerEffect
<1>1. /\ m_SList \in [Decoders -> Seq(Surf0)] /\ m_Surfaces \in Seq(Frames)
      /\ curBuffer \in Decoders /\ decExt \in Surf0 /\ vppHold \subseteq Frames
      /\ HolderOwnership /\ \A f \in Decoders : QueueOwnership(f)
      /\ \A f \in Decoders : Once(m_SList[f], Frames)
      /\ Once(m_Surfaces, Frames) /\ 1 \in Decoders
    BY FrameFacts DEF Typed, BufferTypes, SynchronizerTypes, ComposerTypes, LibraryTypes,
       Surf0, Ownership, HolderOwnership, QueueOwnership
<1>2. UNCHANGED <<decHold, dpc, nDecoded>>
    BY ComposerFrame DEF DecodersAndLauncher, decVars
<1>3. ASSUME GetSurface PROVE ComposerEffect
  <2>1. /\ epc = "get" /\ UNCHANGED <<m_SList, m_Surfaces, vppHold, curBuffer>>
        /\ epc' \in {"vpp", "wait"}
        /\ epc' = "vpp" => \/ decExt' = NoSurface
                           \/ m_SList[curBuffer] # <<>> /\ decExt' = Head(m_SList[curBuffer])
    BY <1>3 DEF GetSurface, Goto, syncVars, bufVars
  <2>2. m_SList[curBuffer] # <<>> => Head(m_SList[curBuffer]) \in Range(m_SList[curBuffer])
    BY <1>1, TailElements
  <2>3. \A s \in vppHold : s \notin Range(m_SList[s[1]])
    BY <1>1, <2>1 DEF HolderOwnership
  <2> QED  BY <1>1, <1>2, <2>1, <2>2, <2>3 DEF ComposerEffect
<1>4. ASSUME WaitForSurfaceInsertion \/ PutBS \/ NotifyAtEnd \/ CleanUp
      PROVE  ComposerEffect
  <2>1. /\ NotifyFreeCome \/ UNCHANGED <<refs, syncVars>>
        /\ UNCHANGED <<m_SList, vppHold>>
        /\ epc \notin {"vpp", "more", "composed"} /\ epc' \notin {"vpp", "more", "composed"}
    BY <1>4 DEF WaitForSurfaceInsertion, PutBS, NotifyAtEnd, CleanUp, StartCleanUp, Goto,
       EndEncode, bufVars
  <2>2. SyncStep
    BY <1>1, <2>1, NotifyEffect DEF SyncStep, syncVars
  <2>3. Once(m_Surfaces', Frames) /\ Range(m_Surfaces') \subseteq Range(m_Surfaces)
    BY <1>1, <2>2, SyncStepTypes
  <2> QED  BY <1>1, <1>2, <2>1, <2>3 DEF ComposerEffect, HolderOwnership
<1>5. ASSUME VPPOneFrame PROVE ComposerEffect
  <2>1. /\ epc = "vpp" /\ epc' \in {"more", "composed", "done"}
        /\ UNCHANGED <<m_SList, m_Surfaces, curBuffer, decExt>>
        /\ \/ UNCHANGED vppHold
           \/ /\ decExt # NoSurface /\ vppHold' = vppHold \cup {decExt}
              /\ epc' \in {"more", "composed"}
    BY <1>5 DEF VPPOneFrame, Goto, EndEncode, syncVars, bufVars
  <2>2. \A s \in vppHold : s \notin Range(m_SList[s[1]])
    BY <1>1, <2>1 DEF HolderOwnership
  <2>3. decExt # NoSurface => decExt \in Range(m_SList[curBuffer])
    BY <1>1, <2>1 DEF HolderOwnership
  <2> QED  BY <1>1, <1>2, <2>1, <2>2, <2>3 DEF ComposerEffect
<1>6. ASSUME NEW f \in Decoders, NEW x \in Surf0,
             ReleaseSurface(f, x) \/ UNCHANGED m_SList,
             UNCHANGED <<m_Surfaces, vppHold>>,
             epc \in {"more", "composed"} =>
                 f = curBuffer /\ x = decExt /\ ReleaseSurface(f, x),
             epc # "vpp", epc' \notin {"vpp", "more", "composed"}
      PROVE  ComposerEffect
  <2>1. \A d \in Decoders : /\ Once(m_SList'[d], Frames)
                            /\ Range(m_SList'[d]) \subseteq Range(m_SList[d])
    <3>1. CASE ReleaseSurface(f, x)
      <4>1. /\ Once(m_SList'[f], Frames) /\ Range(m_SList'[f]) \subseteq Range(m_SList[f])
            /\ \A d \in Decoders : d # f => m_SList'[d] = m_SList[d]
        BY <1>1, <3>1, ReleaseEffect
      <4> QED  BY <1>1, <4>1
    <3> QED  BY <1>1, <1>6, <3>1
  <2>2. ASSUME NEW s \in vppHold, s \in Range(m_SList'[s[1]]) PROVE FALSE
    <3>1. s \in Frames /\ s[1] \in Decoders
      BY <1>1, FrameFacts
    <3>2. s \in Range(m_SList[s[1]])
      BY <2>1, <2>2, <3>1
    <3>3. epc \in {"more", "composed"} /\ s = decExt /\ f = curBuffer /\ x = s
      BY <1>1, <1>6, <3>2 DEF HolderOwnership
    <3>4. s \in Range(m_SList[f])
      BY <1>1, <3>1, <3>3, FrameFacts DEF HolderOwnership
    <3>5. s[1] = f
      BY <1>1, <3>1, <3>4, FrameFacts DEF QueueOwnership
    <3>6. s \in Range(m_SList'[s[1]]) <=> Queued(s) /\ ~ (s = x /\ s[1] = f /\ Queued(s))
      BY <1>1, <1>6, <3>1, <3>3, ReleaseEffect
    <3> QED  BY <2>2, <3>3, <3>5, <3>6
  <2> QED  BY <1>1, <1>2, <1>6, <2>1, <2>2 DEF ComposerEffect
<1>7. ASSUME SwitchBuffer \/ ReleaseComposed \/ EncodeOneFrame PROVE ComposerEffect
  <2>1. CASE SwitchBuffer \/ ReleaseComposed
    <3>1. /\ ReleaseSurface(curBuffer, decExt) /\ UNCHANGED <<m_Surfaces, vppHold>>
          /\ epc # "vpp" /\ epc' \notin {"vpp", "more", "composed"}
      BY <2>1 DEF SwitchBuffer, ReleaseComposed, Goto, syncVars
    <3> QED  BY <1>1, <1>6, <3>1
  <2>2. CASE EncodeOneFrame
    <3>1. /\ ReleaseSurface(1, decExt) /\ UNCHANGED <<m_Surfaces, vppHold>>
          /\ epc = "encode" /\ epc' \notin {"vpp", "more", "composed"}
      BY <2>2 DEF EncodeOneFrame, Goto, EndEncode, syncVars
    <3> QED  BY <1>1, <1>6, <3>1
  <2> QED  BY <1>7, <2>1, <2>2
<1>8. ASSUME CleanBuffer PROVE ComposerEffect
  <2>1. /\ epc = "clean" /\ epc' \notin {"vpp", "more", "composed"}
        /\ UNCHANGED <<m_Surfaces, vppHold>>
        /\ \/ UNCHANGED m_SList
           \/ /\ m_SList[curBuffer] # <<>>
              /\ ReleaseSurface(curBuffer, Head(m_SList[curBuffer]))
    BY <1>8 DEF CleanBuffer, syncVars
  <2>2. m_SList[curBuffer] # <<>> => Head(m_SList[curBuffer]) \in Surf0
    BY ComposerSequences, <1>1
  <2>3. CASE UNCHANGED m_SList
    BY <1>1, <1>6, <2>1, <2>3
  <2>4. CASE m_SList[curBuffer] # <<>> /\ ReleaseSurface(curBuffer, Head(m_SList[curBuffer]))
    <3> DEFINE x == Head(m_SList[curBuffer])
    <3>1. x \in Surf0 /\ ReleaseSurface(curBuffer, x)
      BY <2>2, <2>4
    <3> HIDE DEF x
    <3> QED  BY <1>1, <1>6, <2>1, <3>1
  <2> QED  BY <2>1, <2>3, <2>4
<1>9. ASSUME CloseVPP PROVE ComposerEffect
  <2>1. UNCHANGED <<m_SList, m_Surfaces>> /\ vppHold' = {} /\ epc' = "notify"
    BY <1>9 DEF CloseVPP, Goto, syncVars, bufVars
  <2> QED  BY <1>1, <1>2, <2>1 DEF ComposerEffect
<1> QED  BY <1>3, <1>4, <1>5, <1>7, <1>8, <1>9 DEF EncodeSession

(* So a step of the composing session keeps the ownership, and so does     *)
(* every other step.                                                       *)
LEMMA OwnershipStep == Typed /\ Ownership /\ [Next]_vars => Ownership'
<1> SUFFICES ASSUME Typed, Ownership, [Next]_vars PROVE Ownership'
    OBVIOUS
<1>0. HolderOwnership /\ \A f \in Decoders : QueueOwnership(f) /\ HandOwnership(f)
    BY DEF Ownership
<1>1. ASSUME EncodeSession PROVE Ownership'
  <2>1. /\ ComposerEffect /\ vppHold \subseteq Frames /\ decExt \in Surf0
        /\ curBuffer \in Decoders
    BY <1>1, ComposerHasEffect DEF Typed, LibraryTypes, ComposerTypes, Surf0
  <2>2. ASSUME epc = "vpp", decExt # NoSurface
        PROVE  /\ decExt \in Range(m_SList[curBuffer]) /\ decExt[1] = curBuffer
               /\ decExt[2] <= nDecoded[decExt[1]]
    BY <1>0, <2>1, <2>2 DEF HolderOwnership, QueueOwnership
  <2>3. HolderOwnership'
    BY <1>0, <2>1, <2>2 DEF HolderOwnership, ComposerEffect
  <2>4. ASSUME NEW f \in Decoders PROVE QueueOwnership(f)' /\ HandOwnership(f)'
    <3>1. Current(f) \notin Range(m_SList[f]) => ~ (epc = "vpp" /\ decExt # NoSurface
                                                    /\ Current(f) = decExt)
      <4>1. Current(f)[1] = f
        BY DEF Current
      <4> HIDE DEF Current
      <4> QED  BY <2>2, <4>1
    <3>2. UNCHANGED Current(f)
      BY <2>1 DEF ComposerEffect, Current
    <3>3. HandOwnership(f)'
      BY <1>0, <2>1, <3>1, <3>2 DEF HandOwnership, ComposerEffect
    <3>4. QueueOwnership(f)'
      BY <1>0, <2>1 DEF QueueOwnership, ComposerEffect
    <3> QED  BY <3>3, <3>4
  <2> QED  BY <2>3, <2>4 DEF Ownership
<1>2. ASSUME DecoderUnlocks \/ VPPUnlocks PROVE Ownership'
  <2>1. /\ UNCHANGED <<m_Surfaces, m_SList, dpc, nDecoded, epc, decExt, curBuffer>>
        /\ decHold' \subseteq decHold /\ vppHold' \subseteq vppHold
    BY <1>2 DEF DecoderUnlocks, VPPUnlocks, OtherThreads, DecodersAndLauncher, syncVars,
       bufVars, decVars, encVars
  <2> QED  BY <1>0, <2>1
           DEF Ownership, HolderOwnership, QueueOwnership, HandOwnership, Current
<1>3. ASSUME (\E i \in Sessions : CollectSession(i)) \/ UNCHANGED vars PROVE Ownership'
  <2>1. UNCHANGED <<m_Surfaces, m_SList, dpc, nDecoded, epc, decExt, curBuffer, decHold,
                    vppHold>>
    BY <1>3 DEF CollectSession, vars, syncVars, libVars, decVars, bufVars, encVars
  <2> QED  BY <1>0, <2>1
           DEF Ownership, HolderOwnership, QueueOwnership, HandOwnership, Current
<1> QED  BY <1>1, <1>2, <1>3, DecoderOwnershipStep DEF Next

----------------------------------------------------------------------------
(* The counters.                                                           *)

(* The two counters of surface s, named for what is in them.               *)
Balanced(s) ==
    /\ refs[s] = Count(InHand(s)) + Count(Queued(s)) + Count(s \in Range(m_Surfaces))
    /\ Locked[s] = Count(Queued(s)) + Count(s \in decHold) + Count(s \in vppHold)

LEMMA BalancedIsReferencesBalanced ==
    /\ ReferencesBalanced <=> \A s \in Frames : Balanced(s)
    /\ ReferencesBalanced' <=> \A s \in Frames : Balanced(s)'
BY DEF ReferencesBalanced, Balanced, Queued

LEMMA CountNat ==
    /\ \A b \in BOOLEAN : Count(b) \in {0, 1}
    /\ Count(TRUE) = 1 /\ Count(FALSE) = 0
BY DEF Count

(* The steps of a decoder.                                                 *)
LEMMA DecoderBalanceStep ==
    ASSUME IInv, NEW d \in Decoders, DecodeSession(d), NEW s \in Frames
    PROVE  Balanced(s)'
<1>1. /\ Typed /\ Ownership /\ Balanced(s) /\ QueueOwnership(d) /\ HandOwnership(d)
      /\ HolderOwnership
    BY BalancedIsReferencesBalanced DEF IInv, Ownership
<1>2. /\ m_SList \in [Decoders -> Seq(Surf0)] /\ m_Surfaces \in Seq(Frames)
      /\ nDecoded \in [Decoders -> Nat] /\ refs \in [Frames -> Int]
      /\ Locked \in [Frames -> Int] /\ DecoderTypes
    BY <1>1 DEF Typed, BufferTypes, SynchronizerTypes, DecoderTypes, Surf0
<1>3. /\ s[1] \in Decoders /\ s = <<s[1], s[2]>> /\ s # NoSurface
      /\ Current(d) = <<d, nDecoded[d]>> /\ Current(d)[1] = d
      /\ nDecoded[d] \in Nat /\ NoSurface \in Surf0
    BY <1>1, HandFacts, FrameFacts
<1>4. UNCHANGED vppHold
    BY DEF DecodeSession, DecodeStart, DecodeFrame, NoMoreFramesSignal, RegisterSurface,
       StartWaitingForFree, WakeUp, AddToBuffer, FinishTurn, OtherThreads
\* the frame stays in hand, or none was and none is
<1>5. ASSUME UNCHANGED nDecoded, \A f \in Decoders : f # d => dpc'[f] = dpc[f],
             dpc[d] \in {"push", "ration", "waiting", "add", "sync"}
                 <=> dpc'[d] \in {"push", "ration", "waiting", "add", "sync"}
      PROVE  InHand(s)' <=> InHand(s)
    BY <1>3, <1>5 DEF InHand, Current
<1>6. ASSUME DecodeStart(d) \/ WakeUp(d) PROVE Balanced(s)'
  <2>1. /\ UNCHANGED <<nDecoded, refs, Locked, m_SList, m_Surfaces, decHold>>
        /\ \A f \in Decoders : f # d => dpc'[f] = dpc[f]
        /\ dpc[d] \in {"push", "ration", "waiting", "add", "sync"}
               <=> dpc'[d] \in {"push", "ration", "waiting", "add", "sync"}
    BY <1>2, <1>6 DEF DecodeStart, WakeUp, GotoD, EndDecode, DecoderTypes, syncVars, bufVars
  <2> QED  BY <1>1, <1>2, <1>4, <1>5, <2>1 DEF Balanced, Queued, Count
<1>7. ASSUME RegisterSurface(d) PROVE Balanced(s)'
  <2>1. /\ UNCHANGED <<nDecoded, Locked, m_SList, decHold>>
        /\ \A f \in Decoders : f # d => dpc'[f] = dpc[f]
        /\ dpc[d] = "push" /\ dpc'[d] \in {"ration", "add"}
        /\ AddRef(Current(d)) /\ m_Surfaces' = Append(m_Surfaces, Current(d))
    BY <1>2, <1>7 DEF RegisterSurface, PushSurface, GotoD, DecoderTypes, bufVars
  <2>2. Current(d) \in Frames /\ Current(d) \notin Range(m_Surfaces)
    BY <1>1, <2>1, HandFacts DEF HandOwnership
  <2>3. InHand(s)' <=> InHand(s)
    BY <1>5, <2>1
  <2> HIDE DEF Current
  <2>4. Range(m_Surfaces') = Range(m_Surfaces) \cup {Current(d)}
    BY <1>2, <2>1, <2>2, AppendElements
  <2>5. refs'[s] = refs[s] + Count(s = Current(d))
    BY <1>2, <2>1, <2>2 DEF AddRef, Count
  <2>6. Count(s \in Range(m_Surfaces')) = Count(s \in Range(m_Surfaces)) + Count(s = Current(d))
    BY <2>2, <2>4 DEF Count
  <2>7. Count(InHand(s)') = Count(InHand(s)) /\ Count(Queued(s)') = Count(Queued(s))
    BY <2>1, <2>3 DEF Count, Queued
  <2> QED  BY <1>1, <1>2, <1>4, <2>1, <2>5, <2>6, <2>7 DEF Balanced, Queued, Count
<1>8. ASSUME StartWaitingForFree(d) PROVE Balanced(s)'
  <2>1. /\ UNCHANGED <<nDecoded, Locked, m_SList, decHold>>
        /\ \A f \in Decoders : f # d => dpc'[f] = dpc[f]
        /\ dpc[d] = "ration" /\ dpc'[d] \in {"waiting", "add"}
    BY <1>2, <1>8 DEF StartWaitingForFree, GotoD, DecoderTypes, bufVars
  <2>2. SyncStep
    BY <1>1, <1>8, QueryFreeEffect DEF StartWaitingForFree, TakeFree, StartWaiting, SyncStep
  <2>3. refs'[s] - Count(s \in Range(m_Surfaces')) = refs[s] - Count(s \in Range(m_Surfaces))
        /\ refs' \in [Frames -> Int]
    BY <1>1, <2>2, SyncStepTypes
  <2>4. InHand(s)' <=> InHand(s)
    BY <1>5, <2>1
  <2> QED  BY <1>1, <1>2, <1>4, <2>1, <2>3, <2>4 DEF Balanced, Queued, Count
<1>9. ASSUME UNCHANGED <<nDecoded, m_Surfaces, decHold>>, AddSurface(d, NoSurface),
             InHand(s)' <=> InHand(s)
      PROVE  Balanced(s)'
  <2>1. LET come == s = NoSurface /\ m_IsBufferingAllowed[d] IN
        /\ s \in Range(m_SList'[s[1]]) <=> Queued(s) \/ come
        /\ refs'[s] = refs[s] + Count(come)
        /\ Locked'[s] = Locked[s] + Count(come)
    BY <1>1, <1>3, <1>9, AddEffect
  <2>2. /\ s \in Range(m_SList'[s[1]]) <=> Queued(s)
        /\ refs'[s] = refs[s] /\ Locked'[s] = Locked[s]
    BY <1>2, <1>3, <2>1 DEF Count
  <2> QED  BY <1>1, <1>2, <1>4, <1>9, <2>2 DEF Balanced, Queued, Count
<1>10. ASSUME NoMoreFramesSignal(d) PROVE Balanced(s)'
  <2>1. /\ UNCHANGED <<nDecoded, m_Surfaces, decHold>> /\ AddSurface(d, NoSurface)
        /\ \A f \in Decoders : f # d => dpc'[f] = dpc[f]
        /\ dpc[d] = "signal" /\ dpc'[d] = "done"
    BY <1>2, <1>10 DEF NoMoreFramesSignal, GotoD, DecoderTypes, syncVars
  <2> QED  BY <1>5, <1>9, <2>1
<1>11. ASSUME AddToBuffer(d) PROVE Balanced(s)'
  <2>1. /\ UNCHANGED <<nDecoded, m_Surfaces, decHold>> /\ AddSurface(d, Current(d))
        /\ \A f \in Decoders : f # d => dpc'[f] = dpc[f]
        /\ dpc[d] = "add" /\ dpc'[d] = "sync"
    BY <1>2, <1>11 DEF AddToBuffer, GotoD, DecoderTypes, syncVars
  <2>2. /\ Current(d) \in Frames /\ Current(d) \in Surf0 /\ Current(d)[1] = d
        /\ Current(d)[2] <= nDecoded[d]
    <3>1. Current(d)[2] = nDecoded[d] /\ Current(d)[1] = d
      BY <1>1, HandFacts
    <3>2. Current(d) \in Frames /\ Current(d) \in Surf0
      BY <1>1, <2>1, HandFacts
    <3> HIDE DEF Current
    <3> QED  BY <1>3, <3>1, <3>2
  <2>3. InHand(s)' <=> InHand(s)
    BY <1>5, <2>1
  <2> HIDE DEF Current
  <2>4. Current(d) \notin Range(m_SList[d])
    BY <1>1, <2>1 DEF HandOwnership
  <2>5. LET come == s = Current(d) /\ m_IsBufferingAllowed[d] IN
        /\ s \in Range(m_SList'[s[1]]) <=> Queued(s) \/ come
        /\ refs'[s] = refs[s] + Count(come)
        /\ Locked'[s] = Locked[s] + Count(come)
    BY <1>1, <2>1, <2>2, <2>4, AddEffect
  <2>6. ~ (Queued(s) /\ s = Current(d))
    BY <2>2, <2>4 DEF Queued
  <2> QED  BY <1>1, <1>2, <1>4, <2>1, <2>3, <2>5, <2>6 DEF Balanced, Queued, Count
<1>12. ASSUME FinishTurn(d) PROVE Balanced(s)'
  <2>1. /\ UNCHANGED <<nDecoded, m_Surfaces, m_SList, Locked, decHold>>
        /\ Release(Current(d))
        /\ \A f \in Decoders : f # d => dpc'[f] = dpc[f]
        /\ dpc[d] = "sync" /\ dpc'[d] \in {"decode", "done"}
    BY <1>2, <1>12 DEF FinishTurn, EndDecode, GotoD, DecoderTypes, syncVars, bufVars
  <2>2. Current(d) \in Frames
    BY <1>1, <2>1, HandFacts
  <2>3. Count(InHand(s)') = Count(InHand(s)) - Count(s = Current(d))
    BY <1>3, <2>1 DEF InHand, Current, Count
  <2> HIDE DEF Current
  <2>4. refs'[s] = refs[s] - Count(s = Current(d))
    BY <1>2, <2>1, <2>2 DEF Release, Count
  <2> QED  BY <1>1, <1>2, <1>4, <2>1, <2>3, <2>4 DEF Balanced, Queued, Count
<1>13. ASSUME DecodeFrame(d) PROVE Balanced(s)'
  <2> DEFINE x == <<d, nDecoded[d] + 1>>
  <2>0. UNCHANGED m_Surfaces /\ dpc[d] = "decode"
    BY <1>13 DEF DecodeFrame, syncVars
  <2>1. CASE /\ nDecoded[d] < NumFrames[d]
             /\ nDecoded' = [nDecoded EXCEPT ![d] = @ + 1]
             /\ AddRef(x) /\ Lock({x}) /\ decHold' = decHold \cup {x}
             /\ GotoD(d, "push") /\ UNCHANGED m_SList
    <3>1. x \in Frames /\ x \notin decHold
      <4>1. x \in Frames /\ x[1] = d /\ x[2] = nDecoded[d] + 1
        BY <1>1, <2>1, HandFacts
      <4>2. ~ (x[2] <= nDecoded[x[1]])
        BY <1>3, <4>1
      <4> QED  BY <1>1, <4>1, <4>2 DEF HolderOwnership
    <3>2. nDecoded'[d] = nDecoded[d] + 1 /\ dpc'[d] = "push"
          /\ \A f \in Decoders : f # d => dpc'[f] = dpc[f] /\ nDecoded'[f] = nDecoded[f]
      BY <1>2, <2>1 DEF GotoD, DecoderTypes
    <3>3. Count(InHand(s)') = Count(InHand(s)) + Count(s = x)
      BY <1>3, <2>0, <3>2 DEF InHand, Current, Count
    <3> HIDE DEF x
    <3>4. refs'[s] = refs[s] + Count(s = x) /\ Locked'[s] = Locked[s] + Count(s = x)
      BY <1>2, <2>1, <3>1 DEF AddRef, Lock, Count
    <3>5. Count(s \in decHold') = Count(s \in decHold) + Count(s = x)
      BY <2>1, <3>1 DEF Count
    <3> QED  BY <1>1, <1>2, <1>4, <2>0, <2>1, <3>3, <3>4, <3>5 DEF Balanced, Queued, Count
  <2>2. CASE /\ UNCHANGED <<decHold, nDecoded>>
             /\ UNCHANGED <<refs, Locked, m_SList>> \/ AddSurface(d, NoSurface)
             /\ EndDecode(d, "signal", "ok") \/ EndDecode(d, "signal", "err")
    <3>1. dpc'[d] = "signal" /\ \A f \in Decoders : f # d => dpc'[f] = dpc[f]
      BY <1>2, <2>2 DEF EndDecode, GotoD, DecoderTypes
    <3>2. InHand(s)' <=> InHand(s)
      BY <1>5, <2>0, <2>2, <3>1
    <3>3. CASE UNCHANGED <<refs, Locked, m_SList>>
      BY <1>1, <1>2, <1>4, <2>0, <2>2, <3>2, <3>3 DEF Balanced, Queued, Count
    <3>4. CASE AddSurface(d, NoSurface)
      BY <1>9, <2>0, <2>2, <3>2, <3>4
    <3> QED  BY <2>2, <3>3, <3>4
  <2> QED  BY <1>13, <2>1, <2>2 DEF DecodeFrame
<1> QED  BY <1>6, <1>7, <1>8, <1>10, <1>11, <1>12, <1>13 DEF DecodeSession

(* The steps of the composing session.                                     *)
LEMMA ComposerBalanceStep ==
    ASSUME IInv, EncodeSession, NEW s \in Frames
    PROVE  Balanced(s)'
<1>1. /\ Typed /\ Ownership /\ Balanced(s) /\ HolderOwnership
      /\ \A f \in Decoders : QueueOwnership(f)
    BY BalancedIsReferencesBalanced DEF IInv, Ownership
<1>2. /\ m_SList \in [Decoders -> Seq(Surf0)] /\ refs \in [Frames -> Int]
      /\ Locked \in [Frames -> Int] /\ curBuffer \in Decoders /\ decExt \in Surf0
      /\ s[1] \in Decoders /\ 1 \in Decoders
    BY <1>1, FrameFacts DEF Typed, BufferTypes, ComposerTypes, Surf0
<1>3. UNCHANGED decHold /\ (InHand(s)' <=> InHand(s))
    BY ComposerFrame DEF DecodersAndLauncher, decVars, InHand, Current
<1>4. ASSUME GetSurface \/ WaitForSurfaceInsertion \/ PutBS \/ NotifyAtEnd \/ CleanUp
      PROVE  Balanced(s)'
  <2>1. /\ UNCHANGED <<m_SList, Locked, vppHold>>
        /\ NotifyFreeCome \/ UNCHANGED <<refs, syncVars>>
    BY <1>4 DEF GetSurface, WaitForSurfaceInsertion, PutBS, NotifyAtEnd, CleanUp, bufVars
  <2>2. SyncStep
    BY <1>1, <2>1, NotifyEffect DEF SyncStep, syncVars
  <2>3. refs'[s] - Count(s \in Range(m_Surfaces')) = refs[s] - Count(s \in Range(m_Surfaces))
        /\ refs' \in [Frames -> Int]
    BY <1>1, <2>2, SyncStepTypes
  <2> QED  BY <1>1, <1>2, <1>3, <2>1, <2>3 DEF Balanced, Queued, Count
<1>5. ASSUME NEW f \in Decoders, NEW x \in Surf0, ReleaseSurface(f, x),
             UNCHANGED <<m_Surfaces, vppHold>>
      PROVE  Balanced(s)'
  <2>1. LET gone == s = x /\ s[1] = f /\ Queued(s) IN
        /\ s \in Range(m_SList'[s[1]]) <=> Queued(s) /\ ~ gone
        /\ refs'[s] = refs[s] - Count(gone)
        /\ Locked'[s] = Locked[s] - Count(gone)
    BY <1>1, <1>5, ReleaseEffect
  <2> QED  BY <1>1, <1>2, <1>3, <1>5, <2>1 DEF Balanced, Queued, Count
<1>6. ASSUME SwitchBuffer \/ ReleaseComposed \/ EncodeOneFrame PROVE Balanced(s)'
  <2>1. /\ ReleaseSurface(curBuffer, decExt) \/ ReleaseSurface(1, decExt)
        /\ UNCHANGED <<m_Surfaces, vppHold>>
    BY <1>6 DEF SwitchBuffer, ReleaseComposed, EncodeOneFrame, syncVars
  <2> QED  BY <1>2, <1>5, <2>1
<1>7. ASSUME CleanBuffer PROVE Balanced(s)'
  <2>1. /\ UNCHANGED <<m_Surfaces, vppHold>>
        /\ \/ UNCHANGED <<refs, Locked, m_SList>>
           \/ /\ m_SList[curBuffer] # <<>>
              /\ ReleaseSurface(curBuffer, Head(m_SList[curBuffer]))
    BY <1>7 DEF CleanBuffer, syncVars
  <2>2. CASE UNCHANGED <<refs, Locked, m_SList>>
    BY <1>1, <1>2, <1>3, <2>1, <2>2 DEF Balanced, Queued, Count
  <2>3. CASE m_SList[curBuffer] # <<>> /\ ReleaseSurface(curBuffer, Head(m_SList[curBuffer]))
    <3>1. Head(m_SList[curBuffer]) \in Surf0
      BY <1>1, <1>2, <2>3, ComposerSequences
    <3> QED  BY <1>2, <1>5, <2>1, <2>3, <3>1
  <2> QED  BY <2>1, <2>2, <2>3
<1>8. ASSUME VPPOneFrame PROVE Balanced(s)'
  <2>1. /\ epc = "vpp" /\ UNCHANGED <<refs, m_SList, m_Surfaces>>
        /\ \/ UNCHANGED <<Locked, vppHold>>
           \/ decExt # NoSurface /\ vppHold' = vppHold \cup {decExt} /\ Lock({decExt})
    BY <1>8 DEF VPPOneFrame, syncVars, bufVars
  <2>2. CASE UNCHANGED <<Locked, vppHold>>
    BY <1>1, <1>2, <1>3, <2>1, <2>2 DEF Balanced, Queued, Count
  <2>3. CASE decExt # NoSurface /\ vppHold' = vppHold \cup {decExt} /\ Lock({decExt})
    <3>1. decExt \in Frames /\ decExt \in Range(m_SList[curBuffer])
      BY <1>1, <1>2, <2>1, <2>3 DEF HolderOwnership, Surf0
    <3>2. decExt \notin vppHold
      <4>1. decExt[1] = curBuffer
        BY <1>1, <1>2, <2>3, <3>1 DEF QueueOwnership
      <4> QED  BY <1>1, <2>1, <3>1, <4>1 DEF HolderOwnership
    <3>3. Locked'[s] = Locked[s] + Count(s = decExt)
      BY <1>2, <2>3 DEF Lock, Count
    <3>4. Count(s \in vppHold') = Count(s \in vppHold) + Count(s = decExt)
      BY <2>3, <3>2 DEF Count
    <3> QED  BY <1>1, <1>2, <1>3, <2>1, <3>3, <3>4 DEF Balanced, Queued, Count
  <2> QED  BY <2>1, <2>2, <2>3
<1>9. ASSUME CloseVPP PROVE Balanced(s)'
  <2>1. /\ UNCHANGED <<refs, m_SList, m_Surfaces>> /\ vppHold' = {} /\ Unlock(vppHold)
    BY <1>9 DEF CloseVPP, syncVars, bufVars
  <2>2. Locked'[s] = Locked[s] - Count(s \in vppHold)
    BY <1>2, <2>1 DEF Unlock, Count
  <2> QED  BY <1>1, <1>2, <1>3, <2>1, <2>2 DEF Balanced, Queued, Count
<1> QED  BY <1>4, <1>6, <1>7, <1>8, <1>9 DEF EncodeSession

(* Every step keeps the counters right.                                    *)
LEMMA BalanceStep == IInv /\ [Next]_vars => ReferencesBalanced'
<1> SUFFICES ASSUME IInv, [Next]_vars, NEW s \in Frames PROVE Balanced(s)'
    BY BalancedIsReferencesBalanced
<1>1. Balanced(s) /\ refs \in [Frames -> Int] /\ Locked \in [Frames -> Int]
    BY BalancedIsReferencesBalanced DEF IInv, Typed
<1>2. ASSUME DecoderUnlocks PROVE Balanced(s)'
  <2>1. PICK x \in decHold : decHold' = decHold \ {x} /\ Unlock({x})
    BY <1>2 DEF DecoderUnlocks
  <2>2. UNCHANGED <<refs, m_SList, m_Surfaces, vppHold, dpc, nDecoded>>
    BY <1>2 DEF DecoderUnlocks, OtherThreads, syncVars, bufVars, decVars
  <2>3. Locked'[s] = Locked[s] - Count(s = x)
    BY <1>1, <2>1 DEF Unlock, Count
  <2>4. Count(s \in decHold') = Count(s \in decHold) - Count(s = x)
    BY <2>1 DEF Count
  <2> QED  BY <1>1, <2>2, <2>3, <2>4 DEF Balanced, Queued, InHand, Current, Count
<1>3. ASSUME VPPUnlocks PROVE Balanced(s)'
  <2>1. PICK x \in vppHold : vppHold' = vppHold \ {x} /\ Unlock({x})
    BY <1>3 DEF VPPUnlocks
  <2>2. UNCHANGED <<refs, m_SList, m_Surfaces, decHold, dpc, nDecoded>>
    BY <1>3 DEF VPPUnlocks, DecodersAndLauncher, syncVars, bufVars, decVars
  <2>3. Locked'[s] = Locked[s] - Count(s = x)
    BY <1>1, <2>1 DEF Unlock, Count
  <2>4. Count(s \in vppHold') = Count(s \in vppHold) - Count(s = x)
    BY <2>1 DEF Count
  <2> QED  BY <1>1, <2>2, <2>3, <2>4 DEF Balanced, Queued, InHand, Current, Count
<1>4. ASSUME (\E i \in Sessions : CollectSession(i)) \/ UNCHANGED vars PROVE Balanced(s)'
  <2>1. UNCHANGED <<refs, Locked, m_SList, m_Surfaces, decHold, vppHold, dpc, nDecoded>>
    BY <1>4 DEF CollectSession, vars, syncVars, libVars, decVars, bufVars
  <2> QED  BY <1>1, <2>1 DEF Balanced, Queued, InHand, Current
<1> QED  BY <1>2, <1>3, <1>4, DecoderBalanceStep, ComposerBalanceStep DEF Next

----------------------------------------------------------------------------
(* The invariant and its consequences.                                     *)

LEMMA InitIInv == Init => IInv
<1> SUFFICES ASSUME Init PROVE IInv
    OBVIOUS
<1> DEFINE z == <<>>
<1>1. z \in Seq(Frames) /\ z \in Seq(Surf0) /\ z \in Seq(Seq(Frames)) /\ Len(z) = 0
      /\ Range(z) = {}
  <2>1. z \in Seq(Frames) /\ z \in Seq(Surf0) /\ z \in Seq(Seq(Frames)) /\ Len(z) = 0
    BY EmptySeq
  <2>2. Range(z) = {z[i] : i \in 1..Len(z)}
    BY <2>1, RangeEquality
  <2> QED  BY <2>1, <2>2
<1>2. /\ m_Surfaces = z /\ vppIn = z /\ vppExt = z /\ m_BSPool = z /\ written = z
      /\ m_SList = [d \in Decoders |-> z]
    BY DEF Init
<1> HIDE DEF z
<1>3. Typed
  <2>1. refs \in [Frames -> Int] /\ Locked \in [Frames -> Int]
    BY DEF Init
  <2>2. SynchronizerTypes /\ LibraryTypes /\ BufferTypes
    BY <1>1, <1>2 DEF Init, SynchronizerTypes, LibraryTypes, BufferTypes, Surf0
  <2>3. DecoderTypes /\ LauncherTypes
    BY DEF Init, DecoderTypes, LauncherTypes, Statuses
  <2>4. ComposerTypes
    BY <1>1, <1>2, FrameFacts DEF Init, ComposerTypes, Statuses
  <2>5. epc # "put" /\ \A d \in Decoders : dpc[d] = "start"
    BY DEF Init
  <2> QED  BY <2>1, <2>2, <2>3, <2>4, <2>5 DEF Typed
<1>4. Ownership
    BY <1>1, <1>2 DEF Init, Ownership, HolderOwnership, QueueOwnership, HandOwnership, Once
<1>5. ReferencesBalanced
  <2> SUFFICES ASSUME NEW s \in Frames PROVE Balanced(s)
    BY BalancedIsReferencesBalanced
  <2> QED  BY <1>1, <1>2, FrameFacts DEF Init, Balanced, Queued, InHand, Count
<1> QED  BY <1>3, <1>4, <1>5 DEF IInv

THEOREM InvariantHolds == Spec => []IInv
<1>1. IInv /\ [Next]_vars => IInv'
    BY TypedStep, OwnershipStep, BalanceStep DEF IInv
<1> QED  BY InitIInv, <1>1, PTL DEF Spec

(* Every variable keeps its type; in particular no surface is released or  *)
(* unlocked more often than it was referenced or locked.                   *)
THEOREM TypeCorrect == Spec => []CompositionTypeOK
<1>1. IInv => CompositionTypeOK
  <2> SUFFICES ASSUME IInv PROVE CompositionTypeOK
    OBVIOUS
  <2>1. Typed /\ \A s \in Frames : Balanced(s)
    BY BalancedIsReferencesBalanced DEF IInv
  <2>2. \A s \in Frames : refs[s] \in Nat /\ Locked[s] \in Nat
    BY <2>1 DEF Balanced, Count
  <2>3. refs \in [Frames -> Nat] /\ Locked \in [Frames -> Nat]
    BY <2>1, <2>2 DEF Typed
  <2> QED  BY <2>1, <2>3 DEF Typed, CompositionTypeOK
<1> QED  BY <1>1, InvariantHolds, PTL

(* A surface's counters count its holders exactly, however the threads     *)
(* interleave and whichever calls fail.                                    *)
THEOREM CountersBalance == Spec => []ReferencesBalanced
<1>1. IInv => ReferencesBalanced
    BY DEF IInv
<1> QED  BY <1>1, InvariantHolds, PTL

----------------------------------------------------------------------------
(* The compositions.  The walk over the buffers and the decoders are in    *)
(* step: while no stream has ended, buffer d holds the frames of stream d  *)
(* from the next one that the composing session takes of it, without a     *)
(* gap, up to the one that decoder d has in hand; VPP has the frames of    *)
(* the composition to be made from the buffers in front of the walk.       *)

Made == Len(Compositions)
Reading == {"get", "wait", "vpp", "more", "composed", "encode", "put"}
Streaming == epc \in Reading /\ ~ isQuit

\* frames of stream d that have left its buffer
Taken(d) == IF epc = "encode" \/ d < curBuffer THEN Made + 1 ELSE Made

\* q has the k-th frame of each stream, in the order of the streams
Row(q, k) == \A i \in 1..Len(q) : q[i] = <<i, k>>

(* What is composed and what VPP and the encoder are given next.  After a  *)
(* partial composition VPP has no input left, and no more is composed.     *)
OutputsInStep ==
    /\ \A k \in 1..Made : Row(Compositions[k], k)
    /\ Row(vppIn, Made + 1)
    /\ epc \in {"composed", "encode"} =>
           Row(vppExt, Made + 1) /\ (vppExt # <<>> => vppIn = <<>>)
    /\ \A k \in 1..Made : Len(Compositions[k]) = NumDec \/ (k = Made /\ isQuit)
    /\ \/ \A k \in 1..Made : Len(Compositions[k]) = NumDec
       \/ vppIn = <<>> /\ (epc \in {"composed", "encode"} => vppExt = <<>>)
    /\ isQuit => epc \notin {"wait", "more"} /\ (epc = "vpp" => decExt = NoSurface)

(* Where the walk is.                                                      *)
WalkInStep ==
    /\ epc \in {"get", "wait", "vpp"} => Len(vppIn) = curBuffer - 1
    /\ epc = "more" => Len(vppIn) = curBuffer /\ curBuffer < NumDec
    /\ epc = "composed" => curBuffer = NumDec
    /\ epc \in {"encode", "put"} => curBuffer = 1
    /\ epc \in {"composed", "encode", "put"} => vppIn = <<>>
    /\ epc \in {"composed", "encode"} => Len(vppExt) = NumDec
    /\ epc \in {"vpp", "more", "composed"} =>
           /\ m_SList[curBuffer] # <<>> /\ decExt = Head(m_SList[curBuffer])
           /\ decExt # NoSurface
    /\ epc = "encode" => decExt = <<NumDec, Made + 1>>

(* Where stream d is.                                                      *)
StreamInStep(d) ==
    /\ \A i \in 1..Len(m_SList[d]) : m_SList[d][i] \in {NoSurface, <<d, Taken(d) + i>>}
    /\ dpc[d] \notin {"signal", "done"} => NoSurface \notin Range(m_SList[d])
    /\ dpc[d] \in {"push", "ration", "waiting", "add"} =>
           nDecoded[d] = Taken(d) + Len(m_SList[d]) + 1
    /\ dpc[d] \in {"start", "decode", "sync"} =>
           nDecoded[d] = Taken(d) + Len(m_SList[d])

InStep ==
    /\ OutputsInStep
    /\ epc \in Reading => \A d \in Decoders : m_IsBufferingAllowed[d]
    /\ Streaming => WalkInStep /\ \A d \in Decoders : StreamInStep(d)

LEMMA StepTypes ==
    ASSUME Typed
    PROVE  /\ m_SList \in [Decoders -> Seq(Surf0)] /\ nDecoded \in [Decoders -> Nat]
           /\ m_IsBufferingAllowed \in [Decoders -> BOOLEAN]
           /\ DecoderTypes /\ decExt \in Surf0 /\ isQuit \in BOOLEAN
           /\ curBuffer \in Decoders /\ curBuffer \in Nat
           /\ vppIn \in Seq(Frames) /\ vppExt \in Seq(Frames)
           /\ Len(vppIn) \in Nat /\ Len(vppExt) \in Nat
           /\ written \in Seq(Seq(Frames)) /\ m_BSPool \in Seq(Seq(Frames))
           /\ Compositions \in Seq(Seq(Frames)) /\ Made \in Nat
           /\ \A d \in Decoders : d \in Nat /\ Taken(d) \in Nat /\ Len(m_SList[d]) \in Nat
           /\ NumDec \in Nat /\ NumDec >= 1 /\ NoSurface \notin Frames
<1>1. /\ written \in Seq(Seq(Frames)) /\ m_BSPool \in Seq(Seq(Frames))
      /\ vppIn \in Seq(Frames) /\ vppExt \in Seq(Frames)
      /\ m_SList \in [Decoders -> Seq(Surf0)]
    BY DEF Typed, ComposerTypes, LibraryTypes, BufferTypes, Surf0
<1>2. Compositions \in Seq(Seq(Frames))
    BY <1>1, ConcatProperties DEF Compositions
<1>3. Made \in Nat
    BY <1>2, LenProperties DEF Made
<1>4. Len(vppIn) \in Nat /\ Len(vppExt) \in Nat
    BY <1>1, LenProperties
<1>5. \A d \in Decoders : Len(m_SList[d]) \in Nat
    BY <1>1, LenProperties
<1>6. /\ nDecoded \in [Decoders -> Nat] /\ m_IsBufferingAllowed \in [Decoders -> BOOLEAN]
      /\ DecoderTypes /\ decExt \in Surf0 /\ isQuit \in BOOLEAN /\ curBuffer \in Decoders
    BY DEF Typed, DecoderTypes, BufferTypes, ComposerTypes, Surf0
<1>7. \A d \in Decoders : d \in Nat
    BY FrameFacts DEF Decoders
<1>8. \A d \in Decoders : Taken(d) \in Nat
    BY <1>3 DEF Taken
<1> QED  BY <1>1, <1>2, <1>3, <1>4, <1>5, <1>6, <1>7, <1>8, FrameFacts

(* A decoder appends the frame it has in hand to its own buffer.           *)
LEMMA DecoderInStep ==
    ASSUME IInv, InStep, NEW d \in Decoders, DecodeSession(d)
    PROVE  InStep'
<1>1. Typed /\ Ownership
    BY DEF IInv
<1>2. /\ m_SList \in [Decoders -> Seq(Surf0)] /\ nDecoded \in [Decoders -> Nat]
      /\ DecoderTypes /\ curBuffer \in Decoders
      /\ \A f \in Decoders : Taken(f) \in Nat /\ Len(m_SList[f]) \in Nat
      /\ NoSurface \notin Frames
    BY <1>1, StepTypes
<1>3. /\ UNCHANGED <<vppIn, epc, curBuffer, isQuit, decExt, vppExt, written, m_BSPool,
                     m_IsBufferingAllowed>>
  <2>1. OtherThreads
    BY DEF DecodeSession, DecodeStart, DecodeFrame, NoMoreFramesSignal, RegisterSurface,
       StartWaitingForFree, WakeUp, AddToBuffer, FinishTurn
  <2>2. UNCHANGED m_IsBufferingAllowed
    BY DEF DecodeSession, DecodeStart, DecodeFrame, NoMoreFramesSignal, RegisterSurface,
       StartWaitingForFree, WakeUp, AddToBuffer, FinishTurn, bufVars
  <2> QED  BY <2>1, <2>2 DEF OtherThreads, encVars, outVars
<1>4. OutputsInStep'
    BY <1>3 DEF InStep, OutputsInStep, Made, Compositions, Row
<1>5. UNCHANGED <<Made, Streaming>> /\ \A f \in Decoders : Taken(f)' = Taken(f)
    BY <1>3 DEF Made, Compositions, Streaming, Taken
<1>6. (epc \in Reading => \A f \in Decoders : m_IsBufferingAllowed[f])'
    BY <1>3 DEF InStep
<1>7. ASSUME Streaming
      PROVE  WalkInStep' /\ \A f \in Decoders : StreamInStep(f)'
  <2>1. WalkInStep /\ \A f \in Decoders : StreamInStep(f) /\ m_IsBufferingAllowed[f]
    BY <1>7 DEF InStep, Streaming
\* what has to be shown of the decoder's own variables
  <2> DEFINE Goal == /\ \A f \in Decoders : f # d =>
                            UNCHANGED <<m_SList[f], dpc[f], nDecoded[f]>>
                     /\ m_SList[d] # <<>> => m_SList'[d] # <<>>
                                             /\ Head(m_SList'[d]) = Head(m_SList[d])
                     /\ StreamInStep(d)'
  <2>2. ASSUME UNCHANGED m_SList, UNCHANGED nDecoded,
               \A f \in Decoders : f # d => UNCHANGED dpc[f],
               dpc'[d] \in {"signal", "done"}
               \/ (/\ dpc[d] \in {"push", "ration", "waiting", "add"}
                   /\ dpc'[d] \in {"push", "ration", "waiting", "add"})
               \/ (/\ dpc[d] \in {"start", "decode", "sync"}
                   /\ dpc'[d] \in {"start", "decode", "sync"})
        PROVE  Goal
    BY <1>5, <2>1, <2>2 DEF StreamInStep
  <2>3. ASSUME NEW x \in Surf0, AddSurface(d, x), UNCHANGED nDecoded,
               \A f \in Decoders : f # d => UNCHANGED dpc[f],
               \/ x = NoSurface /\ dpc'[d] \in {"signal", "done"}
               \/ x = Current(d) /\ x # NoSurface /\ dpc[d] = "add" /\ dpc'[d] = "sync"
        PROVE  Goal
    <3> DEFINE q == m_SList[d]
    <3>1. /\ q \in Seq(Surf0) /\ Append(q, x) \in Seq(Surf0)
          /\ Len(q) \in Nat /\ Len(Append(q, x)) = Len(q) + 1
          /\ \A i \in 1..Len(q) : Append(q, x)[i] = q[i]
          /\ Append(q, x)[Len(q) + 1] = x
          /\ Range(Append(q, x)) = Range(q) \cup {x}
      BY <1>2, AppendElements
    <3>2. m_SList' = [m_SList EXCEPT ![d] = Append(q, x)]
      BY <2>1, <2>3 DEF AddSurface
    <3>3. m_SList'[d] = Append(q, x)
          /\ \A f \in Decoders : f # d => m_SList'[f] = m_SList[f]
      BY <1>2, <3>2
    <3>4. q # <<>> => Append(q, x) # <<>> /\ Head(Append(q, x)) = Head(q)
      BY <1>2, AppendNonempty, HeadTailAppend
    <3>5. x # NoSurface => x = <<d, Taken(d) + Len(q) + 1>>
      BY <2>1, <2>3 DEF StreamInStep, Current
    <3> HIDE DEF q
    <3>6. StreamInStep(d)'
      <4>1. \A i \in 1..(Len(q) + 1) :
                Append(q, x)[i] \in {NoSurface, <<d, Taken(d) + i>>}
        <5> SUFFICES ASSUME NEW i \in 1..(Len(q) + 1)
                     PROVE  Append(q, x)[i] \in {NoSurface, <<d, Taken(d) + i>>}
          OBVIOUS
        <5>1. CASE i \in 1..Len(q)
          BY <2>1, <3>1, <5>1 DEF StreamInStep, q
        <5>2. CASE i = Len(q) + 1
          BY <1>2, <3>1, <3>5, <5>2
        <5> QED  BY <3>1, <5>1, <5>2
      <4>2. dpc'[d] \notin {"signal", "done"} => NoSurface \notin Range(Append(q, x))
        BY <2>1, <2>3, <3>1 DEF StreamInStep, q
      <4>3. dpc'[d] = "sync" => nDecoded[d] = Taken(d) + (Len(q) + 1)
        BY <1>2, <2>1, <2>3, <3>1 DEF StreamInStep, q
      <4> QED  BY <1>5, <2>3, <3>1, <3>3, <4>1, <4>2, <4>3 DEF StreamInStep
    <3> QED  BY <2>3, <3>3, <3>4, <3>6 DEF q
  <2>4. ASSUME DecodeStart(d) \/ WakeUp(d) \/ FinishTurn(d) PROVE Goal
    <3>1. UNCHANGED m_SList /\ UNCHANGED nDecoded
      BY <2>4 DEF DecodeStart, WakeUp, FinishTurn, bufVars
    <3>2. /\ \A f \in Decoders : f # d => UNCHANGED dpc[f]
          /\ \/ dpc'[d] \in {"signal", "done"}
             \/ (/\ dpc[d] \in {"push", "ration", "waiting", "add"}
                 /\ dpc'[d] \in {"push", "ration", "waiting", "add"})
             \/ (/\ dpc[d] \in {"start", "decode", "sync"}
                 /\ dpc'[d] \in {"start", "decode", "sync"})
      BY <1>2, <2>4 DEF DecodeStart, WakeUp, FinishTurn, GotoD, EndDecode, DecoderTypes
    <3> HIDE DEF Goal
    <3> QED  BY <2>2, <3>1, <3>2
  <2>5. ASSUME RegisterSurface(d) \/ StartWaitingForFree(d) PROVE Goal
    <3>1. UNCHANGED m_SList /\ UNCHANGED nDecoded
      BY <2>5 DEF RegisterSurface, StartWaitingForFree, bufVars
    <3>2. /\ \A f \in Decoders : f # d => UNCHANGED dpc[f]
          /\ dpc[d] \in {"push", "ration", "waiting", "add"}
          /\ dpc'[d] \in {"push", "ration", "waiting", "add"}
      BY <1>2, <2>5 DEF RegisterSurface, StartWaitingForFree, GotoD, DecoderTypes
    <3> HIDE DEF Goal
    <3> QED  BY <2>2, <3>1, <3>2
  <2>6. ASSUME NoMoreFramesSignal(d) PROVE Goal
    <3>1. /\ AddSurface(d, NoSurface) /\ UNCHANGED nDecoded /\ NoSurface \in Surf0
          /\ \A f \in Decoders : f # d => UNCHANGED dpc[f]
          /\ dpc'[d] = "done"
      BY <1>2, <2>6 DEF NoMoreFramesSignal, GotoD, DecoderTypes, Surf0
    <3> HIDE DEF Goal
    <3> QED  BY <2>3, <3>1
  <2>7. ASSUME AddToBuffer(d) PROVE Goal
    <3>1. /\ AddSurface(d, Current(d)) /\ UNCHANGED nDecoded
          /\ \A f \in Decoders : f # d => UNCHANGED dpc[f]
          /\ dpc[d] = "add" /\ dpc'[d] = "sync"
      BY <1>2, <2>7 DEF AddToBuffer, GotoD, DecoderTypes
    <3>2. Current(d) \in Surf0 /\ Current(d) # NoSurface
      BY <1>1, <3>1, HandFacts
    <3> HIDE DEF Goal, Current
    <3> QED  BY <2>3, <3>1, <3>2
  <2>8. ASSUME DecodeFrame(d) PROVE Goal
    <3>0. dpc[d] = "decode"
      BY <2>8 DEF DecodeFrame
    <3>1. CASE /\ nDecoded' = [nDecoded EXCEPT ![d] = @ + 1]
               /\ GotoD(d, "push") /\ UNCHANGED m_SList
      <4>1. /\ nDecoded'[d] = nDecoded[d] + 1 /\ dpc'[d] = "push"
            /\ \A f \in Decoders : f # d => UNCHANGED <<m_SList[f], dpc[f], nDecoded[f]>>
        BY <1>2, <3>1 DEF GotoD, DecoderTypes
      <4>2. StreamInStep(d)'
        BY <1>2, <1>5, <2>1, <3>0, <3>1, <4>1 DEF StreamInStep
      <4> QED  BY <3>1, <4>1, <4>2
    <3>2. CASE /\ UNCHANGED nDecoded
               /\ UNCHANGED m_SList \/ AddSurface(d, NoSurface)
               /\ EndDecode(d, "signal", "ok") \/ EndDecode(d, "signal", "err")
      <4>1. /\ \A f \in Decoders : f # d => UNCHANGED dpc[f]
            /\ dpc'[d] = "signal" /\ NoSurface \in Surf0
        BY <1>2, <3>2 DEF EndDecode, GotoD, DecoderTypes, Surf0
      <4> HIDE DEF Goal
      <4>2. CASE UNCHANGED m_SList
        BY <2>2, <3>2, <4>1, <4>2
      <4>3. CASE AddSurface(d, NoSurface)
        BY <2>3, <3>2, <4>1, <4>3
      <4> QED  BY <3>2, <4>2, <4>3
    <3> HIDE DEF Goal
    <3> QED  BY <2>8, <3>1, <3>2 DEF DecodeFrame
  <2>9. Goal
    <3> HIDE DEF Goal
    <3> QED  BY <2>4, <2>5, <2>6, <2>7, <2>8 DEF DecodeSession
  <2>10. m_SList[curBuffer] # <<>> => m_SList'[curBuffer] # <<>>
                                      /\ Head(m_SList'[curBuffer]) = Head(m_SList[curBuffer])
    BY <1>2, <2>9
  <2>11. WalkInStep'
    BY <1>3, <1>5, <2>1, <2>10 DEF WalkInStep
  <2>12. ASSUME NEW f \in Decoders, f # d PROVE StreamInStep(f)'
    BY <1>5, <2>1, <2>9, <2>12 DEF StreamInStep
  <2> QED  BY <2>9, <2>11, <2>12
<1> QED  BY <1>4, <1>5, <1>6, <1>7 DEF InStep

(* The head of the current buffer leaves it.                               *)
LEMMA HeadTaken ==
    ASSUME IInv, InStep, Streaming, epc \in {"more", "composed"},
           ReleaseSurface(curBuffer, decExt)
    PROVE  /\ \A d \in Decoders : d # curBuffer => m_SList'[d] = m_SList[d]
           /\ Len(m_SList'[curBuffer]) = Len(m_SList[curBuffer]) - 1
           /\ \A i \in 1..Len(m_SList'[curBuffer]) :
                 m_SList'[curBuffer][i] = m_SList[curBuffer][i + 1]
           /\ Range(m_SList'[curBuffer]) \subseteq Range(m_SList[curBuffer])
           /\ decExt = <<curBuffer, Made + 1>>
<1> DEFINE q == m_SList[curBuffer]
<1>0. /\ Typed /\ Ownership
      /\ m_SList \in [Decoders -> Seq(Surf0)] /\ decExt \in Surf0
      /\ curBuffer \in Decoders /\ curBuffer \in Nat
    BY StepTypes DEF IInv
<1>1. q # <<>> /\ decExt = Head(q) /\ decExt # NoSurface /\ StreamInStep(curBuffer)
    BY <1>0 DEF InStep, WalkInStep
<1>2. /\ m_SList'[curBuffer] = RemoveFirst(q, decExt)
      /\ Range(m_SList'[curBuffer]) \subseteq Range(q)
      /\ \A d \in Decoders : d # curBuffer => m_SList'[d] = m_SList[d]
    BY <1>0, ReleaseEffect DEF Ownership
<1>3. q \in Seq(Surf0)
    BY <1>0
<1> HIDE DEF q
<1>4. /\ Len(RemoveFirst(q, Head(q))) = Len(q) - 1
      /\ \A i \in 1..Len(RemoveFirst(q, Head(q))) :
             RemoveFirst(q, Head(q))[i] = q[i + 1]
    BY <1>1, <1>3, RemoveHead
<1>5. decExt = q[1] /\ Len(q) \in Nat \ {0}
    BY <1>1, <1>3, TailElements
<1>6. decExt = <<curBuffer, Made + 1>>
  <2>1. Taken(curBuffer) = Made /\ 1 \in 1..Len(q)
    BY <1>0, <1>5 DEF Taken
  <2>2. q[1] \in {NoSurface, <<curBuffer, Taken(curBuffer) + 1>>}
    BY <1>1, <2>1 DEF StreamInStep, q
  <2> QED  BY <1>1, <1>5, <2>1, <2>2
<1> QED  BY <1>1, <1>2, <1>4, <1>6 DEF q

(* The frame that was composed last is in no buffer any more: the encoder  *)
(* asks the first buffer in vain to release it.                            *)
LEMMA ComposedIsGone ==
    ASSUME IInv, InStep, Streaming, epc = "encode", ReleaseSurface(1, decExt)
    PROVE  UNCHANGED m_SList
<1>1. /\ m_SList \in [Decoders -> Seq(Surf0)] /\ Made \in Nat /\ 1 \in Decoders
      /\ NumDec \in Nat /\ NumDec >= 1 /\ Len(m_SList[1]) \in Nat
    BY FrameFacts, StepTypes DEF IInv
<1>2. WalkInStep /\ StreamInStep(1) /\ decExt = <<NumDec, Made + 1>>
    BY <1>1 DEF InStep, WalkInStep
<1>3. decExt \notin Range(m_SList[1])
  <2>1. Range(m_SList[1]) = {m_SList[1][i] : i \in 1..Len(m_SList[1])}
    BY <1>1, RangeEquality
  <2>2. Taken(1) = Made + 1
    BY DEF Taken
  <2>3. \A i \in 1..Len(m_SList[1]) : m_SList[1][i] \in {NoSurface, <<1, Made + 1 + i>>}
    BY <1>2, <2>2 DEF StreamInStep
  <2>4. \A i \in 1..Len(m_SList[1]) : <<1, Made + 1 + i>> # <<NumDec, Made + 1>>
    BY <1>1
  <2>5. <<NumDec, Made + 1>> # NoSurface
    BY <1>1 DEF NoSurface
  <2> QED  BY <1>2, <2>1, <2>3, <2>4, <2>5
<1>4. RemoveFirst(m_SList[1], decExt) = m_SList[1]
    BY <1>1, <1>3, RemoveFirstElements
<1> QED  BY <1>1, <1>4 DEF ReleaseSurface

(* Only EncodeOneFrame makes a composition, of what VPP has output.        *)
LEMMA CompositionsStep ==
    ASSUME Typed, EncodeSession
    PROVE  \/ UNCHANGED Compositions
           \/ /\ epc = "encode" /\ vppExt # <<>> /\ vppExt \in Seq(Frames)
              /\ Compositions' = Append(Compositions, vppExt)
<1>1. /\ written \in Seq(Seq(Frames)) /\ m_BSPool \in Seq(Seq(Frames))
      /\ vppExt \in Seq(Frames)
    BY StepTypes
<1>2. CASE EncodeOneFrame
  <2>1. /\ UNCHANGED written /\ epc = "encode"
        /\ \/ Submitted # <<>> /\ m_BSPool' = Append(m_BSPool, Submitted)
           \/ UNCHANGED m_BSPool
    BY <1>2 DEF EncodeOneFrame
  <2>2. CASE UNCHANGED m_BSPool
    BY <2>1, <2>2 DEF Compositions
  <2>3. CASE Submitted # <<>> /\ m_BSPool' = Append(m_BSPool, Submitted)
    <3>1. Submitted = vppExt /\ vppExt # <<>>
      BY <2>3 DEF Submitted
    <3>2. written \o Append(m_BSPool, vppExt) = Append(written \o m_BSPool, vppExt)
      <4>1. vppExt \in Seq(Frames) /\ m_BSPool \in Seq(Seq(Frames))
        BY <1>1
      <4>2. written \in Seq(Seq(Frames))
        BY <1>1
      <4> QED  BY <4>1, <4>2, AppendToSecond
    <3>3. Compositions' = Append(Compositions, vppExt)
      BY <2>1, <2>3, <3>1, <3>2 DEF Compositions
    <3> QED  BY <1>1, <2>1, <3>1, <3>3
  <2> QED  BY <2>1, <2>2, <2>3
<1>3. CASE PutBS
  <2>1. m_BSPool # <<>>
    BY <1>3 DEF PutBS, Typed
  <2>2. \/ UNCHANGED <<written, m_BSPool>>
        \/ written' = Append(written, Head(m_BSPool)) /\ m_BSPool' = Tail(m_BSPool)
    BY <1>3 DEF PutBS, outVars
  <2> QED  BY <1>1, <2>1, <2>2, MoveHead DEF Compositions
<1>4. CASE ~ EncodeOneFrame /\ ~ PutBS
  <2>1. UNCHANGED <<written, m_BSPool>>
    BY <1>4 DEF EncodeSession, GetSurface, WaitForSurfaceInsertion, VPPOneFrame,
       SwitchBuffer, ReleaseComposed, CleanUp, CleanBuffer, CloseVPP, NotifyAtEnd, outVars
  <2> QED  BY <2>1 DEF Compositions
<1> QED  BY <1>2, <1>3, <1>4

(* The composing session takes the head of a buffer and walks on.          *)
LEMMA ComposerInStep ==
    ASSUME IInv, InStep, EncodeSession
    PROVE  InStep'
<1>1. Typed /\ Ownership /\ Typed'
    BY TypedStep DEF IInv, Next
<1>2. /\ m_SList \in [Decoders -> Seq(Surf0)] /\ decExt \in Surf0
      /\ curBuffer \in Decoders /\ curBuffer \in Nat /\ isQuit \in BOOLEAN
      /\ vppIn \in Seq(Frames) /\ vppExt \in Seq(Frames)
      /\ Len(vppIn) \in Nat /\ Len(vppExt) \in Nat
      /\ written \in Seq(Seq(Frames)) /\ m_BSPool \in Seq(Seq(Frames))
      /\ Compositions \in Seq(Seq(Frames)) /\ Made \in Nat
      /\ \A d \in Decoders : d \in Nat /\ Taken(d) \in Nat /\ Len(m_SList[d]) \in Nat
      /\ NumDec \in Nat /\ NumDec >= 1 /\ NoSurface \notin Frames
    BY <1>1, StepTypes
<1>3. UNCHANGED <<dpc, nDecoded>>
    BY ComposerFrame DEF DecodersAndLauncher, decVars
<1>4. OutputsInStep /\ (Streaming => WalkInStep /\ \A d \in Decoders : StreamInStep(d))
      /\ (epc \in Reading => \A d \in Decoders : m_IsBufferingAllowed[d])
    BY DEF InStep
\* steps that leave the outputs and the buffers alone
<1>5. ASSUME UNCHANGED <<vppIn, vppExt, Compositions, m_SList, m_IsBufferingAllowed,
                         curBuffer>>,
             epc \in {"get", "wait", "put"}, epc' \in {"get", "wait", "vpp"},
             Streaming' => Streaming,
             isQuit => isQuit' /\ epc # "wait",
             isQuit' => epc' # "wait" /\ (epc' = "vpp" => decExt' = NoSurface),
             epc' = "vpp" /\ Streaming' =>
                /\ m_SList[curBuffer] # <<>> /\ decExt' = Head(m_SList[curBuffer])
                /\ decExt' # NoSurface
      PROVE  InStep'
  <2>1. UNCHANGED Made /\ \A d \in Decoders : Taken(d)' = Taken(d)
    BY <1>5 DEF Made, Taken
  <2>2. OutputsInStep'
    BY <1>4, <1>5, <2>1 DEF OutputsInStep, Row
  <2>3. ASSUME Streaming' PROVE WalkInStep' /\ \A d \in Decoders : StreamInStep(d)'
    <3>1. WalkInStep /\ \A d \in Decoders : StreamInStep(d)
      BY <1>4, <1>5, <2>3
    <3>2. WalkInStep'
      <4>1. epc = "put" => Len(vppIn) = curBuffer - 1
        BY <3>1, EmptySeq DEF WalkInStep
      <4> QED  BY <1>5, <2>1, <2>3, <3>1, <4>1 DEF WalkInStep
    <3>3. \A d \in Decoders : StreamInStep(d)'
      BY <1>3, <1>5, <2>1, <3>1 DEF StreamInStep
    <3> QED  BY <3>2, <3>3
  <2> QED  BY <1>4, <1>5, <2>2, <2>3 DEF InStep, Reading
\* steps after which the session reads no more
<1>6. ASSUME UNCHANGED <<vppExt, Compositions, isQuit>>,
             UNCHANGED vppIn \/ vppIn' = <<>>,
             epc' \notin Reading
      PROVE  InStep'
  <2>1. UNCHANGED Made
    BY <1>6 DEF Made
  <2>2. Row(vppIn', Made + 1)
    BY <1>4, <1>6, EmptySeq DEF OutputsInStep, Row
  <2>3. OutputsInStep'
    BY <1>4, <1>6, <2>1, <2>2 DEF OutputsInStep, Row, Reading
  <2> QED  BY <1>6, <2>3 DEF InStep, Streaming
<1>7. ASSUME GetSurface PROVE InStep'
  <2>1. /\ UNCHANGED <<vppIn, vppExt, m_SList, m_IsBufferingAllowed, curBuffer>>
        /\ UNCHANGED <<written, m_BSPool>>
        /\ epc = "get" /\ epc' \in {"wait", "vpp"}
        /\ \/ isQuit /\ isQuit' /\ decExt' = NoSurface /\ epc' = "vpp"
           \/ /\ ~ isQuit /\ m_SList[curBuffer] # <<>> /\ epc' = "vpp"
              /\ decExt' = Head(m_SList[curBuffer]) /\ isQuit' = (decExt' = NoSurface)
           \/ ~ isQuit /\ ~ isQuit' /\ epc' = "wait"
    BY <1>7 DEF GetSurface, Goto, bufVars, outVars
  <2>2. UNCHANGED Compositions /\ (Streaming' => Streaming)
    BY <2>1 DEF Compositions, Streaming, Reading
  <2> QED  BY <1>5, <2>1, <2>2 DEF Streaming
<1>8. ASSUME WaitForSurfaceInsertion PROVE InStep'
  <2>1. /\ UNCHANGED <<vppIn, vppExt, m_SList, m_IsBufferingAllowed, curBuffer, isQuit,
                       decExt, written, m_BSPool>>
        /\ epc = "wait" /\ epc' \in {"get", "wait", "done"}
    BY <1>8 DEF WaitForSurfaceInsertion, Goto, EndEncode, outVars
  <2>2. UNCHANGED Compositions /\ (epc' # "done" /\ Streaming' => Streaming) /\ ~ isQuit
    BY <1>4, <2>1 DEF Compositions, Streaming, Reading, OutputsInStep
  <2> QED  BY <1>5, <1>6, <2>1, <2>2 DEF Reading
<1>9. ASSUME VPPOneFrame PROVE InStep'
  <2> DEFINE inputs == Append(vppIn, decExt)
  <2>0. /\ epc = "vpp"
        /\ UNCHANGED <<m_SList, m_IsBufferingAllowed, curBuffer, isQuit, decExt, written,
                       m_BSPool>>
    BY <1>9 DEF VPPOneFrame, bufVars, outVars
  <2>1. UNCHANGED <<Compositions, Made>> /\ \A d \in Decoders : Len(m_SList[d]) \in Nat
    BY <1>2, <2>0 DEF Compositions, Made
  <2>2. ASSUME Streaming
        PROVE  /\ decExt = <<curBuffer, Made + 1>> /\ decExt \in Frames
               /\ Len(inputs) = curBuffer /\ Row(inputs, Made + 1)
               /\ Len(vppIn) = curBuffer - 1
    <3>1. /\ WalkInStep /\ StreamInStep(curBuffer) /\ Len(vppIn) = curBuffer - 1
          /\ m_SList[curBuffer] # <<>> /\ decExt = Head(m_SList[curBuffer])
          /\ decExt # NoSurface
      BY <1>2, <1>4, <2>0, <2>2 DEF WalkInStep
    <3>2. decExt = m_SList[curBuffer][1] /\ Len(m_SList[curBuffer]) >= 1
      BY <1>2, <3>1, TailElements
    <3>3. decExt = <<curBuffer, Made + 1>>
      <4>1. Taken(curBuffer) = Made
        BY <1>2, <2>0 DEF Taken
      <4>2. 1 \in 1..Len(m_SList[curBuffer])
        BY <1>2, <3>2
      <4>3. decExt \in {NoSurface, <<curBuffer, Taken(curBuffer) + 1>>}
        BY <3>1, <3>2, <4>2 DEF StreamInStep
      <4> QED  BY <3>1, <4>1, <4>3
    <3>4. decExt \in Frames
      BY <1>2, <3>1 DEF Surf0
    <3>5. /\ Len(inputs) = Len(vppIn) + 1 /\ inputs[Len(vppIn) + 1] = decExt
          /\ \A i \in 1..Len(vppIn) : inputs[i] = vppIn[i]
      BY <1>2, <3>4, AppendElements
    <3> HIDE DEF inputs
    <3>6. Len(inputs) = curBuffer
      BY <1>2, <3>1, <3>5
    <3>7. Row(inputs, Made + 1)
      <4> SUFFICES ASSUME NEW i \in 1..Len(inputs) PROVE inputs[i] = <<i, Made + 1>>
        BY DEF Row
      <4>1. CASE i \in 1..Len(vppIn)
        BY <1>4, <3>5, <4>1 DEF OutputsInStep, Row
      <4>2. CASE i = Len(vppIn) + 1
        BY <1>2, <3>1, <3>3, <3>5, <4>2
      <4>3. i \in 1..(Len(vppIn) + 1) /\ Len(vppIn) \in Nat
        BY <1>2, <3>5
      <4> QED  BY <4>1, <4>2, <4>3
    <3> QED  BY <3>1, <3>3, <3>4, <3>6, <3>7
  <2> HIDE DEF inputs
  <2>3. CASE /\ decExt # NoSurface
             /\ IF Len(inputs) < NumDec
                THEN vppIn' = inputs /\ Goto("more") /\ UNCHANGED vppExt
                ELSE vppIn' = <<>> /\ vppExt' = inputs /\ Goto("composed")
    <3>1. Streaming
      BY <1>2, <1>4, <2>0, <2>3 DEF Streaming, Reading, OutputsInStep
    <3>2. /\ decExt = <<curBuffer, Made + 1>>
          /\ Len(inputs) = curBuffer /\ Row(inputs, Made + 1) /\ ~ isQuit
          /\ WalkInStep /\ \A d \in Decoders : StreamInStep(d)
      BY <1>4, <2>2, <3>1 DEF Streaming
    <3>3. \A k \in 1..Made : Len(Compositions[k]) = NumDec
      BY <1>4, <3>2 DEF OutputsInStep
    <3>4. epc' \in Reading /\ epc' # "encode" /\ ~ isQuit'
      BY <2>0, <2>3, <3>2 DEF Goto, Reading
    <3>5. \A d \in Decoders : StreamInStep(d)'
      <4>1. \A d \in Decoders : Taken(d)' = Taken(d)
        BY <2>0, <2>1, <3>4 DEF Taken
      <4> QED  BY <1>3, <2>0, <3>2, <4>1 DEF StreamInStep
    <3>6. Row(vppIn', Made + 1)
      BY <2>3, <3>2, EmptySeq DEF Row
    <3>7. CASE Len(inputs) < NumDec
      <4>1. vppIn' = inputs /\ epc' = "more"
        BY <2>3, <3>7 DEF Goto
      <4>2. OutputsInStep'
        BY <1>4, <2>0, <2>1, <3>2, <3>3, <3>4, <3>6, <4>1 DEF OutputsInStep, Row
      <4>3. WalkInStep'
        BY <2>0, <2>1, <3>2, <3>7, <4>1 DEF WalkInStep
      <4> QED  BY <1>4, <2>0, <3>5, <4>2, <4>3 DEF InStep, Reading
    <3>8. CASE ~ (Len(inputs) < NumDec)
      <4>1. vppIn' = <<>> /\ vppExt' = inputs /\ epc' = "composed"
        BY <2>3, <3>8 DEF Goto
      <4>2. curBuffer = NumDec
        BY <1>2, <3>2, <3>8 DEF Decoders
      <4>3. OutputsInStep'
        BY <1>4, <2>0, <2>1, <3>2, <3>3, <3>4, <3>6, <4>1 DEF OutputsInStep, Row
      <4>4. WalkInStep'
        BY <2>0, <2>1, <3>2, <4>1, <4>2 DEF WalkInStep
      <4> QED  BY <1>4, <2>0, <3>5, <4>3, <4>4 DEF InStep, Reading
    <3> QED  BY <3>7, <3>8
  <2>4. CASE /\ decExt = NoSurface /\ vppExt' \in {<<>>, vppIn}
             /\ vppIn' = IF vppExt' = <<>> THEN vppIn ELSE <<>>
             /\ Goto("composed")
    <3>1. isQuit /\ isQuit' /\ epc' = "composed"
      BY <1>2, <1>4, <2>0, <2>4 DEF Streaming, Reading, WalkInStep, Goto
    <3>2. /\ Row(vppIn', Made + 1) /\ Row(vppExt', Made + 1)
          /\ vppExt' # <<>> => vppIn' = <<>>
          /\ vppIn = <<>> => vppIn' = <<>> /\ vppExt' = <<>>
      BY <1>4, <2>4, EmptySeq DEF OutputsInStep, Row
    <3>3. OutputsInStep'
      BY <1>4, <2>0, <2>1, <3>1, <3>2 DEF OutputsInStep, Row
    <3> QED  BY <1>4, <2>0, <3>1, <3>3 DEF InStep, Streaming, Reading
  <2>5. CASE EndEncode("err") /\ UNCHANGED <<vppIn, vppExt>>
    BY <1>6, <2>0, <2>1, <2>5 DEF EndEncode, Reading
  <2> QED  BY <1>9, <2>3, <2>4, <2>5 DEF VPPOneFrame, inputs
\* the head of the current buffer leaves it
<1>10. ASSUME Streaming, epc \in {"more", "composed"}, ReleaseSurface(curBuffer, decExt)
       PROVE  /\ \A d \in Decoders : d # curBuffer => m_SList'[d] = m_SList[d]
              /\ Len(m_SList'[curBuffer]) = Len(m_SList[curBuffer]) - 1
              /\ \A i \in 1..Len(m_SList'[curBuffer]) :
                    m_SList'[curBuffer][i] = m_SList[curBuffer][i + 1]
              /\ Range(m_SList'[curBuffer]) \subseteq Range(m_SList[curBuffer])
              /\ decExt = <<curBuffer, Made + 1>>
    BY <1>10, HeadTaken
\* and counts as taken when the walk goes on
<1>11. ASSUME Streaming, epc \in {"more", "composed"}, ReleaseSurface(curBuffer, decExt),
              UNCHANGED Made, epc = "composed" => curBuffer = NumDec /\ epc' = "encode",
              epc = "more" => curBuffer' = curBuffer + 1 /\ epc' # "encode"
       PROVE  \A d \in Decoders : StreamInStep(d)'
  <2> TAKE d \in Decoders
  <2>1. Taken(d)' = IF d = curBuffer THEN Taken(d) + 1 ELSE Taken(d)
    BY <1>2, <1>11 DEF Taken, Decoders
  <2>2. StreamInStep(d)
    BY <1>4, <1>11
  <2>3. CASE d # curBuffer
    BY <1>3, <1>10, <1>11, <2>1, <2>2, <2>3 DEF StreamInStep
  <2>4. CASE d = curBuffer
    <3> DEFINE q == m_SList[d]
               r == m_SList'[d]
    <3>1. /\ Len(r) = Len(q) - 1 /\ \A i \in 1..Len(r) : r[i] = q[i + 1]
          /\ Range(r) \subseteq Range(q) /\ Len(q) \in Nat /\ Len(r) \in Nat
      <4>1. m_SList'[d] \in Seq(Surf0)
        BY <1>1, <1>2, <1>11, <2>4, ReleaseEffect DEF Ownership
      <4>2. Len(r) \in Nat
        BY <4>1, LenProperties
      <4> QED  BY <1>2, <1>10, <1>11, <2>4, <4>2
    <3> HIDE DEF q, r
    <3>2. ASSUME NEW i \in 1..Len(r) PROVE r[i] \in {NoSurface, <<d, (Taken(d) + 1) + i>>}
      <4>1. i + 1 \in 1..Len(q) /\ Taken(d) + (i + 1) = (Taken(d) + 1) + i
        BY <1>2, <3>1
      <4>2. q[i + 1] \in {NoSurface, <<d, Taken(d) + (i + 1)>>}
        BY <2>2, <4>1 DEF StreamInStep, q
      <4> QED  BY <3>1, <4>1, <4>2
    <3>3. dpc[d] \notin {"signal", "done"} => NoSurface \notin Range(r)
      BY <2>2, <3>1 DEF StreamInStep, q
    <3>4. /\ dpc[d] \in {"push", "ration", "waiting", "add"} =>
                 nDecoded[d] = (Taken(d) + 1) + Len(r) + 1
          /\ dpc[d] \in {"start", "decode", "sync"} => nDecoded[d] = (Taken(d) + 1) + Len(r)
      BY <1>2, <2>2, <3>1 DEF StreamInStep, q
    <3> QED  BY <1>3, <2>1, <2>4, <3>2, <3>3, <3>4 DEF StreamInStep, r
  <2> QED  BY <2>3, <2>4
<1>12. ASSUME SwitchBuffer PROVE InStep'
  <2>1. /\ UNCHANGED <<vppIn, vppExt, m_IsBufferingAllowed, isQuit, decExt, written,
                       m_BSPool>>
        /\ epc = "more" /\ epc' = "get" /\ ReleaseSurface(curBuffer, decExt)
        /\ curBuffer' = NextBuffer(curBuffer)
    BY <1>12 DEF SwitchBuffer, Goto, outVars
  <2>2. UNCHANGED <<Compositions, Made>> /\ Streaming /\ WalkInStep
    BY <1>2, <1>4, <2>1 DEF Compositions, Made, Streaming, Reading, OutputsInStep
  <2>3. curBuffer' = curBuffer + 1 /\ Len(vppIn) = curBuffer
    BY <2>1, <2>2 DEF WalkInStep, NextBuffer
  <2>4. \A d \in Decoders : StreamInStep(d)'
    BY <1>11, <2>1, <2>2, <2>3
  <2>5. WalkInStep'
    BY <1>2, <2>1, <2>3 DEF WalkInStep
  <2>6. OutputsInStep'
    BY <1>4, <2>1, <2>2 DEF OutputsInStep, Row
  <2> QED  BY <1>4, <2>1, <2>4, <2>5, <2>6 DEF InStep, Reading
<1>13. ASSUME ReleaseComposed PROVE InStep'
  <2>1. /\ UNCHANGED <<vppIn, vppExt, m_IsBufferingAllowed, isQuit, decExt, written,
                       m_BSPool>>
        /\ epc = "composed" /\ epc' = "encode" /\ ReleaseSurface(curBuffer, decExt)
        /\ curBuffer' = 1
    BY <1>13 DEF ReleaseComposed, Goto, outVars, FirstBuffer
  <2>2. UNCHANGED <<Compositions, Made>>
    BY <2>1 DEF Compositions, Made
  <2>3. OutputsInStep'
    BY <1>4, <2>1, <2>2 DEF OutputsInStep, Row
  <2>4. ASSUME Streaming' PROVE WalkInStep' /\ \A d \in Decoders : StreamInStep(d)'
    <3>1. Streaming /\ WalkInStep
      BY <1>4, <2>1, <2>4 DEF Streaming, Reading
    <3>2. curBuffer = NumDec
      BY <2>1, <3>1 DEF WalkInStep
    <3>3. decExt = <<curBuffer, Made + 1>>
      BY <1>10, <2>1, <3>1
    <3>4. \A d \in Decoders : StreamInStep(d)'
      BY <1>11, <2>1, <2>2, <3>1, <3>2
    <3>5. WalkInStep'
      BY <2>1, <2>2, <3>1, <3>2, <3>3 DEF WalkInStep
    <3> QED  BY <3>4, <3>5
  <2> QED  BY <1>4, <2>1, <2>3, <2>4 DEF InStep, Reading
<1>14. ASSUME EncodeOneFrame PROVE InStep'
  <2>1. /\ UNCHANGED <<vppIn, vppExt, m_IsBufferingAllowed, curBuffer, isQuit, decExt,
                       written>>
        /\ epc = "encode" /\ ReleaseSurface(1, decExt) /\ 1 \in Decoders
        /\ \/ /\ Submitted # <<>> /\ m_BSPool' = Append(m_BSPool, Submitted)
              /\ epc' \in {"put", "get"}
           \/ UNCHANGED m_BSPool /\ epc' \in {"flush", "done"}
    BY <1>14, FrameFacts DEF EncodeOneFrame, Goto, EndEncode
  <2>2. CASE UNCHANGED m_BSPool /\ epc' \in {"flush", "done"}
    BY <1>6, <2>1, <2>2 DEF Compositions, Reading
  <2>3. CASE /\ Submitted # <<>> /\ m_BSPool' = Append(m_BSPool, Submitted)
             /\ epc' \in {"put", "get"}
    <3>1. Submitted = vppExt /\ vppExt # <<>> /\ vppIn = <<>> /\ Row(vppExt, Made + 1)
      BY <1>4, <2>1, <2>3 DEF Submitted, OutputsInStep
    <3>2. Compositions' = Append(Compositions, vppExt)
      <4>1. written' = written /\ m_BSPool' = Append(m_BSPool, vppExt)
        BY <2>1, <2>3, <3>1
      <4>2. written \o Append(m_BSPool, vppExt) = Append(written \o m_BSPool, vppExt)
        <5>1. vppExt \in Seq(Frames) /\ m_BSPool \in Seq(Seq(Frames))
          BY <1>2
        <5>2. written \in Seq(Seq(Frames))
          BY <1>2
        <5> QED  BY <5>1, <5>2, AppendToSecond
      <4> QED  BY <4>1, <4>2 DEF Compositions
    <3>3. /\ Len(Compositions') = Made + 1 /\ Compositions'[Made + 1] = vppExt
          /\ \A k \in 1..Made : Compositions'[k] = Compositions[k]
      BY <1>2, <3>2, AppendElements DEF Made
    <3>4. /\ \A k \in 1..Made : Row(Compositions[k], k)
          /\ \A k \in 1..Made : Len(Compositions[k]) = NumDec
      BY <1>4, <2>1, <3>1 DEF OutputsInStep
    <3>5. Streaming <=> Streaming'
      BY <2>1, <2>3 DEF Streaming, Reading
    <3>6. Streaming => Len(vppExt) = NumDec
      BY <1>4, <2>1 DEF WalkInStep
    <3>7. Made' = Made + 1
      BY <3>3 DEF Made
    <3>8. OutputsInStep'
      <4>1. \A k \in 1..(Made + 1) : Row(Compositions'[k], k)
        <5> SUFFICES ASSUME NEW k \in 1..(Made + 1) PROVE Row(Compositions'[k], k)
          OBVIOUS
        <5>1. CASE k \in 1..Made
          BY <3>3, <3>4, <5>1 DEF Row
        <5>2. CASE k = Made + 1
          BY <3>1, <3>3, <5>2 DEF Row
        <5> QED  BY <1>2, <5>1, <5>2
      <4>2. Row(vppIn', Made' + 1)
        BY <2>1, <3>1, EmptySeq DEF Row
      <4>3. \A k \in 1..(Made + 1) :
                Len(Compositions'[k]) = NumDec \/ (k = Made + 1 /\ isQuit)
        <5> SUFFICES ASSUME NEW k \in 1..(Made + 1)
                     PROVE  Len(Compositions'[k]) = NumDec \/ (k = Made + 1 /\ isQuit)
          OBVIOUS
        <5>1. CASE k \in 1..Made
          BY <3>3, <3>4, <5>1
        <5>2. CASE k = Made + 1
          BY <1>2, <2>1, <3>3, <3>6, <5>2 DEF Streaming, Reading
        <5> QED  BY <1>2, <5>1, <5>2
      <4> QED  BY <2>1, <2>3, <3>1, <3>7, <4>1, <4>2, <4>3 DEF OutputsInStep, Row
    <3>9. ASSUME Streaming PROVE WalkInStep' /\ \A d \in Decoders : StreamInStep(d)'
      <4>1. /\ WalkInStep /\ curBuffer = 1 /\ decExt = <<NumDec, Made + 1>>
            /\ \A d \in Decoders : StreamInStep(d)
        BY <1>4, <2>1, <3>9 DEF WalkInStep
      <4>2. UNCHANGED m_SList
        BY <2>1, <3>9, ComposedIsGone
      <4>3. \A d \in Decoders : Taken(d)' = Taken(d)
        BY <1>2, <2>1, <2>3, <3>7, <4>1 DEF Taken, Decoders
      <4>4. \A d \in Decoders : StreamInStep(d)'
        BY <1>3, <4>1, <4>2, <4>3 DEF StreamInStep
      <4>5. WalkInStep'
        BY <2>1, <2>3, <3>1, <4>1, EmptySeq DEF WalkInStep
      <4> QED  BY <4>4, <4>5
    <3> QED  BY <1>4, <2>1, <3>5, <3>8, <3>9 DEF InStep, Reading
  <2> QED  BY <2>1, <2>2, <2>3
<1>15. ASSUME PutBS PROVE InStep'
  <2>1. /\ UNCHANGED <<vppIn, vppExt, m_SList, m_IsBufferingAllowed, curBuffer, isQuit,
                       decExt>>
        /\ epc \in {"put", "flush"}
        /\ \/ /\ epc' = "get" <=> epc = "put" /\ epc' \in {"get", "flush"}
              /\ written' = Append(written, Head(m_BSPool)) /\ m_BSPool' = Tail(m_BSPool)
           \/ UNCHANGED <<written, m_BSPool>> /\ epc' = "done"
    BY <1>15 DEF PutBS, Goto, EndEncode, bufVars, outVars
  <2>2. m_BSPool # <<>>
    BY <1>1, <1>15 DEF PutBS, Typed
  <2>3. UNCHANGED Compositions
    BY <1>2, <2>1, <2>2, MoveHead DEF Compositions
  <2>4. CASE epc' = "get"
    BY <1>5, <2>1, <2>3, <2>4 DEF Streaming, Reading
  <2>5. CASE epc' # "get"
    <3>1. epc' \notin Reading
      BY <1>15, <2>5 DEF PutBS, Goto, EndEncode, Reading
    <3> QED  BY <1>6, <2>1, <2>3, <3>1
  <2> QED  BY <2>4, <2>5
<1>16. ASSUME CleanUp \/ CleanBuffer \/ CloseVPP \/ NotifyAtEnd PROVE InStep'
  <2>1. /\ UNCHANGED <<vppExt, isQuit, written, m_BSPool>>
        /\ UNCHANGED vppIn \/ vppIn' = <<>>
        /\ epc' \notin Reading
    BY <1>16 DEF CleanUp, CleanBuffer, CloseVPP, NotifyAtEnd, Goto, EndEncode, outVars,
       Reading
  <2> QED  BY <1>6, <2>1 DEF Compositions
<1> QED  BY <1>7, <1>8, <1>9, <1>12, <1>13, <1>14, <1>15, <1>16 DEF EncodeSession

LEMMA InitInStep == Init => InStep
<1> SUFFICES ASSUME Init PROVE InStep
    OBVIOUS
<1> DEFINE z == <<>>
<1>1. z \in Seq(Seq(Frames)) /\ z \in Seq(Surf0) /\ Len(z) = 0 /\ Range(z) = {}
      /\ z \o z = z
  <2>1. z \in Seq(Seq(Frames)) /\ z \in Seq(Surf0) /\ Len(z) = 0
    BY EmptySeq
  <2>2. Range(z) = {z[i] : i \in 1..Len(z)}
    BY <2>1, RangeEquality
  <2>3. z \o z = z
    BY <2>1, ConcatEmptySeq
  <2> QED  BY <2>1, <2>2, <2>3
<1>2. /\ vppIn = z /\ vppExt = z /\ m_BSPool = z /\ written = z
      /\ m_SList = [d \in Decoders |-> z]
    BY DEF Init
<1> HIDE DEF z
<1>3. Made = 0 /\ \A d \in Decoders : Taken(d) = 0
    BY <1>1, <1>2 DEF Init, Made, Compositions, Taken, Decoders
<1>4. OutputsInStep
    BY <1>1, <1>2, <1>3 DEF Init, OutputsInStep, Row
<1>5. WalkInStep
    BY <1>1, <1>2 DEF Init, WalkInStep
<1>6. \A d \in Decoders : StreamInStep(d)
    BY <1>1, <1>2, <1>3 DEF Init, StreamInStep
<1> QED  BY <1>4, <1>5, <1>6 DEF Init, InStep

THEOREM StaysInStep == Spec => []InStep
<1>1. IInv /\ InStep /\ [Next]_vars => InStep'
  <2> SUFFICES ASSUME IInv, InStep, [Next]_vars PROVE InStep'
    OBVIOUS
  <2>1. ASSUME DecoderUnlocks \/ VPPUnlocks \/ (\E i \in Sessions : CollectSession(i))
               \/ UNCHANGED vars
        PROVE  InStep'
    <3>1. UNCHANGED <<vppIn, m_SList, m_IsBufferingAllowed, epc, curBuffer, isQuit, decExt,
                      vppExt, written, m_BSPool, dpc, nDecoded>>
      BY <2>1 DEF DecoderUnlocks, VPPUnlocks, CollectSession, OtherThreads,
         DecodersAndLauncher, vars, libVars, decVars, bufVars, encVars, outVars
    <3> QED  BY <3>1 DEF InStep, OutputsInStep, WalkInStep, StreamInStep, Streaming, Taken,
             Made, Compositions, Row
  <2> QED  BY <2>1, DecoderInStep, ComposerInStep DEF Next
<1> QED  BY InitInStep, <1>1, InvariantHolds, PTL DEF Spec

(* The k-th composition is made of the k-th frames of the streams, however *)
(* far the decoders run ahead of each other; only the last, after a stream *)
(* has ended, may be partial.                                              *)
THEOREM FramesComposedInStep == Spec => []ComposedInStep
<1>1. InStep => ComposedInStep
    BY DEF InStep, OutputsInStep, ComposedInStep, Row, Made
<1> QED  BY <1>1, StaysInStep, PTL

----------------------------------------------------------------------------
(* The whole output.  As long as no decoder has failed and the launcher    *)
(* stops nobody, the null surface is in a buffer behind every frame of its *)
(* stream, so that the composing session meets it only when it has made a  *)
(* full composition for each frame of that stream.                         *)

Undisturbed == ~ m_bForceStop /\ \A d \in Decoders : decSts[d] # "err"

\* the composing session has used up a stream
Exhausted == \E d \in Decoders : NumFrames[d] <= Made

NullBehindFrames(d) ==
    /\ dpc[d] = "signal" => NumFrames[d] <= Taken(d) + Len(m_SList[d])
    /\ \A i \in 1..Len(m_SList[d]) :
          m_SList[d][i] = NoSurface => NumFrames[d] < Taken(d) + i

(* A session has its status only at its end, and the composing session     *)
(* cleans up only when it has written everything.                          *)
StatusesAtTheEnd ==
    /\ \A d \in Decoders : decSts[d] # "run" => dpc[d] \in {"signal", "done"}
    /\ encSts # "run" => epc = "done"
    /\ epc \in {"clean", "close", "notify"} \/ encSts = "ok" => m_BSPool = <<>>

NoFrameMissing ==
    /\ Streaming => \A d \in Decoders : NullBehindFrames(d)
    /\ isQuit => Exhausted
    /\ \A k \in 1..Made :
          Len(Compositions[k]) = NumDec \/ \E d \in Decoders : NumFrames[d] < k
    /\ epc \in {"flush", "clean", "close", "notify"} \/ encSts = "ok" =>
           Made >= FrameLimit \/ Exhausted

CompleteInv == StatusesAtTheEnd /\ (Undisturbed => NoFrameMissing)

(* While the composing session reads, a buffer is as it was, or its head   *)
(* has left it and counts as taken.                                        *)
LEMMA BufferStep ==
    ASSUME IInv, InStep, EncodeSession, Streaming', NEW d \in Decoders
    PROVE  /\ Streaming
           /\ \/ m_SList'[d] = m_SList[d] /\ Taken(d)' = Taken(d)
              \/ /\ Len(m_SList'[d]) = Len(m_SList[d]) - 1
                 /\ \A i \in 1..Len(m_SList'[d]) : m_SList'[d][i] = m_SList[d][i + 1]
                 /\ Taken(d)' = Taken(d) + 1
<1>1. /\ Typed /\ m_SList \in [Decoders -> Seq(Surf0)] /\ d \in Nat /\ 1 \in Decoders
      /\ curBuffer \in Decoders /\ curBuffer \in Nat /\ Made \in Nat /\ NumDec \in Nat
      /\ Compositions \in Seq(Seq(Frames))
    BY FrameFacts, StepTypes DEF IInv
<1>2. CASE GetSurface \/ WaitForSurfaceInsertion \/ VPPOneFrame \/ PutBS
  <2>1. /\ UNCHANGED <<m_SList, curBuffer>> /\ epc # "encode" /\ epc' # "encode"
        /\ epc' \in Reading => epc \in Reading
        /\ isQuit => isQuit'
    BY <1>2 DEF GetSurface, WaitForSurfaceInsertion, VPPOneFrame, PutBS, Goto, EndEncode,
       bufVars, Reading
  <2>2. UNCHANGED Compositions
    BY <1>1, <2>1, CompositionsStep
  <2> QED  BY <2>1, <2>2 DEF Streaming, Taken, Made
<1>3. CASE SwitchBuffer
  <2>1. /\ epc = "more" /\ epc' = "get" /\ ReleaseSurface(curBuffer, decExt)
        /\ curBuffer' = NextBuffer(curBuffer) /\ UNCHANGED isQuit
    BY <1>3 DEF SwitchBuffer, Goto
  <2>2. Streaming /\ WalkInStep
    BY <2>1 DEF Streaming, Reading, InStep
  <2>3. curBuffer' = curBuffer + 1
    BY <2>1, <2>2 DEF WalkInStep, NextBuffer
  <2>4. UNCHANGED Made
    BY <1>1, <2>1, CompositionsStep DEF Made
  <2>5. Taken(d)' = IF d = curBuffer THEN Taken(d) + 1 ELSE Taken(d)
    BY <1>1, <2>1, <2>3, <2>4 DEF Taken
  <2>6. CASE d = curBuffer
    BY <2>1, <2>2, <2>5, <2>6, HeadTaken
  <2>7. CASE d # curBuffer
    BY <2>1, <2>2, <2>5, <2>7, HeadTaken
  <2> QED  BY <2>6, <2>7
<1>4. CASE ReleaseComposed
  <2>1. /\ epc = "composed" /\ epc' = "encode" /\ ReleaseSurface(curBuffer, decExt)
        /\ curBuffer' = 1 /\ UNCHANGED isQuit
    BY <1>4 DEF ReleaseComposed, Goto, FirstBuffer
  <2>2. Streaming /\ WalkInStep
    BY <2>1 DEF Streaming, Reading, InStep
  <2>3. curBuffer = NumDec
    BY <2>1, <2>2 DEF WalkInStep
  <2>4. UNCHANGED Made
    BY <1>1, <2>1, CompositionsStep DEF Made
  <2>5. Taken(d)' = IF d = curBuffer THEN Taken(d) + 1 ELSE Taken(d)
    BY <1>1, <2>1, <2>3, <2>4 DEF Taken, Decoders
  <2>6. CASE d = curBuffer
    BY <2>1, <2>2, <2>5, <2>6, HeadTaken
  <2>7. CASE d # curBuffer
    BY <2>1, <2>2, <2>5, <2>7, HeadTaken
  <2> QED  BY <2>6, <2>7
<1>5. CASE EncodeOneFrame
  <2>1. /\ epc = "encode" /\ ReleaseSurface(1, decExt) /\ UNCHANGED <<curBuffer, isQuit>>
        /\ epc' \in {"put", "get", "flush", "done"}
        /\ epc' \in Reading => Submitted # <<>> /\ m_BSPool' = Append(m_BSPool, Submitted)
        /\ UNCHANGED written
    BY <1>5 DEF EncodeOneFrame, Goto, EndEncode, Reading
  <2>2. Streaming /\ curBuffer = 1
    BY <2>1 DEF Streaming, Reading, InStep, WalkInStep
  <2>3. UNCHANGED m_SList
    BY <2>1, <2>2, ComposedIsGone
  <2>4. Made' = Made + 1
    <3>1. Submitted = vppExt /\ vppExt \in Seq(Frames) /\ m_BSPool \in Seq(Seq(Frames))
          /\ written \in Seq(Seq(Frames))
      BY <1>1, <2>1, StepTypes DEF Submitted, Streaming
    <3>2. m_BSPool' = Append(m_BSPool, vppExt)
      BY <2>1, <3>1 DEF Streaming
    <3>3. written \o Append(m_BSPool, vppExt) = Append(written \o m_BSPool, vppExt)
      BY <3>1, AppendToSecond
    <3>4. Compositions' = Append(Compositions, vppExt)
      BY <2>1, <3>2, <3>3 DEF Compositions
    <3>5. Len(Append(Compositions, vppExt)) = Len(Compositions) + 1
      BY <1>1, <3>1, AppendElements
    <3> QED  BY <3>4, <3>5 DEF Made
  <2>5. Taken(d)' = Taken(d)
    BY <1>1, <2>1, <2>2, <2>4 DEF Taken, Decoders, Streaming
  <2> QED  BY <2>2, <2>3, <2>5
<1>6. CASE CleanUp \/ CleanBuffer \/ CloseVPP \/ NotifyAtEnd
    BY <1>6 DEF CleanUp, CleanBuffer, CloseVPP, NotifyAtEnd, Goto, EndEncode, Streaming,
       Reading
<1> QED  BY <1>2, <1>3, <1>4, <1>5, <1>6 DEF EncodeSession

(* What disturbs the sessions is not undone.                               *)
LEMMA DisturbedStays ==
    ASSUME Typed, StatusesAtTheEnd, [Next]_vars, Undisturbed'
    PROVE  Undisturbed
<1>1. ~ m_bForceStop
  <2>1. m_bForceStop => m_bForceStop'
    BY DEF Next, DecodeSession, DecodeStart, DecodeFrame, NoMoreFramesSignal,
       RegisterSurface, StartWaitingForFree, WakeUp, AddToBuffer, FinishTurn,
       DecoderUnlocks, OtherThreads, EncodeSession, GetSurface, WaitForSurfaceInsertion,
       VPPOneFrame, SwitchBuffer, ReleaseComposed, EncodeOneFrame, PutBS, CleanUp,
       CleanBuffer, CloseVPP, NotifyAtEnd, VPPUnlocks, DecodersAndLauncher,
       CollectSession, runVars, vars
  <2> QED  BY <2>1 DEF Undisturbed
<1>2. ASSUME NEW d \in Decoders PROVE decSts[d] = "err" => decSts'[d] = "err"
  <2>1. CASE UNCHANGED decSts
    BY <2>1
  <2>2. ASSUME NEW f \in Decoders, DecodeSession(f), decSts' # decSts
        PROVE  f # d \/ decSts[d] # "err"
    <3>1. dpc[f] \in {"start", "decode", "sync"}
      BY <2>2 DEF DecodeSession, DecodeStart, DecodeFrame, NoMoreFramesSignal,
         RegisterSurface, StartWaitingForFree, WakeUp, AddToBuffer, FinishTurn
    <3> QED  BY <3>1 DEF StatusesAtTheEnd
  <2>3. ASSUME NEW f \in Decoders, DecodeSession(f)
        PROVE  \A e \in Decoders : e # f => decSts'[e] = decSts[e]
    <3>1. UNCHANGED decSts \/ EndDecode(f, "signal", "ok") \/ EndDecode(f, "signal", "err")
          \/ EndDecode(f, "done", "err")
      BY <2>3 DEF DecodeSession, DecodeStart, DecodeFrame, NoMoreFramesSignal,
         RegisterSurface, StartWaitingForFree, WakeUp, AddToBuffer, FinishTurn
    <3> QED  BY <3>1 DEF EndDecode, Typed, DecoderTypes
  <2>4. (\E f \in Decoders : DecodeSession(f)) \/ UNCHANGED decSts
    BY ComposerFrame DEF Next, DecoderUnlocks, VPPUnlocks, CollectSession, OtherThreads,
       DecodersAndLauncher, decVars, vars
  <2> QED  BY <2>1, <2>2, <2>3, <2>4
<1> QED  BY <1>1, <1>2 DEF Undisturbed

(* A decoder tells the sink of the end when it has added its last frame.   *)
LEMMA DecoderMissesNoFrame ==
    ASSUME IInv, InStep, CompleteInv, NEW d \in Decoders, DecodeSession(d)
    PROVE  CompleteInv'
<1>1. /\ Typed /\ Ownership /\ DecoderTypes
      /\ m_SList \in [Decoders -> Seq(Surf0)] /\ nDecoded \in [Decoders -> Nat]
      /\ \A f \in Decoders : Taken(f) \in Nat /\ Len(m_SList[f]) \in Nat
      /\ NumFrames[d] \in Nat /\ NoSurface \in Surf0 /\ NoSurface \notin Frames
    BY StepTypes, FrameFacts DEF IInv, Surf0
<1>2. /\ UNCHANGED <<epc, curBuffer, isQuit, encSts, written, m_BSPool>>
      /\ UNCHANGED <<Compositions, Made, Streaming, Exhausted>>
      /\ \A f \in Decoders : Taken(f)' = Taken(f)
  <2>1. UNCHANGED <<epc, curBuffer, isQuit, encSts, written, m_BSPool>>
    BY DEF DecodeSession, DecodeStart, DecodeFrame, NoMoreFramesSignal, RegisterSurface,
       StartWaitingForFree, WakeUp, AddToBuffer, FinishTurn, OtherThreads, encVars, outVars
  <2> QED  BY <2>1 DEF Compositions, Made, Streaming, Exhausted, Taken
<1>3. StatusesAtTheEnd'
  <2> DEFINE Goal ==
        /\ \A f \in Decoders : f # d => dpc'[f] = dpc[f] /\ decSts'[f] = decSts[f]
        /\ decSts'[d] # "run" => dpc'[d] \in {"signal", "done"}
  <2>1. decSts[d] # "run" => dpc[d] \in {"signal", "done"}
    BY DEF CompleteInv, StatusesAtTheEnd
  <2>2. ASSUME DecodeStart(d) \/ DecodeFrame(d) \/ FinishTurn(d) PROVE Goal
    <3>1. /\ dpc[d] \in {"start", "decode", "sync"}
          /\ \/ UNCHANGED decSts /\ \E pc \in {"decode", "push"} : GotoD(d, pc)
             \/ EndDecode(d, "signal", "ok") \/ EndDecode(d, "signal", "err")
             \/ EndDecode(d, "done", "err")
      BY <2>2 DEF DecodeStart, DecodeFrame, FinishTurn
    <3> QED  BY <1>1, <2>1, <3>1 DEF GotoD, EndDecode, DecoderTypes
  <2>3. ASSUME NoMoreFramesSignal(d) PROVE Goal
    BY <1>1, <2>3 DEF NoMoreFramesSignal, GotoD, DecoderTypes
  <2>4. ASSUME RegisterSurface(d) \/ StartWaitingForFree(d) \/ WakeUp(d) \/ AddToBuffer(d)
        PROVE  Goal
    <3>1. dpc[d] \in {"push", "ration", "waiting", "add"} /\ UNCHANGED decSts
      BY <2>4 DEF RegisterSurface, StartWaitingForFree, WakeUp, AddToBuffer
    <3>2. \A f \in Decoders : f # d => dpc'[f] = dpc[f]
      BY <1>1, <2>4 DEF RegisterSurface, StartWaitingForFree, WakeUp, AddToBuffer, GotoD,
         DecoderTypes
    <3> QED  BY <2>1, <3>1, <3>2
  <2>5. Goal
    <3> HIDE DEF Goal
    <3> QED  BY <2>2, <2>3, <2>4 DEF DecodeSession
  <2> QED  BY <1>2, <2>5 DEF CompleteInv, StatusesAtTheEnd
<1>4. ASSUME Undisturbed', Streaming PROVE \A f \in Decoders : NullBehindFrames(f)'
  <2>1. /\ Undisturbed /\ ~ m_bForceStop /\ decSts'[d] # "err"
        /\ \A f \in Decoders : /\ NullBehindFrames(f) /\ StreamInStep(f)
                               /\ m_IsBufferingAllowed[f]
    BY <1>1, <1>4, DisturbedStays
       DEF CompleteInv, NoFrameMissing, Undisturbed, InStep, Streaming, Next
  <2>2. ASSUME NEW x \in Surf0, AddSurface(d, x),
               x = NoSurface => NumFrames[d] <= Taken(d) + Len(m_SList[d])
        PROVE  /\ \A f \in Decoders : f # d => m_SList'[f] = m_SList[f]
               /\ Len(m_SList'[d]) = Len(m_SList[d]) + 1
               /\ \A i \in 1..Len(m_SList'[d]) :
                     m_SList'[d][i] = NoSurface => NumFrames[d] < Taken(d) + i
    <3> DEFINE q == m_SList[d]
               r == Append(q, x)
    <3>1. m_SList' = [m_SList EXCEPT ![d] = r]
      BY <2>1, <2>2 DEF AddSurface
    <3>2. m_SList'[d] = r /\ \A f \in Decoders : f # d => m_SList'[f] = m_SList[f]
      BY <1>1, <3>1
    <3>3. /\ Len(q) \in Nat /\ Len(r) = Len(q) + 1 /\ r[Len(q) + 1] = x
          /\ \A i \in 1..Len(q) : r[i] = q[i]
      BY <1>1, AppendElements
    <3> HIDE DEF r
    <3>4. ASSUME NEW i \in 1..Len(r), r[i] = NoSurface PROVE NumFrames[d] < Taken(d) + i
      <4>1. CASE i \in 1..Len(q)
        BY <2>1, <3>3, <3>4, <4>1 DEF NullBehindFrames
      <4>2. CASE i = Len(q) + 1
        BY <1>1, <2>2, <3>3, <3>4, <4>2
      <4> QED  BY <3>3, <4>1, <4>2
    <3> QED  BY <3>2, <3>3, <3>4
  <2>3. CASE \/ DecodeStart(d) \/ RegisterSurface(d) \/ StartWaitingForFree(d)
             \/ WakeUp(d) \/ FinishTurn(d)
    <3>1. /\ UNCHANGED m_SList /\ dpc'[d] # "signal"
          /\ \A f \in Decoders : f # d => dpc'[f] = dpc[f]
      BY <1>1, <2>1, <2>3 DEF DecodeStart, RegisterSurface, StartWaitingForFree, WakeUp,
         FinishTurn, GotoD, EndDecode, DecoderTypes, bufVars
    <3> QED  BY <1>2, <2>1, <3>1 DEF NullBehindFrames
  <2>4. CASE NoMoreFramesSignal(d) \/ AddToBuffer(d)
    <3>1. /\ \A f \in Decoders : f # d => dpc'[f] = dpc[f]
          /\ dpc'[d] \in {"done", "sync"}
          /\ \/ dpc[d] = "signal" /\ AddSurface(d, NoSurface)
             \/ dpc[d] = "add" /\ AddSurface(d, Current(d))
      BY <1>1, <2>4 DEF NoMoreFramesSignal, AddToBuffer, GotoD, DecoderTypes
    <3>2. dpc[d] = "add" => Current(d) \in Surf0 /\ Current(d) # NoSurface
      BY <1>1, HandFacts
    <3>3. dpc[d] = "signal" => NumFrames[d] <= Taken(d) + Len(m_SList[d])
      BY <2>1 DEF NullBehindFrames
    <3> HIDE DEF Current
    <3>4. /\ \A f \in Decoders : f # d => m_SList'[f] = m_SList[f]
          /\ \A i \in 1..Len(m_SList'[d]) :
                m_SList'[d][i] = NoSurface => NumFrames[d] < Taken(d) + i
      BY <1>1, <2>2, <3>1, <3>2, <3>3
    <3> QED  BY <1>2, <2>1, <3>1, <3>4 DEF NullBehindFrames
  <2>5. CASE DecodeFrame(d)
    <3>1. /\ dpc[d] = "decode" /\ UNCHANGED m_SList
          /\ \/ GotoD(d, "push")
             \/ nDecoded[d] = NumFrames[d] /\ EndDecode(d, "signal", "ok")
             \/ EndDecode(d, "signal", "err")
      BY <2>1, <2>5 DEF DecodeFrame
    <3>2. dpc'[d] = "signal" => nDecoded[d] = NumFrames[d]
      BY <1>1, <2>1, <3>1 DEF GotoD, EndDecode, DecoderTypes
    <3>3. \A f \in Decoders : f # d => dpc'[f] = dpc[f]
      BY <1>1, <3>1 DEF GotoD, EndDecode, DecoderTypes
    <3>4. nDecoded[d] = Taken(d) + Len(m_SList[d])
      BY <2>1, <3>1 DEF StreamInStep
    <3>5. dpc'[d] = "signal" => NumFrames[d] <= Taken(d) + Len(m_SList[d])
      BY <1>1, <3>2, <3>4
    <3> QED  BY <1>2, <2>1, <3>1, <3>3, <3>5 DEF NullBehindFrames
  <2> QED  BY <2>3, <2>4, <2>5 DEF DecodeSession
<1>5. Undisturbed' => NoFrameMissing'
  <2> SUFFICES ASSUME Undisturbed' PROVE NoFrameMissing'
    OBVIOUS
  <2>1. NoFrameMissing
    BY <1>1, DisturbedStays DEF CompleteInv, Next
  <2> QED  BY <1>2, <1>4, <2>1 DEF NoFrameMissing
<1> QED  BY <1>3, <1>5 DEF CompleteInv

(* The composing session ends a stream only when it has used it up.        *)
LEMMA ComposerMissesNoFrame ==
    ASSUME IInv, InStep, CompleteInv, EncodeSession
    PROVE  CompleteInv'
<1>1. /\ Typed /\ m_SList \in [Decoders -> Seq(Surf0)] /\ curBuffer \in Decoders
      /\ Compositions \in Seq(Seq(Frames)) /\ Made \in Nat /\ isQuit \in BOOLEAN
      /\ \A d \in Decoders : /\ Taken(d) \in Nat /\ Len(m_SList[d]) \in Nat
                             /\ NumFrames[d] \in Nat
      /\ NumDec \in Nat /\ NumDec >= 1 /\ FrameLimit \in Nat
    BY StepTypes, FrameFacts, CompositionAssumption DEF IInv
<1>2. UNCHANGED <<dpc, nDecoded, decSts, m_bForceStop>>
    BY ComposerFrame DEF DecodersAndLauncher, decVars, runVars
<1>3. /\ UNCHANGED Undisturbed
      /\ StatusesAtTheEnd /\ (Undisturbed => NoFrameMissing)
    BY <1>2 DEF CompleteInv, Undisturbed
<1>4. /\ Made <= Made'
      /\ Undisturbed => \A k \in 1..Made' : \/ Len(Compositions'[k]) = NumDec
                                            \/ \E d \in Decoders : NumFrames[d] < k
  <2>1. CASE UNCHANGED Compositions
    BY <1>1, <1>3, <2>1 DEF Made, NoFrameMissing
  <2>2. CASE /\ epc = "encode" /\ vppExt # <<>> /\ vppExt \in Seq(Frames)
             /\ Compositions' = Append(Compositions, vppExt)
    <3>1. /\ Made' = Made + 1 /\ Compositions'[Made + 1] = vppExt
          /\ \A k \in 1..Made : Compositions'[k] = Compositions[k]
      BY <1>1, <2>2, AppendElements DEF Made
    <3>2. Undisturbed => Len(vppExt) = NumDec \/ \E d \in Decoders : NumFrames[d] < Made + 1
      <4>1. CASE isQuit
        BY <1>1, <1>3, <4>1 DEF NoFrameMissing, Exhausted
      <4>2. CASE ~ isQuit
        BY <2>2, <4>2 DEF InStep, Streaming, Reading, WalkInStep
      <4> QED  BY <4>1, <4>2
    <3>3. ASSUME Undisturbed, NEW k \in 1..(Made + 1)
          PROVE  Len(Compositions'[k]) = NumDec \/ \E d \in Decoders : NumFrames[d] < k
      <4>1. CASE k \in 1..Made
        BY <1>3, <3>1, <3>3, <4>1 DEF NoFrameMissing
      <4>2. CASE k = Made + 1
        BY <3>1, <3>2, <3>3, <4>2
      <4> QED  BY <1>1, <4>1, <4>2
    <3> QED  BY <1>1, <3>1, <3>3
  <2> QED  BY <1>1, <2>1, <2>2, CompositionsStep
<1>5. Exhausted => Exhausted'
  <2>1. Made' \in Nat \/ Made' = Made
    <3>1. Typed'
      BY TypedStep DEF IInv, Next
    <3> QED  BY <3>1, StepTypes DEF Made, Compositions, Typed, ComposerTypes
  <2> QED  BY <1>1, <1>4, <2>1 DEF Exhausted
<1>6. StatusesAtTheEnd'
  <2>1. CASE GetSurface \/ WaitForSurfaceInsertion \/ VPPOneFrame \/ SwitchBuffer
             \/ ReleaseComposed
    BY <1>2, <1>3, <2>1 DEF GetSurface, WaitForSurfaceInsertion, VPPOneFrame, SwitchBuffer,
       ReleaseComposed, Goto, EndEncode, StatusesAtTheEnd
  <2>2. CASE EncodeOneFrame \/ PutBS
    BY <1>2, <1>3, <2>2 DEF EncodeOneFrame, PutBS, Goto, EndEncode, StatusesAtTheEnd
  <2>3. CASE CleanUp \/ CleanBuffer \/ CloseVPP \/ NotifyAtEnd
    BY <1>2, <1>3, <2>3 DEF CleanUp, StartCleanUp, CleanBuffer, CloseVPP, NotifyAtEnd,
       Goto, EndEncode, outVars, StatusesAtTheEnd
  <2> QED  BY <2>1, <2>2, <2>3 DEF EncodeSession
<1>7. ASSUME Undisturbed, Streaming', NEW d \in Decoders PROVE NullBehindFrames(d)'
  <2>1. NullBehindFrames(d)
    BY <1>3, <1>7, BufferStep DEF NoFrameMissing
  <2>2. CASE m_SList'[d] = m_SList[d] /\ Taken(d)' = Taken(d)
    BY <1>2, <2>1, <2>2 DEF NullBehindFrames
  <2>3. CASE /\ Len(m_SList'[d]) = Len(m_SList[d]) - 1
             /\ \A i \in 1..Len(m_SList'[d]) : m_SList'[d][i] = m_SList[d][i + 1]
             /\ Taken(d)' = Taken(d) + 1
    <3>1. Taken(d)' + Len(m_SList'[d]) = Taken(d) + Len(m_SList[d])
      BY <1>1, <2>3
    <3>2. ASSUME NEW i \in 1..Len(m_SList'[d]), m_SList'[d][i] = NoSurface
          PROVE  NumFrames[d] < Taken(d)' + i
      <4>1. i + 1 \in 1..Len(m_SList[d]) /\ m_SList[d][i + 1] = NoSurface
        BY <1>1, <2>3, <3>2
      <4>2. NumFrames[d] < Taken(d) + (i + 1)
        BY <2>1, <4>1 DEF NullBehindFrames
      <4> QED  BY <1>1, <2>3, <4>2
    <3> QED  BY <1>2, <2>1, <3>1, <3>2 DEF NullBehindFrames
  <2> QED  BY <1>7, <2>2, <2>3, BufferStep
<1>8. ASSUME Undisturbed, isQuit' PROVE Exhausted'
  <2>1. CASE isQuit
    BY <1>3, <1>5, <1>8, <2>1 DEF NoFrameMissing
  <2>2. CASE ~ isQuit
    <3>1. /\ GetSurface /\ epc = "get" /\ m_SList[curBuffer] # <<>>
          /\ Head(m_SList[curBuffer]) = NoSurface
      BY <1>8, <2>2 DEF EncodeSession, GetSurface, WaitForSurfaceInsertion, VPPOneFrame,
         SwitchBuffer, ReleaseComposed, EncodeOneFrame, PutBS, CleanUp, CleanBuffer,
         CloseVPP, NotifyAtEnd
    <3>2. m_SList[curBuffer][1] = NoSurface /\ 1 \in 1..Len(m_SList[curBuffer])
      BY <1>1, <3>1, TailElements
    <3>3. NullBehindFrames(curBuffer)
      BY <1>1, <1>3, <1>8, <2>2, <3>1 DEF NoFrameMissing, Streaming, Reading
    <3>4. Taken(curBuffer) = Made
      BY <3>1, StepTypes DEF Taken, IInv
    <3>5. NumFrames[curBuffer] < Made + 1
      BY <3>2, <3>3, <3>4 DEF NullBehindFrames
    <3> QED  BY <1>1, <1>5, <3>5 DEF Exhausted
  <2> QED  BY <2>1, <2>2
<1>9. ASSUME Undisturbed, epc' \in {"flush", "clean", "close", "notify"} \/ encSts' = "ok"
      PROVE  Made' >= FrameLimit \/ Exhausted'
  <2>1. CASE epc = "encode"
    <3>1. EncodeOneFrame
      BY <2>1 DEF EncodeSession, GetSurface, WaitForSurfaceInsertion, VPPOneFrame,
         SwitchBuffer, ReleaseComposed, PutBS, CleanUp, StartCleanUp, CleanBuffer,
         CloseVPP, NotifyAtEnd
    <3>2. Submitted = <<>> /\ UNCHANGED <<written, m_BSPool>>
      BY <1>3, <1>9, <2>1, <3>1 DEF EncodeOneFrame, Goto, EndEncode, StatusesAtTheEnd
    <3>3. UNCHANGED Made
      BY <3>2 DEF Made, Compositions
    <3>4. CASE Len(written) + Len(m_BSPool) >= FrameLimit
      <4>1. Made = Len(written) + Len(m_BSPool)
        BY <1>1, StepTypes, ConcatProperties DEF Made, Compositions
      <4> QED  BY <3>3, <3>4, <4>1
    <3>5. CASE vppExt = <<>>
      <4>1. Len(vppExt) = 0
        BY <3>5, EmptySeq
      <4>2. isQuit
        BY <1>1, <2>1, <4>1 DEF InStep, Streaming, Reading, WalkInStep
      <4> QED  BY <1>3, <1>5, <1>9, <4>2 DEF NoFrameMissing
    <3> QED  BY <3>2, <3>4, <3>5 DEF Submitted
  <2>2. CASE epc # "encode"
    <3>1. epc \in {"flush", "clean", "close", "notify"} \/ encSts = "ok"
      BY <1>3, <1>9, <2>2 DEF EncodeSession, GetSurface, WaitForSurfaceInsertion,
         VPPOneFrame, SwitchBuffer, ReleaseComposed, EncodeOneFrame, PutBS, CleanUp,
         StartCleanUp, CleanBuffer, CloseVPP, NotifyAtEnd, Goto, EndEncode
    <3>2. UNCHANGED Made
      BY <1>1, <2>2, CompositionsStep DEF Made
    <3> QED  BY <1>3, <1>5, <1>9, <3>1, <3>2 DEF NoFrameMissing
  <2> QED  BY <2>1, <2>2
<1> QED  BY <1>3, <1>4, <1>6, <1>7, <1>8, <1>9 DEF CompleteInv, NoFrameMissing

LEMMA InitComplete == Init => CompleteInv
<1> SUFFICES ASSUME Init PROVE CompleteInv
    OBVIOUS
<1> DEFINE z == <<>>
<1>1. z \in Seq(Seq(Frames)) /\ Len(z) = 0 /\ z \o z = z
  <2>1. z \in Seq(Seq(Frames)) /\ Len(z) = 0
    BY EmptySeq
  <2> QED  BY <2>1, ConcatEmptySeq
<1>2. m_BSPool = z /\ written = z /\ m_SList = [d \in Decoders |-> z]
    BY DEF Init
<1> HIDE DEF z
<1>3. Made = 0
    BY <1>1, <1>2 DEF Made, Compositions
<1>4. \A d \in Decoders : NullBehindFrames(d)
    BY <1>1, <1>2 DEF Init, NullBehindFrames
<1> QED  BY <1>3, <1>4 DEF Init, CompleteInv, StatusesAtTheEnd, NoFrameMissing

(* In every behaviour the null surface stays behind the frames of its      *)
(* stream, and the composing session ends a stream only when it has used   *)
(* it up, until a session fails or is stopped.                             *)
THEOREM CompleteInvariantHolds == Spec => []CompleteInv
<1>1. IInv /\ InStep /\ CompleteInv /\ [Next]_vars => CompleteInv'
  <2> SUFFICES ASSUME IInv, InStep, CompleteInv, [Next]_vars PROVE CompleteInv'
    OBVIOUS
  <2>1. ASSUME DecoderUnlocks \/ VPPUnlocks \/ (\E i \in Sessions : CollectSession(i))
               \/ UNCHANGED vars
        PROVE  CompleteInv'
    <3>1. UNCHANGED <<m_SList, epc, curBuffer, isQuit, written, m_BSPool, encSts, dpc,
                      decSts>>
      BY <2>1 DEF DecoderUnlocks, VPPUnlocks, CollectSession, OtherThreads,
         DecodersAndLauncher, vars, decVars, bufVars, encVars, outVars
    <3>2. Undisturbed' => Undisturbed
      BY DisturbedStays DEF IInv, CompleteInv
    <3> QED  BY <3>1, <3>2 DEF CompleteInv, StatusesAtTheEnd, NoFrameMissing,
             NullBehindFrames, Exhausted, Streaming, Taken, Made, Compositions
  <2> QED  BY <2>1, DecoderMissesNoFrame, ComposerMissesNoFrame DEF Next
<1> QED  BY InitComplete, <1>1, InvariantHolds, StaysInStep, PTL DEF Spec

(* When every session ends well, the output has a full composition for     *)
(* each frame of the shortest stream, up to the limit.                     *)
THEOREM EveryFrameIsComposed == Spec => []OutputComplete
<1>1. IInv /\ CompleteInv => OutputComplete
  <2> SUFFICES ASSUME IInv, CompleteInv, encSts = "ok", Undisturbed,
                      NEW k \in 1..FrameLimit, \A d \in Decoders : k <= NumFrames[d]
               PROVE  k <= Len(written) /\ Len(written[k]) = NumDec
    BY DEF OutputComplete, Undisturbed
  <2>1. /\ written \in Seq(Seq(Frames)) /\ Made \in Nat /\ FrameLimit \in Nat
        /\ \A d \in Decoders : NumFrames[d] \in Nat
    BY StepTypes, FrameFacts, CompositionAssumption DEF IInv
  <2>2. Compositions = written
    BY <2>1, ConcatEmptySeq DEF CompleteInv, StatusesAtTheEnd, Compositions
  <2>3. k <= Made
    BY <2>1 DEF CompleteInv, NoFrameMissing, Exhausted
  <2>4. Len(Compositions[k]) = NumDec
    BY <2>1, <2>3 DEF CompleteInv, NoFrameMissing
  <2> QED  BY <2>2, <2>3, <2>4 DEF Made
<1> QED  BY <1>1, CompleteInvariantHolds, InvariantHolds, PTL

=============================================================================
