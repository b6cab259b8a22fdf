------------------- MODULE TranscodeSessionsOutcomeProofs -------------------
(***************************************************************************)
(* Proofs about what the sessions of TranscodeSessions end with: who is    *)
(* told of the end of the stream, what an ended session still holds, where *)
(* its bitstreams are, in which order its frames come out, and that none   *)
(* is missing.                                                             *)
(*                                                                         *)
(* Every invariant here speaks of one encode session e at a time, and      *)
(* builds on IInv of TranscodeSessionsProofs.                              *)
(***************************************************************************)
EXTENDS TranscodeSessionsProofs

(* A status other than "run" is final, and a session that drains its       *)
(* buffer has closed it.                                                   *)
Outcome(e) ==
    /\ encSts[e] # "run" => epc[e] = "done"
    /\ epc[e] = "drain" \/ (epc[e] = "release" /\ eNext[e] = "drain")
           => ~m_IsBufferingAllowed[e]
    /\ encSts[e] = "ok" =>
           ~m_IsBufferingAllowed[e] /\ m_SList[e] = <<>> /\ encHold[e] = {}

(* Session e needs no further word from the decoder.                       *)
Told(e) ==
    \/ isQuit[e] \/ NoSurface \in Range(m_SList[e])
    \/ ~m_IsBufferingAllowed[e] \/ encSts[e] = "err"

(* A null surface leaves the buffer only for a session that has taken note *)
(* of it; and the decoder ends well only after its walk over all buffers.  *)
TakesNote(e) ==
    epc[e] \in {"encode", "release"} /\ eSurf[e] = NoSurface
        => isQuit[e] \/ ~m_IsBufferingAllowed[e]

WalkTells(e) ==
    /\ dpc \in {"add", "signal"} /\ dSurf = NoSurface /\ ~ToBeAdded(e) => Told(e)
    /\ decSts = "ok" =>
           \/ dpc = "done" /\ Told(e)
           \/ dpc \in {"add", "signal"} /\ dSurf = NoSurface /\ dAfter = "done"

(* The entries of m_pBSStore that the pending bitstreams of pool q use.    *)
Ids(q) == {q[i].id : i \in 1..Len(q)}

EachOnce(q) ==
    /\ \A i, j \in 1..Len(q) : q[i].id = q[j].id => i = j
    /\ Cardinality(Ids(q)) = Len(q)

(* Every entry is in one place, and one is free wherever Encode() may go   *)
(* on to take one.                                                         *)
StoreKept(e) ==
    /\ EachOnce(m_BSPool[e])
    /\ Ids(m_BSPool[e]) \cap freeBS[e] = {}
    /\ Ids(m_BSPool[e]) \cup freeBS[e] = 1..AsyncDepth
    /\ epc[e] \in {"get", "wait", "blocked", "encode"}
       \/ (epc[e] = "release" /\ eNext[e] = "get")
           => Len(m_BSPool[e]) < AsyncDepth

----------------------------------------------------------------------------
(* One session at a time.                                                  *)

(* What belongs to session e.                                              *)
Own(e) == <<m_SList[e], m_IsBufferingAllowed[e], epc[e], eNext[e], eSurf[e], isQuit[e],
            bPollFlag[e], eProcessed[e], encSts[e], encLib[e], encHold[e], freeBS[e],
            m_BSPool[e], written[e]>>

(* A step of another session leaves it alone,                              *)
LEMMA OtherSessions ==
    ASSUME Typed, NEW e \in Encoders, NEW f \in Encoders, e # f,
           EncodeSession(f) \/ EncoderUnlocks(f)
    PROVE  UNCHANGED Own(e)
<1> USE DEF Own
<1>0. /\ m_SList \in [Encoders -> Seq(Surf0)]
      /\ m_IsBufferingAllowed \in [Encoders -> BOOLEAN]
      /\ encHold \in [Encoders -> SUBSET Surfaces]
    BY DEF Typed, BufferTypes, HolderTypes
<1>1. EncoderTypes /\ BitstreamTypes
    BY DEF Typed
<1>2. ASSUME GetSurface(f) PROVE UNCHANGED Own(e)
    BY <1>0, <1>1, <1>2 DEF GetSurface, SyncInput, DropPendingBitstreams, ReleaseBS,
       EndEncode, Goto, bufVars, EncoderTypes, BitstreamTypes
<1>3. ASSUME WaitForSurfaceInsertion(f) \/ WaitReturns(f) \/ WaitTimesOut(f)
      PROVE UNCHANGED Own(e)
    BY <1>0, <1>1, <1>3 DEF WaitForSurfaceInsertion, WaitReturns, WaitTimesOut, WaitFrame,
       EndEncode, Goto, encData, EncoderTypes, BitstreamTypes
<1>4. ASSUME EncodeOneFrame(f) PROVE UNCHANGED Own(e)
    BY SMTT(40), <1>0, <1>1, <1>4 DEF EncodeOneFrame, LockInput, ReleaseThen, CountFrame, Goto,
       bufVars, EncoderTypes, BitstreamTypes
<1>5. ASSUME ReleaseSurface(f) PROVE UNCHANGED Own(e)
    BY <1>0, <1>1, <1>5 DEF ReleaseSurface, EndEncode, Goto, encData, EncoderTypes,
       BitstreamTypes
<1>6. ASSUME PutBS(f) PROVE UNCHANGED Own(e)
    BY <1>0, <1>1, <1>6 DEF PutBS, DropPendingBitstreams, ReleaseBS, EndEncode, Goto,
       bufVars, EncoderTypes, BitstreamTypes
<1>7. ASSUME CancelBuffering(f) \/ DrainSurface(f) \/ CloseEncoder(f)
      PROVE UNCHANGED Own(e)
    BY <1>0, <1>1, <1>7 DEF CancelBuffering, DrainSurface, CloseEncoder, ReleaseThen,
       EndEncode, Goto, bufVars, encData, EncoderTypes, BitstreamTypes
<1>8. ASSUME EncoderUnlocks(f) PROVE UNCHANGED Own(e)
    BY <1>0, <1>8 DEF EncoderUnlocks, bufVars, encVars, encData
<1> QED  BY <1>2, <1>3, <1>4, <1>5, <1>6, <1>7, <1>8 DEF EncodeSession

(* ... and so does every step of the decoder but AddSurface to buffer e.   *)
LEMMA DecoderLeaves ==
    ASSUME Typed, NEW e \in Encoders, [Next]_vars,
           ~ \E f \in Encoders : EncodeSession(f) \/ EncoderUnlocks(f)
    PROVE  \/ UNCHANGED Own(e)
           \/ /\ AddSurface /\ dIdx = e /\ m_IsBufferingAllowed[e]
              /\ m_SList'[e] = Append(m_SList[e], dSurf)
              /\ UNCHANGED <<encHold, encVars, m_IsBufferingAllowed>>
<1> USE DEF Own
<1>0. m_SList \in [Encoders -> Seq(Surf0)] /\ dIdx \in Encoders
    BY DEF Typed, BufferTypes, DecoderTypes
<1>1. CASE AddSurface
  <2>1. UNCHANGED <<encHold, encVars, m_IsBufferingAllowed>>
    BY <1>1 DEF AddSurface
  <2> QED  BY <1>0, <1>1, <2>1 DEF AddSurface, encVars, encData
<1>2. CASE DecodeStart \/ GetFreeSurface \/ DecodeOneFrame \/ DecodeLastFrame
           \/ SignalInsertion \/ SyncOldest \/ NoMoreFramesAgain
  <2>1. UNCHANGED <<encHold, encVars, m_IsBufferingAllowed>>
    BY <1>2, DecodeFrame DEF DecodeSession
  <2>2. UNCHANGED m_SList
    BY <1>2 DEF DecodeStart, GetFreeSurface, DecodeOneFrame, DecodeLastFrame,
       SignalInsertion, SyncOldest, NoMoreFramesAgain, bufVars
  <2> QED  BY <2>1, <2>2 DEF encVars, encData
<1>3. DecoderUnlocks \/ (\E i \in Sessions : CollectSession(i)) \/ UNCHANGED vars
      => UNCHANGED Own(e)
    BY DEF DecoderUnlocks, CollectSession, vars, bufVars, encVars, encData
<1> QED  BY <1>1, <1>2, <1>3 DEF Next, Finished, DecodeSession

----------------------------------------------------------------------------
(* What an ended session holds.                                            *)

(* Every step keeps the outcome of session e.                              *)
LEMMA OutcomeStep ==
    ASSUME Typed, NEW e \in Encoders, Outcome(e), [Next]_vars
    PROVE  Outcome(e)'
<1>0. /\ m_SList \in [Encoders -> Seq(Surf0)]
      /\ m_IsBufferingAllowed \in [Encoders -> BOOLEAN]
      /\ encHold \in [Encoders -> SUBSET Surfaces]
      /\ encSts \in [Encoders -> Statuses]
    BY DEF Typed, BufferTypes, HolderTypes, EncoderTypes
<1>1. EncoderTypes
    BY DEF Typed
<1>2. UNCHANGED Own(e) => Outcome(e)'
    BY DEF Own, Outcome
<1>3. CASE ~ \E f \in Encoders : EncodeSession(f) \/ EncoderUnlocks(f)
  <2>1. CASE UNCHANGED Own(e)
    BY <1>2, <2>1
  <2>2. CASE m_IsBufferingAllowed[e] /\ UNCHANGED <<encHold, encVars, m_IsBufferingAllowed>>
    BY <2>2 DEF Outcome, encVars
  <2> QED  BY <1>3, <2>1, <2>2, DecoderLeaves
<1>4. ASSUME NEW f \in Encoders, e # f, EncodeSession(f) \/ EncoderUnlocks(f)
      PROVE  Outcome(e)'
    BY <1>2, <1>4, OtherSessions
<1>5. ASSUME EncoderUnlocks(e) PROVE Outcome(e)'
    BY <1>0, <1>5 DEF EncoderUnlocks, bufVars, encVars, Outcome
<1>6. ASSUME GetSurface(e) PROVE Outcome(e)'
    BY <1>0, <1>1, <1>6 DEF GetSurface, EndEncode, Goto, bufVars, Outcome, EncoderTypes
<1>7. ASSUME WaitForSurfaceInsertion(e) \/ WaitReturns(e) \/ WaitTimesOut(e)
      PROVE  Outcome(e)'
    BY <1>0, <1>1, <1>7 DEF WaitForSurfaceInsertion, WaitReturns, WaitTimesOut, WaitFrame,
       EndEncode, Goto, Outcome, EncoderTypes
<1>8. ASSUME EncodeOneFrame(e) PROVE Outcome(e)'
  <2>1. /\ epc'[e] = "release" /\ eNext'[e] \in {"put", "get", "flush", "fail"}
        /\ UNCHANGED <<m_SList, m_IsBufferingAllowed, encSts>> /\ epc[e] = "encode"
    BY <1>1, <1>8 DEF EncodeOneFrame, ReleaseThen, Goto, bufVars, EncoderTypes
  <2> QED  BY <2>1 DEF Outcome
<1>9. ASSUME ReleaseSurface(e) PROVE Outcome(e)'
    BY <1>0, <1>1, <1>9 DEF ReleaseSurface, EndEncode, Goto, Outcome, EncoderTypes
<1>10. ASSUME PutBS(e) PROVE Outcome(e)'
    BY <1>0, <1>1, <1>10 DEF PutBS, EndEncode, Goto, bufVars, Outcome, EncoderTypes
<1>11. ASSUME CancelBuffering(e) \/ DrainSurface(e) \/ CloseEncoder(e)
       PROVE  Outcome(e)'
    BY <1>0, <1>1, <1>11 DEF CancelBuffering, DrainSurface, CloseEncoder, ReleaseThen,
       EndEncode, Goto, bufVars, encData, Outcome, EncoderTypes
<1>12. ASSUME EncodeSession(e) PROVE Outcome(e)'
    BY <1>6, <1>7, <1>8, <1>9, <1>10, <1>11, <1>12 DEF EncodeSession
<1> QED  BY <1>3, <1>4, <1>5, <1>12

----------------------------------------------------------------------------
(* Who is told of the end of the stream.                                   *)

(* A session that takes a null surface notes the end, unless it is         *)
(* draining a buffer that is closed already.                               *)
LEMMA TakesNoteStep ==
    ASSUME Typed, NEW e \in Encoders, Outcome(e), TakesNote(e), [Next]_vars
    PROVE  TakesNote(e)'
<1>0. /\ m_IsBufferingAllowed \in [Encoders -> BOOLEAN]
      /\ isQuit \in [Encoders -> BOOLEAN] /\ EncoderTypes
    BY DEF Typed, BufferTypes, EncoderTypes
<1>1. CASE ~ \E f \in Encoders : EncodeSession(f) \/ EncoderUnlocks(f)
  <2>1. UNCHANGED <<epc[e], eSurf[e], isQuit[e], m_IsBufferingAllowed[e]>>
    BY <1>1, DecoderLeaves DEF Own, encVars, encData
  <2> QED  BY <2>1 DEF TakesNote
<1>2. ASSUME NEW f \in Encoders, e # f, EncodeSession(f) \/ EncoderUnlocks(f)
      PROVE  TakesNote(e)'
    BY <1>2, OtherSessions DEF Own, TakesNote
<1>3. ASSUME GetSurface(e) PROVE TakesNote(e)'
    BY <1>0, <1>3 DEF GetSurface, EndEncode, Goto, bufVars, TakesNote, EncoderTypes
<1>4. ASSUME DrainSurface(e) PROVE TakesNote(e)'
    BY <1>4 DEF DrainSurface, bufVars, TakesNote, Outcome
<1>5. ASSUME EncodeOneFrame(e) PROVE TakesNote(e)'
  <2>1. UNCHANGED <<eSurf, isQuit, m_IsBufferingAllowed>> /\ epc[e] = "encode"
    BY <1>5 DEF EncodeOneFrame, bufVars
  <2> QED  BY <2>1 DEF TakesNote
<1>6. ASSUME WaitForSurfaceInsertion(e) \/ WaitReturns(e) \/ WaitTimesOut(e)
             \/ ReleaseSurface(e) \/ PutBS(e) \/ CancelBuffering(e) \/ CloseEncoder(e)
      PROVE  TakesNote(e)'
  <2>1. epc'[e] \notin {"encode", "release"}
    BY <1>0, <1>6 DEF WaitForSurfaceInsertion, WaitReturns, WaitTimesOut, ReleaseSurface,
       PutBS, CancelBuffering, CloseEncoder, EndEncode, Goto, EncoderTypes
  <2> QED  BY <2>1 DEF TakesNote
<1>7. ASSUME EncoderUnlocks(e) PROVE TakesNote(e)'
    BY <1>7 DEF EncoderUnlocks, bufVars, encVars, encData, TakesNote
<1> QED  BY <1>1, <1>2, <1>3, <1>4, <1>5, <1>6, <1>7 DEF EncodeSession

(* What a session was told it never forgets.                               *)
LEMMA ToldStays ==
    ASSUME Typed, NEW e \in Encoders, Outcome(e), TakesNote(e), Told(e), [Next]_vars
    PROVE  Told(e)'
<1>0. /\ m_SList \in [Encoders -> Seq(Surf0)] /\ m_SList[e] \in Seq(Surf0)
      /\ m_IsBufferingAllowed \in [Encoders -> BOOLEAN]
      /\ EncoderTypes /\ dSurf \in Surf0
    BY DEF Typed, BufferTypes, DecoderTypes
<1>1. UNCHANGED Own(e) => Told(e)'
    BY DEF Own, Told
<1>2. CASE ~ \E f \in Encoders : EncodeSession(f) \/ EncoderUnlocks(f)
  <2>1. CASE /\ m_SList'[e] = Append(m_SList[e], dSurf)
             /\ UNCHANGED <<encVars, m_IsBufferingAllowed>>
    <3>1. Range(m_SList[e]) \subseteq Range(m_SList'[e])
      BY <1>0, <2>1, AppendElements
    <3> QED  BY <2>1, <3>1 DEF Told, encVars, encData
  <2> QED  BY <1>1, <1>2, <2>1, DecoderLeaves
<1>3. ASSUME NEW f \in Encoders, e # f, EncodeSession(f) \/ EncoderUnlocks(f)
      PROVE  Told(e)'
    BY <1>1, <1>3, OtherSessions
<1>4. ASSUME ReleaseSurface(e) PROVE Told(e)'
  <2>1. /\ m_SList'[e] = RemoveFirst(m_SList[e], eSurf[e]) /\ epc[e] = "release"
        /\ UNCHANGED <<m_IsBufferingAllowed, isQuit>>
        /\ encSts[e] # "err"
    BY <1>0, <1>4 DEF ReleaseSurface, encData, Outcome
  <2>2. NoSurface \in Range(m_SList[e]) /\ eSurf[e] # NoSurface
        => NoSurface \in Range(m_SList'[e])
    BY <1>0, <2>1, RemoveFirstRange
  <2> QED  BY <2>1, <2>2 DEF Told, TakesNote
<1>5. ASSUME GetSurface(e) PROVE Told(e)'
    BY <1>0, <1>5 DEF GetSurface, bufVars, Told, Outcome, EncoderTypes
<1>6. ASSUME CancelBuffering(e) PROVE Told(e)'
    BY <1>0, <1>6 DEF CancelBuffering, encData, Told
<1>7. ASSUME \/ WaitForSurfaceInsertion(e) \/ WaitReturns(e) \/ WaitTimesOut(e)
             \/ EncodeOneFrame(e) \/ PutBS(e) \/ DrainSurface(e) \/ CloseEncoder(e)
             \/ EncoderUnlocks(e)
      PROVE  Told(e)'
  <2>1. UNCHANGED <<m_SList, m_IsBufferingAllowed, isQuit>>
    BY <1>7 DEF WaitForSurfaceInsertion, WaitReturns, WaitTimesOut, WaitFrame,
       EncodeOneFrame, PutBS, DrainSurface, CloseEncoder, EncoderUnlocks, bufVars,
       encVars, encData
  <2>2. encSts[e] = "err" => encSts'[e] = "err"
    BY <1>7 DEF WaitForSurfaceInsertion, WaitReturns, WaitTimesOut, EncodeOneFrame,
       PutBS, DrainSurface, CloseEncoder, EncoderUnlocks, encVars, Outcome
  <2> QED  BY <2>1, <2>2 DEF Told
<1> QED  BY <1>2, <1>3, <1>4, <1>5, <1>6, <1>7 DEF EncodeSession

(* The decoder's walk over the buffers tells everyone.                     *)
LEMMA WalkTellsStep ==
    ASSUME Typed, NEW e \in Encoders, Outcome(e), TakesNote(e), WalkTells(e),
           [Next]_vars
    PROVE  WalkTells(e)'
<1>0. Told(e) => Told(e)'
    BY ToldStays
<1>1. /\ m_SList \in [Encoders -> Seq(Surf0)] /\ m_SList[e] \in Seq(Surf0)
      /\ dIdx \in Encoders /\ NumEnc \in Encoders /\ dSurf \in Surf0
      /\ \A i \in Encoders : i \in Nat /\ 1 <= i /\ i <= NumEnc
    BY ConstantFacts DEF Typed, BufferTypes, DecoderTypes, Encoders
<1>2. UNCHANGED <<dpc, dSurf, dIdx, dAfter, decSts>> => WalkTells(e)'
    BY <1>0 DEF WalkTells, ToBeAdded
\* a walk that begins has told nobody yet
<1>3. ASSUME NEW s, NEW next, StartAdding(s, next),
             decSts' = "ok" => s = NoSurface /\ next = "done"
      PROVE  WalkTells(e)'
    BY <1>1, <1>3 DEF StartAdding, WalkTells, ToBeAdded
<1>4. CASE DecodeStart \/ NoMoreFramesAgain
    BY <1>3, <1>4 DEF DecodeStart, NoMoreFramesAgain, EndDecode, WalkTells
<1>5. CASE GetFreeSurface
    BY <1>3, <1>5 DEF GetFreeSurface, StopDecoding, EndDecode, WalkTells
<1>6. CASE DecodeOneFrame
    BY <1>3, <1>6 DEF DecodeOneFrame, StopDecoding, EndDecode, DecoderReturns, WalkTells
<1>7. CASE DecodeLastFrame
    BY <1>3, <1>7 DEF DecodeLastFrame, EndDecode, WalkTells
<1>8. CASE SyncOldest
    BY <1>3, <1>8 DEF SyncOldest, EndDecode, WalkTells
\* the walk goes on
<1>9. ASSUME dpc \in {"add", "signal"}, NextBuffer, UNCHANGED <<dSurf, dAfter, decSts>>,
             dSurf = NoSurface /\ e = dIdx => Told(e)'
      PROVE  WalkTells(e)'
  <2>1. dSurf = NoSurface /\ (e >= dIdx) => Told(e)'
    BY <1>0, <1>1, <1>9 DEF WalkTells, ToBeAdded
  <2>2. CASE dIdx = 1
    BY <1>1, <1>9, <2>1, <2>2 DEF NextBuffer, WalkTells, ToBeAdded, Typed, DecoderTypes
  <2>3. CASE dIdx # 1
    BY <1>1, <1>9, <2>1, <2>3 DEF NextBuffer, WalkTells, ToBeAdded
  <2> QED  BY <2>2, <2>3
<1>10. CASE AddSurface
  <2>1. CASE m_IsBufferingAllowed[dIdx]
    <3>1. /\ m_SList' = [m_SList EXCEPT ![dIdx] = Append(@, dSurf)]
          /\ dpc' = "signal" /\ dpc = "add" /\ UNCHANGED <<dIdx, dSurf, dAfter, decSts>>
      BY <1>10, <2>1 DEF AddSurface
    <3>2. e = dIdx => dSurf \in Range(m_SList'[e])
      BY <1>1, <3>1, AppendElements
    <3>3. dSurf = NoSurface /\ e = dIdx => Told(e)'
      BY <3>2 DEF Told
    <3> QED  BY <1>0, <1>1, <3>1, <3>3 DEF WalkTells, ToBeAdded
  <2>2. CASE ~ m_IsBufferingAllowed[dIdx]
    <3>1. NextBuffer /\ UNCHANGED <<dSurf, dAfter, decSts>> /\ dpc = "add"
      BY <1>10, <2>2 DEF AddSurface
    <3>2. e = dIdx => Told(e)
      BY <2>2 DEF Told
    <3> QED  BY <1>0, <1>9, <3>1, <3>2
  <2> QED  BY <2>1, <2>2
<1>11. CASE SignalInsertion
  <2>1. NextBuffer /\ UNCHANGED <<dSurf, dAfter, decSts>> /\ dpc = "signal"
    BY <1>11 DEF SignalInsertion
  <2>2. dSurf = NoSurface /\ e = dIdx => Told(e)
    BY <1>1, <2>1 DEF WalkTells, ToBeAdded
  <2> QED  BY <1>0, <1>9, <2>1, <2>2
<1>12. ~ DecodeSession => UNCHANGED <<dpc, dSurf, dIdx, dAfter, decSts>>
    BY EncodeFrame DEF Next, vars, decVars, OtherThreads, DecoderUnlocks, EncoderUnlocks,
       CollectSession, Finished
<1> QED  BY <1>2, <1>4, <1>5, <1>6, <1>7, <1>8, <1>10, <1>11, <1>12 DEF DecodeSession

----------------------------------------------------------------------------
(* Where the bitstreams are.                                               *)

Bitstreams == [id : 1..AsyncDepth, frame : 0..NumFrames]

(* A pool uses finitely many entries.                                      *)
LEMMA IdsFinite ==
    ASSUME NEW q \in Seq(Bitstreams)
    PROVE  IsFiniteSet(Ids(q))
<1>1. \A i \in 1..Len(q) : q[i] \in Bitstreams
    BY ElementOfSeq
<1>2. Ids(q) \subseteq 1..AsyncDepth
    BY <1>1 DEF Ids, Bitstreams
<1>3. IsFiniteSet(1..AsyncDepth)
    BY FS_Interval, ConstantFacts
<1> QED  BY <1>2, <1>3, FS_Subset

(* EncodeOneFrame moves an entry from the store to the end of the pool,    *)
LEMMA PoolGrows ==
    ASSUME NEW q \in Seq(Bitstreams), EachOnce(q), NEW b \in Bitstreams,
           b.id \notin Ids(q)
    PROVE  EachOnce(Append(q, b)) /\ Ids(Append(q, b)) = Ids(q) \cup {b.id}
<1> DEFINE r == Append(q, b)
<1>1. /\ Len(q) \in Nat /\ Len(r) = Len(q) + 1
      /\ \A i \in 1..Len(q) : r[i] = q[i]
      /\ r[Len(q) + 1] = b
    BY AppendElements
<1> HIDE DEF r
<1>2. 1..Len(r) = (1..Len(q)) \cup {Len(q) + 1}
    BY <1>1
<1>3. Ids(r) = Ids(q) \cup {b.id}
    BY <1>1, <1>2 DEF Ids
<1>4. \A i \in 1..Len(q) : r[i].id = q[i].id /\ q[i].id # b.id
    BY <1>1 DEF Ids
<1>5. \A i, j \in 1..Len(r) : r[i].id = r[j].id => i = j
    BY <1>1, <1>2, <1>4 DEF EachOnce
<1>6. IsFiniteSet(Ids(q))
    BY IdsFinite
<1>7. Cardinality(Ids(r)) = Len(r)
    BY <1>1, <1>3, <1>6, FS_AddElement DEF EachOnce
<1> QED  BY <1>3, <1>5, <1>7 DEF EachOnce, r

(* ... and PutBS gives the first one of the pool back.                     *)
LEMMA PoolShrinks ==
    ASSUME NEW q \in Seq(Bitstreams), EachOnce(q), q # <<>>
    PROVE  /\ EachOnce(Tail(q)) /\ Ids(Tail(q)) = Ids(q) \ {Head(q).id}
           /\ Head(q).id \in Ids(q) /\ Len(Tail(q)) = Len(q) - 1
<1> DEFINE r == Tail(q)
<1>1. /\ Len(q) \in Nat \ {0} /\ Len(r) = Len(q) - 1 /\ Head(q) = q[1]
      /\ \A i \in 1..Len(r) : r[i] = q[i + 1]
    BY TailElements
<1> HIDE DEF r
<1>2. \A i \in 1..Len(r) : i + 1 \in 1..Len(q) /\ i + 1 # 1 /\ r[i].id = q[i + 1].id
    BY <1>1
<1>3. 1 \in 1..Len(q)
    BY <1>1
<1>4. Ids(r) = Ids(q) \ {q[1].id}
  <2>1. \A i \in 1..Len(q) : i # 1 => i - 1 \in 1..Len(r) /\ r[i - 1].id = q[i].id
    BY <1>1
  <2>2. ASSUME NEW i \in 1..Len(r) PROVE r[i].id \in Ids(q) /\ r[i].id # q[1].id
    BY <1>2, <1>3 DEF Ids, EachOnce
  <2>3. ASSUME NEW i \in 1..Len(q), q[i].id # q[1].id PROVE q[i].id \in Ids(r)
    BY <2>1, <2>3 DEF Ids
  <2> QED  BY <2>2, <2>3 DEF Ids
<1>5. \A i, j \in 1..Len(r) : r[i].id = r[j].id => i = j
    BY <1>1, <1>2 DEF EachOnce
<1>6. IsFiniteSet(Ids(q)) /\ q[1].id \in Ids(q)
    BY <1>3, IdsFinite DEF Ids
<1>7. Cardinality(Ids(r)) = Len(r)
  <2>1. Cardinality(Ids(q)) = Len(q)
    BY DEF EachOnce
  <2>2. Cardinality(Ids(q) \ {q[1].id}) = Cardinality(Ids(q)) - 1
    BY <1>6, FS_RemoveElement
  <2> QED  BY <1>1, <1>4, <2>1, <2>2
<1> QED  BY <1>1, <1>4, <1>5, <1>6, <1>7 DEF EachOnce, r

(* An empty pool uses nothing.                                             *)
LEMMA PoolEmpty == Ids(<<>>) = {} /\ EachOnce(<<>>)
<1>1. Len(<<>>) = 0 /\ 1..0 = {}
    OBVIOUS
<1>2. Ids(<<>>) = {}
    BY <1>1 DEF Ids
<1> QED  BY <1>1, <1>2, FS_EmptySet DEF EachOnce

(* A pool is never longer than the store.                                  *)
LEMMA PoolFits ==
    ASSUME NEW e \in Encoders, StoreKept(e)
    PROVE  /\ Len(m_BSPool[e]) \in Nat /\ Len(m_BSPool[e]) <= AsyncDepth
           /\ Len(m_BSPool[e]) < AsyncDepth => freeBS[e] # {}
<1>1. AsyncDepth \in Nat \ {0} /\ IsFiniteSet(1..AsyncDepth)
      /\ Cardinality(1..AsyncDepth) = AsyncDepth
    BY ConstantFacts, FS_Interval
<1>2. Ids(m_BSPool[e]) \subseteq 1..AsyncDepth
    BY DEF StoreKept
<1>3. /\ IsFiniteSet(Ids(m_BSPool[e])) /\ Cardinality(Ids(m_BSPool[e])) \in Nat
      /\ Cardinality(Ids(m_BSPool[e])) <= AsyncDepth
    BY <1>1, <1>2, FS_Subset, FS_CardinalityType
<1>4. freeBS[e] = {} => Ids(m_BSPool[e]) = 1..AsyncDepth
    BY DEF StoreKept
<1> QED  BY <1>1, <1>3, <1>4 DEF StoreKept, EachOnce

(* Every step keeps the store of session e.                                *)
LEMMA StoreKeptStep ==
    ASSUME Typed, NEW e \in Encoders, StoreKept(e), [Next]_vars
    PROVE  StoreKept(e)'
<1>0. /\ m_BSPool \in [Encoders -> Seq(Bitstreams)] /\ m_BSPool[e] \in Seq(Bitstreams)
      /\ freeBS \in [Encoders -> SUBSET (1..AsyncDepth)] /\ EncoderTypes
      /\ content \in [Surfaces -> 0..NumFrames]
    BY DEF Typed, BitstreamTypes, HolderTypes, Bitstreams
<1> DEFINE Room == \/ epc'[e] \in {"get", "wait", "blocked", "encode"}
                   \/ epc'[e] = "release" /\ eNext'[e] = "get"
<1>1. UNCHANGED <<epc[e], eNext[e], m_BSPool[e], freeBS[e]>> => StoreKept(e)'
    BY DEF StoreKept, EachOnce, Ids
\* what is to be shown of the new pool
<1>2. ASSUME NEW q, m_BSPool'[e] = q, EachOnce(q), Ids(q) \cap freeBS'[e] = {},
             Ids(q) \cup freeBS'[e] = 1..AsyncDepth, Room => Len(q) < AsyncDepth
      PROVE  StoreKept(e)'
  <2>1. Ids(m_BSPool[e])' = Ids(q)
    BY <1>2 DEF Ids
  <2>2. EachOnce(m_BSPool[e])'
    <3>1. \A i, j \in 1..Len(q) : q[i].id = q[j].id => i = j
      BY <1>2 DEF EachOnce
    <3>2. Cardinality(Ids(q)) = Len(q)
      BY <1>2 DEF EachOnce
    <3> QED  BY <1>2, <2>1, <3>1, <3>2 DEF EachOnce
  <2> QED  BY <1>2, <2>1, <2>2 DEF StoreKept
\* the pool stays and there was room before
<1>3. ASSUME UNCHANGED <<m_BSPool[e], freeBS[e]>>,
             Room => epc[e] \in {"get", "wait", "blocked", "encode"}
                     \/ (epc[e] = "release" /\ eNext[e] = "get")
      PROVE  StoreKept(e)'
    BY <1>3 DEF StoreKept, EachOnce, Ids
\* all pending bitstreams are dropped
<1>4. ASSUME DropPendingBitstreams(e) PROVE StoreKept(e)'
  <2>1. m_BSPool'[e] = <<>> /\ freeBS'[e] = freeBS[e] \cup Ids(m_BSPool[e])
    BY <1>0, <1>4 DEF DropPendingBitstreams, ReleaseBS, Ids
  <2>2. Len(<<>>) = 0 /\ 0 < AsyncDepth
    BY ConstantFacts
  <2> QED  BY <2>1, <2>2, PoolEmpty DEF StoreKept, EachOnce, Ids
\* one entry is taken
<1>5. ASSUME NEW bs \in freeBS[e], NEW f \in 0..NumFrames,
             m_BSPool'[e] = Append(m_BSPool[e], [id |-> bs, frame |-> f]),
             freeBS'[e] = freeBS[e] \ {bs},
             Room => Len(m_BSPool[e]) + 1 < AsyncDepth
      PROVE  StoreKept(e)'
  <2> DEFINE b == [id |-> bs, frame |-> f]
  <2>1. b \in Bitstreams /\ b.id = bs /\ bs \notin Ids(m_BSPool[e])
    BY <1>0, <1>5 DEF Bitstreams, StoreKept
  <2> HIDE DEF b
  <2>2. /\ EachOnce(Append(m_BSPool[e], b))
        /\ Ids(Append(m_BSPool[e], b)) = Ids(m_BSPool[e]) \cup {bs}
    BY <1>0, <2>1, PoolGrows DEF StoreKept
  <2>3. Len(Append(m_BSPool[e], b)) = Len(m_BSPool[e]) + 1
    BY <1>0, <2>1, AppendElements
  <2>4. m_BSPool'[e] = Append(m_BSPool[e], b)
    BY <1>5 DEF b
  <2>5. Ids(m_BSPool[e]) \cap freeBS[e] = {} /\ Ids(m_BSPool[e]) \cup freeBS[e] = 1..AsyncDepth
    BY DEF StoreKept
  <2>6. Ids(Append(m_BSPool[e], b)) \cap freeBS'[e] = {}
        /\ Ids(Append(m_BSPool[e], b)) \cup freeBS'[e] = 1..AsyncDepth
    BY <1>5, <2>1, <2>2, <2>5
  <2> HIDE DEF Room
  <2> QED  BY <1>2, <1>5, <2>2, <2>3, <2>4, <2>6
\* one entry is given back
<1>6. ASSUME m_BSPool[e] # <<>>, m_BSPool'[e] = Tail(m_BSPool[e]),
             freeBS'[e] = freeBS[e] \cup {Head(m_BSPool[e]).id}
      PROVE  StoreKept(e)'
  <2>1. Len(m_BSPool[e]) \in Nat /\ Len(m_BSPool[e]) <= AsyncDepth /\ AsyncDepth \in Nat
    BY PoolFits, ConstantFacts
  <2>2. /\ EachOnce(Tail(m_BSPool[e]))
        /\ Ids(Tail(m_BSPool[e])) = Ids(m_BSPool[e]) \ {Head(m_BSPool[e]).id}
        /\ Head(m_BSPool[e]).id \in Ids(m_BSPool[e])
        /\ Len(Tail(m_BSPool[e])) = Len(m_BSPool[e]) - 1
    BY <1>0, <1>6, PoolShrinks DEF StoreKept
  <2>3. Ids(m_BSPool[e]) \cap freeBS[e] = {} /\ Ids(m_BSPool[e]) \cup freeBS[e] = 1..AsyncDepth
    BY DEF StoreKept
  <2>4. Len(Tail(m_BSPool[e])) < AsyncDepth
    BY <2>1, <2>2
  <2>5. /\ Ids(Tail(m_BSPool[e])) \cap freeBS'[e] = {}
        /\ Ids(Tail(m_BSPool[e])) \cup freeBS'[e] = 1..AsyncDepth
    BY <1>6, <2>2, <2>3
  <2> HIDE DEF Room
  <2> QED  BY <1>2, <1>6, <2>2, <2>4, <2>5
<1>7. CASE ~ \E f \in Encoders : EncodeSession(f) \/ EncoderUnlocks(f)
  <2>1. UNCHANGED <<epc[e], eNext[e], m_BSPool[e], freeBS[e]>>
    BY <1>7, DecoderLeaves DEF Own, encVars, encData
  <2> QED  BY <1>1, <2>1
<1>8. ASSUME NEW f \in Encoders, e # f, EncodeSession(f) \/ EncoderUnlocks(f)
      PROVE  StoreKept(e)'
    BY <1>1, <1>8, OtherSessions DEF Own
<1>9. ASSUME GetSurface(e) PROVE StoreKept(e)'
    BY <1>0, <1>3, <1>4, <1>9 DEF GetSurface, SyncInput, Goto, EncoderTypes
<1>10. ASSUME WaitForSurfaceInsertion(e) \/ WaitReturns(e) \/ WaitTimesOut(e)
      PROVE  StoreKept(e)'
    BY <1>0, <1>3, <1>10 DEF WaitForSurfaceInsertion, WaitReturns, WaitTimesOut, WaitFrame,
       encData
<1>11. ASSUME EncodeOneFrame(e) PROVE StoreKept(e)'
  <2> DEFINE s == Submitted(e)
             lib == IF s = NoSurface THEN encLib[e] ELSE Append(encLib[e], s)
  <2>1. epc[e] = "encode" /\ Len(m_BSPool[e]) < AsyncDepth /\ Len(m_BSPool[e]) \in Nat
    BY <1>11, PoolFits DEF EncodeOneFrame, StoreKept
  <2>2. lib # <<>> => content[Head(lib)] \in 0..NumFrames
    <3>1. encLib[e] \in Seq(Surfaces) /\ (s = NoSurface \/ s \in Surfaces)
      BY DEF Typed, BitstreamTypes, EncoderTypes, Submitted, Surf0
    <3>2. lib \in Seq(Surfaces)
      BY <3>1, AppendElements
    <3> HIDE DEF lib
    <3> QED  BY <1>0, <3>2, TailElements
  <2> HIDE DEF s, lib
  <2>3. PICK bs \in freeBS[e] :
          \/ /\ lib # <<>>
             /\ freeBS' = [freeBS EXCEPT ![e] = @ \ {bs}]
             /\ m_BSPool' = [m_BSPool EXCEPT ![e] =
                    Append(@, [id |-> bs, frame |-> content[Head(lib)]])]
             /\ ReleaseThen(e, IF Len(m_BSPool[e]) + 1 = AsyncDepth
                               THEN "put" ELSE "get")
          \/ UNCHANGED <<freeBS, m_BSPool>>
          \/ /\ freeBS' = [freeBS EXCEPT ![e] = @ \ {bs}]
             /\ m_BSPool' = [m_BSPool EXCEPT ![e] =
                    Append(@, [id |-> bs, frame |-> 0])]
             /\ ReleaseThen(e, "fail")
    BY <1>11 DEF EncodeOneFrame, lib, s
  <2>4. CASE UNCHANGED <<freeBS, m_BSPool>>
    BY <1>3, <2>1, <2>4
  <2>5. CASE /\ lib # <<>>
             /\ freeBS' = [freeBS EXCEPT ![e] = @ \ {bs}]
             /\ m_BSPool' = [m_BSPool EXCEPT ![e] =
                    Append(@, [id |-> bs, frame |-> content[Head(lib)]])]
             /\ ReleaseThen(e, IF Len(m_BSPool[e]) + 1 = AsyncDepth
                               THEN "put" ELSE "get")
    <3>1. Room => Len(m_BSPool[e]) + 1 < AsyncDepth
      BY <1>0, <2>1, <2>5, ConstantFacts DEF ReleaseThen, Goto, EncoderTypes
    <3> QED  BY <1>0, <1>5, <2>2, <2>5, <3>1
  <2>6. CASE /\ freeBS' = [freeBS EXCEPT ![e] = @ \ {bs}]
             /\ m_BSPool' = [m_BSPool EXCEPT ![e] = Append(@, [id |-> bs, frame |-> 0])]
             /\ ReleaseThen(e, "fail")
    <3>1. ~ Room
      BY <1>0, <2>6 DEF ReleaseThen, Goto, EncoderTypes
    <3>2. 0 \in 0..NumFrames
      BY ConstantFacts
    <3> HIDE DEF Room
    <3> QED  BY <1>0, <1>5, <2>6, <3>1, <3>2
  <2> QED  BY <2>3, <2>4, <2>5, <2>6
<1>12. ASSUME ReleaseSurface(e) PROVE StoreKept(e)'
  <2>1. UNCHANGED <<m_BSPool, freeBS>> /\ epc[e] = "release"
    BY <1>12 DEF ReleaseSurface, encData
  <2>2. epc'[e] = eNext[e] \/ epc'[e] = "done"
    BY <1>0, <1>12 DEF ReleaseSurface, EndEncode, Goto, EncoderTypes
  <2> QED  BY <1>0, <1>3, <2>1, <2>2 DEF EncoderTypes
<1>13. ASSUME PutBS(e) PROVE StoreKept(e)'
  <2>1. m_BSPool[e] # <<>> /\ epc[e] \in {"put", "flush"}
    BY <1>13 DEF PutBS, Typed
  <2>2. CASE /\ m_BSPool' = [m_BSPool EXCEPT ![e] = Tail(@)]
             /\ ReleaseBS(e, {Head(m_BSPool[e]).id})
    BY <1>0, <1>6, <2>1, <2>2 DEF ReleaseBS
  <2>3. CASE EndEncode(e, "err") /\ UNCHANGED <<m_BSPool, freeBS>>
    BY <1>0, <1>3, <2>3 DEF EndEncode, Goto, EncoderTypes
  <2> QED  BY <1>4, <1>13, <2>2, <2>3 DEF PutBS
<1>14. ASSUME CancelBuffering(e) \/ DrainSurface(e) \/ CloseEncoder(e)
       PROVE  StoreKept(e)'
    BY <1>0, <1>3, <1>14 DEF CancelBuffering, DrainSurface, CloseEncoder, ReleaseThen,
       EndEncode, Goto, encData, EncoderTypes
<1>15. ASSUME EncoderUnlocks(e) PROVE StoreKept(e)'
    BY <1>1, <1>15 DEF EncoderUnlocks, encVars, encData
<1> QED  BY <1>7, <1>8, <1>9, <1>10, <1>11, <1>12, <1>13, <1>14, <1>15 DEF EncodeSession

----------------------------------------------------------------------------
(* The theorems about the end of a session.                                *)

EndInv ==
    /\ IInv
    /\ \A e \in Encoders : Outcome(e) /\ TakesNote(e) /\ WalkTells(e) /\ StoreKept(e)

(* They hold at first.                                                     *)
LEMMA EndInvInit == Init => EndInv
<1> SUFFICES ASSUME Init, NEW e \in Encoders
             PROVE  Outcome(e) /\ TakesNote(e) /\ WalkTells(e) /\ StoreKept(e)
    BY InitIInv DEF EndInv
<1>1. Outcome(e) /\ TakesNote(e) /\ WalkTells(e)
    BY DEF Init, Outcome, TakesNote, WalkTells
<1>2. m_BSPool[e] = <<>> /\ freeBS[e] = 1..AsyncDepth
    BY DEF Init
<1>3. Len(<<>>) = 0 /\ 0 < AsyncDepth
    BY ConstantFacts
<1> QED  BY <1>1, <1>2, <1>3, PoolEmpty DEF StoreKept

(* Every step keeps them.                                                  *)
THEOREM EndInvariantHolds == Spec => []EndInv
<1>1. EndInv /\ [Next]_vars => EndInv'
  <2> SUFFICES ASSUME EndInv, [Next]_vars PROVE EndInv'
    OBVIOUS
  <2>1. IInv'
    BY TypedStep, DecoderOwnershipStep, EncoderOwnershipStep, CountStep DEF EndInv, IInv
  <2>2. ASSUME NEW e \in Encoders
        PROVE  Outcome(e)' /\ TakesNote(e)' /\ WalkTells(e)' /\ StoreKept(e)'
    BY OutcomeStep, TakesNoteStep, WalkTellsStep, StoreKeptStep DEF EndInv, IInv
  <2> QED  BY <2>1, <2>2 DEF EndInv
<1> QED  BY EndInvInit, <1>1, PTL DEF Spec

(* A session that has ended well holds no decoder surface, whatever the    *)
(* decoder still adds: it closed its buffer before it emptied it.          *)
THEOREM EndedHoldsNothing == Spec => []EndedSessionHoldsNothing
<1>1. EndInv => EndedSessionHoldsNothing
    BY DEF EndInv, Outcome, EndedSessionHoldsNothing
<1> QED  BY EndInvariantHolds, <1>1, PTL

(* When the decoder has ended well no sink is left waiting: on every path  *)
(* to that end, the stop by the launcher included, it walks over all the   *)
(* buffers with the null surface, and none is lost on its way to Encode(). *)
THEOREM SinksAreTold == Spec => []EverySinkTold
<1>1. EndInv => EverySinkTold
    BY DEF EndInv, WalkTells, Told, EverySinkTold
<1> QED  BY EndInvariantHolds, <1>1, PTL

(* Every entry of m_pBSStore is free or pending, through every pass of the *)
(* pool, hang and failure, and GetNext() has one whenever it is called.    *)
THEOREM BitstreamsKept == Spec => []BitstreamsAccounted
<1>1. EndInv => BitstreamsAccounted
  <2> SUFFICES ASSUME EndInv, NEW e \in Encoders
               PROVE  /\ Ids(m_BSPool[e]) \cap freeBS[e] = {}
                      /\ Ids(m_BSPool[e]) \cup freeBS[e] = 1..AsyncDepth
                      /\ Cardinality(Ids(m_BSPool[e])) = Len(m_BSPool[e])
                      /\ epc[e] \in {"get", "encode"} => freeBS[e] # {}
    BY DEF BitstreamsAccounted, Ids
  <2>1. StoreKept(e)
    BY DEF EndInv
  <2>2. Len(m_BSPool[e]) < AsyncDepth => freeBS[e] # {}
    BY <2>1, PoolFits
  <2> QED  BY <2>1, <2>2 DEF StoreKept, EachOnce
<1> QED  BY EndInvariantHolds, <1>1, PTL

----------------------------------------------------------------------------
(* The order of the frames.  A frame moves from the decoder library to the *)
(* walk over the buffers, to the queue of session e, to its encoder and to *)
(* its bitstreams.  At every moment what is further on is older.           *)

(* The frames at each place, for session e.                                *)
Out(e) == {f \in Range(EncodedFrames(e)) : f # 0}
InEncoder(e) == {content[s] : s \in Range(encLib[e])}
Queued(e) ==
    {s \in Range(m_SList[e]) \cap Surfaces : epc[e] = "release" => s # eSurf[e]}
Waiting(e) == {content[s] : s \in Queued(e)}
InQueue(e) == {content[s] : s \in Range(m_SList[e]) \cap Surfaces}
Coming(e) == {content[s] : s \in {t \in {dSurf} \cap Surfaces : ToBeAdded(e)}}
InDecoder == {content[s] : s \in Range(decLib)}

Below(A, B) == \A x \in A, y \in B : x < y

InLine(A, B, C, D, E) ==
    /\ Below(A, B) /\ Below(A, C) /\ Below(A, D) /\ Below(A, E)
    /\ Below(B, C) /\ Below(B, D) /\ Below(B, E)
    /\ Below(C, D) /\ Below(C, E) /\ Below(D, E)

(* The surfaces of q carry later and later frames, where c is the content. *)
Rising(c, q) ==
    \A i, j \in 1..Len(q) :
        i < j /\ q[i] \in Surfaces /\ q[j] \in Surfaces => c[q[i]] < c[q[j]]

InOrder(q) ==
    \A i, j \in 1..Len(q) : i < j /\ q[i] # 0 /\ q[j] # 0 => q[i] < q[j]

(* The order within each place and between the places.  A surface that is  *)
(* being released has left the line, with the frame it carried encoded or  *)
(* not; in the queue it still is ahead of what comes.  What a session that *)
(* has failed left behind is of no interest but for its bitstreams.        *)
InTurn(e) ==
    /\ InOrder(EncodedFrames(e))
    /\ epc[e] # "done" =>
        /\ Range(encLib[e]) \subseteq encHold[e]
        /\ Rising(content, encLib[e]) /\ Rising(content, m_SList[e])
        /\ epc[e] \in {"encode", "release"} /\ eSurf[e] \in Surfaces
               => m_SList[e] # <<>> /\ eSurf[e] = Head(m_SList[e])
        /\ InLine(Out(e), InEncoder(e), Waiting(e), Coming(e), InDecoder)
        /\ InLine({}, {}, InQueue(e), Coming(e), InDecoder)
        /\ \A f \in Out(e) : f <= nInput

DecodedInOrder ==
    /\ Rising(content, decLib)
    /\ \A s \in Surfaces : content[s] <= nInput

----------------------------------------------------------------------------
(* A frame that moves on by one place keeps the line.                      *)

LEMMA LineShrinks ==
    ASSUME NEW A, NEW B, NEW C, NEW D, NEW E, InLine(A, B, C, D, E),
           NEW A1, NEW B1, NEW C1, NEW D1, NEW E1,
           A1 \subseteq A, B1 \subseteq B, C1 \subseteq C, D1 \subseteq D, E1 \subseteq E
    PROVE  InLine(A1, B1, C1, D1, E1)
BY Zenon DEF InLine, Below

(* It is encoded,                                                          *)
LEMMA LineEncoded ==
    ASSUME NEW A, NEW B, NEW C, NEW D, NEW E, InLine(A, B, C, D, E), NEW x \in B,
           NEW A1, NEW B1, A1 \subseteq A \cup {x}, B1 \subseteq B, \A y \in B1 : x < y
    PROVE  InLine(A1, B1, C, D, E)
BY Zenon DEF InLine, Below

(* ... submitted,                                                          *)
LEMMA LineSubmitted ==
    ASSUME NEW A, NEW B, NEW C, NEW D, NEW E, InLine(A, B, C, D, E), NEW x \in C,
           NEW B1, NEW C1, B1 \subseteq B \cup {x}, C1 \subseteq C, \A y \in C1 : x < y
    PROVE  InLine(A, B1, C1, D, E)
BY Zenon DEF InLine, Below

(* ... queued,                                                             *)
LEMMA LineQueued ==
    ASSUME NEW A, NEW B, NEW C, NEW D, NEW E, InLine(A, B, C, D, E),
           NEW C1, C1 \subseteq C \cup D
    PROVE  InLine(A, B, C1, {}, E)
BY Zenon DEF InLine, Below

(* ... output by the decoder,                                              *)
LEMMA LineOutput ==
    ASSUME NEW A, NEW B, NEW C, NEW E, InLine(A, B, C, {}, E), NEW x \in E,
           NEW D1, NEW E1, D1 \subseteq {x}, E1 \subseteq E, \A y \in E1 : x < y
    PROVE  InLine(A, B, C, D1, E1)
BY Zenon DEF InLine, Below

(* ... or decoded.                                                         *)
LEMMA LineDecoded ==
    ASSUME NEW A, NEW B, NEW C, NEW E, InLine(A, B, C, {}, E), NEW x,
           \A y \in A \cup B \cup C \cup E : y < x,
           NEW E1, E1 \subseteq E \cup {x}
    PROVE  InLine(A, B, C, {}, E1)
BY Zenon DEF InLine, Below

(* The order within a queue: the oldest is taken off,                      *)
LEMMA RisingTail ==
    ASSUME NEW c, NEW q \in Seq(Surf0), q # <<>>, Rising(c, q)
    PROVE  /\ Rising(c, Tail(q))
           /\ Head(q) \in Surfaces =>
                 \A s \in Range(Tail(q)) \cap Surfaces : c[Head(q)] < c[s]
<1>1. /\ Head(q) = q[1] /\ Tail(q) \in Seq(Surf0)
      /\ Len(q) \in Nat \ {0} /\ Len(Tail(q)) = Len(q) - 1
      /\ \A i \in 1..Len(Tail(q)) : Tail(q)[i] = q[i + 1]
    BY TailElements
<1>2. Range(Tail(q)) = {Tail(q)[i] : i \in 1..Len(Tail(q))}
    BY <1>1, RangeEquality
<1>3. \A i \in 1..Len(Tail(q)) : i + 1 \in 1..Len(q) /\ 1 < i + 1 /\ 1 \in 1..Len(q)
    BY <1>1
<1>4. Rising(c, Tail(q))
  <2> SUFFICES ASSUME NEW i \in 1..Len(Tail(q)), NEW j \in 1..Len(Tail(q)), i < j,
                      Tail(q)[i] \in Surfaces, Tail(q)[j] \in Surfaces
               PROVE  c[Tail(q)[i]] < c[Tail(q)[j]]
    BY DEF Rising
  <2>1. i + 1 < j + 1
    OBVIOUS
  <2> QED  BY <1>1, <1>3, <2>1 DEF Rising
<1> QED  BY <1>1, <1>2, <1>3, <1>4 DEF Rising

(* ... a younger one is added,                                             *)
LEMMA RisingAppend ==
    ASSUME NEW c, NEW S, NEW q \in Seq(S), NEW x \in S, Rising(c, q),
           x \in Surfaces => \A s \in Range(q) \cap Surfaces : c[s] < c[x]
    PROVE  Rising(c, Append(q, x))
<1> DEFINE r == Append(q, x)
<1>1. /\ Len(q) \in Nat /\ Len(r) = Len(q) + 1
      /\ \A i \in 1..Len(q) : r[i] = q[i]
      /\ r[Len(q) + 1] = x
    BY AppendElements
<1>2. Range(q) = {q[i] : i \in 1..Len(q)}
    BY RangeEquality
<1> HIDE DEF r
<1> SUFFICES ASSUME NEW i \in 1..Len(r), NEW j \in 1..Len(r), i < j,
                    r[i] \in Surfaces, r[j] \in Surfaces
             PROVE  c[r[i]] < c[r[j]]
    BY DEF Rising, r
<1>3. i \in 1..Len(q)
    BY <1>1
<1>4. CASE j \in 1..Len(q)
    BY <1>1, <1>3, <1>4 DEF Rising
<1>5. CASE j = Len(q) + 1
  <2>1. r[j] = x /\ r[i] \in Range(q) \cap Surfaces
    BY <1>1, <1>2, <1>3, <1>5
  <2> QED  BY <2>1
<1> QED  BY <1>1, <1>4, <1>5

(* ... or one is taken out.                                                *)
LEMMA RisingRemove ==
    ASSUME NEW c, NEW q \in Seq(Surf0), NEW x, Rising(c, q)
    PROVE  Rising(c, RemoveFirst(q, x))
<1> DEFINE r == RemoveFirst(q, x)
<1> HIDE DEF r
<1>1. CASE x \notin Range(q)
    BY <1>1, RemoveFirstElements DEF r
<1>2. CASE x \in Range(q)
  <2>1. PICK k \in 1..Len(q) :
            /\ Len(r) = Len(q) - 1
            /\ \A i \in 1..Len(r) : r[i] = IF i < k THEN q[i] ELSE q[i + 1]
    BY <1>2, RemoveFirstElements DEF r
  <2>2. Len(q) \in Nat
    BY LenProperties
  <2> DEFINE at(i) == IF i < k THEN i ELSE i + 1
  <2>3. \A i \in 1..Len(r) : at(i) \in 1..Len(q) /\ r[i] = q[at(i)]
    BY <2>1, <2>2
  <2>4. \A i, j \in 1..Len(r) : i < j => at(i) < at(j)
    BY <2>1, <2>2
  <2> HIDE DEF at
  <2>5. Rising(c, r)
    BY <2>3, <2>4 DEF Rising
  <2> QED  BY <2>5 DEF r
<1> QED  BY <1>1, <1>2

----------------------------------------------------------------------------
(* The bitstreams of a session: those written, then those pending.         *)

Frames(w, q) == w \o [i \in 1..Len(q) |-> q[i].frame]

(* The elements of that sequence.                                          *)
LEMMA FramesElements ==
    ASSUME NEW w \in Seq(0..NumFrames), NEW q \in Seq(Bitstreams)
    PROVE  /\ Frames(w, q) \in Seq(0..NumFrames)
           /\ Len(Frames(w, q)) = Len(w) + Len(q) /\ Len(w) \in Nat /\ Len(q) \in Nat
           /\ \A i \in 1..Len(w) : Frames(w, q)[i] = w[i]
           /\ \A i \in 1..Len(q) : Frames(w, q)[Len(w) + i] = q[i].frame
<1> DEFINE p == [i \in 1..Len(q) |-> q[i].frame]
<1>1. \A i \in 1..Len(q) : q[i].frame \in 0..NumFrames
  <2>1. \A i \in 1..Len(q) : q[i] \in Bitstreams
    BY ElementOfSeq
  <2> QED  BY <2>1 DEF Bitstreams
<1>2. Len(w) \in Nat /\ Len(q) \in Nat
    BY LenProperties
<1>3. p \in Seq(0..NumFrames) /\ Len(p) = Len(q)
    BY <1>1, <1>2
<1>4. \A i \in 1..Len(q) : p[i] = q[i].frame
    OBVIOUS
<1> HIDE DEF p
<1>5. /\ w \o p \in Seq(0..NumFrames) /\ Len(w \o p) = Len(w) + Len(p)
      /\ \A i \in 1..(Len(w) + Len(p)) :
             (w \o p)[i] = IF i <= Len(w) THEN w[i] ELSE p[i - Len(w)]
    BY <1>3, ConcatProperties
<1>6. \A i \in 1..Len(w) : (w \o p)[i] = w[i]
    BY <1>2, <1>3, <1>5
<1>7. ASSUME NEW i \in 1..Len(q) PROVE (w \o p)[Len(w) + i] = q[i].frame
  <2>1. Len(w) + i \in 1..(Len(w) + Len(p)) /\ ~ (Len(w) + i <= Len(w))
        /\ (Len(w) + i) - Len(w) = i
    BY <1>2, <1>3
  <2> QED  BY <1>4, <1>5, <2>1
<1>8. Frames(w, q) = w \o p
    BY DEF Frames, p
<1> QED  BY <1>2, <1>3, <1>5, <1>6, <1>7, <1>8

(* What is left of it when its end is lost.                                *)
Cut(x, y) == Len(x) <= Len(y) /\ \A i \in 1..Len(x) : x[i] = y[i]

LEMMA CutInOrder ==
    ASSUME NEW x \in Seq(0..NumFrames), NEW y \in Seq(0..NumFrames), Cut(x, y), InOrder(y)
    PROVE  InOrder(x) /\ Range(x) \subseteq Range(y)
<1>1. /\ Len(x) \in Nat /\ Len(y) \in Nat /\ Len(x) <= Len(y)
      /\ \A i \in 1..Len(x) : x[i] = y[i]
      /\ Range(x) = {x[i] : i \in 1..Len(x)} /\ Range(y) = {y[i] : i \in 1..Len(y)}
    BY LenProperties, RangeEquality DEF Cut
<1>2. \A i \in 1..Len(x) : i \in 1..Len(y)
    BY <1>1
<1> QED  BY <1>1, <1>2 DEF InOrder

(* HandlePossibleGpuHang loses all pending bitstreams,                     *)
LEMMA FramesDropped ==
    ASSUME NEW w \in Seq(0..NumFrames), NEW q \in Seq(Bitstreams)
    PROVE  Cut(Frames(w, <<>>), Frames(w, q))
<1> DEFINE z == <<>>
<1>1. z \in Seq(Bitstreams) /\ Len(z) = 0
    BY EmptySeq
<1> HIDE DEF z
<1>2. /\ Len(Frames(w, z)) = Len(w) + 0 /\ Len(w) \in Nat
      /\ \A i \in 1..Len(w) : Frames(w, z)[i] = w[i]
    BY <1>1, FramesElements
<1>3. /\ Len(Frames(w, q)) = Len(w) + Len(q) /\ Len(q) \in Nat
      /\ \A i \in 1..Len(w) : Frames(w, q)[i] = w[i]
    BY FramesElements
<1>4. Cut(Frames(w, z), Frames(w, q))
    BY <1>2, <1>3 DEF Cut
<1> QED  BY <1>4 DEF z

(* ... PutBS writes the first one,                                         *)
LEMMA FramesWritten ==
    ASSUME NEW w \in Seq(0..NumFrames), NEW q \in Seq(Bitstreams), q # <<>>
    PROVE  /\ Append(w, Head(q).frame) \in Seq(0..NumFrames)
           /\ Cut(Frames(Append(w, Head(q).frame), Tail(q)), Frames(w, q))
<1> DEFINE f == Head(q).frame
           v == Append(w, f)
<1>1. /\ Head(q) = q[1] /\ Head(q) \in Bitstreams /\ Tail(q) \in Seq(Bitstreams)
      /\ Len(q) \in Nat \ {0} /\ Len(Tail(q)) = Len(q) - 1
      /\ \A i \in 1..Len(Tail(q)) : Tail(q)[i] = q[i + 1]
    BY TailElements
<1>2. f \in 0..NumFrames
    BY <1>1 DEF Bitstreams
<1>3. /\ v \in Seq(0..NumFrames) /\ Len(w) \in Nat /\ Len(v) = Len(w) + 1
      /\ \A i \in 1..Len(w) : v[i] = w[i]
      /\ v[Len(w) + 1] = f
    BY <1>2, AppendElements
<1>4. /\ Len(Frames(w, q)) = Len(w) + Len(q)
      /\ \A i \in 1..Len(w) : Frames(w, q)[i] = w[i]
      /\ \A i \in 1..Len(q) : Frames(w, q)[Len(w) + i] = q[i].frame
    BY FramesElements
<1>5. f = q[1].frame
    BY <1>1
<1> HIDE DEF v, f
<1>6. /\ Len(Frames(v, Tail(q))) = Len(v) + Len(Tail(q))
      /\ \A i \in 1..Len(v) : Frames(v, Tail(q))[i] = v[i]
      /\ \A i \in 1..Len(Tail(q)) : Frames(v, Tail(q))[Len(v) + i] = Tail(q)[i].frame
    BY <1>1, <1>3, FramesElements
<1>7. ASSUME NEW i \in 1..Len(v) PROVE v[i] = Frames(w, q)[i]
  <2>1. CASE i \in 1..Len(w)
    BY <2>1, <1>3, <1>4
  <2>2. CASE i = Len(w) + 1
    <3>1. 1 \in 1..Len(q)
      BY <1>1
    <3> QED  BY <2>2, <3>1, <1>3, <1>4, <1>5
  <2> QED  BY <2>1, <2>2, <1>3
<1>8. Cut(Frames(v, Tail(q)), Frames(w, q))
  <2>1. ASSUME NEW i \in 1..(Len(v) + Len(Tail(q)))
        PROVE  Frames(v, Tail(q))[i] = Frames(w, q)[i]
    <3>1. CASE i \in 1..Len(v)
      BY <3>1, <1>6, <1>7
    <3>2. CASE i \notin 1..Len(v)
      <4> DEFINE k == i - Len(v)
      <4>1. k \in 1..Len(Tail(q)) /\ i = Len(v) + k /\ i = Len(w) + (k + 1)
            /\ k + 1 \in 1..Len(q)
        BY <3>2, <1>1, <1>3
      <4> HIDE DEF k
      <4>2. Frames(v, Tail(q))[i] = Tail(q)[k].frame
        BY <4>1, <1>6
      <4>3. Frames(w, q)[i] = q[k + 1].frame
        BY <4>1, <1>4
      <4> QED  BY <4>1, <4>2, <4>3, <1>1
    <3> QED  BY <3>1, <3>2
  <2>2. Len(v) + Len(Tail(q)) <= Len(w) + Len(q)
    BY <1>1, <1>3
  <2> QED  BY <2>1, <2>2, <1>4, <1>6 DEF Cut
<1> QED  BY <1>3, <1>8 DEF v, f

(* A new bitstream adds its frame after the others.                        *)
LEMMA FramesGrow ==
    ASSUME NEW w \in Seq(0..NumFrames), NEW q \in Seq(Bitstreams), NEW b \in Bitstreams
    PROVE  LET x == Frames(w, q)
               y == Frames(w, Append(q, b))
           IN  /\ Len(x) \in Nat /\ Len(y) = Len(x) + 1 /\ y[Len(x) + 1] = b.frame
               /\ \A i \in 1..Len(x) : y[i] = x[i] /\ x[i] \in Range(x)
               /\ Range(y) = Range(x) \cup {b.frame}
<1> DEFINE r == Append(q, b)
           x == Frames(w, q)
           y == Frames(w, r)
<1>1. /\ r \in Seq(Bitstreams) /\ Len(q) \in Nat /\ Len(r) = Len(q) + 1
      /\ \A i \in 1..Len(q) : r[i] = q[i]
      /\ r[Len(q) + 1] = b
    BY AppendElements
<1>2. /\ x \in Seq(0..NumFrames) /\ Len(x) = Len(w) + Len(q) /\ Len(w) \in Nat
      /\ \A i \in 1..Len(w) : x[i] = w[i]
      /\ \A i \in 1..Len(q) : x[Len(w) + i] = q[i].frame
    BY FramesElements
<1> HIDE DEF r
<1>3. /\ y \in Seq(0..NumFrames) /\ Len(y) = Len(w) + Len(r)
      /\ \A i \in 1..Len(w) : y[i] = w[i]
      /\ \A i \in 1..Len(r) : y[Len(w) + i] = r[i].frame
    BY <1>1, FramesElements
<1> HIDE DEF x, y
<1>4. ASSUME NEW i \in 1..Len(x) PROVE y[i] = x[i]
  <2>1. CASE i \in 1..Len(w)
    BY <2>1, <1>2, <1>3
  <2>2. CASE i \notin 1..Len(w)
    <3> DEFINE k == i - Len(w)
    <3>1. k \in 1..Len(q) /\ k \in 1..Len(r) /\ i = Len(w) + k
      BY <2>2, <1>1, <1>2
    <3> HIDE DEF k
    <3> QED  BY <3>1, <1>1, <1>2, <1>3
  <2> QED  BY <2>1, <2>2
<1>5. Len(y) = Len(x) + 1 /\ Len(x) \in Nat /\ y[Len(x) + 1] = b.frame
  <2>1. Len(r) \in 1..Len(r) /\ Len(w) + Len(r) = Len(x) + 1 /\ r[Len(r)] = b
    BY <1>1, <1>2
  <2>2. y[Len(w) + Len(r)] = r[Len(r)].frame
    BY <2>1, <1>3
  <2>3. Len(y) = Len(x) + 1 /\ Len(x) \in Nat
    BY <1>1, <1>2, <1>3
  <2> QED  BY <2>1, <2>2, <2>3
<1>6. Range(x) = {x[i] : i \in 1..Len(x)} /\ Range(y) = {y[i] : i \in 1..Len(y)}
  <2>1. Range(x) = {x[i] : i \in 1..Len(x)}
    BY <1>2, RangeEquality
  <2>2. Range(y) = {y[i] : i \in 1..Len(y)}
    BY <1>3, RangeEquality
  <2> QED  BY <2>1, <2>2
<1>7. 1..Len(y) = (1..Len(x)) \cup {Len(x) + 1}
    BY <1>5
<1>8. Range(y) = Range(x) \cup {b.frame}
  <2>1. Range(y) \subseteq Range(x) \cup {b.frame}
    BY <1>4, <1>5, <1>6, <1>7
  <2>2. \A i \in 1..Len(x) : i \in 1..Len(y) /\ y[i] = x[i]
    BY <1>4, <1>7
  <2>3. Range(x) \subseteq Range(y)
    BY <1>6, <2>2
  <2>4. b.frame \in Range(y)
    BY <1>5, <1>6, <1>7
  <2> QED  BY <2>1, <2>3, <2>4
<1> QED  BY <1>4, <1>5, <1>6, <1>8 DEF x, y, r

(* ... and EncodeOneFrame adds one at the end, which keeps the order when  *)
(* it is younger or of a failed call.                                      *)
LEMMA FramesAdded ==
    ASSUME NEW w \in Seq(0..NumFrames), NEW q \in Seq(Bitstreams), NEW b \in Bitstreams,
           InOrder(Frames(w, q)),
           b.frame # 0 => \A f \in Range(Frames(w, q)) : f # 0 => f < b.frame
    PROVE  /\ InOrder(Frames(w, Append(q, b)))
           /\ Range(Frames(w, Append(q, b))) \subseteq Range(Frames(w, q)) \cup {b.frame}
<1> DEFINE x == Frames(w, q)
           y == Frames(w, Append(q, b))
<1>1. /\ Len(x) \in Nat /\ Len(y) = Len(x) + 1 /\ y[Len(x) + 1] = b.frame
      /\ \A i \in 1..Len(x) : y[i] = x[i] /\ x[i] \in Range(x)
      /\ Range(y) = Range(x) \cup {b.frame}
    BY FramesGrow
<1>2. InOrder(x) /\ (b.frame # 0 => \A f \in Range(x) : f # 0 => f < b.frame)
    OBVIOUS
<1> HIDE DEF x, y
<1>3. InOrder(y)
  <2> SUFFICES ASSUME NEW i \in 1..Len(y), NEW j \in 1..Len(y), i < j, y[i] # 0, y[j] # 0
               PROVE  y[i] < y[j]
    BY DEF InOrder
  <2>1. i \in 1..Len(x) /\ (j \in 1..Len(x) \/ j = Len(x) + 1)
    BY <1>1
  <2>2. CASE j \in 1..Len(x)
    BY <2>1, <2>2, <1>1, <1>2 DEF InOrder
  <2>3. CASE j = Len(x) + 1
    BY <2>1, <2>3, <1>1, <1>2
  <2> QED  BY <2>1, <2>2, <2>3
<1> QED  BY <1>1, <1>3 DEF x, y

----------------------------------------------------------------------------
(* The steps of session e keep its frames in turn.                         *)

LEMMA FramesAre ==
    ASSUME NEW e
    PROVE  /\ EncodedFrames(e) = Frames(written[e], m_BSPool[e])
           /\ EncodedFrames(e)' = Frames(written'[e], m_BSPool'[e])
           /\ Out(e) = {f \in Range(Frames(written[e], m_BSPool[e])) : f # 0}
           /\ Out(e)' = {f \in Range(Frames(written'[e], m_BSPool'[e])) : f # 0}
BY DEF EncodedFrames, Frames, Out

(* What there is before a step of session e.                               *)
LEMMA SessionFacts ==
    ASSUME Typed, NEW e \in Encoders
    PROVE  /\ m_SList \in [Encoders -> Seq(Surf0)] /\ m_SList[e] \in Seq(Surf0)
           /\ encLib \in [Encoders -> Seq(Surfaces)] /\ encLib[e] \in Seq(Surfaces)
           /\ encHold \in [Encoders -> SUBSET Surfaces]
           /\ m_BSPool \in [Encoders -> Seq(Bitstreams)] /\ m_BSPool[e] \in Seq(Bitstreams)
           /\ written \in [Encoders -> Seq(0..NumFrames)]
           /\ written[e] \in Seq(0..NumFrames)
           /\ eSurf \in [Encoders -> Surf0]
           /\ freeBS \in [Encoders -> SUBSET (1..AsyncDepth)]
           /\ Frames(written[e], m_BSPool[e]) \in Seq(0..NumFrames)
<1>1. m_BSPool[e] \in Seq(Bitstreams) /\ written[e] \in Seq(0..NumFrames)
    BY DEF Typed, BitstreamTypes, Bitstreams
<1> QED  BY <1>1, FramesElements
         DEF Typed, BufferTypes, BitstreamTypes, EncoderTypes, HolderTypes, Bitstreams

(* A step that changes at most the bitstreams, to a part of what they      *)
(* were, and what the session does with the queue.                         *)
LEMMA PartKept ==
    ASSUME Typed, NEW e \in Encoders, InTurn(e), OtherThreads,
           \/ UNCHANGED <<written[e], m_BSPool[e]>>
           \/ /\ written'[e] \in Seq(0..NumFrames) /\ m_BSPool'[e] \in Seq(Bitstreams)
              /\ Cut(Frames(written'[e], m_BSPool'[e]), Frames(written[e], m_BSPool[e])),
           epc'[e] # "done" =>
               /\ epc[e] # "done" /\ UNCHANGED encLib[e]
               /\ Range(encLib[e]) \subseteq encHold'[e]
               /\ Rising(content, m_SList'[e])
               /\ Range(m_SList'[e]) \subseteq Range(m_SList[e])
               /\ Queued(e)' \subseteq Queued(e)
               /\ epc'[e] \in {"encode", "release"} /\ eSurf'[e] \in Surfaces
                      => m_SList'[e] # <<>> /\ eSurf'[e] = Head(m_SList'[e])
    PROVE  InTurn(e)'
<1>0. InOrder(Frames(written[e], m_BSPool[e]))
    BY FramesAre DEF InTurn
<1>1. /\ InOrder(Frames(written'[e], m_BSPool'[e]))
      /\ Range(Frames(written'[e], m_BSPool'[e])) \subseteq Range(Frames(written[e], m_BSPool[e]))
  <2>1. CASE UNCHANGED <<written[e], m_BSPool[e]>>
    BY <1>0, <2>1
  <2>2. CASE /\ written'[e] \in Seq(0..NumFrames) /\ m_BSPool'[e] \in Seq(Bitstreams)
             /\ Cut(Frames(written'[e], m_BSPool'[e]), Frames(written[e], m_BSPool[e]))
    <3>1. Frames(written'[e], m_BSPool'[e]) \in Seq(0..NumFrames)
      BY <2>2, FramesElements
    <3>2. Frames(written[e], m_BSPool[e]) \in Seq(0..NumFrames)
      BY SessionFacts
    <3> QED  BY <1>0, <2>2, <3>1, <3>2, CutInOrder
  <2> QED  BY <2>1, <2>2
<1>2. InOrder(EncodedFrames(e))' /\ Out(e)' \subseteq Out(e)
  <2>1. Out(e)' \subseteq Out(e)
    BY <1>1, FramesAre
  <2>2. InOrder(EncodedFrames(e)')
    BY <1>1, FramesAre
  <2> QED  BY <2>1, <2>2 DEF InOrder
<1>3. CASE epc'[e] # "done"
  <2>1. epc[e] # "done"
    BY <1>3
  <2>2. /\ UNCHANGED <<content, decLib, dSurf, dIdx, dpc, nInput>>
    BY DEF OtherThreads, decVars
  <2>3. Coming(e)' = Coming(e) /\ InDecoder' = InDecoder
    BY <2>2 DEF Coming, InDecoder, ToBeAdded
  <2>4. InEncoder(e)' = InEncoder(e) /\ Waiting(e)' \subseteq Waiting(e)
    BY <1>3, <2>2 DEF InEncoder, Waiting
  <2>5. /\ InLine(Out(e), InEncoder(e), Waiting(e), Coming(e), InDecoder)
        /\ InLine({}, {}, InQueue(e), Coming(e), InDecoder)
        /\ \A f \in Out(e) : f <= nInput
        /\ Rising(content, encLib[e])
    BY <2>1 DEF InTurn
  <2>6. InLine(Out(e)', InEncoder(e)', Waiting(e)', Coming(e)', InDecoder')
    BY <1>2, <2>3, <2>4, <2>5, LineShrinks
  <2>7. InLine(Out(e), InEncoder(e), Waiting(e), Coming(e), InDecoder)'
    BY <2>6 DEF InLine, Below
  <2>9. InLine({}, {}, InQueue(e), Coming(e), InDecoder)'
    <3>1. InQueue(e)' \subseteq InQueue(e)
      BY <1>3, <2>2 DEF InQueue
    <3>2. InLine({}, {}, InQueue(e)', Coming(e)', InDecoder')
      BY <2>3, <2>5, <3>1, LineShrinks
    <3> QED  BY <3>2 DEF InLine, Below
  <2>8. Rising(content, encLib[e])' /\ Rising(content, m_SList[e])'
    BY <1>3, <2>2, <2>5 DEF Rising
  <2> QED  BY <1>2, <1>3, <2>2, <2>5, <2>7, <2>8, <2>9 DEF InTurn
<1>4. CASE epc'[e] = "done"
    BY <1>2, <1>4 DEF InTurn
<1> QED  BY <1>3, <1>4

(* EncodeOneFrame submits the oldest surface of the queue, and the encoder *)
(* outputs its oldest frame.                                               *)
LEMMA EncodeInTurn ==
    ASSUME Typed, DecodedInOrder, NEW e \in Encoders, InTurn(e), EncodeOneFrame(e)
    PROVE  InTurn(e)'
<1> DEFINE s == Submitted(e)
           lib == IF s = NoSurface THEN encLib[e] ELSE Append(encLib[e], s)
           A == Out(e)
           B == InEncoder(e)
           C == Waiting(e)
           D == Coming(e)
           E == InDecoder
           F == Frames(written[e], m_BSPool[e])
           LibFrames == {content[u] : u \in Range(lib)}
           Rest == {content[u] : u \in Queued(e)'}
\* before the step
<1>1. /\ epc[e] = "encode" /\ OtherThreads /\ UNCHANGED <<bufVars, eSurf, written>>
      /\ UNCHANGED <<content, decLib, dSurf, dIdx, dpc, nInput, m_SList>>
    BY DEF EncodeOneFrame, OtherThreads, decVars, bufVars
<1>2. /\ m_SList[e] \in Seq(Surf0) /\ encLib[e] \in Seq(Surfaces)
      /\ encHold \in [Encoders -> SUBSET Surfaces]
      /\ m_BSPool[e] \in Seq(Bitstreams) /\ written[e] \in Seq(0..NumFrames)
      /\ F \in Seq(0..NumFrames) /\ eSurf[e] \in Surf0
      /\ m_BSPool \in [Encoders -> Seq(Bitstreams)]
      /\ encLib \in [Encoders -> Seq(Surfaces)]
      /\ freeBS \in [Encoders -> SUBSET (1..AsyncDepth)]
    BY SessionFacts
<1>3. /\ content \in [Surfaces -> 0..NumFrames] /\ EncoderTypes
    BY DEF Typed, HolderTypes
<1>4. /\ InOrder(F) /\ InLine(A, B, C, D, E) /\ (\A f \in A : f <= nInput)
      /\ Range(encLib[e]) \subseteq encHold[e]
      /\ Rising(content, encLib[e]) /\ Rising(content, m_SList[e])
      /\ eSurf[e] \in Surfaces => m_SList[e] # <<>> /\ eSurf[e] = Head(m_SList[e])
    BY <1>1, FramesAre DEF InTurn
\* the surface is the oldest of the queue
<1>5. epc'[e] = "release" /\ Queued(e)' = {u \in Range(m_SList[e]) \cap Surfaces : u # eSurf[e]}
  <2>1. epc'[e] = "release"
    BY <1>1, <1>3 DEF EncodeOneFrame, ReleaseThen, Goto, EncoderTypes
  <2> QED  BY <1>1, <2>1 DEF Queued
<1>6. Rest \subseteq C
    BY <1>1, <1>5 DEF Waiting, Queued
<1>7. ASSUME s \in Surfaces
      PROVE  /\ s = eSurf[e] /\ content[s] \in C
             /\ \A f \in Rest : content[s] < f
  <2>1. s = eSurf[e] /\ s = Head(m_SList[e]) /\ m_SList[e] # <<>>
    BY <1>4, <1>7, ConstantFacts DEF Submitted
  <2>2. /\ Range(m_SList[e]) = Range(Tail(m_SList[e])) \cup {s}
        /\ \A u \in Range(Tail(m_SList[e])) \cap Surfaces : content[s] < content[u]
    BY ZenonT(60), <1>2, <1>4, <1>7, <2>1, TailElements, RisingTail
  <2>3. content[s] \in C
    BY <1>1, <1>7, <2>2 DEF Waiting, Queued
  <2>4. \A u \in Queued(e)' : u \in Range(Tail(m_SList[e])) \cap Surfaces
    BY <1>5, <2>1, <2>2
  <2> QED  BY <2>1, <2>2, <2>3, <2>4
<1>8. s = NoSurface \/ s \in Surfaces
    BY <1>2 DEF Submitted, Surf0
\* what the encoder has with it
<1>9. /\ lib \in Seq(Surfaces)
      /\ Range(lib) = IF s = NoSurface THEN Range(encLib[e]) ELSE Range(encLib[e]) \cup {s}
  <2>1. CASE s = NoSurface
    BY <1>2, <2>1
  <2>2. CASE s # NoSurface
    BY <1>2, <1>8, <2>2, AppendElements
  <2> QED  BY <2>1, <2>2
<1>10. Rising(content, lib)
  <2>1. CASE s = NoSurface
    BY <1>4, <2>1
  <2>2. CASE s # NoSurface
    <3>1. \A u \in Range(encLib[e]) \cap Surfaces : content[u] < content[s]
      BY <1>4, <1>7, <1>8, <2>2 DEF InLine, Below, InEncoder
    <3>2. Rising(content, Append(encLib[e], s))
      BY <1>2, <1>4, <1>8, <2>2, <3>1, RisingAppend
    <3> QED  BY <2>2, <3>2
  <2> QED  BY <2>1, <2>2
<1> HIDE DEF lib, s, F
<1>11. InLine(A, LibFrames, Rest, D, E)
  <2>1. CASE s = NoSurface
    <3>1. LibFrames = B
      BY <1>9, <2>1 DEF InEncoder
    <3> HIDE DEF A, B, C, D, E, Rest, LibFrames
    <3> QED  BY <1>4, <1>6, <3>1, LineShrinks
  <2>2. CASE s # NoSurface
    <3>1. LibFrames \subseteq B \cup {content[s]}
      BY <1>9, <2>2 DEF InEncoder
    <3> HIDE DEF A, B, C, D, E, Rest, LibFrames
    <3> QED  BY <1>4, <1>6, <1>7, <1>8, <2>2, <3>1, LineSubmitted
  <2> QED  BY <2>1, <2>2
<1>12. (\A f \in A : \A g \in LibFrames : f < g) /\ D' = D /\ E' = E
  <2>1. D' = D /\ E' = E
    BY <1>1 DEF Coming, InDecoder, ToBeAdded
  <2>2. \A f \in A : \A g \in LibFrames : f < g
    BY <1>11 DEF InLine, Below
  <2> QED  BY <2>1, <2>2
<1>13. Rest = Waiting(e)'
    BY <1>1 DEF Waiting
\* what is left to show
<1>14. ASSUME InOrder(Frames(written'[e], m_BSPool'[e])),
              \A f \in Out(e)' : f <= nInput,
              Range(encLib'[e]) \subseteq encHold'[e], Rising(content, encLib'[e]),
              InLine(Out(e)', InEncoder(e)', Rest, D, E)
       PROVE  InTurn(e)'
  <2>1. InOrder(EncodedFrames(e))'
    <3>1. EncodedFrames(e)' = Frames(written'[e], m_BSPool'[e])
      BY FramesAre
    <3> QED  BY <1>14, <3>1 DEF InOrder
  <2>2. InLine(Out(e), InEncoder(e), Waiting(e), Coming(e), InDecoder)'
    <3>1. InLine(Out(e)', InEncoder(e)', Waiting(e)', Coming(e)', InDecoder')
      BY <1>12, <1>13, <1>14
    <3> QED  BY <3>1 DEF InLine, Below
  <2>3. Rising(content, encLib[e])' /\ Rising(content, m_SList[e])'
    BY <1>1, <1>4, <1>14 DEF Rising
  <2>4. InLine({}, {}, InQueue(e), Coming(e), InDecoder)'
    <3>1. InLine({}, {}, InQueue(e), Coming(e), InDecoder)
      BY <1>1 DEF InTurn
    <3>2. InQueue(e)' = InQueue(e)
      BY <1>1 DEF InQueue
    <3>3. InLine({}, {}, InQueue(e)', Coming(e)', InDecoder')
      BY <1>12, <3>1, <3>2
    <3> QED  BY <3>3 DEF InLine, Below
  <2> QED  BY <1>1, <1>4, <1>14, <2>1, <2>2, <2>3, <2>4 DEF InTurn
\* the input is locked
<1>15. ASSUME LockInput(e, s) PROVE Range(lib) \subseteq encHold'[e]
    BY <1>2, <1>4, <1>9, <1>15 DEF LockInput
\* the three outcomes
<1>16. PICK bs \in freeBS[e] :
          \/ /\ lib # <<>> /\ LockInput(e, s)
             /\ encLib' = [encLib EXCEPT ![e] = Tail(lib)]
             /\ m_BSPool' = [m_BSPool EXCEPT ![e] =
                    Append(@, [id |-> bs, frame |-> content[Head(lib)]])]
          \/ /\ LockInput(e, s)
             /\ encLib' = [encLib EXCEPT ![e] = lib]
             /\ UNCHANGED m_BSPool
          \/ /\ m_BSPool' = [m_BSPool EXCEPT ![e] =
                    Append(@, [id |-> bs, frame |-> 0])]
             /\ UNCHANGED <<encHold, encLib>>
    BY DEF EncodeOneFrame, lib, s
<1>17. bs \in 1..AsyncDepth /\ 0 \in 0..NumFrames /\ written'[e] = written[e]
    BY <1>1, <1>2, ConstantFacts
<1>18. CASE /\ lib # <<>> /\ LockInput(e, s)
            /\ encLib' = [encLib EXCEPT ![e] = Tail(lib)]
            /\ m_BSPool' = [m_BSPool EXCEPT ![e] =
                   Append(@, [id |-> bs, frame |-> content[Head(lib)]])]
  <2> DEFINE x == content[Head(lib)]
             b == [id |-> bs, frame |-> x]
  <2>1. /\ Head(lib) \in Surfaces /\ Range(lib) = Range(Tail(lib)) \cup {Head(lib)}
        /\ Tail(lib) \in Seq(Surfaces)
    BY <1>9, <1>18, TailElements
  <2>2. Rising(content, Tail(lib)) /\ \A u \in Range(Tail(lib)) : x < content[u]
    <3>1. lib \in Seq(Surf0)
      BY <1>9, SeqMonotonic DEF Surf0
    <3>2. \A u \in Range(Tail(lib)) : u \in Surfaces
      BY <2>1, ElementOfSeq, RangeEquality
    <3> QED  BY <1>10, <1>18, <2>1, <3>1, <3>2, RisingTail
  <2>3. encLib'[e] = Tail(lib) /\ m_BSPool'[e] = Append(m_BSPool[e], b)
    BY <1>2, <1>18
  <2>4. x \in LibFrames /\ x \in 0..NumFrames
    BY <1>3, <2>1
  <2>5. b \in Bitstreams /\ b.frame = x
    BY <1>17, <2>4 DEF Bitstreams
  <2>6. \A f \in Range(F) : f # 0 => f < x
    BY <1>12, <2>4, FramesAre DEF F
  <2> HIDE DEF x, b
  <2>7. /\ InOrder(Frames(written'[e], m_BSPool'[e]))
        /\ Range(Frames(written'[e], m_BSPool'[e])) \subseteq Range(F) \cup {x}
    BY <1>2, <1>4, <1>17, <2>3, <2>5, <2>6, FramesAdded DEF F
  <2>8. Out(e)' \subseteq A \cup {x}
    BY <2>7, FramesAre DEF F
  <2>9. InEncoder(e)' \subseteq LibFrames /\ \A y \in InEncoder(e)' : x < y
    BY <1>1, <2>1, <2>2, <2>3 DEF InEncoder
  <2>10. Range(encLib'[e]) \subseteq encHold'[e]
    BY <1>15, <1>18, <2>1, <2>3
  <2> HIDE DEF LibFrames, A, D, E, Rest
  <2>11. InLine(Out(e)', InEncoder(e)', Rest, D, E)
    BY <1>11, <2>4, <2>8, <2>9, LineEncoded
  <2>12. x <= nInput
    BY <2>1 DEF DecodedInOrder, x
  <2> QED  BY <1>4, <1>14, <2>2, <2>3, <2>7, <2>8, <2>10, <2>11, <2>12
<1>19. CASE /\ LockInput(e, s)
            /\ encLib' = [encLib EXCEPT ![e] = lib]
            /\ UNCHANGED m_BSPool
  <2>1. encLib'[e] = lib /\ m_BSPool'[e] = m_BSPool[e]
    BY <1>2, <1>19
  <2>2. Out(e)' = A /\ InOrder(Frames(written'[e], m_BSPool'[e]))
    BY <1>4, <1>17, <2>1, FramesAre DEF F
  <2>3. InEncoder(e)' = LibFrames
    BY <1>1, <2>1 DEF InEncoder
  <2> HIDE DEF LibFrames, A, D, E, Rest
  <2> QED  BY <1>4, <1>10, <1>11, <1>14, <1>15, <1>19, <2>1, <2>2, <2>3
<1>20. CASE /\ m_BSPool' = [m_BSPool EXCEPT ![e] =
                   Append(@, [id |-> bs, frame |-> 0])]
            /\ UNCHANGED <<encHold, encLib>>
  <2> DEFINE b == [id |-> bs, frame |-> 0]
  <2>1. b \in Bitstreams /\ b.frame = 0 /\ m_BSPool'[e] = Append(m_BSPool[e], b)
    BY <1>2, <1>17, <1>20 DEF Bitstreams
  <2> HIDE DEF b
  <2>2. /\ InOrder(Frames(written'[e], m_BSPool'[e]))
        /\ Range(Frames(written'[e], m_BSPool'[e])) \subseteq Range(F) \cup {0}
    BY <1>2, <1>4, <1>17, <2>1, FramesAdded DEF F
  <2>3. Out(e)' \subseteq A
    BY <2>2, FramesAre DEF F
  <2>4. InEncoder(e)' = B
    BY <1>1, <1>20 DEF InEncoder
  <2> HIDE DEF A, B, C, D, E, Rest
  <2>5. InLine(Out(e)', InEncoder(e)', Rest, D, E)
    BY <1>4, <1>6, <2>3, <2>4, LineShrinks
  <2> QED  BY <1>4, <1>14, <1>20, <2>2, <2>3, <2>5
<1> QED  BY <1>16, <1>18, <1>19, <1>20

(* Every other step of session e.                                          *)
LEMMA SessionInTurn ==
    ASSUME Typed, EncoderOwnership, DecodedInOrder, NEW e \in Encoders, InTurn(e),
           EncodeSession(e) \/ EncoderUnlocks(e)
    PROVE  InTurn(e)'
<1> DEFINE Bits == \/ UNCHANGED <<written[e], m_BSPool[e]>>
                   \/ /\ written'[e] \in Seq(0..NumFrames) /\ m_BSPool'[e] \in Seq(Bitstreams)
                      /\ Cut(Frames(written'[e], m_BSPool'[e]), Frames(written[e], m_BSPool[e]))
<1>1. /\ m_SList \in [Encoders -> Seq(Surf0)] /\ m_SList[e] \in Seq(Surf0)
      /\ encHold \in [Encoders -> SUBSET Surfaces]
      /\ m_BSPool[e] \in Seq(Bitstreams) /\ written[e] \in Seq(0..NumFrames)
      /\ m_BSPool \in [Encoders -> Seq(Bitstreams)]
      /\ written \in [Encoders -> Seq(0..NumFrames)]
      /\ eSurf \in [Encoders -> Surf0] /\ EncoderTypes
    BY SessionFacts DEF Typed
<1>2. OtherThreads
    BY EncodeFrame DEF EncoderUnlocks
<1>3. epc[e] # "done" =>
          /\ Range(encLib[e]) \subseteq encHold[e] /\ Rising(content, m_SList[e])
          /\ epc[e] \in {"encode", "release"} /\ eSurf[e] \in Surfaces
                => m_SList[e] # <<>> /\ eSurf[e] = Head(m_SList[e])
    BY DEF InTurn
<1>4. ASSUME Bits,
             epc'[e] # "done" =>
                /\ epc[e] # "done" /\ UNCHANGED <<encLib[e], encHold[e], m_SList[e]>>
                /\ epc[e] = "release" => epc'[e] = "release" /\ eSurf'[e] = eSurf[e]
                /\ epc'[e] \in {"encode", "release"} /\ eSurf'[e] \in Surfaces
                      => m_SList[e] # <<>> /\ eSurf'[e] = Head(m_SList[e])
      PROVE  InTurn(e)'
  <2>1. epc'[e] # "done" => Queued(e)' \subseteq Queued(e)
    BY <1>4 DEF Queued
  <2> HIDE DEF Queued
  <2> QED  BY <1>2, <1>3, <1>4, <2>1, PartKept
\* the pending bitstreams are lost
<1>5. DropPendingBitstreams(e) /\ UNCHANGED written[e] => Bits
  <2>1. ASSUME DropPendingBitstreams(e), UNCHANGED written[e] PROVE Bits
    <3>1. m_BSPool'[e] = <<>> /\ m_BSPool'[e] \in Seq(Bitstreams)
      BY <1>1, <2>1, EmptySeq DEF DropPendingBitstreams
    <3>2. Cut(Frames(written[e], <<>>), Frames(written[e], m_BSPool[e]))
      BY <1>1, FramesDropped
    <3> QED  BY <1>1, <2>1, <3>1, <3>2
  <2> QED  BY <2>1
<1>6. ASSUME GetSurface(e) PROVE InTurn(e)'
  <2>1. /\ UNCHANGED <<m_SList, encLib, encHold, written>> /\ epc[e] = "get"
    BY <1>6 DEF GetSurface, bufVars
  <2>2. Bits
    <3>1. DropPendingBitstreams(e) \/ UNCHANGED m_BSPool
      BY <1>6 DEF GetSurface, SyncInput
    <3> HIDE DEF Bits
    <3>2. UNCHANGED m_BSPool => Bits
      BY <2>1 DEF Bits
    <3> QED  BY <1>5, <2>1, <3>1, <3>2
  <2>3. /\ epc'[e] \in {"encode", "wait", "done"}
        /\ epc'[e] = "encode" =>
              eSurf'[e] = NoSurface \/ (m_SList[e] # <<>> /\ eSurf'[e] = Head(m_SList[e]))
    BY <1>1, <1>6 DEF GetSurface, EndEncode, Goto, FrontSurface, EncoderTypes
  <2> HIDE DEF Bits
  <2> QED  BY <1>4, <2>1, <2>2, <2>3, ConstantFacts
<1>7. ASSUME WaitForSurfaceInsertion(e) \/ WaitReturns(e) \/ WaitTimesOut(e)
      PROVE  InTurn(e)'
  <2>1. /\ UNCHANGED <<m_SList, encLib, encHold, written, m_BSPool, eSurf>>
        /\ epc[e] \in {"wait", "blocked"} /\ epc'[e] \in {"get", "blocked", "wait", "done"}
    BY <1>1, <1>7 DEF WaitForSurfaceInsertion, WaitReturns, WaitTimesOut, WaitFrame,
       encData, EndEncode, Goto, EncoderTypes
  <2> QED  BY <1>4, <2>1
<1>8. ASSUME ReleaseSurface(e) PROVE InTurn(e)'
  <2>1. /\ UNCHANGED <<encLib, encHold, written, m_BSPool>> /\ epc[e] = "release"
        /\ epc'[e] \notin {"encode", "release"}
        /\ m_SList'[e] = RemoveFirst(m_SList[e], eSurf[e])
    BY <1>1, <1>8 DEF ReleaseSurface, encData, EndEncode, Goto, EncoderTypes
  <2>2. Rising(content, m_SList'[e])
    BY <1>1, <1>3, <2>1, RisingRemove
  <2>3. Range(m_SList'[e]) \cap Surfaces = (Range(m_SList[e]) \cap Surfaces) \ {eSurf[e]}
    BY <1>1, <2>1, RemoveFirstOnce DEF EncoderOwnership
  <2>4. Queued(e)' \subseteq Queued(e)
    BY <2>1, <2>3 DEF Queued
  <2>5. Range(m_SList'[e]) \subseteq Range(m_SList[e])
    BY <1>1, <2>1, RemoveFirstRange
  <2> HIDE DEF Queued
  <2> QED  BY <1>2, <1>3, <2>1, <2>2, <2>4, <2>5, PartKept
<1>9. ASSUME PutBS(e) PROVE InTurn(e)'
  <2>1. /\ UNCHANGED <<m_SList, encLib, encHold, eSurf>> /\ epc[e] \in {"put", "flush"}
        /\ epc'[e] \in {"get", "flush", "done"} /\ m_BSPool[e] # <<>>
    BY <1>1, <1>9 DEF PutBS, bufVars, EndEncode, Goto, EncoderTypes, Typed
  <2>2. Bits
    <3> DEFINE v == Append(written[e], Head(m_BSPool[e]).frame)
    <3>1. /\ v \in Seq(0..NumFrames)
          /\ Cut(Frames(v, Tail(m_BSPool[e])), Frames(written[e], m_BSPool[e]))
      BY <1>1, <2>1, FramesWritten
    <3>2. Tail(m_BSPool[e]) \in Seq(Bitstreams)
      BY <1>1, <2>1, TailElements
    <3>3. \/ written'[e] = v /\ m_BSPool'[e] = Tail(m_BSPool[e])
          \/ DropPendingBitstreams(e) /\ UNCHANGED written[e]
          \/ UNCHANGED <<written[e], m_BSPool[e]>>
      BY <1>1, <1>9 DEF PutBS
    <3>4. CASE DropPendingBitstreams(e) /\ UNCHANGED written[e]
      BY <1>5, <3>4
    <3> HIDE DEF v
    <3> QED  BY <3>1, <3>2, <3>3, <3>4
  <2> HIDE DEF Bits
  <2> QED  BY <1>4, <2>1, <2>2
<1>10. ASSUME CancelBuffering(e) PROVE InTurn(e)'
  <2>1. /\ UNCHANGED <<m_SList, encLib, encHold, written, m_BSPool, eSurf>>
        /\ epc[e] = "flush" /\ epc'[e] = "drain"
    BY <1>1, <1>10 DEF CancelBuffering, encData, Goto, EncoderTypes
  <2> QED  BY <1>4, <2>1
<1>11. ASSUME DrainSurface(e) PROVE InTurn(e)'
  <2>1. /\ UNCHANGED <<m_SList, encLib, encHold, written, m_BSPool>>
        /\ epc[e] = "drain" /\ m_SList[e] # <<>> /\ eSurf'[e] = Head(m_SList[e])
    BY <1>1, <1>11 DEF DrainSurface, bufVars, encData, FrontSurface, EncoderTypes
  <2> QED  BY <1>4, <2>1
<1>12. ASSUME CloseEncoder(e) PROVE InTurn(e)'
  <2>1. UNCHANGED <<written, m_BSPool>> /\ epc'[e] = "done"
    BY <1>1, <1>12 DEF CloseEncoder, encData, EndEncode, Goto, EncoderTypes
  <2> QED  BY <1>4, <2>1
<1>13. ASSUME EncoderUnlocks(e) PROVE InTurn(e)'
  <2>1. UNCHANGED <<m_SList, encLib, written, m_BSPool, epc, eSurf>>
    BY <1>13 DEF EncoderUnlocks, bufVars, encVars, encData
  <2>2. Range(encLib[e]) \subseteq encHold[e] => Range(encLib[e]) \subseteq encHold'[e]
    BY <1>1, <1>13 DEF EncoderUnlocks
  <2>3. Queued(e)' = Queued(e)
    BY <2>1 DEF Queued
  <2> HIDE DEF Queued
  <2> QED  BY <1>2, <1>3, <2>1, <2>2, <2>3, PartKept
<1> QED  BY <1>6, <1>7, <1>8, <1>9, <1>10, <1>11, <1>12, <1>13, EncodeInTurn
         DEF EncodeSession

----------------------------------------------------------------------------
(* The steps of the decoder keep the frames of session e in turn.          *)

(* A new frame is younger than all others, and is written into a surface   *)
(* that has no place in the line.                                          *)
NewFrame ==
    /\ DecodeOneFrame /\ nInput' = nInput + 1
    /\ content' = [content EXCEPT ![dSurf] = nInput + 1]
    /\ DecoderReturns(Append(decLib, dSurf))

LEMMA NewFrameFacts ==
    ASSUME IInv, DecodedInOrder, NewFrame
    PROVE  /\ \A s \in Surfaces : s # dSurf => content'[s] = content[s]
           /\ \A s \in Surfaces : content[s] < nInput + 1 /\ content'[s] <= nInput'
           /\ \A e \in Encoders : dSurf \notin Range(m_SList[e]) /\ dSurf \notin encHold[e]
           /\ Append(decLib, dSurf) \in Seq(Surfaces)
           /\ Rising(content', Append(decLib, dSurf))
           /\ {content'[s] : s \in Range(Append(decLib, dSurf))} = InDecoder \cup {nInput + 1}
<1>1. /\ decLib \in Seq(Surfaces) /\ nInput \in Nat /\ dpc = "decode" /\ dSurf \in Surfaces
      /\ content \in [Surfaces -> 0..NumFrames]
    BY ConstantFacts DEF IInv, Typed, HolderTypes, DecoderTypes, NewFrame, DecodeOneFrame
<1>2. /\ dSurf \notin decHold /\ (\A s \in Range(decLib) : s \in decHold)
      /\ \A e \in Encoders : dSurf \notin Range(m_SList[e]) /\ dSurf \notin encHold[e]
    BY <1>1 DEF IInv, DecoderOwnership, NotPassedOn
<1>3. /\ content'[dSurf] = nInput + 1
      /\ \A s \in Surfaces : s # dSurf => content'[s] = content[s]
    BY <1>1 DEF NewFrame
<1>4. \A s \in Surfaces : content[s] < nInput + 1 /\ content'[s] <= nInput'
  <2> SUFFICES ASSUME NEW s \in Surfaces
               PROVE  content[s] < nInput + 1 /\ content'[s] <= nInput'
    OBVIOUS
  <2>1. content[s] <= nInput /\ content[s] \in Int /\ nInput' = nInput + 1
    BY <1>1 DEF DecodedInOrder, NewFrame
  <2> QED  BY <1>1, <1>3, <2>1
<1>5. dSurf \notin Range(decLib) /\ \A s \in Range(decLib) : s \in Surfaces
  <2>1. Range(decLib) = {decLib[i] : i \in 1..Len(decLib)}
    BY <1>1, RangeEquality
  <2> QED  BY <1>1, <1>2, <2>1, ElementOfSeq
<1>6. /\ Append(decLib, dSurf) \in Seq(Surfaces)
      /\ Range(Append(decLib, dSurf)) = Range(decLib) \cup {dSurf}
    BY <1>1, AppendElements
<1>7. Rising(content', decLib)
  <2>1. \A i \in 1..Len(decLib) : decLib[i] \in Range(decLib)
    BY <1>1, RangeEquality
  <2>2. \A i \in 1..Len(decLib) : content'[decLib[i]] = content[decLib[i]]
    BY <1>3, <1>5, <2>1
  <2> QED  BY <2>2 DEF DecodedInOrder, Rising
<1>8. Rising(content', Append(decLib, dSurf))
  <2> DEFINE c == content'
  <2>1. \A s \in Range(decLib) \cap Surfaces : c[s] < c[dSurf]
    BY <1>3, <1>4, <1>5
  <2>2. Rising(c, decLib)
    BY <1>7
  <2> HIDE DEF c
  <2>3. Rising(c, Append(decLib, dSurf))
    BY <1>1, <2>1, <2>2, RisingAppend
  <2> QED  BY <2>3 DEF c
<1>9. {content'[s] : s \in Range(Append(decLib, dSurf))} = InDecoder \cup {nInput + 1}
    BY <1>3, <1>5, <1>6 DEF InDecoder
<1> QED  BY <1>2, <1>3, <1>4, <1>6, <1>8, <1>9

(* A new frame enters the decoder library.                                 *)
LEMMA NewFrameInTurn ==
    ASSUME IInv, DecodedInOrder, NEW e \in Encoders, InTurn(e), NewFrame
    PROVE  InTurn(e)'
<1> DEFINE lib == Append(decLib, dSurf)
           c == content'
           A == Out(e)
           B == InEncoder(e)
           C == Waiting(e)
           E == InDecoder
           G == InQueue(e)
           E1 == E \cup {nInput + 1}
<1>1. /\ UNCHANGED <<encHold, encVars, bufVars>> /\ dpc = "decode" /\ nInput' = nInput + 1
    BY DEF NewFrame, DecodeOneFrame
<1>2. /\ UNCHANGED <<m_SList, epc, eSurf, encLib, encHold, written, m_BSPool>>
      /\ decLib \in Seq(Surfaces) /\ nInput \in Nat
      /\ m_SList[e] \in Seq(Surf0) /\ encLib[e] \in Seq(Surfaces)
    BY <1>1, ConstantFacts, SessionFacts
       DEF encVars, encData, bufVars, IInv, Typed, DecoderTypes
<1>3. /\ \A s \in Surfaces : s # dSurf => c[s] = content[s]
      /\ \A s \in Surfaces : content[s] < nInput + 1
      /\ dSurf \notin Range(m_SList[e]) /\ dSurf \notin encHold[e]
      /\ lib \in Seq(Surfaces) /\ Rising(c, lib)
      /\ {c[s] : s \in Range(lib)} = E1
    BY NewFrameFacts
<1>4. InOrder(EncodedFrames(e))' /\ Out(e)' = A
    BY <1>2 DEF InTurn, EncodedFrames, Out, InOrder
<1>5. \A y \in A : y \in Int
  <2> DEFINE F == Frames(written[e], m_BSPool[e])
  <2>1. F \in Seq(0..NumFrames)
    BY SessionFacts DEF IInv
  <2> HIDE DEF F
  <2>2. \A i \in 1..Len(F) : F[i] \in 0..NumFrames
    BY <2>1, ElementOfSeq
  <2>3. Range(F) = {F[i] : i \in 1..Len(F)}
    BY <2>1, RangeEquality
  <2>4. \A y \in Range(F) : y \in Int
    BY <2>2, <2>3, ConstantFacts
  <2> QED  BY <2>4, FramesAre DEF F
<1>6. CASE epc[e] = "done"
    BY <1>2, <1>4, <1>6 DEF InTurn
<1>7. CASE epc[e] # "done"
  <2>1. /\ Range(encLib[e]) \subseteq encHold[e]
        /\ Rising(content, encLib[e]) /\ Rising(content, m_SList[e])
        /\ epc[e] \in {"encode", "release"} /\ eSurf[e] \in Surfaces
               => m_SList[e] # <<>> /\ eSurf[e] = Head(m_SList[e])
        /\ InLine(A, B, C, Coming(e), E)
        /\ InLine({}, {}, G, Coming(e), E)
        /\ \A f \in A : f <= nInput
    BY <1>7 DEF InTurn
  <2>2. /\ Range(encLib[e]) = {encLib[e][i] : i \in 1..Len(encLib[e])}
        /\ Range(m_SList[e]) = {m_SList[e][i] : i \in 1..Len(m_SList[e])}
        /\ Range(decLib) = {decLib[i] : i \in 1..Len(decLib)}
        /\ (\A s \in Range(encLib[e]) : s \in Surfaces)
        /\ (\A s \in Range(decLib) : s \in Surfaces)
    BY <1>2, RangeEquality, ElementOfSeq
\* the others keep their frames
  <2>3. /\ \A s \in Range(encLib[e]) : c[s] = content[s]
        /\ \A s \in Range(m_SList[e]) \cap Surfaces : c[s] = content[s]
    BY <1>3, <2>1, <2>2
  <2>4. Rising(c, encLib[e]) /\ Rising(c, m_SList[e])
    BY <2>1, <2>2, <2>3 DEF Rising
  <2>5. /\ InEncoder(e)' = {c[s] : s \in Range(encLib[e])}
        /\ Waiting(e)' = {c[s] : s \in Queued(e)}
        /\ InQueue(e)' = {c[s] : s \in Range(m_SList[e]) \cap Surfaces}
    BY <1>2 DEF InEncoder, Waiting, Queued, InQueue
  <2>6. InEncoder(e)' = B /\ Waiting(e)' = C /\ InQueue(e)' = G
    <3>1. {c[s] : s \in Range(encLib[e])} = {content[s] : s \in Range(encLib[e])}
      BY <2>3
    <3>2. {c[s] : s \in Queued(e)} = {content[s] : s \in Queued(e)}
      BY <2>3 DEF Queued
    <3>3. {c[s] : s \in Range(m_SList[e]) \cap Surfaces}
             = {content[s] : s \in Range(m_SList[e]) \cap Surfaces}
      BY <2>3
    <3> QED  BY <2>5, <3>1, <3>2, <3>3 DEF InEncoder, Waiting, InQueue
\* and are older
  <2>7. \A y \in A \cup B \cup C \cup E \cup G : y < nInput + 1
    <3>1. \A y \in A : y < nInput + 1
      BY <1>2, <1>5, <2>1
    <3>2. \A y \in B \cup C \cup E \cup G : \E s \in Surfaces : y = content[s]
      BY <2>2 DEF InEncoder, Waiting, Queued, InDecoder, InQueue
    <3> QED  BY <1>3, <3>1, <3>2
  <2>8. Coming(e) = {}
    BY <1>1 DEF Coming, ToBeAdded
  <2>9. InLine(A, B, C, {}, E1) /\ InLine({}, {}, G, {}, E1)
    <3>1. /\ InLine(A, B, C, {}, E) /\ InLine({}, {}, G, {}, E)
          /\ E1 \subseteq E \cup {nInput + 1}
      BY <2>1, <2>8
    <3> HIDE DEF A, B, C, E, E1, G
    <3>2. InLine(A, B, C, {}, E1)
      BY <2>7, <3>1, LineDecoded
    <3>3. InLine({}, {}, G, {}, E1)
      BY <2>7, <3>1, LineDecoded
    <3> QED  BY <3>2, <3>3
\* the decoder may output its oldest frame
  <2>10. InLine(A, B, C, Coming(e)', InDecoder') /\ InLine({}, {}, G, Coming(e)', InDecoder')
    <3>1. CASE lib # <<>> /\ decLib' = Tail(lib) /\ StartAdding(Head(lib), "sync")
      <4>1. /\ Head(lib) \in Surfaces /\ Tail(lib) \in Seq(Surfaces)
            /\ Range(lib) = Range(Tail(lib)) \cup {Head(lib)}
        BY <1>3, <3>1, TailElements
      <4>2. \A s \in Range(Tail(lib)) : c[Head(lib)] < c[s]
        <5>1. lib \in Seq(Surf0)
          BY <1>3, SeqMonotonic DEF Surf0
        <5> HIDE DEF lib, c
        <5>2. \A s \in Range(Tail(lib)) : s \in Surfaces
          <6>1. Range(Tail(lib)) = {Tail(lib)[i] : i \in 1..Len(Tail(lib))}
            BY <4>1, RangeEquality
          <6>2. \A i \in 1..Len(Tail(lib)) : Tail(lib)[i] \in Surfaces
            BY <4>1, ElementOfSeq
          <6> QED  BY <6>1, <6>2
        <5> QED  BY <1>3, <3>1, <4>1, <5>1, <5>2, RisingTail
      <4>3. Coming(e)' \subseteq {c[Head(lib)]}
        BY <3>1 DEF Coming, StartAdding
      <4>4. InDecoder' = {c[s] : s \in Range(Tail(lib))}
        BY <3>1 DEF InDecoder
      <4>5. /\ c[Head(lib)] \in E1 /\ InDecoder' \subseteq E1
            /\ \A y \in InDecoder' : c[Head(lib)] < y
        BY <1>3, <4>1, <4>2, <4>4
      <4> HIDE DEF A, B, C, E1, G, c, lib
      <4>6. InLine(A, B, C, Coming(e)', InDecoder')
        BY <2>9, <4>3, <4>5, LineOutput
      <4>7. InLine({}, {}, G, Coming(e)', InDecoder')
        BY <2>9, <4>3, <4>5, LineOutput
      <4> QED  BY <4>6, <4>7
    <3>2. CASE decLib' = lib /\ dpc' = "free"
      <4>1. Coming(e)' = {} /\ InDecoder' = {c[s] : s \in Range(lib)}
        BY <3>2 DEF Coming, ToBeAdded, InDecoder
      <4> QED  BY <1>3, <2>9, <4>1
    <3> QED  BY <3>1, <3>2 DEF NewFrame, DecoderReturns
  <2>11. InLine(Out(e), InEncoder(e), Waiting(e), Coming(e), InDecoder)'
    <3>1. InLine(Out(e)', InEncoder(e)', Waiting(e)', Coming(e)', InDecoder')
      BY <1>4, <2>6, <2>10
    <3> QED  BY <3>1 DEF InLine, Below
  <2>12. InLine({}, {}, InQueue(e), Coming(e), InDecoder)'
    <3>1. InLine({}, {}, InQueue(e)', Coming(e)', InDecoder')
      BY <2>6, <2>10
    <3> QED  BY <3>1 DEF InLine, Below
  <2>13. Rising(content, encLib[e])' /\ Rising(content, m_SList[e])'
    BY <1>2, <2>4 DEF Rising
  <2>14. \A f \in Out(e)' : f <= nInput'
    BY <1>1, <1>2, <1>4, <1>5, <2>1
  <2> QED  BY <1>2, <1>4, <2>1, <2>11, <2>13, <2>14, <2>12 DEF InTurn
<1> QED  BY <1>6, <1>7

(* A surface moves on to the walk over the buffers, to the queue of e, or  *)
(* nowhere.                                                                *)
LEMMA DecoderInTurn ==
    ASSUME IInv, DecodedInOrder, NEW e \in Encoders, InTurn(e), [Next]_vars,
           ~ \E f \in Encoders : EncodeSession(f) \/ EncoderUnlocks(f)
    PROVE  InTurn(e)'
<1>1. Typed /\ decLib \in Seq(Surfaces) /\ m_SList[e] \in Seq(Surf0) /\ dSurf \in Surf0
      /\ NumEnc \in Nat /\ dIdx \in Encoders /\ encLib[e] \in Seq(Surfaces)
    BY ConstantFacts, SessionFacts DEF IInv, Typed, DecoderTypes
\* the content of every surface stays
<1>2. ASSUME UNCHANGED <<content, nInput>>, Rising(content, m_SList'[e]),
             UNCHANGED <<epc, eSurf, encLib, encHold, written, m_BSPool>>,
             m_SList[e] # <<>> => m_SList'[e] # <<>> /\ Head(m_SList'[e]) = Head(m_SList[e]),
             epc[e] # "done" =>
                /\ InLine(Out(e), InEncoder(e), Waiting(e)', Coming(e)', InDecoder')
                /\ InLine({}, {}, InQueue(e)', Coming(e)', InDecoder')
      PROVE  InTurn(e)'
  <2>1. InOrder(EncodedFrames(e))' /\ Out(e)' = Out(e) /\ InEncoder(e)' = InEncoder(e)
    <3>1. EncodedFrames(e)' = EncodedFrames(e) /\ InEncoder(e)' = InEncoder(e)
      BY <1>2 DEF EncodedFrames, InEncoder
    <3>2. InOrder(EncodedFrames(e))
      BY DEF InTurn
    <3> QED  BY <3>1, <3>2 DEF Out, InOrder
  <2>2. CASE epc[e] = "done"
    BY <1>2, <2>1, <2>2 DEF InTurn
  <2>3. CASE epc[e] # "done"
    <3>1. InLine({}, {}, InQueue(e), Coming(e), InDecoder)'
      BY <1>2, <2>3 DEF InLine, Below
    <3>2. InLine(Out(e)', InEncoder(e)', Waiting(e)', Coming(e)', InDecoder')
      BY <1>2, <2>1, <2>3
    <3>3. InLine(Out(e), InEncoder(e), Waiting(e), Coming(e), InDecoder)'
      BY <3>2 DEF InLine, Below
    <3>4. Rising(content, encLib[e])' /\ Rising(content, m_SList[e])'
      BY <1>2, <2>3 DEF Rising, InTurn
    <3> QED  BY <1>2, <2>1, <2>3, <3>3, <3>4, <3>1 DEF InTurn
  <2> QED  BY <2>2, <2>3
<1>3. epc[e] # "done" =>
          /\ InLine(Out(e), InEncoder(e), Waiting(e), Coming(e), InDecoder)
          /\ InLine({}, {}, InQueue(e), Coming(e), InDecoder)
          /\ Rising(content, m_SList[e])
    BY DEF InTurn
\* a session that has ended
<1>4. ASSUME UNCHANGED <<epc, written, m_BSPool>>, epc[e] = "done" PROVE InTurn(e)'
  <2>1. InOrder(EncodedFrames(e))
    BY DEF InTurn
  <2>2. EncodedFrames(e)' = EncodedFrames(e)
    BY <1>4 DEF EncodedFrames
  <2>3. InOrder(EncodedFrames(e))'
    BY <2>1, <2>2 DEF InOrder
  <2> QED  BY <1>4, <2>3 DEF InTurn
\* no surface moves
<1>5. ASSUME UNCHANGED <<content, nInput, decLib, m_SList, encHold, encVars>>,
             Coming(e)' \subseteq Coming(e)
      PROVE  InTurn(e)'
  <2>1. UNCHANGED <<epc, eSurf, encLib, written, m_BSPool>>
    BY <1>5 DEF encVars, encData
  <2>2. Waiting(e)' = Waiting(e) /\ InDecoder' = InDecoder /\ InQueue(e)' = InQueue(e)
    BY <1>5, <2>1 DEF Waiting, Queued, InDecoder, InQueue
  <2>3. CASE epc[e] # "done"
    <3>1. InLine(Out(e), InEncoder(e), Waiting(e)', Coming(e)', InDecoder')
      BY <1>3, <1>5, <2>2, <2>3, LineShrinks
    <3>2. InLine({}, {}, InQueue(e)', Coming(e)', InDecoder')
      BY <1>3, <1>5, <2>2, <2>3, LineShrinks
    <3> QED  BY <1>2, <1>3, <1>5, <2>1, <2>3, <3>1, <3>2
  <2>4. CASE epc[e] = "done"
    BY <1>4, <2>1, <2>4
  <2> QED  BY <2>3, <2>4
<1>6. CASE DecodeStart \/ GetFreeSurface \/ SyncOldest \/ NoMoreFramesAgain
  <2>1. UNCHANGED <<content, nInput, decLib, m_SList, encHold, encVars>>
    BY <1>6 DEF DecodeStart, GetFreeSurface, SyncOldest, NoMoreFramesAgain, StopDecoding,
       bufVars
  <2>2. dSurf' = NoSurface \/ dpc' \notin {"add", "signal"}
    BY <1>6 DEF DecodeStart, GetFreeSurface, SyncOldest, NoMoreFramesAgain, StopDecoding,
       EndDecode, StartAdding
  <2>3. Coming(e)' = {}
    BY <2>2, ConstantFacts DEF Coming, ToBeAdded
  <2> QED  BY <1>5, <2>1, <2>3
<1>7. CASE DecodeOneFrame
  <2>1. CASE NewFrame
    BY <2>1, NewFrameInTurn
  <2>2. CASE ~ NewFrame
    <3>1. UNCHANGED <<content, nInput, decLib, m_SList, encHold, encVars>>
      BY <1>7, <2>2 DEF DecodeOneFrame, NewFrame, StopDecoding, bufVars
    <3>2. dSurf' = NoSurface \/ dpc' \notin {"add", "signal"}
      BY <1>7, <2>2 DEF DecodeOneFrame, NewFrame, StopDecoding, EndDecode, StartAdding
    <3>3. Coming(e)' = {}
      BY <3>2, ConstantFacts DEF Coming, ToBeAdded
    <3> QED  BY <1>5, <3>1, <3>3
  <2> QED  BY <2>1, <2>2
<1>8. CASE DecodeLastFrame
  <2>1. /\ UNCHANGED <<content, nInput, m_SList, encHold, encVars>> /\ dpc = "decode"
    BY <1>8 DEF DecodeLastFrame, bufVars
  <2>2. CASE decLib # <<>> /\ decLib' = Tail(decLib) /\ StartAdding(Head(decLib), "sync")
    <3>1. /\ Head(decLib) \in Surfaces /\ Tail(decLib) \in Seq(Surfaces)
          /\ Range(decLib) = Range(Tail(decLib)) \cup {Head(decLib)}
      BY <1>1, <2>2, TailElements
    <3>2. \A s \in Range(Tail(decLib)) : content[Head(decLib)] < content[s]
      <4>1. decLib \in Seq(Surf0)
        BY <1>1, SeqMonotonic DEF Surf0
      <4>2. \A s \in Range(Tail(decLib)) : s \in Surfaces
        <5>1. Range(Tail(decLib)) = {Tail(decLib)[i] : i \in 1..Len(Tail(decLib))}
          BY <3>1, RangeEquality
        <5>2. \A i \in 1..Len(Tail(decLib)) : Tail(decLib)[i] \in Surfaces
          BY <3>1, ElementOfSeq
        <5> QED  BY <5>1, <5>2
      <4> QED  BY <2>2, <3>1, <4>1, <4>2, RisingTail DEF DecodedInOrder
    <3> DEFINE x == content[Head(decLib)]
    <3>3. /\ x \in InDecoder /\ InDecoder' \subseteq InDecoder
          /\ \A y \in InDecoder' : x < y
      BY <2>1, <2>2, <3>1, <3>2 DEF InDecoder
    <3>4. Coming(e)' \subseteq {x} /\ Coming(e) = {}
      BY <2>1, <2>2 DEF Coming, StartAdding, ToBeAdded
    <3>5. /\ Waiting(e)' = Waiting(e) /\ InQueue(e)' = InQueue(e)
          /\ UNCHANGED <<epc, eSurf, encLib, written, m_BSPool>>
      BY <2>1 DEF Waiting, Queued, InQueue, encVars, encData
    <3> HIDE DEF x
    <3>6. CASE epc[e] # "done"
      <4>1. /\ InLine(Out(e), InEncoder(e), Waiting(e), {}, InDecoder)
            /\ InLine({}, {}, InQueue(e), {}, InDecoder)
        BY <1>3, <3>4, <3>6
      <4>2. InLine(Out(e), InEncoder(e), Waiting(e), Coming(e)', InDecoder')
        BY <4>1, <3>3, <3>4, LineOutput
      <4>3. InLine({}, {}, InQueue(e), Coming(e)', InDecoder')
        BY <4>1, <3>3, <3>4, LineOutput
      <4> QED  BY <1>2, <1>3, <2>1, <3>5, <3>6, <4>2, <4>3
    <3>7. CASE epc[e] = "done"
      BY <1>4, <3>5, <3>7
    <3> QED  BY <3>6, <3>7
  <2>3. CASE decLib' = decLib /\ (EndDecode("ok") \/ EndDecode("err"))
    <3>1. Coming(e)' = {}
      BY <2>3, ConstantFacts DEF Coming, EndDecode, StartAdding
    <3> QED  BY <1>5, <2>1, <2>3, <3>1
  <2> QED  BY <1>8, <2>2, <2>3 DEF DecodeLastFrame
\* the walk goes on to the next buffer
<1>9. ASSUME NextBuffer, dpc \in {"add", "signal"}, UNCHANGED <<dSurf, content>>
      PROVE  Coming(e)' \subseteq Coming(e)
  <2>1. ToBeAdded(e)' => ToBeAdded(e)
    BY <1>1, <1>9 DEF NextBuffer, ToBeAdded, Encoders, Typed, DecoderTypes
  <2> QED  BY <1>9, <2>1 DEF Coming
<1>10. CASE SignalInsertion
  <2>1. UNCHANGED <<content, nInput, decLib, m_SList, encHold, encVars, dSurf>>
        /\ NextBuffer /\ dpc = "signal"
    BY <1>10 DEF SignalInsertion
  <2> QED  BY <1>5, <1>9, <2>1
<1>11. CASE AddSurface
  <2>1. UNCHANGED <<content, nInput, decLib, encHold, encVars, dSurf>> /\ dpc = "add"
    BY <1>11 DEF AddSurface
  <2>2. CASE ~ m_IsBufferingAllowed[dIdx]
    <3>1. NextBuffer /\ UNCHANGED m_SList
      BY <1>11, <2>2 DEF AddSurface
    <3> QED  BY <1>5, <1>9, <2>1, <3>1
  <2>3. CASE m_IsBufferingAllowed[dIdx]
    <3>1. /\ m_SList' = [m_SList EXCEPT ![dIdx] = Append(@, dSurf)]
          /\ dpc' = "signal" /\ dIdx' = dIdx
          /\ m_SList \in [Encoders -> Seq(Surf0)]
      BY <1>1, <1>11, <2>3, SessionFacts DEF AddSurface
    <3>2. UNCHANGED <<epc, eSurf, encLib, encHold, written, m_BSPool>> /\ InDecoder' = InDecoder
      BY <2>1 DEF encVars, encData, InDecoder
    <3>3. CASE epc[e] = "done"
      BY <1>4, <3>2, <3>3
    <3>4. CASE epc[e] # "done" /\ e # dIdx
      <4>1. m_SList'[e] = m_SList[e]
        BY <3>1, <3>4
      <4>2. Waiting(e)' = Waiting(e) /\ InQueue(e)' = InQueue(e)
        BY <2>1, <3>2, <4>1 DEF Waiting, Queued, InQueue
      <4>3. ToBeAdded(e)' => ToBeAdded(e)
        BY <1>1, <2>1, <3>1, <3>4 DEF ToBeAdded, Encoders
      <4>4. Coming(e)' \subseteq Coming(e)
        BY <2>1, <4>3 DEF Coming
      <4>5. InLine(Out(e), InEncoder(e), Waiting(e)', Coming(e)', InDecoder')
        BY <1>3, <3>2, <3>4, <4>2, <4>4, LineShrinks
      <4>6. InLine({}, {}, InQueue(e)', Coming(e)', InDecoder')
        BY <1>3, <3>2, <3>4, <4>2, <4>4, LineShrinks
      <4> QED  BY <1>2, <1>3, <2>1, <3>2, <3>4, <4>1, <4>5, <4>6
    <3>5. CASE epc[e] # "done" /\ e = dIdx
      <4>1. /\ m_SList'[e] = Append(m_SList[e], dSurf)
            /\ Range(m_SList'[e]) = Range(m_SList[e]) \cup {dSurf}
        BY <1>1, <3>1, <3>5, AppendElements
      <4>2. ToBeAdded(e) /\ ~ ToBeAdded(e)'
        BY <1>1, <2>1, <3>1, <3>5 DEF ToBeAdded, Encoders
      <4>3. Coming(e) = {content[s] : s \in {dSurf} \cap Surfaces} /\ Coming(e)' = {}
        BY <4>2 DEF Coming
      <4>4. Waiting(e)' \subseteq Waiting(e) \cup Coming(e)
        BY <2>1, <3>2, <4>1, <4>3 DEF Waiting, Queued
      <4>5. InLine(Out(e), InEncoder(e), Waiting(e)', Coming(e)', InDecoder')
        BY <1>3, <3>2, <3>5, <4>3, <4>4, LineQueued
      <4>6. dSurf \in Surfaces =>
               \A s \in Range(m_SList[e]) \cap Surfaces : content[s] < content[dSurf]
        <5> SUFFICES ASSUME dSurf \in Surfaces, NEW s \in Range(m_SList[e]), s \in Surfaces
                     PROVE  content[s] < content[dSurf]
          OBVIOUS
        <5>1. content[dSurf] \in Coming(e) /\ content[s] \in InQueue(e)
          BY <4>3 DEF InQueue
        <5> QED  BY <1>3, <3>5, <5>1 DEF InLine, Below
      <4>7. Rising(content, m_SList'[e])
        BY <1>1, <1>3, <3>5, <4>1, <4>6, RisingAppend
      <4>8. m_SList[e] # <<>> => m_SList'[e] # <<>> /\ Head(m_SList'[e]) = Head(m_SList[e])
        <5> DEFINE q == m_SList[e]
                   r == m_SList'[e]
        <5>1. /\ r \in Seq(Surf0) /\ Len(q) \in Nat /\ Len(r) = Len(q) + 1
              /\ \A i \in 1..Len(q) : r[i] = q[i]
          BY <1>1, <4>1, AppendElements
        <5>2. q # <<>> => Len(q) # 0 /\ Head(q) = q[1]
          BY <1>1, TailElements
        <5>3. r # <<>> /\ Head(r) = r[1]
          <6>1. r # <<>>
            BY <1>1, <4>1, AppendNonempty
          <6> QED  BY <5>1, <6>1, TailElements
        <5>4. Len(q) # 0 => 1 \in 1..Len(q)
          BY <5>1
        <5> HIDE DEF q, r
        <5>5. q # <<>> => r # <<>> /\ Head(r) = Head(q)
          BY <5>1, <5>2, <5>3, <5>4
        <5> QED  BY <5>5 DEF q, r
      <4>9. InLine({}, {}, InQueue(e)', Coming(e)', InDecoder')
        <5>1. InQueue(e)' \subseteq InQueue(e) \cup Coming(e)
          BY <2>1, <4>1, <4>3 DEF InQueue
        <5> QED  BY <1>3, <3>2, <3>5, <4>3, <5>1, LineQueued
      <4> QED  BY <1>2, <2>1, <3>2, <4>5, <4>7, <4>8, <4>9
    <3> QED  BY <3>3, <3>4, <3>5
  <2> QED  BY <2>2, <2>3
<1>12. DecoderUnlocks \/ (\E i \in Sessions : CollectSession(i)) \/ UNCHANGED vars
       => InTurn(e)'
  <2>1. ASSUME DecoderUnlocks \/ (\E i \in Sessions : CollectSession(i)) \/ UNCHANGED vars
        PROVE  InTurn(e)'
    <3>1. /\ UNCHANGED <<content, nInput, decLib, m_SList, encHold, encVars>>
          /\ UNCHANGED <<dpc, dSurf, dIdx>>
      BY <2>1 DEF DecoderUnlocks, CollectSession, vars, decVars, bufVars
    <3>2. Coming(e)' = Coming(e)
      BY <3>1 DEF Coming, ToBeAdded
    <3> QED  BY <1>5, <3>1, <3>2
  <2> QED  BY <2>1
<1> QED  BY <1>6, <1>7, <1>8, <1>10, <1>11, <1>12 DEF Next, Finished, DecodeSession

----------------------------------------------------------------------------
(* The frames in the decoder library are in decoding order.                *)
LEMMA DecodedStep == IInv /\ DecodedInOrder /\ [Next]_vars => DecodedInOrder'
<1> SUFFICES ASSUME IInv, DecodedInOrder, [Next]_vars PROVE DecodedInOrder'
    OBVIOUS
<1>1. decLib \in Seq(Surfaces) /\ decLib \in Seq(Surf0)
    BY SeqMonotonic DEF IInv, Typed, DecoderTypes, Surf0
<1>2. ASSUME UNCHANGED <<content, decLib, nInput>> PROVE DecodedInOrder'
    BY <1>2 DEF DecodedInOrder, Rising
<1>3. CASE NewFrame
  <2>1. /\ \A s \in Surfaces : content'[s] <= nInput'
        /\ Append(decLib, dSurf) \in Seq(Surfaces)
        /\ Rising(content', Append(decLib, dSurf))
    BY <1>3, NewFrameFacts
  <2>2. Rising(content', decLib')
    <3> DEFINE lib == Append(decLib, dSurf)
               c == content'
    <3>1. decLib' = lib \/ (lib # <<>> /\ decLib' = Tail(lib))
      BY <1>3 DEF NewFrame, DecoderReturns
    <3>2. lib \in Seq(Surf0) /\ Rising(c, lib)
      BY <2>1, SeqMonotonic DEF Surf0
    <3> HIDE DEF lib, c
    <3>3. lib # <<>> => Rising(c, Tail(lib))
      BY <3>2, RisingTail
    <3>4. Rising(c, decLib')
      BY <3>1, <3>2, <3>3
    <3> QED  BY <3>4 DEF c
  <2> QED  BY <2>1, <2>2 DEF DecodedInOrder, Rising
<1>4. CASE DecodeOneFrame /\ ~ NewFrame
  <2>1. UNCHANGED <<content, decLib, nInput>>
    BY <1>4 DEF DecodeOneFrame, NewFrame, StopDecoding
  <2> QED  BY <1>2, <2>1
<1>5. CASE DecodeLastFrame
  <2>1. UNCHANGED <<content, nInput>>
        /\ (UNCHANGED decLib \/ (decLib # <<>> /\ decLib' = Tail(decLib)))
    BY <1>5 DEF DecodeLastFrame
  <2>2. decLib # <<>> => Rising(content, Tail(decLib))
    BY <1>1, RisingTail DEF DecodedInOrder
  <2>3. Rising(content, decLib')
    BY <2>1, <2>2 DEF DecodedInOrder
  <2> QED  BY <2>1, <2>3 DEF DecodedInOrder, Rising
<1>6. CASE \/ DecodeStart \/ GetFreeSurface \/ AddSurface \/ SignalInsertion \/ SyncOldest
           \/ NoMoreFramesAgain \/ DecoderUnlocks
           \/ (\E i \in Sessions : CollectSession(i)) \/ UNCHANGED vars
  <2>1. UNCHANGED <<content, decLib, nInput>>
    BY <1>6 DEF DecodeStart, GetFreeSurface, AddSurface, SignalInsertion, SyncOldest,
       NoMoreFramesAgain, DecoderUnlocks, CollectSession, StopDecoding, vars, decVars
  <2> QED  BY <1>2, <2>1
<1>7. CASE \E f \in Encoders : EncodeSession(f) \/ EncoderUnlocks(f)
  <2>1. UNCHANGED <<content, decLib, nInput>>
    BY <1>7, EncodeFrame DEF EncoderUnlocks, OtherThreads, decVars
  <2> QED  BY <1>2, <2>1
<1> QED  BY <1>3, <1>4, <1>5, <1>6, <1>7 DEF Next, Finished, DecodeSession

(* A session's frames stay in turn while another session encodes.          *)
LEMMA OthersInTurn ==
    ASSUME Typed, NEW e \in Encoders, NEW f \in Encoders, e # f, InTurn(e),
           EncodeSession(f) \/ EncoderUnlocks(f)
    PROVE  InTurn(e)'
<1>1. /\ m_SList'[e] = m_SList[e] /\ epc'[e] = epc[e] /\ eSurf'[e] = eSurf[e]
      /\ encLib'[e] = encLib[e] /\ encHold'[e] = encHold[e]
      /\ written'[e] = written[e] /\ m_BSPool'[e] = m_BSPool[e]
    BY OtherSessions DEF Own
<1>2. OtherThreads
    BY EncodeFrame DEF EncoderUnlocks
<1>3. Queued(e)' = Queued(e)
    BY <1>1 DEF Queued
<1>4. epc[e] # "done" =>
          /\ Range(encLib[e]) \subseteq encHold[e] /\ Rising(content, m_SList[e])
          /\ epc[e] \in {"encode", "release"} /\ eSurf[e] \in Surfaces
                => m_SList[e] # <<>> /\ eSurf[e] = Head(m_SList[e])
    BY DEF InTurn
<1> HIDE DEF Queued
<1> QED  BY <1>1, <1>2, <1>3, <1>4, PartKept

(* The surfaces decoded carry later and later frames, and the frames of    *)
(* every session are in turn.                                              *)
OrderInv == IInv /\ DecodedInOrder /\ \A e \in Encoders : InTurn(e)

LEMMA OrderInvInit == Init => OrderInv
<1> SUFFICES ASSUME Init PROVE OrderInv
    OBVIOUS
<1> DEFINE z == <<>>
<1>1. Len(z) = 0 /\ Range(z) = {}
  <2>1. z \in Seq({}) /\ Len(z) = 0
    BY EmptySeq
  <2> HIDE DEF z
  <2>2. Range(z) = {z[i] : i \in 1..Len(z)}
    BY <2>1, RangeEquality
  <2>3. 1..Len(z) = {}
    BY <2>1
  <2> QED  BY <2>1, <2>2, <2>3
<1>2. DecodedInOrder
    BY <1>1 DEF Init, DecodedInOrder, Rising
<1>3. ASSUME NEW e \in Encoders PROVE InTurn(e)
  <2>1. /\ encLib[e] = z /\ m_SList[e] = z /\ m_BSPool[e] = z /\ written[e] = z
        /\ decLib = z /\ dSurf \notin Surfaces /\ epc[e] = "get"
    BY <1>3, ConstantFacts DEF Init
  <2> HIDE DEF z
  <2>2. /\ InEncoder(e) = {} /\ Waiting(e) = {} /\ InQueue(e) = {} /\ Coming(e) = {}
        /\ InDecoder = {}
    BY <1>1, <2>1 DEF InEncoder, Waiting, Queued, InQueue, Coming, InDecoder
  <2>3. Len(EncodedFrames(e)) = 0 /\ Out(e) = {}
    <3>1. z \in Seq(0..NumFrames) /\ z \in Seq(Bitstreams)
      BY EmptySeq DEF z
    <3>2. Frames(z, z) \in Seq(0..NumFrames) /\ Len(Frames(z, z)) = Len(z) + Len(z)
      BY <3>1, FramesElements
    <3> DEFINE F == Frames(z, z)
    <3>3. EncodedFrames(e) = F
      BY <2>1 DEF EncodedFrames, Frames
    <3>4. F \in Seq(0..NumFrames) /\ Len(F) = 0
      BY <1>1, <3>2
    <3> HIDE DEF F
    <3>5. Range(F) = {F[i] : i \in 1..Len(F)}
      BY <3>4, RangeEquality
    <3>6. 1..Len(F) = {}
      BY <3>4
    <3> QED  BY <3>3, <3>4, <3>5, <3>6 DEF Out
  <2>4. InOrder(EncodedFrames(e))
    BY <2>3 DEF InOrder
  <2>5. Rising(content, encLib[e]) /\ Rising(content, m_SList[e])
    BY <1>1, <2>1 DEF Rising
  <2>6. /\ InLine(Out(e), InEncoder(e), Waiting(e), Coming(e), InDecoder)
        /\ InLine({}, {}, InQueue(e), Coming(e), InDecoder)
    BY <2>2, <2>3 DEF InLine, Below
  <2> QED  BY <1>1, <2>1, <2>3, <2>4, <2>5, <2>6 DEF InTurn
<1> QED  BY <1>2, <1>3, InitIInv DEF OrderInv

(* Every step keeps them.                                                  *)
THEOREM OrderInvariantHolds == Spec => []OrderInv
<1>1. OrderInv /\ [Next]_vars => OrderInv'
  <2> SUFFICES ASSUME OrderInv, [Next]_vars PROVE OrderInv'
    OBVIOUS
  <2>1. IInv'
    BY TypedStep, DecoderOwnershipStep, EncoderOwnershipStep, CountStep DEF OrderInv, IInv
  <2>2. DecodedInOrder'
    BY DecodedStep DEF OrderInv
  <2>3. ASSUME NEW e \in Encoders PROVE InTurn(e)'
    <3>1. Typed /\ EncoderOwnership /\ IInv /\ DecodedInOrder /\ InTurn(e)
      BY DEF OrderInv, IInv
    <3>2. ASSUME NEW f \in Encoders, EncodeSession(f) \/ EncoderUnlocks(f) PROVE InTurn(e)'
      BY <3>1, <3>2, SessionInTurn, OthersInTurn
    <3>3. CASE ~ \E f \in Encoders : EncodeSession(f) \/ EncoderUnlocks(f)
      BY <3>1, <3>3, DecoderInTurn
    <3> QED  BY <3>2, <3>3
  <2> QED  BY <2>1, <2>2, <2>3 DEF OrderInv
<1> QED  BY OrderInvInit, <1>1, PTL DEF Spec

(* Every session encodes the frames in stream order and none twice: a      *)
(* surface is recycled through the decoder, the queues of all sessions and *)
(* their encoders without ever carrying a frame past an older one.         *)
THEOREM FramesEncodedInOrder == Spec => []FramesInOrder
<1>1. OrderInv => FramesInOrder
    BY DEF OrderInv, InTurn, InOrder, FramesInOrder
<1> QED  BY OrderInvariantHolds, <1>1, PTL

----------------------------------------------------------------------------
(* The whole stream comes out.  What follows holds as long as nothing has  *)
(* happened that may cost a session a frame.                               *)

(* Decode() hands out a surface, or the null surface at an end.            *)
Walking == dpc \in {"add", "signal"}

(* The frames handed out, with the one on its way.                         *)
HandedOut ==
    dProcessed + (IF dpc = "sync" \/ (Walking /\ dAfter = "sync") THEN 1 ELSE 0)

(* What the decoder has read and not handed out is in its library, and it  *)
(* ends well with nothing left there or with the frames it was asked for.  *)
DecodedWhole ==
    /\ Walking => (dAfter = "sync" <=> dSurf # NoSurface)
    /\ dpc = "again" \/ (Walking /\ dAfter = "again") => m_bForceStop
    /\ decSts # "run" <=> dpc = "done" \/ (Walking /\ dAfter = "done")
    /\ bEndOfFile => nInput = NumFrames
    /\ decSts # "err" => HandedOut <= nInput /\ InDecoder = (HandedOut + 1)..nInput
    /\ decSts = "ok" /\ ~m_bForceStop =>
           dProcessed >= DecodeLimit \/ (decLib = <<>> /\ nInput = NumFrames)

(* Nothing has happened that may cost session e a frame.                   *)
Undisturbed(e) ==
    /\ ~m_bForceStop /\ (SoftRecovery => faults = 0)
    /\ decSts # "err" /\ encSts[e] # "err"
    /\ ~(epc[e] = "release" /\ eNext[e] = "fail")

(* The session has seen the end of its stream, and has written it all.     *)
Draining(e) == epc[e] \in {"drain", "done"} \/ (epc[e] = "release" /\ eNext[e] = "drain")

Flushing(e) ==
    Draining(e) \/ epc[e] = "flush" \/ (epc[e] = "release" /\ eNext[e] = "flush")

LimitKept(e) ==
    /\ bPollFlag[e] <=> eProcessed[e] >= FrameLimit[e]
    /\ eProcessed[e] <= FrameLimit[e]
    /\ encSts[e] = "run" => epc[e] # "done"

(* Nothing is queued behind the null surface.                              *)
NullLast(q) == \A i \in 1..Len(q) : q[i] = NoSurface => i = Len(q)

EndInPlace(e) ==
    /\ NullLast(m_SList[e])
    /\ isQuit[e] \/ NoSurface \in Range(m_SList[e]) => decSts = "ok" /\ ~ToBeAdded(e)
    /\ isQuit[e] => Range(m_SList[e]) \subseteq {NoSurface}
    /\ Flushing(e) => encLib[e] = <<>> /\ (bPollFlag[e] \/ isQuit[e])
    /\ Draining(e) => m_BSPool[e] = <<>>
    /\ ~m_IsBufferingAllowed[e] => Draining(e)

NoneMissing(e) ==
    /\ 0 \notin Range(EncodedFrames(e))
    /\ Out(e) \cup InEncoder(e) = 1..eProcessed[e] /\ eProcessed[e] <= nInput
    /\ ~bPollFlag[e] =>
           Out(e) \cup InEncoder(e) \cup Waiting(e) \cup Coming(e) \cup InDecoder = 1..nInput

----------------------------------------------------------------------------
(* The decoder's part.                                                     *)

(* The frame the library outputs is the one that follows those handed out. *)
LEMMA OutputIsNext ==
    ASSUME NEW c, NEW lib \in Seq(Surfaces), lib # <<>>, Rising(c, lib),
           NEW a \in Nat, NEW b \in Nat, {c[s] : s \in Range(lib)} = (a + 1)..b
    PROVE  /\ c[Head(lib)] = a + 1 /\ a + 1 <= b
           /\ {c[s] : s \in Range(Tail(lib))} = (a + 2)..b
<1>1. /\ Head(lib) \in Surfaces /\ Tail(lib) \in Seq(Surfaces)
      /\ Range(lib) = Range(Tail(lib)) \cup {Head(lib)}
    BY TailElements
<1>2. \A s \in Range(Tail(lib)) : s \in Surfaces
  <2>1. Range(Tail(lib)) = {Tail(lib)[i] : i \in 1..Len(Tail(lib))}
    BY <1>1, RangeEquality
  <2>2. \A i \in 1..Len(Tail(lib)) : Tail(lib)[i] \in Surfaces
    BY <1>1, ElementOfSeq
  <2> QED  BY <2>1, <2>2
<1>3. \A s \in Range(Tail(lib)) : c[Head(lib)] < c[s]
  <2>1. lib \in Seq(Surf0)
    BY SeqMonotonic DEF Surf0
  <2> QED  BY <1>1, <1>2, <2>1, RisingTail
<1> DEFINE x == c[Head(lib)]
           R == {c[s] : s \in Range(Tail(lib))}
<1>4. R \cup {x} = (a + 1)..b /\ \A y \in R : x < y
    BY <1>1, <1>3
<1> HIDE DEF x, R
<1>5. x \in (a + 1)..b
    BY <1>4
<1>6. x = a + 1 /\ a + 1 <= b
  <2>1. x \in Int /\ a + 1 <= x /\ x <= b /\ a + 1 \in (a + 1)..b
    BY <1>5
  <2>2. a + 1 = x \/ x < a + 1
    BY <1>4, <2>1
  <2> QED  BY <2>1, <2>2
<1>7. R = (a + 2)..b
  <2>1. ASSUME NEW y \in R PROVE y \in (a + 2)..b
    <3>1. y \in (a + 1)..b /\ x < y
      BY <1>4
    <3> QED  BY <1>6, <3>1
  <2>2. ASSUME NEW y \in (a + 2)..b PROVE y \in R
    <3>1. y \in (a + 1)..b /\ y # x
      BY <1>6
    <3> QED  BY <1>4, <3>1
  <2> QED  BY <2>1, <2>2
<1> QED  BY <1>6, <1>7 DEF x, R

(* Every step of the decoder keeps its part whole.                         *)
LEMMA DecodedWholeStep ==
    ASSUME IInv, DecodedInOrder, DecodedWhole, [Next]_vars
    PROVE  DecodedWhole'
<1>1. /\ decLib \in Seq(Surfaces) /\ nInput \in Nat /\ NumFrames \in Nat /\ nInput <= NumFrames
      /\ dSurf \in Surf0 /\ dProcessed \in Nat /\ NoSurface \notin Surfaces
      /\ dAfter \in {"sync", "again", "done"} /\ (dpc = "decode" => dSurf \in Surfaces)
      /\ Rising(content, decLib) /\ DecodeLimit' = DecodeLimit /\ decSts \in Statuses
    BY ConstantFacts DEF IInv, Typed, DecoderTypes, DecodedInOrder, DecodeLimit
<1>2. InDecoder = {content[s] : s \in Range(decLib)}
    BY DEF InDecoder
\* nothing of the decoder moves
<1>3. ASSUME UNCHANGED decVars, m_bForceStop => m_bForceStop' PROVE DecodedWhole'
  <2>1. InDecoder' = InDecoder /\ HandedOut' = HandedOut /\ Walking' = Walking
    BY <1>3 DEF InDecoder, HandedOut, Walking, decVars
  <2> QED  BY <1>1, <1>3, <2>1 DEF DecodedWhole, decVars
\* the library moves not
<1>4. ASSUME UNCHANGED <<content, decLib, nInput>>, m_bForceStop' = m_bForceStop,
             ~ Walking, dpc # "done", decSts = "run",
             bEndOfFile' => nInput = NumFrames,
             HandedOut' = HandedOut,
             \/ /\ dpc' = "free" \/ dpc' = "decode"
                /\ decSts' = "run"
             \/ dpc' = "add" /\ dAfter' = "again" /\ dSurf' = NoSurface /\ decSts' = "run"
                /\ m_bForceStop
             \/ /\ dpc' = "add" /\ dAfter' = "done" /\ dSurf' = NoSurface
                /\ \/ decSts' = "err"
                   \/ /\ decSts' = "ok"
                      /\ m_bForceStop \/ dProcessed' >= DecodeLimit
                         \/ (decLib = <<>> /\ nInput = NumFrames)
      PROVE  DecodedWhole'
  <2>1. InDecoder' = InDecoder
    BY <1>4 DEF InDecoder
  <2>2. HandedOut <= nInput /\ InDecoder = (HandedOut + 1)..nInput
    BY <1>4 DEF DecodedWhole
  <2>3. Walking' <=> dpc' = "add"
    BY <1>4 DEF Walking
  <2> HIDE DEF Walking, HandedOut
  <2> QED  BY <1>1, <1>4, <2>1, <2>2, <2>3 DEF DecodedWhole
<1>5. CASE DecodeStart \/ NoMoreFramesAgain
  <2>1. /\ dpc \in {"start", "again"} /\ UNCHANGED <<content, decLib, nInput, bEndOfFile,
              m_bForceStop, dProcessed>>
    BY <1>5 DEF DecodeStart, NoMoreFramesAgain, runVars
  <2>2. HandedOut' = HandedOut /\ ~ Walking
    BY <1>5, <2>1 DEF HandedOut, Walking, DecodeStart, NoMoreFramesAgain, EndDecode, StartAdding
  <2> QED  BY <1>4, <1>5, <2>1, <2>2 DEF DecodeStart, NoMoreFramesAgain, EndDecode, StartAdding,
               DecodedWhole, Walking
<1>6. CASE GetFreeSurface
  <2>1. /\ dpc = "free" /\ UNCHANGED <<content, decLib, nInput, bEndOfFile,
              m_bForceStop, dProcessed>>
    BY <1>6 DEF GetFreeSurface, StopDecoding, runVars
  <2>2. HandedOut' = HandedOut /\ ~ Walking /\ decSts = "run"
    BY <1>6, <2>1 DEF HandedOut, Walking, GetFreeSurface, StopDecoding, EndDecode, StartAdding,
       DecodedWhole, Statuses
  <2> QED  BY <1>1, <1>4, <1>6, <2>1, <2>2 DEF GetFreeSurface, StopDecoding, EndDecode, StartAdding,
               DecodedWhole
\* the library outputs its oldest frame
<1>7. ASSUME NEW c, NEW lib \in Seq(Surfaces), lib # <<>>, Rising(c, lib), content' = c,
             {c[s] : s \in Range(lib)} = (HandedOut + 1)..nInput', nInput' \in Nat,
             dpc = "decode", decLib' = Tail(lib), StartAdding(Head(lib), "sync"),
             decSts = "run" /\ decSts' = "run", dProcessed' = dProcessed,
             bEndOfFile' => nInput' = NumFrames
      PROVE  DecodedWhole'
  <2>1. HandedOut = dProcessed /\ HandedOut' = dProcessed + 1
    BY <1>1, <1>7 DEF HandedOut, Walking, StartAdding
  <2>2. {c[s] : s \in Range(Tail(lib))} = (dProcessed + 2)..nInput' /\ dProcessed + 1 <= nInput'
    <3>1. /\ {c[s] : s \in Range(lib)} = (dProcessed + 1)..nInput'
          /\ lib # <<>> /\ Rising(c, lib) /\ dProcessed \in Nat /\ nInput' \in Nat
      BY <1>1, <1>7, <2>1
    <3> QED  BY <3>1, OutputIsNext
  <2>3. InDecoder' = (HandedOut' + 1)..nInput' /\ HandedOut' <= nInput'
    BY <1>1, <1>7, <2>1, <2>2 DEF InDecoder
  <2>4. Head(lib) \in Surfaces
    BY <1>7, TailElements
  <2> HIDE DEF HandedOut
  <2> QED  BY <1>1, <1>7, <2>3, <2>4 DEF DecodedWhole, StartAdding, Walking
<1>8. CASE DecodeOneFrame
  <2>1. /\ dpc = "decode" /\ UNCHANGED <<m_bForceStop, dProcessed>>
    BY <1>8 DEF DecodeOneFrame, runVars
  <2>2. decSts = "run" /\ ~ Walking /\ HandedOut = dProcessed
    BY <1>1, <2>1 DEF DecodedWhole, Statuses, Walking, HandedOut
  <2>3. CASE NewFrame
    <3> DEFINE lib == Append(decLib, dSurf)
               c == content'
    <3>1. /\ lib \in Seq(Surfaces) /\ Rising(c, lib) /\ lib # <<>>
          /\ {c[s] : s \in Range(lib)} = InDecoder \cup {nInput + 1}
      BY <1>1, <2>1, <2>3, NewFrameFacts, AppendNonempty
    <3>2. nInput' = nInput + 1 /\ DecoderReturns(lib) /\ UNCHANGED <<decSts, bEndOfFile>>
          /\ nInput < NumFrames /\ ~ bEndOfFile
      BY <1>1, <2>3 DEF NewFrame, DecodeOneFrame, StopDecoding, EndDecode
    <3>3. HandedOut <= nInput /\ InDecoder = (HandedOut + 1)..nInput
      BY <2>2 DEF DecodedWhole
    <3>4. InDecoder \cup {nInput + 1} = (HandedOut + 1)..nInput'
      BY <1>1, <2>2, <3>2, <3>3
    <3> HIDE DEF lib, c
    <3>5. CASE decLib' = Tail(lib) /\ StartAdding(Head(lib), "sync")
      <4>1. {c[s] : s \in Range(lib)} = (HandedOut + 1)..nInput' /\ content' = c
        BY <3>1, <3>4 DEF c
      <4>2. nInput' \in Nat /\ (bEndOfFile' => nInput' = NumFrames)
        BY <1>1, <3>2
      <4> HIDE DEF HandedOut
      <4>3. decSts = "run" /\ decSts' = "run" /\ dProcessed' = dProcessed
        BY <2>1, <2>2, <3>2
      <4> QED  BY <1>7, <2>1, <3>1, <3>5, <4>1, <4>2, <4>3
    <3>6. CASE decLib' = lib /\ dpc' = "free"
      <4>1. InDecoder' = (HandedOut + 1)..nInput'
        BY <3>1, <3>4, <3>6 DEF InDecoder, c
      <4>2. HandedOut' = HandedOut /\ HandedOut <= nInput'
        BY <1>1, <2>1, <2>2, <3>2, <3>3, <3>6 DEF HandedOut, Walking
      <4> HIDE DEF HandedOut
      <4> QED  BY <2>2, <3>2, <3>6, <4>1, <4>2 DEF DecodedWhole, Walking
    <3> QED  BY <3>2, <3>5, <3>6 DEF DecoderReturns
  <2>4. CASE ~ NewFrame
    <3>1. /\ UNCHANGED <<content, decLib, nInput>>
          /\ bEndOfFile' => nInput = NumFrames
      BY <1>8, <2>4 DEF DecodeOneFrame, NewFrame, StopDecoding, DecodedWhole
    <3>2. \/ dpc' = "free" /\ decSts' = "run"
          \/ /\ dpc' = "add" /\ dAfter' = "again" /\ dSurf' = NoSurface /\ decSts' = "run"
             /\ m_bForceStop
          \/ dpc' = "add" /\ dAfter' = "done" /\ dSurf' = NoSurface /\ decSts' = "err"
      BY <1>8, <2>2, <2>4 DEF DecodeOneFrame, NewFrame, StopDecoding, EndDecode, StartAdding
    <3>3. HandedOut' = HandedOut
      BY <2>1, <2>2, <3>2 DEF HandedOut, Walking
    <3> HIDE DEF HandedOut, Walking
    <3> QED  BY <1>4, <2>1, <2>2, <3>1, <3>2, <3>3
  <2> QED  BY <2>3, <2>4
<1>9. CASE DecodeLastFrame
  <2>1. /\ dpc = "decode" /\ UNCHANGED <<content, nInput, bEndOfFile, m_bForceStop, dProcessed>>
        /\ bEndOfFile
    BY <1>9 DEF DecodeLastFrame, runVars
  <2>2. decSts = "run" /\ ~ Walking /\ HandedOut = dProcessed /\ nInput = NumFrames
    BY <1>1, <2>1 DEF DecodedWhole, Statuses, Walking, HandedOut
  <2>3. CASE decLib # <<>> /\ decLib' = Tail(decLib) /\ StartAdding(Head(decLib), "sync")
             /\ UNCHANGED decSts
    <3>1. {content[s] : s \in Range(decLib)} = (HandedOut + 1)..nInput'
      BY <1>2, <2>1, <2>2 DEF DecodedWhole
    <3> HIDE DEF HandedOut, Walking
    <3> QED  BY <1>1, <1>7, <2>1, <2>2, <2>3, <3>1
  <2>4. CASE decLib' = decLib /\ (EndDecode("err") \/ (decLib = <<>> /\ EndDecode("ok")))
    <3>1. HandedOut' = HandedOut
      BY <2>1, <2>2, <2>4 DEF HandedOut, Walking, EndDecode, StartAdding
    <3> HIDE DEF HandedOut, Walking
    <3> QED  BY <1>4, <2>1, <2>2, <2>4, <3>1 DEF EndDecode, StartAdding
  <2> QED  BY <1>9, <2>3, <2>4 DEF DecodeLastFrame
\* the walk over the buffers goes on
<1>10. CASE AddSurface \/ SignalInsertion
  <2>1. /\ UNCHANGED <<content, decLib, dSurf, dAfter, nInput, bEndOfFile, dProcessed, decSts,
              m_bForceStop>>
        /\ Walking
        /\ (dpc' \in {"add", "signal"} \/ dpc' = dAfter)
    BY <1>10 DEF AddSurface, SignalInsertion, NextBuffer, runVars, Walking
  <2>2. InDecoder' = InDecoder
    BY <2>1 DEF InDecoder
  <2>3. HandedOut' = HandedOut
    BY <1>1, <2>1 DEF HandedOut, Walking
  <2>4. Walking' <=> dpc' \in {"add", "signal"}
    BY DEF Walking
  <2> HIDE DEF HandedOut, Walking
  <2>5. dpc # "done" /\ dpc # "again"
    BY <2>1 DEF Walking
  <2> QED  BY <1>1, <2>1, <2>2, <2>3, <2>4, <2>5 DEF DecodedWhole
<1>11. CASE SyncOldest
  <2>1. dpc = "sync" /\ UNCHANGED <<content, decLib, nInput, bEndOfFile, m_bForceStop>>
    BY <1>11 DEF SyncOldest, runVars
  <2>2. decSts = "run" /\ ~ Walking /\ HandedOut = dProcessed + 1
    BY <1>1, <2>1 DEF DecodedWhole, Statuses, Walking, HandedOut
  <2>3. CASE dpc' = "done" /\ decSts' = "err"
    BY <1>1, <2>1, <2>2, <2>3 DEF DecodedWhole, Walking
  <2>4. CASE /\ dProcessed' = dProcessed + 1
             /\ IF dProcessed + 1 >= DecodeLimit
                THEN EndDecode("ok")
                ELSE dpc' = "free" /\ UNCHANGED <<dSurf, dIdx, dAfter, decSts>>
    <3>1. HandedOut' = HandedOut
      BY <2>1, <2>2, <2>4 DEF HandedOut, Walking, EndDecode, StartAdding
    <3>2. bEndOfFile' => nInput = NumFrames
      BY <2>1 DEF DecodedWhole
    <3> HIDE DEF HandedOut, Walking
    <3> QED  BY <1>4, <2>1, <2>2, <2>4, <3>1, <3>2 DEF EndDecode, StartAdding
  <2> QED  BY <1>11, <2>3, <2>4 DEF SyncOldest
<1>12. CASE ~ DecodeSession
  <2>1. UNCHANGED decVars
    BY <1>12, EncodeFrame DEF Next, vars, OtherThreads, DecoderUnlocks, EncoderUnlocks,
       CollectSession, Finished
  <2>2. m_bForceStop => m_bForceStop'
    BY <1>12, EncodeFrame DEF Next, vars, runVars, OtherThreads, DecoderUnlocks, EncoderUnlocks,
       CollectSession, Finished
  <2> QED  BY <1>3, <2>1, <2>2
<1> QED  BY <1>5, <1>6, <1>8, <1>9, <1>10, <1>11, <1>12 DEF DecodeSession

----------------------------------------------------------------------------
(* The sessions' part.                                                     *)

(* The decoder decodes as many frames as any session wants.                *)
LEMMA DecodeLimitCovers ==
    /\ \A e \in Encoders : FrameLimit[e] \in Nat \ {0} /\ FrameLimit[e] <= DecodeLimit
    /\ DecodeLimit \in Nat
<1>1. NumEnc \in Nat \ {0} /\ FrameLimit \in [1..NumEnc -> Nat]
      /\ \A e \in Encoders : FrameLimit[e] \in Nat \ {0}
    BY SessionsAssumption DEF Encoders
<1>2. \E m \in {FrameLimit[e] : e \in 1..NumEnc} : \A e \in 1..NumEnc : FrameLimit[e] <= m
    BY <1>1, GreatestValue
<1>3. /\ DecodeLimit \in {FrameLimit[e] : e \in Encoders}
      /\ \A e \in Encoders : FrameLimit[e] <= DecodeLimit
    BY <1>2 DEF DecodeLimit, Encoders
<1> QED  BY <1>1, <1>3

(* What disturbs a session does so for ever.                               *)
LEMMA UndisturbedBefore ==
    ASSUME Typed, NEW e \in Encoders, Outcome(e), DecodedWhole, [Next]_vars, Undisturbed(e)'
    PROVE  Undisturbed(e)
<1>1. /\ m_bForceStop \in BOOLEAN /\ faults \in Nat /\ EncoderTypes
    BY DEF Typed, LauncherTypes
<1>2. m_bForceStop => m_bForceStop'
    BY DecodeFrame, EncodeFrame DEF Next, vars, runVars, OtherThreads, DecoderUnlocks,
       EncoderUnlocks, CollectSession, Finished
<1>3. decSts = "err" => decSts' = "err"
  <2>1. decSts = "err" => dpc \in {"done", "add", "signal"}
    BY DEF DecodedWhole, Walking
  <2>2. DecodeSession /\ dpc \in {"done", "add", "signal"} => decSts' = decSts
    BY DEF DecodeSession, DecodeStart, GetFreeSurface, DecodeOneFrame, DecodeLastFrame,
       AddSurface, SignalInsertion, SyncOldest, NoMoreFramesAgain
  <2>3. ~ DecodeSession => UNCHANGED decSts
    BY EncodeFrame DEF Next, vars, decVars, OtherThreads, DecoderUnlocks, EncoderUnlocks,
       CollectSession, Finished
  <2> QED  BY <2>1, <2>2, <2>3
<1>4. faults' = faults \/ faults' = faults + 1
  <2>1. MayFail \/ UNCHANGED faults
    <3>1. DecodeSession => MayFail \/ UNCHANGED faults
      BY DEF DecodeSession, DecodeStart, GetFreeSurface, DecodeOneFrame,
         DecodeLastFrame, AddSurface, SignalInsertion, SyncOldest, NoMoreFramesAgain
    <3>2. ASSUME NEW f \in Encoders, EncodeSession(f) PROVE MayFail \/ UNCHANGED faults
      BY <3>2 DEF EncodeSession, GetSurface, SyncInput, WaitForSurfaceInsertion, WaitReturns,
         WaitTimesOut, EncodeOneFrame, ReleaseSurface, PutBS, CancelBuffering, DrainSurface,
         CloseEncoder
    <3> QED  BY <3>1, <3>2 DEF Next, Finished, vars, DecoderUnlocks, EncoderUnlocks,
                CollectSession
  <2> QED  BY <2>1 DEF MayFail
<1>5. ASSUME encSts[e] = "err" \/ (epc[e] = "release" /\ eNext[e] = "fail")
      PROVE  ~ Undisturbed(e)'
  <2>1. CASE UNCHANGED Own(e)
    BY <1>5, <2>1 DEF Own, Undisturbed
  <2>2. CASE ~ \E f \in Encoders : EncodeSession(f) \/ EncoderUnlocks(f)
    BY <1>5, <2>1, <2>2, DecoderLeaves DEF Undisturbed, encVars
  <2>3. ASSUME NEW f \in Encoders, e # f, EncodeSession(f) \/ EncoderUnlocks(f)
        PROVE  ~ Undisturbed(e)'
    BY <2>1, <2>3, OtherSessions
  <2>4. CASE EncoderUnlocks(e)
    BY <1>5, <2>4 DEF EncoderUnlocks, encVars, Undisturbed
  <2>5. CASE EncodeSession(e)
    <3>1. epc[e] # "done"
      BY <2>5 DEF EncodeSession, GetSurface, WaitForSurfaceInsertion, WaitReturns,
         WaitTimesOut, EncodeOneFrame, ReleaseSurface, PutBS, CancelBuffering,
         DrainSurface, CloseEncoder
    <3>2. epc[e] = "release" /\ eNext[e] = "fail"
      BY <1>5, <3>1 DEF Outcome
    <3>3. ReleaseSurface(e)
      BY <2>5, <3>2 DEF EncodeSession, GetSurface, WaitForSurfaceInsertion, WaitReturns,
         WaitTimesOut, EncodeOneFrame, PutBS, CancelBuffering, DrainSurface, CloseEncoder
    <3> QED  BY <1>1, <3>2, <3>3 DEF ReleaseSurface, EndEncode, EncoderTypes, Undisturbed
  <2> QED  BY <2>2, <2>3, <2>4, <2>5
<1> QED  BY <1>1, <1>2, <1>3, <1>4, <1>5 DEF Undisturbed

(* Every step keeps the frame limit.                                       *)
LEMMA LimitKeptStep ==
    ASSUME Typed, NEW e \in Encoders, LimitKept(e), [Next]_vars
    PROVE  LimitKept(e)'
<1>1. EncoderTypes /\ FrameLimit[e] \in Nat \ {0} /\ eProcessed[e] \in Nat
    BY DecodeLimitCovers DEF Typed, EncoderTypes
<1>2. UNCHANGED <<bPollFlag[e], eProcessed[e], encSts[e], epc[e]>> => LimitKept(e)'
    BY DEF LimitKept
<1>3. CASE ~ \E f \in Encoders : EncodeSession(f) \/ EncoderUnlocks(f)
    BY <1>2, <1>3, DecoderLeaves DEF Own, encVars, encData
<1>4. ASSUME NEW f \in Encoders, e # f, EncodeSession(f) \/ EncoderUnlocks(f)
      PROVE  LimitKept(e)'
    BY <1>2, <1>4, OtherSessions DEF Own
<1>5. CASE EncoderUnlocks(e)
    BY <1>2, <1>5 DEF EncoderUnlocks, encVars, encData
<1>6. CASE EncodeOneFrame(e)
  <2>1. CountFrame(e, Submitted(e)) /\ epc'[e] = "release" /\ NoSurface \notin Surfaces
    BY <1>1, <1>6, ConstantFacts DEF EncodeOneFrame, ReleaseThen, Goto, EncoderTypes
  <2>2. CASE Submitted(e) = NoSurface
    BY <1>1, <2>1, <2>2 DEF CountFrame, LimitKept
  <2>3. CASE Submitted(e) # NoSurface
    <3>1. ~ bPollFlag[e]
      BY <2>3 DEF Submitted
    <3>2. /\ eProcessed'[e] = eProcessed[e] + 1
          /\ bPollFlag'[e] = (eProcessed[e] + 1 >= FrameLimit[e])
      BY <1>1, <2>1, <2>3, <3>1 DEF CountFrame, EncoderTypes
    <3>3. eProcessed'[e] <= FrameLimit[e]
      BY <1>1, <3>1, <3>2 DEF LimitKept
    <3>4. bPollFlag'[e] <=> eProcessed'[e] >= FrameLimit[e]
      BY <1>1, <3>2
    <3> QED  BY <2>1, <3>3, <3>4 DEF LimitKept
  <2> QED  BY <2>2, <2>3
<1>7. ASSUME UNCHANGED <<bPollFlag, eProcessed>>,
             epc'[e] = "done" => encSts'[e] # "run" \/ UNCHANGED <<epc[e], encSts[e]>>
      PROVE  LimitKept(e)'
    BY <1>7 DEF LimitKept
<1>8. CASE GetSurface(e) \/ WaitForSurfaceInsertion(e) \/ WaitReturns(e) \/ WaitTimesOut(e)
  <2>1. UNCHANGED <<bPollFlag, eProcessed>>
    BY <1>8 DEF GetSurface, WaitForSurfaceInsertion, WaitReturns, WaitTimesOut, WaitFrame,
       encData
  <2>2. epc'[e] = "done" => encSts'[e] # "run"
    BY <1>1, <1>8 DEF GetSurface, WaitForSurfaceInsertion, WaitReturns, WaitTimesOut,
       EndEncode, Goto, EncoderTypes
  <2> QED  BY <1>7, <2>1, <2>2
<1>9. CASE ReleaseSurface(e) \/ PutBS(e) \/ CancelBuffering(e) \/ DrainSurface(e)
           \/ CloseEncoder(e)
  <2>1. UNCHANGED <<bPollFlag, eProcessed>>
    BY <1>9 DEF ReleaseSurface, PutBS, CancelBuffering, DrainSurface, CloseEncoder, encData
  <2>2. epc'[e] = "done" => encSts'[e] # "run"
    BY <1>1, <1>9 DEF ReleaseSurface, PutBS, CancelBuffering, DrainSurface, CloseEncoder,
       ReleaseThen, EndEncode, Goto, EncoderTypes
  <2> QED  BY <1>7, <2>1, <2>2
<1> QED  BY <1>3, <1>4, <1>5, <1>6, <1>8, <1>9 DEF EncodeSession

(* Who has been told of the end is given no more surfaces.                 *)
LEMMA EndStays ==
    ASSUME Typed, NEW e \in Encoders, DecodedWhole, decSts = "ok", ~ ToBeAdded(e), [Next]_vars
    PROVE  decSts' = "ok" /\ ~ ToBeAdded(e)'
<1>1. dpc \in {"done", "add", "signal"} /\ dIdx \in Encoders /\ (Walking => dAfter = "done")
    BY DEF DecodedWhole, Walking, Typed, DecoderTypes
<1>2. CASE AddSurface \/ SignalInsertion
  <2>1. UNCHANGED decSts /\ dpc \in {"add", "signal"} /\ dAfter = "done"
    BY <1>1, <1>2 DEF AddSurface, SignalInsertion, Walking
  <2>2. \/ NextBuffer
        \/ dpc = "add" /\ dpc' = "signal" /\ dIdx' = dIdx
    BY <1>2 DEF AddSurface, SignalInsertion
  <2>3. \A i \in Encoders : i \in Nat /\ 1 <= i
    BY DEF Encoders
  <2> QED  BY <1>1, <2>1, <2>2, <2>3 DEF NextBuffer, ToBeAdded
<1>3. CASE ~ (AddSurface \/ SignalInsertion)
  <2>1. UNCHANGED <<dpc, dIdx, decSts>>
    BY <1>1, <1>3, EncodeFrame DEF Next, vars, decVars, OtherThreads, DecoderUnlocks,
       EncoderUnlocks, CollectSession, Finished, DecodeSession, DecodeStart, GetFreeSurface,
       DecodeOneFrame, DecodeLastFrame, SyncOldest, NoMoreFramesAgain
  <2> QED  BY <2>1 DEF ToBeAdded
<1> QED  BY <1>2, <1>3

(* The null surface stays the last of its queue.                           *)
LEMMA NullLastKept ==
    ASSUME NEW q \in Seq(Surf0), NullLast(q)
    PROVE  /\ q # <<>> /\ Head(q) = NoSurface => Range(q) = {NoSurface}
           /\ \A x : NullLast(RemoveFirst(q, x))
           /\ \A x \in Surf0 : NoSurface \notin Range(q) => NullLast(Append(q, x))
<1>1. Len(q) \in Nat /\ Range(q) = {q[i] : i \in 1..Len(q)}
    BY LenProperties, RangeEquality
<1>2. ASSUME q # <<>>, Head(q) = NoSurface PROVE Range(q) = {NoSurface}
  <2>1. Head(q) = q[1] /\ Len(q) # 0
    BY <1>2, TailElements
  <2>2. 1 \in 1..Len(q) /\ q[1] = NoSurface
    BY <1>1, <1>2, <2>1
  <2>3. Len(q) = 1
    BY <2>2 DEF NullLast
  <2> QED  BY <1>1, <2>2, <2>3
<1>3. ASSUME NEW x PROVE NullLast(RemoveFirst(q, x))
  <2> DEFINE r == RemoveFirst(q, x)
  <2> HIDE DEF r
  <2>1. CASE x \notin Range(q)
    BY <2>1, RemoveFirstElements DEF r
  <2>2. CASE x \in Range(q)
    <3>1. PICK k \in 1..Len(q) :
              /\ Len(r) = Len(q) - 1
              /\ \A i \in 1..Len(r) : r[i] = IF i < k THEN q[i] ELSE q[i + 1]
      BY <2>2, RemoveFirstElements DEF r
    <3>2. ASSUME NEW i \in 1..Len(r), r[i] = NoSurface PROVE i = Len(r)
      <4>1. i \in 1..Len(q) /\ i + 1 \in 1..Len(q) /\ i # Len(q)
        BY <1>1, <3>1
      <4>2. q[i] # NoSurface
        BY <4>1 DEF NullLast
      <4>3. q[i + 1] = NoSurface
        BY <3>1, <3>2, <4>2
      <4>4. i + 1 = Len(q)
        BY <4>1, <4>3 DEF NullLast
      <4> QED  BY <1>1, <3>1, <4>4
    <3>3. NullLast(r)
      BY <3>2 DEF NullLast
    <3> QED  BY <3>3 DEF r
  <2> QED  BY <2>1, <2>2
<1>4. ASSUME NEW x \in Surf0, NoSurface \notin Range(q) PROVE NullLast(Append(q, x))
  <2> DEFINE r == Append(q, x)
  <2>1. Len(r) = Len(q) + 1 /\ \A i \in 1..Len(q) : r[i] = q[i]
    BY AppendElements
  <2> HIDE DEF r
  <2>2. ASSUME NEW i \in 1..Len(r), r[i] = NoSurface PROVE i = Len(r)
    <3>1. i \notin 1..Len(q)
      BY <1>1, <1>4, <2>1, <2>2
    <3> QED  BY <1>1, <2>1, <3>1
  <2> QED  BY <2>2 DEF NullLast, r
<1> QED  BY <1>2, <1>3, <1>4

(* Every step keeps the end of the stream in its place.                    *)
LEMMA EndInPlaceStep ==
    ASSUME Typed, EncoderOwnership, NEW e \in Encoders, Outcome(e), TakesNote(e), DecodedWhole,
           LimitKept(e)', Undisturbed(e), Undisturbed(e)', EndInPlace(e), [Next]_vars
    PROVE  EndInPlace(e)'
<1>1. /\ m_SList \in [Encoders -> Seq(Surf0)] /\ m_SList[e] \in Seq(Surf0)
      /\ m_IsBufferingAllowed \in [Encoders -> BOOLEAN] /\ EncoderTypes
      /\ encLib \in [Encoders -> Seq(Surfaces)]
      /\ m_BSPool \in [Encoders -> Seq(Bitstreams)]
    BY SessionFacts DEF Typed, BufferTypes
<1>2. /\ NullLast(m_SList[e])
      /\ NullLast(m_SList[e])' = NullLast(m_SList'[e])
      /\ isQuit[e] \/ NoSurface \in Range(m_SList[e]) => decSts' = "ok" /\ ~ ToBeAdded(e)'
    BY EndStays DEF EndInPlace
\* the session stands still
<1>3. ASSUME UNCHANGED <<m_SList[e], m_IsBufferingAllowed[e], epc[e], eNext[e], isQuit[e],
                         bPollFlag[e], encLib[e], m_BSPool[e]>>
      PROVE  EndInPlace(e)'
  <2>1. (Flushing(e)' <=> Flushing(e)) /\ (Draining(e)' <=> Draining(e))
    BY <1>3 DEF Flushing, Draining
  <2> HIDE DEF Flushing, Draining
  <2> QED  BY <1>2, <1>3, <2>1 DEF EndInPlace
<1>4. ASSUME NEW f \in Encoders, e # f, EncodeSession(f) \/ EncoderUnlocks(f)
      PROVE  EndInPlace(e)'
    BY <1>3, <1>4, OtherSessions DEF Own
\* it is given a surface
<1>5. ASSUME AddSurface, dIdx = e, m_IsBufferingAllowed[e],
             m_SList'[e] = Append(m_SList[e], dSurf),
             UNCHANGED <<encHold, encVars, m_IsBufferingAllowed>>
      PROVE  EndInPlace(e)'
  <2>1. dpc = "add" /\ ToBeAdded(e) /\ dpc' = "signal" /\ dIdx' = dIdx /\ dIdx \in Encoders
        /\ UNCHANGED <<decSts, dSurf, dAfter>> /\ dSurf \in Surf0
    BY <1>5 DEF AddSurface, ToBeAdded, Typed, DecoderTypes
  <2>2. ~ isQuit[e] /\ NoSurface \notin Range(m_SList[e])
    BY <2>1 DEF EndInPlace
  <2>3. NullLast(m_SList'[e])
    BY <1>1, <1>2, <1>5, <2>1, <2>2, NullLastKept
  <2>4. dSurf = NoSurface => decSts = "ok"
    BY <2>1 DEF DecodedWhole, Walking, Undisturbed, Typed, DecoderTypes, Statuses
  <2>5. Range(m_SList'[e]) = Range(m_SList[e]) \cup {dSurf}
    BY <1>1, <1>5, <2>1, AppendElements
  <2>6. ~ ToBeAdded(e)'
    BY <1>5, <2>1 DEF ToBeAdded, Encoders
  <2>7. UNCHANGED <<epc, eNext, isQuit, bPollFlag, encLib, m_BSPool>>
    BY <1>5 DEF encVars, encData
  <2>8. (Flushing(e)' <=> Flushing(e)) /\ (Draining(e)' <=> Draining(e))
    BY <2>7 DEF Flushing, Draining
  <2> HIDE DEF Flushing, Draining
  <2> QED  BY <1>2, <1>5, <2>1, <2>2, <2>3, <2>4, <2>5, <2>6, <2>7, <2>8 DEF EndInPlace
<1>6. CASE ~ \E f \in Encoders : EncodeSession(f) \/ EncoderUnlocks(f)
    BY <1>3, <1>5, <1>6, DecoderLeaves DEF Own
<1>7. CASE EncoderUnlocks(e)
    BY <1>3, <1>7 DEF EncoderUnlocks, encVars, encData, bufVars
\* the queue is at most shortened, and the session goes on as it must
<1>8. ASSUME NullLast(m_SList'[e]), Range(m_SList'[e]) \subseteq Range(m_SList[e]),
             UNCHANGED <<isQuit[e], bPollFlag[e], encLib[e]>>,
             Flushing(e)' => Flushing(e),
             Draining(e)' => m_BSPool'[e] = <<>>,
             ~ m_IsBufferingAllowed'[e] => Draining(e)'
      PROVE  EndInPlace(e)'
  <2> HIDE DEF Flushing, Draining
  <2> QED  BY <1>2, <1>8 DEF EndInPlace
<1>9. CASE GetSurface(e)
  <2>1. /\ UNCHANGED <<m_SList, m_IsBufferingAllowed, bPollFlag, encLib>> /\ epc[e] = "get"
    BY <1>9 DEF GetSurface, bufVars
  <2>2. epc'[e] \in {"encode", "wait"}
    BY <1>1, <1>9 DEF GetSurface, EndEncode, Goto, EncoderTypes, Undisturbed
  <2>3. ~ Flushing(e)' /\ ~ Draining(e)' /\ m_IsBufferingAllowed[e]
    BY <1>1, <2>1, <2>2 DEF Flushing, Draining, EndInPlace
  <2>4. \/ UNCHANGED isQuit
        \/ m_SList[e] # <<>> /\ isQuit'[e] = (Head(m_SList[e]) = NoSurface)
    BY <1>1, <1>9 DEF GetSurface, FrontSurface, EncoderTypes
  <2>5. isQuit'[e] => isQuit[e] \/ (m_SList[e] # <<>> /\ Head(m_SList[e]) = NoSurface)
    BY <2>4
  <2>6. m_SList[e] # <<>> /\ Head(m_SList[e]) = NoSurface => Range(m_SList[e]) = {NoSurface}
    BY <1>1, <1>2, NullLastKept
  <2> HIDE DEF Flushing, Draining
  <2> QED  BY <1>2, <2>1, <2>3, <2>5, <2>6 DEF EndInPlace
<1>10. CASE WaitForSurfaceInsertion(e) \/ WaitReturns(e) \/ WaitTimesOut(e)
  <2>1. UNCHANGED <<m_SList, m_IsBufferingAllowed, isQuit, bPollFlag, encLib>>
        /\ epc[e] \in {"wait", "blocked"}
    BY <1>10 DEF WaitForSurfaceInsertion, WaitReturns, WaitTimesOut, WaitFrame, encData
  <2>2. epc'[e] \in {"get", "wait", "blocked"}
    BY <1>1, <1>10 DEF WaitForSurfaceInsertion, WaitReturns, WaitTimesOut, EndEncode, Goto,
       EncoderTypes, Undisturbed
  <2>3. ~ Flushing(e)' /\ ~ Draining(e)' /\ m_IsBufferingAllowed[e]
    BY <1>1, <2>1, <2>2 DEF Flushing, Draining, EndInPlace
  <2> QED  BY <1>2, <1>8, <2>1, <2>3
<1>11. CASE EncodeOneFrame(e)
  <2>1. UNCHANGED <<m_SList, m_IsBufferingAllowed, isQuit, eSurf>> /\ epc[e] = "encode"
    BY <1>11 DEF EncodeOneFrame, bufVars
  <2>2. epc'[e] = "release" /\ eNext'[e] \in {"put", "get", "flush"}
    BY <1>1, <1>11 DEF EncodeOneFrame, ReleaseThen, Goto, EncoderTypes, Undisturbed
  <2>3. ~ Draining(e)' /\ m_IsBufferingAllowed[e]
    BY <1>1, <2>1, <2>2 DEF Draining, EndInPlace
  <2>4. bPollFlag[e] => bPollFlag'[e]
    BY <1>1, <1>11 DEF EncodeOneFrame, CountFrame, EncoderTypes
  <2>5. Flushing(e)' => encLib'[e] = <<>> /\ Submitted(e) = NoSurface
    <3>1. Flushing(e)' => eNext'[e] = "flush"
      BY <2>2 DEF Flushing, Draining
    <3>2. eNext'[e] = "flush" => encLib'[e] = <<>> /\ Submitted(e) = NoSurface
      BY <1>1, <1>11 DEF EncodeOneFrame, ReleaseThen, EncoderTypes, BitstreamTypes, Typed
    <3> QED  BY <3>1, <3>2
  <2>6. Submitted(e) = NoSurface => bPollFlag[e] \/ isQuit[e]
    BY <2>1, <2>3 DEF Submitted, TakesNote
  <2> HIDE DEF Flushing, Draining
  <2> QED  BY <1>2, <2>1, <2>3, <2>4, <2>5, <2>6 DEF EndInPlace
<1>12. CASE ReleaseSurface(e)
  <2>1. /\ UNCHANGED <<m_IsBufferingAllowed, isQuit, bPollFlag, encLib, m_BSPool>>
        /\ m_SList'[e] = RemoveFirst(m_SList[e], eSurf[e]) /\ epc[e] = "release"
    BY <1>1, <1>12 DEF ReleaseSurface, encData
  <2>2. epc'[e] = eNext[e] /\ eNext[e] # "fail"
    BY <1>1, <1>12 DEF ReleaseSurface, Goto, EncoderTypes, Undisturbed
  <2>3. Range(m_SList'[e]) \subseteq Range(m_SList[e]) /\ NullLast(m_SList'[e])
    BY <1>1, <1>2, <2>1, RemoveFirstRange, NullLastKept
  <2>4. (Flushing(e)' => Flushing(e)) /\ (Draining(e)' <=> Draining(e))
    BY <1>1, <2>1, <2>2 DEF Flushing, Draining, EncoderTypes
  <2> HIDE DEF Flushing, Draining
  <2> QED  BY <1>8, <2>1, <2>3, <2>4 DEF EndInPlace
<1>13. CASE PutBS(e)
  <2>1. UNCHANGED <<m_SList, m_IsBufferingAllowed, isQuit, bPollFlag, encLib>>
        /\ epc[e] \in {"put", "flush"}
    BY <1>13 DEF PutBS, bufVars
  <2>2. epc'[e] = IF epc[e] = "put" THEN "get" ELSE "flush"
    BY <1>1, <1>13 DEF PutBS, EndEncode, Goto, EncoderTypes, Undisturbed
  <2>3. (Flushing(e)' => Flushing(e)) /\ ~ Draining(e)' /\ m_IsBufferingAllowed[e]
    BY <1>1, <2>1, <2>2 DEF Flushing, Draining, EndInPlace
  <2> HIDE DEF Flushing, Draining
  <2> QED  BY <1>2, <1>8, <2>1, <2>3
<1>14. CASE CancelBuffering(e) \/ DrainSurface(e) \/ CloseEncoder(e)
  <2>1. UNCHANGED <<m_SList, isQuit, bPollFlag, encLib, m_BSPool>>
    BY <1>14 DEF CancelBuffering, DrainSurface, CloseEncoder, encData, bufVars
  <2>2. Flushing(e) /\ Draining(e)' /\ (Draining(e) \/ m_BSPool[e] = <<>>)
    BY <1>1, <1>14 DEF CancelBuffering, DrainSurface, CloseEncoder, ReleaseThen, EndEncode, Goto,
       Flushing, Draining, EncoderTypes
  <2> HIDE DEF Flushing, Draining
  <2> QED  BY <1>2, <1>8, <2>1, <2>2 DEF EndInPlace
<1> QED  BY <1>4, <1>6, <1>7, <1>9, <1>10, <1>11, <1>12, <1>13, <1>14 DEF EncodeSession

----------------------------------------------------------------------------
(* No frame goes missing on its way.                                       *)

(* The oldest frame that waits is the one that follows those encoded.      *)
LEMMA NextInLine ==
    ASSUME NEW p \in Nat, NEW n \in Nat, NEW A, NEW B, NEW C, NEW D, NEW E,
           InLine(A, B, C, D, E), A \cup B = 1..p,
           A \cup B \cup C \cup D \cup E = 1..n,
           NEW x, NEW R, C = R \cup {x}, \A y \in R : x < y
    PROVE  x = p + 1 /\ x <= n
<1>1. x \in 1..n /\ x \in C
    OBVIOUS
<1>2. x \notin 1..p
  <2>1. \A y \in 1..p : y < x
    BY <1>1 DEF InLine, Below
  <2> QED  BY <1>1, <2>1
<1>3. p + 1 <= x /\ p + 1 \in 1..n
    BY <1>1, <1>2
<1>4. p + 1 \in R \cup {x} \cup D \cup E
    BY <1>3
<1>5. \A y \in R \cup D \cup E : x < y
    BY <1>1 DEF InLine, Below
<1>6. ~ (x < p + 1)
    BY <1>1, <1>3
<1> QED  BY <1>1, <1>4, <1>5, <1>6

(* PutBS changes nothing about which frames there are.                     *)
LEMMA FramesMoved ==
    ASSUME NEW w \in Seq(0..NumFrames), NEW q \in Seq(Bitstreams), q # <<>>
    PROVE  Range(Frames(Append(w, Head(q).frame), Tail(q))) = Range(Frames(w, q))
<1> DEFINE v == Append(w, Head(q).frame)
           x == Frames(v, Tail(q))
           y == Frames(w, q)
<1>1. /\ v \in Seq(0..NumFrames) /\ Cut(x, y)
    BY FramesWritten
<1>2. /\ Tail(q) \in Seq(Bitstreams) /\ Head(q) \in Bitstreams
      /\ Len(q) \in Nat \ {0} /\ Len(Tail(q)) = Len(q) - 1
    BY TailElements
<1>3. Len(v) = Len(w) + 1 /\ Len(w) \in Nat
  <2>1. Head(q).frame \in 0..NumFrames
    BY <1>2 DEF Bitstreams
  <2> QED  BY <2>1, AppendElements
<1> HIDE DEF v
<1>4. x \in Seq(0..NumFrames) /\ Len(x) = Len(v) + Len(Tail(q))
    BY <1>1, <1>2, FramesElements
<1>5. y \in Seq(0..NumFrames) /\ Len(y) = Len(w) + Len(q)
    BY FramesElements
<1> HIDE DEF x, y
<1>6. Len(x) = Len(y) /\ \A i \in 1..Len(x) : x[i] = y[i]
    BY <1>1, <1>2, <1>3, <1>4, <1>5 DEF Cut
<1>7. Range(x) = {x[i] : i \in 1..Len(x)} /\ Range(y) = {y[i] : i \in 1..Len(y)}
  <2>1. Range(x) = {x[i] : i \in 1..Len(x)}
    BY <1>4, RangeEquality
  <2>2. Range(y) = {y[i] : i \in 1..Len(y)}
    BY <1>5, RangeEquality
  <2> QED  BY <2>1, <2>2
<1> QED  BY <1>6, <1>7 DEF x, y, v

(* The frames there are, before and after a step.                          *)
LEMMA MissingAre ==
    ASSUME NEW e
    PROVE  /\ NoneMissing(e) <=>
                /\ 0 \notin Range(Frames(written[e], m_BSPool[e]))
                /\ Range(Frames(written[e], m_BSPool[e])) \cup InEncoder(e) = 1..eProcessed[e]
                /\ eProcessed[e] <= nInput
                /\ ~ bPollFlag[e] =>
                       Range(Frames(written[e], m_BSPool[e])) \cup InEncoder(e) \cup Waiting(e)
                           \cup Coming(e) \cup InDecoder = 1..nInput
           /\ NoneMissing(e)' <=>
                /\ 0 \notin Range(Frames(written'[e], m_BSPool'[e]))
                /\ Range(Frames(written'[e], m_BSPool'[e])) \cup InEncoder(e)' = 1..eProcessed'[e]
                /\ eProcessed'[e] <= nInput'
                /\ ~ bPollFlag'[e] =>
                       Range(Frames(written'[e], m_BSPool'[e])) \cup InEncoder(e)' \cup Waiting(e)'
                           \cup Coming(e)' \cup InDecoder' = 1..nInput'
<1>1. 0 \notin Range(EncodedFrames(e)) => Out(e) = Range(EncodedFrames(e))
    BY DEF Out
<1>2. 0 \notin Range(EncodedFrames(e))' => Out(e)' = Range(EncodedFrames(e))'
    BY DEF Out
<1>3. /\ Range(EncodedFrames(e)) = Range(Frames(written[e], m_BSPool[e]))
      /\ Range(EncodedFrames(e))' = Range(Frames(written'[e], m_BSPool'[e]))
    BY DEF EncodedFrames, Frames, Range
<1> QED  BY <1>1, <1>2, <1>3 DEF NoneMissing

(* EncodeOneFrame submits the next frame of the stream, and what comes out *)
(* was in the encoder.                                                     *)
LEMMA EncodeMissesNone ==
    ASSUME Typed, NEW e \in Encoders, InTurn(e), LimitKept(e), NoneMissing(e),
           Undisturbed(e)', EncodeOneFrame(e)
    PROVE  NoneMissing(e)'
<1> DEFINE s == Submitted(e)
           lib == IF s = NoSurface THEN encLib[e] ELSE Append(encLib[e], s)
           F == Range(Frames(written[e], m_BSPool[e]))
           F1 == Range(Frames(written'[e], m_BSPool'[e]))
           LibFrames == {content[u] : u \in Range(lib)}
           p == eProcessed[e]
<1>1. /\ epc[e] = "encode" /\ UNCHANGED <<bufVars, eSurf, written>>
      /\ UNCHANGED <<content, decLib, dSurf, dIdx, dpc, nInput, m_SList>>
    BY DEF EncodeOneFrame, OtherThreads, decVars, bufVars
<1>2. /\ m_SList[e] \in Seq(Surf0) /\ encLib[e] \in Seq(Surfaces)
      /\ m_BSPool[e] \in Seq(Bitstreams) /\ written[e] \in Seq(0..NumFrames)
      /\ eSurf[e] \in Surf0
      /\ m_BSPool \in [Encoders -> Seq(Bitstreams)]
      /\ encLib \in [Encoders -> Seq(Surfaces)]
      /\ freeBS \in [Encoders -> SUBSET (1..AsyncDepth)]
      /\ content \in [Surfaces -> 0..NumFrames] /\ EncoderTypes
      /\ nInput \in Nat /\ p \in Nat /\ FrameLimit[e] \in Nat \ {0} /\ NoSurface \notin Surfaces
  <2>1. /\ m_SList[e] \in Seq(Surf0) /\ encLib[e] \in Seq(Surfaces)
        /\ m_BSPool[e] \in Seq(Bitstreams) /\ written[e] \in Seq(0..NumFrames)
        /\ m_BSPool \in [Encoders -> Seq(Bitstreams)]
        /\ encLib \in [Encoders -> Seq(Surfaces)]
        /\ freeBS \in [Encoders -> SUBSET (1..AsyncDepth)]
    BY SessionFacts
  <2>2. eSurf[e] \in Surf0 /\ p \in Nat /\ EncoderTypes
    BY DEF Typed, EncoderTypes
  <2>3. content \in [Surfaces -> 0..NumFrames] /\ nInput \in Nat
        /\ FrameLimit[e] \in Nat \ {0} /\ NoSurface \notin Surfaces
    BY ConstantFacts, DecodeLimitCovers DEF Typed, HolderTypes, DecoderTypes
  <2> QED  BY <2>1, <2>2, <2>3
<1>3. /\ InLine(Out(e), InEncoder(e), Waiting(e), Coming(e), InDecoder)
      /\ Rising(content, m_SList[e]) /\ InOrder(Frames(written[e], m_BSPool[e]))
      /\ eSurf[e] \in Surfaces => m_SList[e] # <<>> /\ eSurf[e] = Head(m_SList[e])
      /\ Rising(content, encLib[e])
    BY <1>1, FramesAre DEF InTurn
<1>4. /\ 0 \notin F /\ F \cup InEncoder(e) = 1..p /\ p <= nInput
      /\ ~ bPollFlag[e] =>
             F \cup InEncoder(e) \cup Waiting(e) \cup Coming(e) \cup InDecoder = 1..nInput
    BY MissingAre
<1>5. Out(e) = F
    BY <1>4, FramesAre
<1>6. Coming(e)' = Coming(e) /\ InDecoder' = InDecoder
    BY <1>1 DEF Coming, InDecoder, ToBeAdded
<1>7. epc'[e] = "release" /\ eNext'[e] # "fail"
    BY <1>2, <1>1 DEF EncodeOneFrame, ReleaseThen, Goto, EncoderTypes, Undisturbed
<1>8. Queued(e)' = {u \in Range(m_SList[e]) \cap Surfaces : u # eSurf[e]}
    BY <1>1, <1>7 DEF Queued
<1>9. Queued(e) = Range(m_SList[e]) \cap Surfaces
    BY <1>1 DEF Queued
<1> HIDE DEF s, F, F1, p
\* what is submitted
<1>10. /\ bPollFlag'[e] = FALSE => ~ bPollFlag[e]
       /\ s = NoSurface => eProcessed'[e] = p /\ bPollFlag'[e] = bPollFlag[e]
       /\ s # NoSurface => eProcessed'[e] = p + 1 /\ ~ bPollFlag[e] /\ s = eSurf[e]
                           /\ s \in Surfaces
  <2>1. CountFrame(e, s)
    BY DEF EncodeOneFrame, s
  <2>2. s # NoSurface => ~ bPollFlag[e] /\ s = eSurf[e] /\ s \in Surfaces
    BY <1>2 DEF s, Submitted, Surf0
  <2>3. CASE s = NoSurface
    BY <1>2, <2>1, <2>3 DEF CountFrame, p
  <2>4. CASE s # NoSurface
    BY <1>2, <2>1, <2>2, <2>4 DEF CountFrame, p, EncoderTypes
  <2> QED  BY <2>3, <2>4
<1>11. /\ LibFrames = IF s = NoSurface THEN InEncoder(e) ELSE InEncoder(e) \cup {content[s]}
       /\ lib \in Seq(Surfaces)
  <2>1. CASE s = NoSurface
    BY <1>2, <2>1 DEF InEncoder
  <2>2. CASE s # NoSurface
    <3>1. Append(encLib[e], s) \in Seq(Surfaces)
          /\ Range(Append(encLib[e], s)) = Range(encLib[e]) \cup {s}
      BY <1>2, <1>10, <2>2, AppendElements
    <3> QED  BY <2>2, <3>1 DEF InEncoder
  <2> QED  BY <2>1, <2>2
<1> HIDE DEF lib, LibFrames
<1>12. s # NoSurface =>
          /\ content[s] = p + 1 /\ p + 1 <= nInput
          /\ Waiting(e) = Waiting(e)' \cup {content[s]}
  <2> SUFFICES ASSUME s # NoSurface
               PROVE  /\ content[s] = p + 1 /\ p + 1 <= nInput
                      /\ Waiting(e) = Waiting(e)' \cup {content[s]}
    OBVIOUS
  <2>1. s = Head(m_SList[e]) /\ m_SList[e] # <<>> /\ s \in Surfaces /\ s = eSurf[e]
    BY <1>3, <1>10
  <2>2. /\ Range(m_SList[e]) = Range(Tail(m_SList[e])) \cup {s}
        /\ \A u \in Range(Tail(m_SList[e])) \cap Surfaces : content[s] < content[u]
    BY ZenonT(60), <1>2, <1>3, <2>1, TailElements, RisingTail
  <2>3. Queued(e) = Queued(e)' \cup {s} /\ \A u \in Queued(e)' : content[s] < content[u]
    BY <1>8, <1>9, <2>1, <2>2
  <2> DEFINE R == {content[u] : u \in Queued(e)'}
  <2>4. Waiting(e)' = R
    BY <1>1 DEF Waiting
  <2>5. Waiting(e) = R \cup {content[s]} /\ \A y \in R : content[s] < y
    BY <2>3 DEF Waiting
  <2> HIDE DEF R
  <2>6. content[s] = p + 1 /\ content[s] <= nInput
    BY <1>2, <1>3, <1>4, <1>5, <1>10, <2>5, NextInLine DEF p
  <2> QED  BY <2>4, <2>5, <2>6
<1>13. s = NoSurface /\ ~ bPollFlag[e] => Waiting(e)' = Waiting(e)
  <2>1. s = NoSurface /\ ~ bPollFlag[e] => eSurf[e] = NoSurface
    BY DEF s, Submitted
  <2>2. s = NoSurface /\ ~ bPollFlag[e] => Queued(e)' = Queued(e)
    BY <1>2, <1>8, <1>9, <2>1
  <2> QED  BY <1>1, <2>2 DEF Waiting
\* the frames encoded or in the encoder are one more
<1>14. F \cup LibFrames = 1..eProcessed'[e] /\ eProcessed'[e] <= nInput'
  <2>1. CASE s = NoSurface
    BY <1>1, <1>4, <1>10, <1>11, <2>1
  <2>2. CASE s # NoSurface
    <3>1. F \cup LibFrames = (1..p) \cup {p + 1}
      BY <1>4, <1>11, <1>12, <2>2
    <3>2. p \in Nat
      BY <1>2 DEF p
    <3> QED  BY <1>1, <1>10, <1>12, <2>2, <3>1, <3>2
  <2> QED  BY <2>1, <2>2
<1>15. ~ bPollFlag'[e] =>
          F \cup LibFrames \cup Waiting(e)' \cup Coming(e)' \cup InDecoder' = 1..nInput'
  <2>1. CASE s = NoSurface
    BY <1>1, <1>4, <1>6, <1>10, <1>11, <1>13, <2>1
  <2>2. CASE s # NoSurface
    BY <1>1, <1>4, <1>6, <1>10, <1>11, <1>12, <2>2
  <2> QED  BY <2>1, <2>2
\* the encoder outputs one of its frames, or none
<1>16. PICK bs \in freeBS[e] :
          \/ /\ lib # <<>>
             /\ encLib' = [encLib EXCEPT ![e] = Tail(lib)]
             /\ m_BSPool' = [m_BSPool EXCEPT ![e] =
                    Append(@, [id |-> bs, frame |-> content[Head(lib)]])]
          \/ encLib' = [encLib EXCEPT ![e] = lib] /\ UNCHANGED m_BSPool
  <2>1. ~ ReleaseThen(e, "fail")
    BY <1>2, <1>7 DEF ReleaseThen, EncoderTypes
  <2> QED  BY <2>1 DEF EncodeOneFrame, lib, s
<1>17. F1 \cup InEncoder(e)' = F \cup LibFrames /\ 0 \notin F1
  <2>1. CASE encLib' = [encLib EXCEPT ![e] = lib] /\ UNCHANGED m_BSPool
    <3>1. encLib'[e] = lib /\ F1 = F
      BY <1>1, <1>2, <2>1 DEF F, F1
    <3>2. InEncoder(e)' = LibFrames
      BY <1>1, <3>1 DEF InEncoder, LibFrames
    <3> QED  BY <1>4, <3>1, <3>2
  <2>2. CASE /\ lib # <<>>
             /\ encLib' = [encLib EXCEPT ![e] = Tail(lib)]
             /\ m_BSPool' = [m_BSPool EXCEPT ![e] =
                    Append(@, [id |-> bs, frame |-> content[Head(lib)]])]
    <3> DEFINE x == content[Head(lib)]
               b == [id |-> bs, frame |-> x]
    <3>1. /\ Head(lib) \in Surfaces /\ Range(lib) = Range(Tail(lib)) \cup {Head(lib)}
      BY <1>11, <2>2, TailElements
    <3>2. encLib'[e] = Tail(lib) /\ m_BSPool'[e] = Append(m_BSPool[e], b)
      BY <1>2, <2>2
    <3>3. b \in Bitstreams /\ b.frame = x
      BY <1>2, <3>1 DEF Bitstreams
    <3>4. InEncoder(e)' \cup {x} = LibFrames
      BY <1>1, <3>1, <3>2 DEF InEncoder, LibFrames
    <3> HIDE DEF x, b
    <3>5. x # 0
      <4>1. x \in 1..eProcessed'[e] /\ eProcessed'[e] \in Nat
        BY <1>2, <1>10, <1>14, <3>4 DEF p
      <4> QED  BY <4>1
    <3>6. Range(Frames(written[e], Append(m_BSPool[e], b))) = F \cup {x}
      BY <1>2, <3>3, FramesGrow DEF F
    <3>7. F1 = F \cup {x}
      BY <1>1, <3>2, <3>6 DEF F1
    <3> QED  BY <1>4, <3>4, <3>5, <3>7
  <2> QED  BY <1>16, <2>1, <2>2
<1> QED  BY <1>14, <1>15, <1>17, MissingAre DEF F1


(* A step that moves frames from one place to the next loses none.         *)
LEMMA MissingKept ==
    ASSUME NEW e, NoneMissing(e),
           Range(Frames(written'[e], m_BSPool'[e])) = Range(Frames(written[e], m_BSPool[e])),
           InEncoder(e)' = InEncoder(e), UNCHANGED <<nInput, eProcessed[e], bPollFlag[e]>>,
           ~ bPollFlag[e] =>
               Waiting(e)' \cup Coming(e)' \cup InDecoder'
                   = Waiting(e) \cup Coming(e) \cup InDecoder
    PROVE  NoneMissing(e)'
<1> DEFINE F == Range(Frames(written[e], m_BSPool[e]))
           F1 == Range(Frames(written'[e], m_BSPool'[e]))
<1>1. /\ 0 \notin F /\ F \cup InEncoder(e) = 1..eProcessed[e] /\ eProcessed[e] <= nInput
      /\ ~ bPollFlag[e] =>
             F \cup InEncoder(e) \cup Waiting(e) \cup Coming(e) \cup InDecoder = 1..nInput
    BY MissingAre
<1>2. F1 = F
    OBVIOUS
<1> HIDE DEF F, F1
<1>3. /\ 0 \notin F1 /\ F1 \cup InEncoder(e)' = 1..eProcessed'[e] /\ eProcessed'[e] <= nInput'
      /\ ~ bPollFlag'[e] =>
             F1 \cup InEncoder(e)' \cup Waiting(e)' \cup Coming(e)' \cup InDecoder' = 1..nInput'
    BY <1>1, <1>2
<1> QED  BY <1>3, MissingAre DEF F1

(* The session's own steps.                                                *)
LEMMA SessionMissesNone ==
    ASSUME Typed, EncoderOwnership, NEW e \in Encoders, InTurn(e), LimitKept(e), EndInPlace(e),
           NoneMissing(e), Undisturbed(e)', EncodeSession(e) \/ EncoderUnlocks(e)
    PROVE  NoneMissing(e)'
<1>1. /\ m_SList[e] \in Seq(Surf0) /\ m_BSPool[e] \in Seq(Bitstreams)
      /\ written[e] \in Seq(0..NumFrames)
      /\ m_SList \in [Encoders -> Seq(Surf0)]
      /\ m_BSPool \in [Encoders -> Seq(Bitstreams)]
      /\ written \in [Encoders -> Seq(0..NumFrames)]
    BY SessionFacts
<1>2. EncoderTypes /\ faults \in Nat /\ NoSurface \notin Surfaces
    BY ConstantFacts DEF Typed, LauncherTypes
<1>3. OtherThreads
    BY EncodeFrame DEF EncoderUnlocks
<1>4. UNCHANGED <<content, nInput>> /\ Coming(e)' = Coming(e) /\ InDecoder' = InDecoder
    BY <1>3 DEF OtherThreads, decVars, Coming, InDecoder, ToBeAdded
<1>5. /\ encSts'[e] # "err" /\ ~ (SoftRecovery /\ MayFail)
    BY <1>2 DEF Undisturbed, MayFail
\* no frame is encoded or written
<1>6. ASSUME UNCHANGED <<encLib[e], eProcessed[e], bPollFlag[e]>>,
             Range(Frames(written'[e], m_BSPool'[e])) = Range(Frames(written[e], m_BSPool[e])),
             ~ bPollFlag[e] => Queued(e)' = Queued(e)
      PROVE  NoneMissing(e)'
  <2>1. InEncoder(e)' = InEncoder(e) /\ (~ bPollFlag[e] => Waiting(e)' = Waiting(e))
    BY <1>4, <1>6 DEF InEncoder, Waiting
  <2> QED  BY <1>4, <1>6, <2>1, MissingKept
<1>7. ASSUME UNCHANGED <<encLib[e], eProcessed[e], bPollFlag[e], m_SList[e], m_BSPool[e],
                         written[e]>>,
             epc[e] # "release", epc'[e] # "release"
      PROVE  NoneMissing(e)'
  <2>1. Queued(e)' = Queued(e)
    BY <1>7 DEF Queued
  <2> QED  BY <1>6, <1>7, <2>1
<1>8. CASE GetSurface(e)
  <2>1. /\ UNCHANGED <<m_SList, encLib, eProcessed, bPollFlag, written>>
        /\ epc[e] = "get"
    BY <1>8 DEF GetSurface, bufVars
  <2>2. UNCHANGED m_BSPool
    BY <1>5, <1>8 DEF GetSurface, SyncInput
  <2>3. epc'[e] # "release"
    BY <1>2, <1>8 DEF GetSurface, EndEncode, Goto, EncoderTypes
  <2> QED  BY <1>7, <2>1, <2>2, <2>3
<1>9. CASE WaitForSurfaceInsertion(e) \/ WaitReturns(e) \/ WaitTimesOut(e)
  <2>1. /\ UNCHANGED <<m_SList, encLib, eProcessed, bPollFlag, written, m_BSPool>>
        /\ epc[e] \in {"wait", "blocked"} /\ epc'[e] # "release"
    BY <1>2, <1>9 DEF WaitForSurfaceInsertion, WaitReturns, WaitTimesOut, WaitFrame, encData,
       EndEncode, Goto, EncoderTypes
  <2> QED  BY <1>7, <2>1
<1>10. CASE ReleaseSurface(e)
  <2>1. /\ UNCHANGED <<encLib, eProcessed, bPollFlag, written, m_BSPool>>
        /\ epc[e] = "release" /\ epc'[e] # "release"
        /\ m_SList'[e] = RemoveFirst(m_SList[e], eSurf[e])
    BY <1>1, <1>2, <1>10 DEF ReleaseSurface, encData, EndEncode, Goto, EncoderTypes
  <2>2. Range(m_SList'[e]) \cap Surfaces = (Range(m_SList[e]) \cap Surfaces) \ {eSurf[e]}
    BY <1>1, <2>1, RemoveFirstOnce DEF EncoderOwnership
  <2>3. Queued(e)' = Queued(e)
    BY <2>1, <2>2 DEF Queued
  <2> HIDE DEF Queued
  <2> QED  BY <1>6, <2>1, <2>3
<1>11. CASE PutBS(e)
  <2>1. /\ UNCHANGED <<m_SList, encLib, eProcessed, bPollFlag>>
        /\ epc[e] \in {"put", "flush"} /\ m_BSPool[e] # <<>>
        /\ epc'[e] # "release"
    BY <1>2, <1>11 DEF PutBS, bufVars, EndEncode, Goto, EncoderTypes, Typed
  <2>2. /\ written'[e] = Append(written[e], Head(m_BSPool[e]).frame)
        /\ m_BSPool'[e] = Tail(m_BSPool[e])
    <3>1. ~ EndEncode(e, "err")
      BY <1>2, <1>5 DEF EndEncode, EncoderTypes
    <3> QED  BY <1>1, <1>5, <1>11, <3>1 DEF PutBS
  <2>3. Range(Frames(written'[e], m_BSPool'[e])) = Range(Frames(written[e], m_BSPool[e]))
    BY <1>1, <2>1, <2>2, FramesMoved
  <2>4. Queued(e)' = Queued(e)
    BY <2>1 DEF Queued
  <2> QED  BY <1>6, <2>1, <2>3, <2>4
<1>12. CASE CancelBuffering(e) \/ CloseEncoder(e)
  <2>1. /\ UNCHANGED <<m_SList, encLib, eProcessed, bPollFlag, written, m_BSPool>>
        /\ epc[e] \in {"flush", "drain"} /\ epc'[e] # "release"
    BY <1>2, <1>12 DEF CancelBuffering, CloseEncoder, encData, bufVars, EndEncode, Goto,
       EncoderTypes
  <2> QED  BY <1>7, <2>1
<1>13. CASE DrainSurface(e)
  <2>1. /\ UNCHANGED <<m_SList, encLib, eProcessed, bPollFlag, written, m_BSPool>>
        /\ epc[e] = "drain"
    BY <1>13 DEF DrainSurface, encData, bufVars
  <2>2. ~ bPollFlag[e] => Range(m_SList[e]) \subseteq {NoSurface}
    BY <2>1 DEF EndInPlace, Flushing, Draining
  <2>3. ~ bPollFlag[e] => Queued(e)' = Queued(e)
    BY <1>2, <2>1, <2>2 DEF Queued
  <2> QED  BY <1>6, <2>1, <2>3
<1>14. CASE EncoderUnlocks(e)
  <2>1. UNCHANGED <<m_SList, encLib, eProcessed, bPollFlag, written, m_BSPool, epc, eSurf>>
    BY <1>14 DEF EncoderUnlocks, bufVars, encVars, encData
  <2>2. Queued(e)' = Queued(e)
    BY <2>1 DEF Queued
  <2> QED  BY <1>6, <2>1, <2>2
<1> QED  BY <1>8, <1>9, <1>10, <1>11, <1>12, <1>13, <1>14, EncodeMissesNone DEF EncodeSession

(* A new frame is one more.                                                *)
LEMMA NewFrameIsNoted ==
    ASSUME IInv, DecodedInOrder, NEW e \in Encoders, InTurn(e), LimitKept(e), Outcome(e),
           EndInPlace(e), Undisturbed(e)', NoneMissing(e), NewFrame
    PROVE  NoneMissing(e)'
<1> DEFINE lib == Append(decLib, dSurf)
           c == content'
           F == Range(Frames(written[e], m_BSPool[e]))
           F1 == Range(Frames(written'[e], m_BSPool'[e]))
<1>1. /\ UNCHANGED <<encHold, encVars, bufVars>> /\ dpc = "decode" /\ nInput' = nInput + 1
    BY DEF NewFrame, DecodeOneFrame
<1>2. UNCHANGED <<m_SList, epc, eSurf, encLib, written, m_BSPool, encSts, eProcessed, bPollFlag>>
    BY <1>1 DEF encVars, encData, bufVars
<1>3. /\ nInput \in Nat /\ encLib[e] \in Seq(Surfaces) /\ encSts[e] \in Statuses
      /\ eProcessed[e] \in Nat /\ NumEnc \in Nat
  <2>1. Typed /\ NumFrames \in Nat /\ NumEnc \in Nat
    BY ConstantFacts DEF IInv
  <2>2. nInput \in Nat /\ encSts[e] \in Statuses /\ eProcessed[e] \in Nat
    BY <2>1 DEF Typed, DecoderTypes, EncoderTypes
  <2> QED  BY <2>1, <2>2, SessionFacts
<1>4. /\ \A s \in Surfaces : s # dSurf => c[s] = content[s]
      /\ dSurf \notin Range(m_SList[e]) /\ dSurf \notin encHold[e]
      /\ lib \in Seq(Surfaces)
      /\ {c[s] : s \in Range(lib)} = InDecoder \cup {nInput + 1}
    BY NewFrameFacts
\* what the session has encoded or will encode is in surfaces that keep their frames
<1>5. Range(encLib[e]) \subseteq encHold[e]
  <2>1. CASE epc[e] # "done"
    BY <2>1 DEF InTurn
  <2>2. CASE epc[e] = "done"
    <3>1. encLib[e] = <<>>
      BY <2>2 DEF EndInPlace, Flushing, Draining
    <3>2. Range(encLib[e]) = {encLib[e][i] : i \in 1..Len(encLib[e])} /\ Len(encLib[e]) = 0
      BY <1>3, <3>1, RangeEquality, EmptySeq
    <3> QED  BY <3>2
  <2> QED  BY <2>1, <2>2
<1>6. \A s \in Range(encLib[e]) : s \in Surfaces /\ c[s] = content[s]
  <2>1. Range(encLib[e]) = {encLib[e][i] : i \in 1..Len(encLib[e])}
    BY <1>3, RangeEquality
  <2>2. \A i \in 1..Len(encLib[e]) : encLib[e][i] \in Surfaces
    BY <1>3, ElementOfSeq
  <2> QED  BY <1>4, <1>5, <2>1, <2>2
<1>7. InEncoder(e)' = InEncoder(e)
  <2>1. InEncoder(e)' = {c[s] : s \in Range(encLib[e])}
    BY <1>2 DEF InEncoder
  <2> QED  BY <1>6, <2>1 DEF InEncoder
<1>8. Waiting(e)' = Waiting(e)
  <2>1. Waiting(e)' = {c[s] : s \in Queued(e)}
    BY <1>2 DEF Waiting, Queued
  <2>2. \A s \in Queued(e) : c[s] = content[s]
    BY <1>4 DEF Queued
  <2> QED  BY <2>1, <2>2 DEF Waiting
\* and the decoder has one more
<1>9. Coming(e) = {} /\ Coming(e)' \cup InDecoder' = InDecoder \cup {nInput + 1}
  <2>1. Coming(e) = {}
    BY <1>1 DEF Coming, ToBeAdded
  <2>2. CASE lib # <<>> /\ decLib' = Tail(lib) /\ StartAdding(Head(lib), "sync")
    <3>1. /\ Head(lib) \in Surfaces /\ Range(lib) = Range(Tail(lib)) \cup {Head(lib)}
      BY <1>4, <2>2, TailElements
    <3>2. ToBeAdded(e)' /\ dSurf' = Head(lib)
      BY <1>3, <2>2 DEF StartAdding, ToBeAdded, Encoders
    <3>3. Coming(e)' = {c[Head(lib)]}
      BY <3>1, <3>2 DEF Coming
    <3>4. InDecoder' = {c[s] : s \in Range(Tail(lib))}
      BY <2>2 DEF InDecoder
    <3> HIDE DEF c, lib
    <3>5. {c[s] : s \in Range(lib)} = {c[Head(lib)]} \cup {c[s] : s \in Range(Tail(lib))}
      BY <3>1
    <3> QED  BY <1>4, <2>1, <3>3, <3>4, <3>5
  <2>3. CASE decLib' = lib /\ dpc' = "free"
    <3>1. Coming(e)' = {} /\ InDecoder' = {c[s] : s \in Range(lib)}
      BY <2>3 DEF Coming, ToBeAdded, InDecoder
    <3> QED  BY <1>4, <2>1, <3>1
  <2> QED  BY <2>2, <2>3 DEF NewFrame, DecoderReturns
<1>10. /\ 0 \notin F /\ F \cup InEncoder(e) = 1..eProcessed[e] /\ eProcessed[e] <= nInput
       /\ ~ bPollFlag[e] =>
              F \cup InEncoder(e) \cup Waiting(e) \cup Coming(e) \cup InDecoder = 1..nInput
    BY MissingAre
<1>11. F1 = F /\ 1..nInput' = (1..nInput) \cup {nInput + 1} /\ eProcessed[e] <= nInput'
    BY <1>1, <1>2, <1>3, <1>10
<1> HIDE DEF F, F1
<1>12. /\ 0 \notin F1 /\ F1 \cup InEncoder(e)' = 1..eProcessed'[e] /\ eProcessed'[e] <= nInput'
       /\ ~ bPollFlag'[e] =>
              F1 \cup InEncoder(e)' \cup Waiting(e)' \cup Coming(e)' \cup InDecoder' = 1..nInput'
  <2>1. 0 \notin F1 /\ F1 \cup InEncoder(e)' = 1..eProcessed'[e] /\ eProcessed'[e] <= nInput'
    BY <1>2, <1>7, <1>10, <1>11
  <2>2. ASSUME ~ bPollFlag[e]
        PROVE  F1 \cup InEncoder(e)' \cup Waiting(e)' \cup Coming(e)' \cup InDecoder' = 1..nInput'
    <3>1. F \cup InEncoder(e) \cup Waiting(e) \cup InDecoder = 1..nInput
      BY <1>9, <1>10, <2>2
    <3> QED  BY <1>7, <1>8, <1>9, <1>11, <3>1
  <2> QED  BY <1>2, <2>1, <2>2
<1> QED  BY <1>12, MissingAre DEF F1

(* The decoder's steps, and the launcher's.                                *)
LEMMA DecoderMissesNone ==
    ASSUME IInv, DecodedInOrder, NEW e \in Encoders, InTurn(e), LimitKept(e), Outcome(e),
           EndInPlace(e), Undisturbed(e)', NoneMissing(e), [Next]_vars,
           ~ \E f \in Encoders : EncodeSession(f) \/ EncoderUnlocks(f)
    PROVE  NoneMissing(e)'
<1>1. Typed /\ decLib \in Seq(Surfaces) /\ m_SList[e] \in Seq(Surf0) /\ dSurf \in Surf0
      /\ NumEnc \in Nat /\ dIdx \in Encoders /\ NoSurface \notin Surfaces
      /\ m_SList \in [Encoders -> Seq(Surf0)] /\ dAfter \notin {"add", "signal"}
    BY ConstantFacts, SessionFacts DEF IInv, Typed, DecoderTypes
\* the content of every surface stays
<1>2. ASSUME UNCHANGED <<content, nInput, encVars>>,
             ~ bPollFlag[e] =>
                 Waiting(e)' \cup Coming(e)' \cup InDecoder'
                     = Waiting(e) \cup Coming(e) \cup InDecoder
      PROVE  NoneMissing(e)'
  <2>1. UNCHANGED <<written, m_BSPool, encLib, eProcessed, bPollFlag>>
    BY <1>2 DEF encVars, encData
  <2>2. InEncoder(e)' = InEncoder(e)
    BY <1>2, <2>1 DEF InEncoder
  <2>3. Range(Frames(written'[e], m_BSPool'[e])) = Range(Frames(written[e], m_BSPool[e]))
    BY <2>1
  <2> QED  BY <1>2, <2>1, <2>2, <2>3, MissingKept
\* no surface moves
<1>3. ASSUME UNCHANGED <<content, nInput, decLib, m_SList, encVars>>, Coming(e)' = Coming(e)
      PROVE  NoneMissing(e)'
  <2>1. UNCHANGED <<epc, eSurf>>
    BY <1>3 DEF encVars
  <2>2. Waiting(e)' = Waiting(e) /\ InDecoder' = InDecoder
    BY <1>3, <2>1 DEF Waiting, Queued, InDecoder
  <2> QED  BY <1>2, <1>3, <2>2
<1>4. CASE DecodeStart \/ GetFreeSurface \/ SyncOldest \/ NoMoreFramesAgain
  <2>1. UNCHANGED <<content, nInput, decLib, m_SList, encVars>>
        /\ dpc \notin {"add", "signal"}
    BY <1>4 DEF DecodeStart, GetFreeSurface, SyncOldest, NoMoreFramesAgain, StopDecoding,
       bufVars
  <2>2. dSurf' = NoSurface \/ dpc' \notin {"add", "signal"}
    BY <1>4 DEF DecodeStart, GetFreeSurface, SyncOldest, NoMoreFramesAgain, StopDecoding,
       EndDecode, StartAdding
  <2>3. Coming(e) = {} /\ Coming(e)' = {}
    BY <1>1, <2>1, <2>2 DEF Coming, ToBeAdded
  <2> QED  BY <1>3, <2>1, <2>3
<1>5. CASE DecodeOneFrame
  <2>1. CASE NewFrame
    BY <2>1, NewFrameIsNoted
  <2>2. CASE ~ NewFrame
    <3>1. UNCHANGED <<content, nInput, decLib, m_SList, encVars>> /\ dpc = "decode"
      BY <1>5, <2>2 DEF DecodeOneFrame, NewFrame, StopDecoding, bufVars
    <3>2. dSurf' = NoSurface \/ dpc' \notin {"add", "signal"}
      BY <1>5, <2>2 DEF DecodeOneFrame, NewFrame, StopDecoding, EndDecode, StartAdding
    <3>3. Coming(e) = {} /\ Coming(e)' = {}
      BY <1>1, <3>1, <3>2 DEF Coming, ToBeAdded
    <3> QED  BY <1>3, <3>1, <3>3
  <2> QED  BY <2>1, <2>2
<1>6. CASE DecodeLastFrame
  <2>1. UNCHANGED <<content, nInput, m_SList, encVars>> /\ dpc = "decode"
    BY <1>6 DEF DecodeLastFrame, bufVars
  <2>2. Coming(e) = {}
    BY <2>1 DEF Coming, ToBeAdded
  <2>3. CASE decLib # <<>> /\ decLib' = Tail(decLib) /\ StartAdding(Head(decLib), "sync")
    <3>1. /\ Head(decLib) \in Surfaces /\ Range(decLib) = Range(Tail(decLib)) \cup {Head(decLib)}
      BY <1>1, <2>3, TailElements
    <3>2. ToBeAdded(e)' /\ dSurf' = Head(decLib)
      BY <1>1, <2>3 DEF StartAdding, ToBeAdded, Encoders
    <3>3. Coming(e)' = {content[Head(decLib)]}
      BY <2>1, <3>1, <3>2 DEF Coming
    <3>4. InDecoder = InDecoder' \cup {content[Head(decLib)]}
      BY <2>1, <2>3, <3>1 DEF InDecoder
    <3>5. Waiting(e)' = Waiting(e)
      BY <2>1 DEF Waiting, Queued, encVars
    <3> QED  BY <1>2, <2>1, <2>2, <3>3, <3>4, <3>5
  <2>4. CASE decLib' = decLib /\ (EndDecode("ok") \/ EndDecode("err"))
    <3>1. Coming(e)' = {}
      BY <1>1, <2>4 DEF Coming, EndDecode, StartAdding
    <3> QED  BY <1>3, <2>1, <2>2, <2>4, <3>1
  <2> QED  BY <1>6, <2>3, <2>4 DEF DecodeLastFrame
\* the walk goes on to the next buffer
<1>7. ASSUME NextBuffer, dpc \in {"add", "signal"}, UNCHANGED <<dSurf, content>>,
             dpc = "add" => e # dIdx
      PROVE  Coming(e)' = Coming(e)
  <2>1. ToBeAdded(e)' <=> ToBeAdded(e)
    <3>1. e \in Nat /\ dIdx \in Nat /\ e >= 1
      BY <1>1 DEF Encoders
    <3> QED  BY <1>1, <1>7, <3>1 DEF NextBuffer, ToBeAdded
  <2> QED  BY <1>7, <2>1 DEF Coming
<1>8. CASE SignalInsertion
  <2>1. UNCHANGED <<content, nInput, decLib, m_SList, encVars, dSurf>>
        /\ NextBuffer /\ dpc = "signal"
    BY <1>8 DEF SignalInsertion
  <2> QED  BY <1>3, <1>7, <2>1
<1>9. CASE AddSurface
  <2>1. UNCHANGED <<content, nInput, decLib, encVars, dSurf>> /\ dpc = "add"
    BY <1>9 DEF AddSurface
  <2>2. CASE dIdx # e
    <3>1. CASE ~ m_IsBufferingAllowed[dIdx]
      <4>1. NextBuffer /\ UNCHANGED m_SList
        BY <1>9, <3>1 DEF AddSurface
      <4> QED  BY <1>3, <1>7, <2>1, <2>2, <4>1
    <3>2. CASE m_IsBufferingAllowed[dIdx]
      <4>1. /\ m_SList'[e] = m_SList[e] /\ dpc' = "signal" /\ dIdx' = dIdx
        BY <1>1, <1>9, <2>2, <3>2 DEF AddSurface
      <4>2. Waiting(e)' = Waiting(e) /\ InDecoder' = InDecoder
        BY <2>1, <4>1 DEF Waiting, Queued, InDecoder, encVars
      <4>3. Coming(e)' = Coming(e)
        BY <2>1, <2>2, <4>1 DEF Coming, ToBeAdded
      <4> QED  BY <1>2, <2>1, <4>2, <4>3
    <3> QED  BY <3>1, <3>2
  <2>3. CASE dIdx = e
    <3>1. ToBeAdded(e)
      BY <2>1, <2>3 DEF ToBeAdded
    <3>2. CASE ~ m_IsBufferingAllowed[e]
      <4>1. bPollFlag[e]
        BY <3>1, <3>2 DEF EndInPlace, Flushing
      <4> QED  BY <1>2, <2>1, <4>1
    <3>3. CASE m_IsBufferingAllowed[e]
      <4>1. /\ m_SList'[e] = Append(m_SList[e], dSurf) /\ dpc' = "signal" /\ dIdx' = e
        BY <1>1, <1>9, <2>3, <3>3 DEF AddSurface
      <4>2. Range(m_SList'[e]) = Range(m_SList[e]) \cup {dSurf}
        BY <1>1, <4>1, AppendElements
      <4>3. Coming(e) = {content[s] : s \in {dSurf} \cap Surfaces}
        BY <3>1 DEF Coming
      <4>4. Coming(e)' = {}
        <5>1. ~ ToBeAdded(e)'
          BY <4>1 DEF ToBeAdded, Encoders
        <5> QED  BY <5>1 DEF Coming
      <4>5. epc[e] = "release" /\ dSurf \in Surfaces => dSurf # eSurf[e]
        <5>1. dSurf \in Surfaces => dSurf \notin Range(m_SList[e])
          BY <3>1 DEF IInv, DecoderOwnership
        <5>2. epc[e] = "release" /\ eSurf[e] \in Surfaces => eSurf[e] \in Range(m_SList[e])
          <6>1. epc[e] = "release" /\ eSurf[e] \in Surfaces
                    => m_SList[e] # <<>> /\ eSurf[e] = Head(m_SList[e])
            BY DEF InTurn
          <6> QED  BY <1>1, <6>1, TailElements
        <5> QED  BY <5>1, <5>2
      <4>6. Queued(e)' = Queued(e) \cup ({dSurf} \cap Surfaces)
        <5>1. UNCHANGED <<epc, eSurf>>
          BY <2>1 DEF encVars
        <5> QED  BY <4>2, <4>5, <5>1 DEF Queued
      <4>7. Waiting(e)' = Waiting(e) \cup Coming(e)
        BY <2>1, <4>3, <4>6 DEF Waiting
      <4>8. InDecoder' = InDecoder
        BY <2>1 DEF InDecoder
      <4> QED  BY <1>2, <2>1, <4>4, <4>7, <4>8
    <3> QED  BY <3>2, <3>3
  <2> QED  BY <2>2, <2>3
<1>10. CASE DecoderUnlocks \/ (\E i \in Sessions : CollectSession(i)) \/ UNCHANGED vars
  <2>1. /\ UNCHANGED <<content, nInput, decLib, m_SList, encVars>>
        /\ UNCHANGED <<dpc, dSurf, dIdx>>
    BY <1>10 DEF DecoderUnlocks, CollectSession, vars, decVars, bufVars
  <2>2. Coming(e)' = Coming(e)
    BY <2>1 DEF Coming, ToBeAdded
  <2> QED  BY <1>3, <2>1, <2>2
<1> QED  BY <1>4, <1>5, <1>6, <1>8, <1>9, <1>10 DEF Next, Finished, DecodeSession

(* Every step: no frame goes missing.                                      *)
LEMMA NoneMissingStep ==
    ASSUME IInv, DecodedInOrder, NEW e \in Encoders, InTurn(e), LimitKept(e), Outcome(e),
           EndInPlace(e), Undisturbed(e)', NoneMissing(e), [Next]_vars
    PROVE  NoneMissing(e)'
<1>1. Typed /\ EncoderOwnership
    BY DEF IInv
<1>2. ASSUME NEW f \in Encoders, e # f, EncodeSession(f) \/ EncoderUnlocks(f)
      PROVE  NoneMissing(e)'
  <2>1. UNCHANGED Own(e) /\ OtherThreads
    BY <1>1, <1>2, OtherSessions, EncodeFrame DEF EncoderUnlocks
  <2>2. /\ InEncoder(e)' = InEncoder(e) /\ Coming(e)' = Coming(e) /\ InDecoder' = InDecoder
        /\ Waiting(e)' = Waiting(e) /\ UNCHANGED nInput
    BY <2>1 DEF Own, OtherThreads, decVars, InEncoder, Coming, ToBeAdded, InDecoder, Waiting,
       Queued
  <2>3. Range(Frames(written'[e], m_BSPool'[e])) = Range(Frames(written[e], m_BSPool[e]))
    BY <2>1 DEF Own
  <2> QED  BY <2>1, <2>2, <2>3, MissingKept DEF Own
<1> QED  BY <1>1, <1>2, SessionMissesNone, DecoderMissesNone

----------------------------------------------------------------------------
(* The theorem about the whole stream.                                     *)

CompleteInv ==
    /\ OrderInv /\ EndInv /\ DecodedWhole
    /\ \A e \in Encoders :
          /\ LimitKept(e)
          /\ Undisturbed(e) => EndInPlace(e) /\ NoneMissing(e)

(* It holds at first.                                                      *)
LEMMA CompleteInvInit == Init => CompleteInv
<1> SUFFICES ASSUME Init PROVE CompleteInv
    OBVIOUS
<1> DEFINE z == <<>>
<1>1. Len(z) = 0 /\ Range(z) = {} /\ z \in Seq(Bitstreams) /\ z \in Seq(0..NumFrames)
  <2>1. z \in Seq({}) /\ Len(z) = 0 /\ z \in Seq(Bitstreams) /\ z \in Seq(0..NumFrames)
    BY EmptySeq
  <2> HIDE DEF z
  <2>2. Range(z) = {z[i] : i \in 1..Len(z)}
    BY <2>1, RangeEquality
  <2>3. 1..Len(z) = {}
    BY <2>1
  <2> QED  BY <2>1, <2>2, <2>3
<1>2. /\ decLib = z /\ dpc = "start" /\ decSts = "run" /\ nInput = 0 /\ dProcessed = 0
      /\ ~ bEndOfFile /\ dSurf = NoSurface
    BY DEF Init
<1> HIDE DEF z
<1>3. InDecoder = {} /\ HandedOut = 0 /\ ~ Walking
    BY <1>1, <1>2 DEF InDecoder, HandedOut, Walking
<1>4. DecodedWhole
  <2>1. (HandedOut + 1)..nInput = {}
    BY <1>2, <1>3
  <2> QED  BY <1>2, <1>3, <2>1 DEF DecodedWhole
<1>5. ASSUME NEW e \in Encoders PROVE LimitKept(e) /\ EndInPlace(e) /\ NoneMissing(e)
  <2>1. /\ encLib[e] = z /\ m_SList[e] = z /\ m_BSPool[e] = z /\ written[e] = z
        /\ epc[e] = "get" /\ encSts[e] = "run" /\ eProcessed[e] = 0 /\ ~ bPollFlag[e]
        /\ ~ isQuit[e] /\ m_IsBufferingAllowed[e]
    BY <1>5 DEF Init, z
  <2>2. FrameLimit[e] \in Nat \ {0}
    BY DecodeLimitCovers
  <2>3. LimitKept(e)
    BY <2>1, <2>2 DEF LimitKept
  <2>4. EndInPlace(e)
    BY <1>1, <2>1 DEF EndInPlace, NullLast, Flushing, Draining
  <2>5. InEncoder(e) = {} /\ Waiting(e) = {} /\ Coming(e) = {}
    BY <1>1, <1>2, <2>1 DEF InEncoder, Waiting, Queued, Coming, ToBeAdded
  <2>6. Range(Frames(z, z)) = {}
    <3> DEFINE F == Frames(z, z)
    <3>1. F \in Seq(0..NumFrames) /\ Len(F) = Len(z) + Len(z)
      BY <1>1, FramesElements
    <3> HIDE DEF F
    <3>2. Range(F) = {F[i] : i \in 1..Len(F)}
      BY <3>1, RangeEquality
    <3>3. 1..Len(F) = {}
      BY <1>1, <3>1
    <3> QED  BY <3>2, <3>3 DEF F
  <2>7. 1..0 = {}
    OBVIOUS
  <2> QED  BY <1>2, <1>3, <2>1, <2>3, <2>4, <2>5, <2>6, <2>7, MissingAre
<1> QED  BY <1>4, <1>5, OrderInvInit, EndInvInit DEF CompleteInv

(* What the decoder has read it hands out or still has, and what it hands  *)
(* out to a session that nothing disturbs is encoded up to its limit; the  *)
(* null surface comes last, and behind it the session writes what is left. *)
THEOREM CompleteInvariantHolds == Spec => []CompleteInv
<1>1. CompleteInv /\ OrderInv' /\ EndInv' /\ [Next]_vars => CompleteInv'
  <2> SUFFICES ASSUME CompleteInv, OrderInv', EndInv', [Next]_vars PROVE CompleteInv'
    OBVIOUS
  <2>1. /\ IInv /\ Typed /\ EncoderOwnership /\ DecodedInOrder /\ DecodedWhole
        /\ \A e \in Encoders : InTurn(e) /\ Outcome(e) /\ TakesNote(e) /\ LimitKept(e)
    BY DEF CompleteInv, OrderInv, EndInv, IInv
  <2>2. DecodedWhole'
    BY <2>1, DecodedWholeStep
  <2>3. ASSUME NEW e \in Encoders PROVE LimitKept(e)'
    BY <2>1, LimitKeptStep
  <2>4. ASSUME NEW e \in Encoders, Undisturbed(e)' PROVE EndInPlace(e)' /\ NoneMissing(e)'
    <3>1. Undisturbed(e)
      BY <2>1, <2>4, UndisturbedBefore
    <3>2. EndInPlace(e) /\ NoneMissing(e)
      BY <3>1 DEF CompleteInv
    <3>3. EndInPlace(e)'
      BY <2>1, <2>3, <2>4, <3>1, <3>2, EndInPlaceStep
    <3>4. NoneMissing(e)'
      BY <2>1, <2>4, <3>2, NoneMissingStep
    <3> QED  BY <3>3, <3>4
  <2> QED  BY <2>2, <2>3, <2>4 DEF CompleteInv
<1> QED  BY CompleteInvInit, OrderInvariantHolds, EndInvariantHolds, <1>1, PTL DEF Spec

(* When nobody was stopped and neither side reports an error, the session  *)
(* has written the whole stream, up to its frame limit, each frame once    *)
(* and in order; a forgiven GPU hang is the one thing that may cost one.   *)
THEOREM StreamComesOutWhole == Spec => []OutputComplete
<1>1. CompleteInv => OutputComplete
  <2> DEFINE Least(a, b) == IF a < b THEN a ELSE b
  <2> SUFFICES ASSUME CompleteInv, NEW e \in Encoders, dpc = "done", decSts = "ok",
                      encSts[e] = "ok", ~ m_bForceStop, SoftRecovery => faults = 0
               PROVE  written[e] = [i \in 1..Least(NumFrames, FrameLimit[e]) |-> i]
    BY DEF OutputComplete
  <2> DEFINE p == eProcessed[e]
             w == written[e]
             F == Frames(w, <<>>)
  <2>1. /\ Typed /\ DecodedWhole /\ InTurn(e) /\ Outcome(e) /\ LimitKept(e)
        /\ \A f \in Encoders : Undisturbed(f) => EndInPlace(f) /\ NoneMissing(f)
    BY DEF CompleteInv, OrderInv, EndInv, IInv
  <2>2. epc[e] = "done" /\ m_SList[e] = <<>>
    BY <2>1 DEF Outcome
  <2>3. EndInPlace(e) /\ NoneMissing(e)
    BY <2>1, <2>2 DEF Undisturbed
  <2>4. encLib[e] = <<>> /\ m_BSPool[e] = <<>>
    BY <2>2, <2>3 DEF EndInPlace, Flushing, Draining
  <2>5. /\ w \in Seq(0..NumFrames) /\ <<>> \in Seq(Bitstreams) /\ Len(<<>>) = 0
        /\ encLib[e] \in Seq(Surfaces) /\ m_SList[e] \in Seq(Surf0) /\ decLib \in Seq(Surfaces)
    BY <2>1, SessionFacts, EmptySeq DEF Typed, DecoderTypes
  <2>6. /\ p \in Nat /\ nInput \in Nat /\ nInput <= NumFrames /\ NumFrames \in Nat
        /\ dProcessed \in Nat /\ FrameLimit[e] \in Nat /\ DecodeLimit \in Nat
        /\ FrameLimit[e] <= DecodeLimit
    BY <2>1, ConstantFacts, DecodeLimitCovers DEF Typed, DecoderTypes, EncoderTypes
  <2>7. /\ InEncoder(e) = {} /\ Waiting(e) = {} /\ Coming(e) = {}
        /\ decLib = <<>> => InDecoder = {}
    <3>1. ASSUME NEW S, NEW q \in Seq(S), q = <<>> PROVE Range(q) = {}
      <4>1. Range(q) = {q[i] : i \in 1..Len(q)}
        BY RangeEquality
      <4>2. 1..Len(q) = {}
        BY <2>5, <3>1
      <4> QED  BY <4>1, <4>2
    <3>2. Range(encLib[e]) = {} /\ Range(m_SList[e]) = {} /\ (decLib = <<>> => Range(decLib) = {})
      BY <2>2, <2>4, <2>5, <3>1
    <3> QED  BY <3>2 DEF InEncoder, Waiting, Queued, Coming, ToBeAdded, InDecoder
  <2>8. /\ 0 \notin Range(F) /\ Range(F) = 1..p /\ p <= nInput
        /\ ~ bPollFlag[e] => (1..p) \cup InDecoder = 1..nInput
    BY <2>3, <2>4, <2>7, MissingAre
\* what it has written counts up to the number of frames it has encoded
  <2>9. w = [i \in 1..p |-> i]
    <3>1. /\ F \in Seq(0..NumFrames) /\ Len(F) = Len(w)
          /\ \A i \in 1..Len(w) : F[i] = w[i]
      <4> DEFINE z == <<>>
      <4>1. z \in Seq(Bitstreams) /\ Len(z) = 0 /\ w \in Seq(0..NumFrames)
        BY <2>5
      <4> HIDE DEF w, z
      <4>2. /\ Frames(w, z) \in Seq(0..NumFrames)
            /\ Len(Frames(w, z)) = Len(w) + Len(z) /\ Len(w) \in Nat
            /\ \A i \in 1..Len(w) : Frames(w, z)[i] = w[i]
        BY <4>1, FramesElements
      <4> QED  BY <4>1, <4>2 DEF z
    <3>2. InOrder(F)
      BY <2>1, <2>4, FramesAre DEF InTurn
    <3> HIDE DEF F, w
    <3>3. Range(F) = {F[i] : i \in 1..Len(F)} /\ Range(w) = {w[i] : i \in 1..Len(w)}
      <4>1. Range(F) = {F[i] : i \in 1..Len(F)}
        BY <3>1, RangeEquality
      <4>2. Range(w) = {w[i] : i \in 1..Len(w)}
        BY <2>5, RangeEquality
      <4> QED  BY <4>1, <4>2
    <3>4. Range(w) = 1..p
      BY <2>8, <3>1, <3>3
    <3>5. \A i \in 1..Len(w) : F[i] # 0
      BY <2>8, <3>1, <3>3
    <3>6. \A i, j \in 1..Len(w) : i < j => w[i] < w[j]
      BY <3>1, <3>2, <3>5 DEF InOrder
    <3>7. w \in Seq(Nat)
      <4>1. 0..NumFrames \subseteq Nat
        OBVIOUS
      <4> QED  BY <2>5, <4>1, SeqMonotonic
    <3> HIDE DEF p
    <3> QED  BY <2>6, <3>4, <3>6, <3>7, CountingUp
\* which are as many as it is to encode
  <2>10. p = Least(NumFrames, FrameLimit[e])
    <3> HIDE DEF p
    <3>1. /\ bPollFlag[e] <=> p >= FrameLimit[e]
          /\ p <= FrameLimit[e]
      BY <2>1 DEF LimitKept, p
    <3>2. CASE bPollFlag[e]
      BY <2>6, <2>8, <3>1, <3>2
    <3>3. CASE ~ bPollFlag[e]
      <4>1. /\ dProcessed <= nInput /\ InDecoder = (dProcessed + 1)..nInput
            /\ dProcessed >= DecodeLimit \/ (decLib = <<>> /\ nInput = NumFrames)
        BY <2>1, <2>6 DEF DecodedWhole, HandedOut, Walking
      <4>2. p < FrameLimit[e] /\ (1..p) \cup InDecoder = 1..nInput
        BY <2>6, <2>8, <3>1, <3>3
      <4>3. ~ (dProcessed >= DecodeLimit)
        <5> SUFFICES ASSUME dProcessed >= DecodeLimit PROVE FALSE
          OBVIOUS
        <5>1. p < dProcessed /\ dProcessed \in 1..nInput
          BY <2>6, <4>1, <4>2
        <5>2. dProcessed \notin 1..p /\ dProcessed \notin InDecoder
          BY <2>6, <4>1, <5>1
        <5> QED  BY <4>2, <5>1, <5>2
      <4>4. nInput = NumFrames /\ 1..p = 1..nInput
        BY <2>7, <4>1, <4>2, <4>3
      <4>5. p = nInput
        BY <2>6, <4>4
      <4> QED  BY <2>6, <4>2, <4>4, <4>5
    <3> QED  BY <3>2, <3>3
  <2> QED  BY <2>9, <2>10
<1> QED  BY CompleteInvariantHolds, <1>1, PTL

=============================================================================
