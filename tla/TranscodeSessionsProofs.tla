---------------------- MODULE TranscodeSessionsProofs ----------------------
(***************************************************************************)
(* Proofs about TranscodeSessions, for every number of encode sessions,    *)
(* surfaces and frames.                                                    *)
(*                                                                         *)
(* LockedCountsHolders alone is not inductive: that a reference is counted *)
(* once needs to know that no buffer queues a surface twice, and that in   *)
(* turn needs to know who may own the surface in each phase of a session.  *)
(* DecoderOwnership and EncoderOwnership say that.                         *)
(***************************************************************************)
EXTENDS TranscodeSessions, SequenceLemmas, FiniteSetTheorems, SequenceTheorems,
        TLAPS

(* TypeOK, but with a counter that might become negative, and with the     *)
(* facts the typing of PutBS and DecodeOneFrame needs.                     *)
Typed ==
    /\ Locked \in [Surfaces -> Int]
    /\ HolderTypes /\ DecoderTypes /\ BufferTypes
    /\ EncoderTypes /\ BitstreamTypes /\ LauncherTypes
    /\ \A e \in Encoders :
          epc[e] = "put" \/ (epc[e] = "release" /\ eNext[e] = "put")
              => m_BSPool[e] # <<>>
    /\ dpc = "decode" => dSurf \in Surfaces

(* Nobody but the decoder library has surface s.                           *)
NotPassedOn(s) == \A e \in Encoders : s \notin Range(m_SList[e]) /\ s \notin encHold[e]

(* Buffer e is still to be given the surface Decode() is handing out.      *)
ToBeAdded(e) == dpc \in {"add", "signal"} /\ (e < dIdx \/ (e = dIdx /\ dpc = "add"))

(* What the decode session may assume of the surface it works on.          *)
DecoderOwnership ==
    /\ Once(decLib, Surfaces)
    /\ \A s \in Range(decLib) : s \in decHold /\ NotPassedOn(s)
    /\ dpc = "decode" =>
           dSurf \in Surfaces /\ dSurf \notin decHold /\ NotPassedOn(dSurf)
    /\ dpc \in {"add", "signal"} => dSurf \notin Range(decLib)
    /\ \A e \in Encoders : ToBeAdded(e) /\ dSurf \in Surfaces =>
           dSurf \notin Range(m_SList[e]) /\ dSurf \notin encHold[e]

(* What an encode session may assume of the surface it works on: it is in  *)
(* the queue until it is released, and the encoder locks it only then.     *)
EncoderOwnership ==
    \A e \in Encoders :
        /\ Once(m_SList[e], Surfaces)
        /\ epc[e] = "encode" /\ eSurf[e] \in Surfaces =>
               eSurf[e] \in Range(m_SList[e]) /\ eSurf[e] \notin encHold[e]
        /\ \A s \in encHold[e] : s \in Range(m_SList[e]) =>
               epc[e] = "release" /\ eSurf[e] = s

IInv == Typed /\ DecoderOwnership /\ EncoderOwnership /\ LockedCountsHolders

----------------------------------------------------------------------------
(* Typing.                                                                 *)

(* What the assumption on the constants gives.                             *)
LEMMA ConstantFacts ==
    /\ NoSurface \notin Surfaces
    /\ NumEnc \in Encoders /\ NumEnc \in Nat \ {0}
    /\ NumFrames \in Nat /\ AsyncDepth \in Nat \ {0}
BY SessionsAssumption DEF Encoders

(* The types hold at first.                                                *)
LEMMA TypedInit == Init => Typed
<1> SUFFICES ASSUME Init PROVE Typed
    OBVIOUS
<1>1. <<>> \in Seq(Surf0) /\ <<>> \in Seq(Surfaces) /\ <<>> \in Seq(0..NumFrames)
      /\ <<>> \in Seq([id : 1..AsyncDepth, frame : 0..NumFrames])
    BY EmptySeq
<1>2. Locked \in [Surfaces -> Int] /\ HolderTypes
    BY ConstantFacts DEF Init, HolderTypes
<1>3. DecoderTypes
  <2>1. 0 \in 0..NumFrames /\ 0 \in Nat /\ NumEnc \in Encoders
    BY ConstantFacts
  <2> QED  BY <1>1, <2>1 DEF Init, DecoderTypes, Surf0, Statuses
<1>4. BufferTypes
    BY <1>1 DEF Init, BufferTypes
<1>5. EncoderTypes
    BY DEF Init, EncoderTypes, Surf0, Statuses
<1>6. BitstreamTypes
    BY <1>1 DEF Init, BitstreamTypes
<1>7. LauncherTypes
    BY DEF Init, LauncherTypes
<1>8. (\A e \in Encoders : epc[e] = "get") /\ dpc = "start"
    BY DEF Init
<1> QED  BY <1>2, <1>3, <1>4, <1>5, <1>6, <1>7, <1>8 DEF Typed

(* What the threads leave alone.                                           *)
LEMMA EncodeFrame ==
    \A e \in Encoders : EncodeSession(e) => OtherThreads
BY DEF EncodeSession, GetSurface, WaitForSurfaceInsertion, WaitReturns, WaitTimesOut,
       WaitFrame, EncodeOneFrame, ReleaseSurface, PutBS, CancelBuffering, DrainSurface,
       CloseEncoder

(* Which variables the decode session's steps leave alone.                 *)
LEMMA DecodeFrame ==
    DecodeSession => UNCHANGED <<encHold, encVars, m_IsBufferingAllowed, runVars>>
BY DEF DecodeSession, DecodeStart, GetFreeSurface, DecodeOneFrame, DecodeLastFrame,
       AddSurface, SignalInsertion, SyncOldest, NoMoreFramesAgain, bufVars

(* The decode session's own variables.                                     *)
LEMMA DecoderTypesStep == Typed /\ [Next]_vars => DecoderTypes'
<1> SUFFICES ASSUME Typed, [Next]_vars PROVE DecoderTypes'
    OBVIOUS
<1> USE ConstantFacts DEF DecoderTypes, Surf0, decVars
<1>0. DecoderTypes /\ (dpc = "decode" => dSurf \in Surfaces)
    BY DEF Typed
<1>1. CASE DecodeStart
    BY <1>0, <1>1 DEF DecodeStart, EndDecode, StartAdding, Statuses
<1>2. CASE GetFreeSurface
    BY <1>0, <1>2 DEF GetFreeSurface, StopDecoding, EndDecode, StartAdding, Statuses
<1>3. CASE DecodeOneFrame
  <2>1. ASSUME StopDecoding, UNCHANGED dProcessed PROVE DecoderTypes'
    BY <1>0, <2>1 DEF StopDecoding, StartAdding
  <2>2. ASSUME dpc = "decode", dSurf \in Surfaces, nInput < NumFrames,
               nInput' = nInput + 1, DecoderReturns(Append(decLib, dSurf)),
               UNCHANGED <<bEndOfFile, decSts, dProcessed>>
        PROVE  DecoderTypes'
    <3>1. Append(decLib, dSurf) \in Seq(Surfaces)
      BY <1>0, <2>2, AppendProperties
    <3> DEFINE lib == Append(decLib, dSurf)
    <3> HIDE DEF lib
    <3>2. lib # <<>> => Head(lib) \in Surfaces /\ Tail(lib) \in Seq(Surfaces)
      BY <3>1, HeadTailProperties DEF lib
    <3>3. DecoderReturns(lib) /\ lib \in Seq(Surfaces)
      BY <2>2, <3>1 DEF lib
    <3>4. nInput' \in 0..NumFrames
      BY <1>0, <2>2
    <3> QED  BY <1>0, <2>2, <3>2, <3>3, <3>4 DEF DecoderReturns, StartAdding
  <2>3. ASSUME UNCHANGED <<decLib, nInput, dSurf, dIdx, dAfter, decSts, dProcessed>>,
               bEndOfFile' = TRUE, dpc' = "free"
        PROVE  DecoderTypes'
    BY <1>0, <2>3
  <2>4. ASSUME EndDecode("err"), UNCHANGED <<decLib, nInput, bEndOfFile, dProcessed>>
        PROVE  DecoderTypes'
    BY <1>0, <2>4 DEF EndDecode, StartAdding, Statuses
  <2>5. dSurf \in Surfaces /\ UNCHANGED dProcessed
    BY <1>0, <1>3 DEF DecodeOneFrame
  <2> HIDE DEF DecoderTypes, Surf0
  <2> QED  BY <1>3, <2>1, <2>2, <2>3, <2>4, <2>5 DEF DecodeOneFrame
<1>4. CASE DecodeLastFrame
    BY <1>0, <1>4, HeadTailProperties DEF DecodeLastFrame, EndDecode, StartAdding,
       Statuses
<1>5. CASE AddSurface
    BY <1>0, <1>5 DEF AddSurface, NextBuffer, Encoders
<1>6. CASE SignalInsertion
    BY <1>0, <1>6 DEF SignalInsertion, NextBuffer, Encoders
<1>7. CASE SyncOldest
    BY <1>0, <1>7 DEF SyncOldest, EndDecode, StartAdding, Statuses
<1>8. CASE NoMoreFramesAgain
    BY <1>0, <1>8 DEF NoMoreFramesAgain, EndDecode, StartAdding, Statuses
<1>9. CASE UNCHANGED decVars
    BY <1>0, <1>9
<1>10. DecodeSession \/ UNCHANGED decVars
    BY EncodeFrame DEF Next, vars, OtherThreads, DecoderUnlocks, EncoderUnlocks,
       CollectSession, Finished
<1> QED  BY <1>1, <1>2, <1>3, <1>4, <1>5, <1>6, <1>7, <1>8, <1>9, <1>10
           DEF DecodeSession

(* The surfaces and who holds them.                                        *)
LEMMA HolderTypesStep ==
    Typed /\ [Next]_vars => Locked' \in [Surfaces -> Int] /\ HolderTypes'
<1> DEFINE Goal == Locked' \in [Surfaces -> Int] /\ HolderTypes'
<1> SUFFICES ASSUME Typed, [Next]_vars PROVE Goal
    OBVIOUS
<1>0. /\ Locked \in [Surfaces -> Int]
      /\ content \in [Surfaces -> 0..NumFrames]
      /\ decHold \in SUBSET Surfaces
      /\ encHold \in [Encoders -> SUBSET Surfaces]
    BY DEF Typed, HolderTypes
<1>1. ASSUME UNCHANGED <<Locked, content, decHold, encHold>> PROVE Goal
    BY <1>0, <1>1 DEF HolderTypes
<1>2. CASE DecodeOneFrame
  <2>1. dSurf \in Surfaces /\ nInput \in 0..NumFrames
    BY <1>2 DEF Typed, DecodeOneFrame, DecoderTypes
  <2>2. CASE nInput < NumFrames
    <3>1. nInput + 1 \in 0..NumFrames
      BY <2>1, <2>2, ConstantFacts
    <3> QED  BY <1>0, <1>2, <2>1, <3>1 DEF DecodeOneFrame, StopDecoding, HolderTypes
  <2>3. CASE ~ (nInput < NumFrames)
    BY <1>1, <1>2, <2>3 DEF DecodeOneFrame, StopDecoding
  <2> QED  BY <2>2, <2>3
<1>3. CASE AddSurface
  <2>1. dSurf \in Surfaces \cup {NoSurface}
    BY DEF Typed, DecoderTypes, Surf0
  <2> QED  BY <1>0, <1>3, <2>1 DEF AddSurface, IncreaseReference, HolderTypes
<1>4. CASE DecoderUnlocks
    BY <1>0, <1>4 DEF DecoderUnlocks, HolderTypes, decVars
<1>5. ASSUME NEW e \in Encoders, EncodeOneFrame(e) PROVE Goal
  <2>1. Submitted(e) \in Surfaces \cup {NoSurface}
    BY DEF Typed, EncoderTypes, Submitted, Surf0
  <2>2. UNCHANGED content /\ UNCHANGED decHold
    BY <1>5 DEF EncodeOneFrame, OtherThreads, decVars
  <2>3. LockInput(e, Submitted(e)) \/ UNCHANGED <<Locked, encHold>>
    BY <1>5 DEF EncodeOneFrame
  <2> QED  BY <1>0, <2>1, <2>2, <2>3 DEF LockInput, HolderTypes
<1>6. ASSUME NEW e \in Encoders, ReleaseSurface(e) PROVE Goal
    BY <1>0, <1>6 DEF ReleaseSurface, DecreaseReference, HolderTypes, OtherThreads, decVars
<1>7. ASSUME NEW e \in Encoders, CloseEncoder(e) PROVE Goal
  <2>1. Locked' \in [Surfaces -> Int]
    BY <1>0, <1>7 DEF CloseEncoder
  <2> QED  BY <1>0, <1>7, <2>1 DEF CloseEncoder, HolderTypes, OtherThreads, decVars
<1>8. ASSUME NEW e \in Encoders, EncoderUnlocks(e) PROVE Goal
    BY <1>0, <1>8 DEF EncoderUnlocks, HolderTypes, OtherThreads, decVars
<1>9. CASE DecodeStart \/ GetFreeSurface \/ DecodeLastFrame \/ SignalInsertion
           \/ SyncOldest \/ NoMoreFramesAgain
    BY <1>1, <1>9 DEF DecodeStart, GetFreeSurface, DecodeLastFrame, SignalInsertion,
       SyncOldest, NoMoreFramesAgain, StopDecoding
<1>10. ASSUME NEW e \in Encoders,
              GetSurface(e) \/ WaitForSurfaceInsertion(e) \/ WaitReturns(e)
              \/ WaitTimesOut(e) \/ PutBS(e) \/ CancelBuffering(e) \/ DrainSurface(e)
       PROVE  Goal
    BY <1>1, <1>10 DEF GetSurface, WaitForSurfaceInsertion, WaitReturns, WaitTimesOut,
       WaitFrame, PutBS, CancelBuffering, DrainSurface, OtherThreads, decVars
<1>11. ASSUME NEW i \in Sessions, CollectSession(i) PROVE Goal
    BY <1>1, <1>11 DEF CollectSession, decVars
<1>12. CASE UNCHANGED vars
    BY <1>1, <1>12 DEF vars, decVars
<1> QED  BY <1>2, <1>3, <1>4, <1>5, <1>6, <1>7, <1>8, <1>9, <1>10, <1>11, <1>12
         DEF Next, Finished, DecodeSession, EncodeSession


(* The buffers.                                                            *)
LEMMA BufferTypesStep ==
    Typed /\ EncoderOwnership /\ [Next]_vars => BufferTypes'
<1> SUFFICES ASSUME Typed, EncoderOwnership, [Next]_vars PROVE BufferTypes'
    OBVIOUS
<1>0. /\ m_SList \in [Encoders -> Seq(Surf0)]
      /\ m_IsBufferingAllowed \in [Encoders -> BOOLEAN]
      /\ pInsEvent \in [Encoders -> BOOLEAN]
    BY DEF Typed, BufferTypes
<1>1. CASE UNCHANGED bufVars
    BY <1>0, <1>1 DEF BufferTypes, bufVars
<1>2. CASE AddSurface
  <2>1. dIdx \in Encoders /\ dSurf \in Surf0
    BY DEF Typed, DecoderTypes
  <2>2. Append(m_SList[dIdx], dSurf) \in Seq(Surf0)
    BY <1>0, <2>1, AppendProperties
  <2> QED  BY <1>0, <1>2, <2>1, <2>2 DEF AddSurface, BufferTypes
<1>3. CASE SignalInsertion
    BY <1>0, <1>3 DEF SignalInsertion, BufferTypes
<1>4. ASSUME NEW e \in Encoders,
             WaitForSurfaceInsertion(e) \/ WaitReturns(e) \/ WaitTimesOut(e)
      PROVE  BufferTypes'
    BY <1>0, <1>4 DEF WaitForSurfaceInsertion, WaitReturns, WaitTimesOut, WaitFrame,
       BufferTypes
<1>5. ASSUME NEW e \in Encoders, ReleaseSurface(e) PROVE BufferTypes'
  <2>1. RemoveFirst(m_SList[e], eSurf[e]) \in Seq(Surf0)
    BY <1>0, RemoveFirstOnce DEF EncoderOwnership
  <2> QED  BY <1>0, <1>5, <2>1 DEF ReleaseSurface, BufferTypes
<1>6. ASSUME NEW e \in Encoders, CancelBuffering(e) PROVE BufferTypes'
    BY <1>0, <1>6 DEF CancelBuffering, BufferTypes
<1>7. CASE DecodeSession
    BY <1>1, <1>2, <1>3, <1>7 DEF DecodeSession, DecodeStart, GetFreeSurface,
       DecodeOneFrame, DecodeLastFrame, SyncOldest, NoMoreFramesAgain
<1>8. ASSUME NEW e \in Encoders,
             GetSurface(e) \/ EncodeOneFrame(e) \/ PutBS(e) \/ DrainSurface(e)
             \/ CloseEncoder(e) \/ EncoderUnlocks(e)
      PROVE  BufferTypes'
    BY <1>1, <1>8 DEF GetSurface, EncodeOneFrame, PutBS, DrainSurface, CloseEncoder,
       EncoderUnlocks
<1>9. DecoderUnlocks \/ (\E i \in Sessions : CollectSession(i)) \/ UNCHANGED vars
      => BufferTypes'
    BY <1>1 DEF DecoderUnlocks, CollectSession, vars
<1> QED  BY <1>4, <1>5, <1>6, <1>7, <1>8, <1>9 DEF Next, Finished, EncodeSession

(* The encode sessions' control.                                           *)
LEMMA EncoderTypesStep == Typed /\ [Next]_vars => EncoderTypes'
<1> SUFFICES ASSUME Typed, [Next]_vars PROVE EncoderTypes'
    OBVIOUS
<1> DEFINE pcs == {"get", "wait", "blocked", "encode", "release", "put", "flush",
                   "drain", "done"}
           nexts == {"get", "put", "flush", "drain", "fail"}
<1>0. /\ epc \in [Encoders -> pcs] /\ eNext \in [Encoders -> nexts]
      /\ eSurf \in [Encoders -> Surf0] /\ isQuit \in [Encoders -> BOOLEAN]
      /\ bPollFlag \in [Encoders -> BOOLEAN] /\ tries \in [Encoders -> Nat]
      /\ eProcessed \in [Encoders -> Nat] /\ encSts \in [Encoders -> Statuses]
    BY DEF Typed, EncoderTypes
<1>1. CASE UNCHANGED encVars
    BY <1>0, <1>1 DEF EncoderTypes, encVars, encData
<1>2. ASSUME NEW e \in Encoders, GetSurface(e) PROVE EncoderTypes'
  <2>1. m_SList[e] # <<>> => FrontSurface(e) \in Surf0
    BY HeadTailProperties DEF FrontSurface, Typed, BufferTypes
  <2>2. NoSurface \in Surf0 /\ {"get", "encode", "done", "wait"} \subseteq pcs
        /\ "err" \in Statuses
    BY DEF Surf0, Statuses
  <2>3. UNCHANGED <<eNext, bPollFlag, eProcessed>>
        /\ epc' \in [Encoders -> pcs] /\ eSurf' \in [Encoders -> Surf0]
        /\ tries' \in [Encoders -> Nat] /\ encSts' \in [Encoders -> Statuses]
    <3>1. UNCHANGED <<eNext, bPollFlag, eProcessed>>
      BY <1>2 DEF GetSurface
    <3>2. \E p \in pcs : epc' = [epc EXCEPT ![e] = p]
      BY <1>2, <2>2 DEF GetSurface, Goto, EndEncode
    <3>3. UNCHANGED eSurf \/ \E s \in Surf0 : eSurf' = [eSurf EXCEPT ![e] = s]
      BY <1>2, <2>1, <2>2 DEF GetSurface
    <3>4. UNCHANGED tries \/ tries' = [tries EXCEPT ![e] = 0]
      BY <1>2 DEF GetSurface
    <3>5. UNCHANGED encSts \/ encSts' = [encSts EXCEPT ![e] = "err"]
      BY <1>2 DEF GetSurface, EndEncode
    <3> HIDE DEF pcs, nexts
    <3> QED  BY <1>0, <2>2, <3>1, <3>2, <3>3, <3>4, <3>5
  <2>4. \/ UNCHANGED isQuit
        \/ \E b \in BOOLEAN : isQuit' = [isQuit EXCEPT ![e] = b]
    <3>1. (FrontSurface(e) = NoSurface) \in BOOLEAN
      OBVIOUS
    <3> QED  BY Zenon, <1>2, <3>1 DEF GetSurface
  <2>5. isQuit' \in [Encoders -> BOOLEAN]
    BY <1>0, <2>4
  <2> QED  BY <1>0, <2>3, <2>5 DEF EncoderTypes
<1>3. ASSUME NEW e \in Encoders,
             WaitForSurfaceInsertion(e) \/ WaitReturns(e) \/ WaitTimesOut(e)
      PROVE  EncoderTypes'
  <2>1. UNCHANGED <<eNext, eSurf, isQuit, bPollFlag, eProcessed>>
    BY <1>3 DEF WaitForSurfaceInsertion, WaitReturns, WaitTimesOut, WaitFrame, encData
  <2>2. epc' \in [Encoders -> pcs] /\ tries' \in [Encoders -> Nat]
        /\ encSts' \in [Encoders -> Statuses]
    BY <1>0, <1>3 DEF WaitForSurfaceInsertion, WaitReturns, WaitTimesOut, Goto,
       EndEncode, Statuses
  <2> QED  BY <1>0, <2>1, <2>2 DEF EncoderTypes
<1>4. ASSUME NEW e \in Encoders, EncodeOneFrame(e) PROVE EncoderTypes'
  <2>1. UNCHANGED <<eSurf, isQuit, tries, encSts>>
    BY <1>4 DEF EncodeOneFrame
  <2>2. \E n \in nexts : ReleaseThen(e, n)
    BY <1>4 DEF EncodeOneFrame
  <2>3. CountFrame(e, Submitted(e))
    BY <1>4 DEF EncodeOneFrame
  <2>4. epc' \in [Encoders -> pcs] /\ eNext' \in [Encoders -> nexts]
    BY <1>0, <2>2 DEF ReleaseThen, Goto
  <2>5. FrameLimit \in [Encoders -> Nat]
    BY SessionsAssumption
  <2>6. /\ \/ UNCHANGED bPollFlag
           \/ \E b \in BOOLEAN : bPollFlag' = [bPollFlag EXCEPT ![e] = b]
        /\ eProcessed' \in [Encoders -> Nat]
    <3>1. (bPollFlag[e] \/ eProcessed[e] + 1 >= FrameLimit[e]) \in BOOLEAN
      OBVIOUS
    <3>2. UNCHANGED eProcessed
          \/ eProcessed' = [eProcessed EXCEPT ![e] = eProcessed[e] + 1]
      BY <2>3 DEF CountFrame
    <3>3. eProcessed' \in [Encoders -> Nat]
      BY <1>0, <3>2
    <3> QED  BY Zenon, <2>3, <3>1, <3>3 DEF CountFrame
  <2>7. bPollFlag' \in [Encoders -> BOOLEAN]
    BY <1>0, <2>6
  <2> QED  BY <1>0, <2>1, <2>4, <2>6, <2>7 DEF EncoderTypes
<1>5. ASSUME NEW e \in Encoders, ReleaseSurface(e) PROVE EncoderTypes'
  <2>1. eNext[e] # "fail" => eNext[e] \in pcs
    BY <1>0
  <2> QED  BY <1>0, <1>5, <2>1 DEF ReleaseSurface, Goto, EndEncode, Statuses,
           EncoderTypes, encData
<1>6. ASSUME NEW e \in Encoders, PutBS(e) PROVE EncoderTypes'
    BY <1>0, <1>6 DEF PutBS, Goto, EndEncode, Statuses, EncoderTypes
<1>7. ASSUME NEW e \in Encoders, CancelBuffering(e) \/ CloseEncoder(e)
      PROVE  EncoderTypes'
    BY <1>0, <1>7 DEF CancelBuffering, CloseEncoder, Goto, EndEncode, Statuses,
       EncoderTypes, encData
<1>8. ASSUME NEW e \in Encoders, DrainSurface(e) PROVE EncoderTypes'
  <2>1. FrontSurface(e) \in Surf0
    BY <1>8, HeadTailProperties DEF DrainSurface, FrontSurface, Typed, BufferTypes
  <2> QED  BY <1>0, <1>8, <2>1 DEF DrainSurface, ReleaseThen, Goto, EncoderTypes, encData
<1>9. DecodeSession \/ DecoderUnlocks \/ (\E e \in Encoders : EncoderUnlocks(e))
      \/ (\E i \in Sessions : CollectSession(i)) \/ UNCHANGED vars => EncoderTypes'
    BY <1>1, DecodeFrame DEF DecoderUnlocks, EncoderUnlocks, CollectSession, vars
<1> QED  BY <1>2, <1>3, <1>4, <1>5, <1>6, <1>7, <1>8, <1>9
         DEF Next, Finished, EncodeSession

(* The bitstreams.                                                         *)
LEMMA BitstreamTypesStep == Typed /\ [Next]_vars => BitstreamTypes'
<1> SUFFICES ASSUME Typed, [Next]_vars PROVE BitstreamTypes'
    OBVIOUS
<1> DEFINE BS == [id : 1..AsyncDepth, frame : 0..NumFrames]
<1>0. /\ encLib \in [Encoders -> Seq(Surfaces)]
      /\ freeBS \in [Encoders -> SUBSET (1..AsyncDepth)]
      /\ m_BSPool \in [Encoders -> Seq(BS)]
      /\ written \in [Encoders -> Seq(0..NumFrames)]
    BY DEF Typed, BitstreamTypes
<1>1. CASE UNCHANGED <<encLib, freeBS, m_BSPool, written>>
    BY <1>0, <1>1 DEF BitstreamTypes
<1>2. ASSUME NEW e \in Encoders
      PROVE  LET ids == {m_BSPool[e][i].id : i \in 1..Len(m_BSPool[e])}
             IN  ids \subseteq 1..AsyncDepth
  <2>1. \A i \in 1..Len(m_BSPool[e]) : m_BSPool[e][i] \in BS
    BY <1>0, ElementOfSeq
  <2> QED  BY <2>1
<1>3. ASSUME NEW e \in Encoders, DropPendingBitstreams(e)
      PROVE  /\ freeBS' \in [Encoders -> SUBSET (1..AsyncDepth)]
             /\ m_BSPool' \in [Encoders -> Seq(BS)]
  <2>1. <<>> \in Seq(BS)
    BY EmptySeq
  <2> DEFINE ids == {m_BSPool[e][i].id : i \in 1..Len(m_BSPool[e])}
  <2>2. freeBS' = [freeBS EXCEPT ![e] = @ \cup ids] /\ m_BSPool' = [m_BSPool EXCEPT ![e] = <<>>]
    BY <1>3 DEF DropPendingBitstreams, ReleaseBS
  <2>3. ids \subseteq 1..AsyncDepth
    BY <1>2
  <2> HIDE DEF ids, BS
  <2> QED  BY <1>0, <2>1, <2>2, <2>3
<1>4. ASSUME NEW e \in Encoders, GetSurface(e) PROVE BitstreamTypes'
  <2>1. UNCHANGED <<encLib, written>>
    BY <1>4 DEF GetSurface
  <2>2. DropPendingBitstreams(e) \/ UNCHANGED <<freeBS, m_BSPool>>
    BY <1>4 DEF GetSurface, SyncInput
  <2> QED  BY <1>0, <1>3, <2>1, <2>2 DEF BitstreamTypes
<1>5. ASSUME NEW e \in Encoders, EncodeOneFrame(e) PROVE BitstreamTypes'
  <2> DEFINE s == Submitted(e)
             lib == IF s = NoSurface THEN encLib[e] ELSE Append(encLib[e], s)
  <2>1. s = NoSurface \/ s \in Surfaces
    BY DEF Typed, EncoderTypes, Submitted, Surf0
  <2>2. lib \in Seq(Surfaces)
    BY <1>0, <2>1, AppendProperties
  <2> HIDE DEF s
  <2>3. UNCHANGED written
    BY <1>5 DEF EncodeOneFrame
  <2>4. \/ encLib' = [encLib EXCEPT ![e] = Tail(lib)] /\ lib # <<>>
        \/ encLib' = [encLib EXCEPT ![e] = lib]
        \/ UNCHANGED encLib
    BY <1>5 DEF EncodeOneFrame, s
  <2>5. encLib' \in [Encoders -> Seq(Surfaces)]
    <3> HIDE DEF lib
    <3>1. lib # <<>> => Tail(lib) \in Seq(Surfaces)
      BY <2>2, HeadTailProperties
    <3> QED  BY <1>0, <2>2, <2>4, <3>1
  <2>6. \/ UNCHANGED <<freeBS, m_BSPool>>
        \/ \E bs \in freeBS[e], f \in 0..NumFrames :
              /\ freeBS' = [freeBS EXCEPT ![e] = @ \ {bs}]
              /\ m_BSPool' = [m_BSPool EXCEPT ![e] = Append(@, [id |-> bs, frame |-> f])]
    <3>1. 0 \in 0..NumFrames
      BY ConstantFacts
    <3>2. lib # <<>> => content[Head(lib)] \in 0..NumFrames
      <4> HIDE DEF lib
      <4>1. lib # <<>> => Head(lib) \in Surfaces
        BY <2>2, HeadTailProperties
      <4> QED  BY <4>1 DEF Typed, HolderTypes
    <3> QED  BY <1>5, <3>1, <3>2 DEF EncodeOneFrame, s
  <2>7. ASSUME NEW bs \in freeBS[e], NEW f \in 0..NumFrames
        PROVE  Append(m_BSPool[e], [id |-> bs, frame |-> f]) \in Seq(BS)
    <3>1. [id |-> bs, frame |-> f] \in BS
      BY <1>0, <2>7
    <3> HIDE DEF BS
    <3> QED  BY <1>0, <3>1, AppendProperties
  <2>8. /\ freeBS' \in [Encoders -> SUBSET (1..AsyncDepth)]
        /\ m_BSPool' \in [Encoders -> Seq(BS)]
    <3> HIDE DEF BS
    <3> QED  BY <1>0, <2>6, <2>7
  <2> QED  BY <1>0, <2>3, <2>5, <2>8 DEF BitstreamTypes
<1>6. ASSUME NEW e \in Encoders, PutBS(e) PROVE BitstreamTypes'
  <2> DEFINE first == Head(m_BSPool[e])
  <2>1. m_BSPool[e] # <<>>
    BY <1>6 DEF PutBS, Typed
  <2>2. first \in BS /\ Tail(m_BSPool[e]) \in Seq(BS)
    BY <1>0, <2>1, HeadTailProperties
  <2>3. first.id \in 1..AsyncDepth /\ Append(written[e], first.frame) \in Seq(0..NumFrames)
    BY <1>0, <2>2, AppendProperties
  <2>4. UNCHANGED encLib
    BY <1>6 DEF PutBS
  <2>5. written' \in [Encoders -> Seq(0..NumFrames)]
    <3> HIDE DEF first
    <3>1. UNCHANGED written \/ written' = [written EXCEPT ![e] = Append(@, first.frame)]
      BY <1>6 DEF PutBS, first
    <3> QED  BY <1>0, <2>3, <3>1
  <2>6. \/ DropPendingBitstreams(e)
        \/ UNCHANGED <<freeBS, m_BSPool>>
        \/ /\ freeBS' = [freeBS EXCEPT ![e] = @ \cup {first.id}]
           /\ m_BSPool' = [m_BSPool EXCEPT ![e] = Tail(@)]
    BY <1>6 DEF PutBS, ReleaseBS
  <2>7. /\ freeBS' \in [Encoders -> SUBSET (1..AsyncDepth)]
        /\ m_BSPool' \in [Encoders -> Seq(BS)]
    <3> HIDE DEF first, BS
    <3> QED  BY ZenonT(60), <1>0, <1>3, <2>2, <2>3, <2>6
  <2> QED  BY <1>0, <2>4, <2>5, <2>7 DEF BitstreamTypes
<1>7. ASSUME NEW e \in Encoders,
             WaitForSurfaceInsertion(e) \/ WaitReturns(e) \/ WaitTimesOut(e)
             \/ ReleaseSurface(e) \/ CancelBuffering(e) \/ DrainSurface(e)
             \/ CloseEncoder(e)
      PROVE  BitstreamTypes'
    BY <1>1, <1>7 DEF WaitForSurfaceInsertion, WaitReturns, WaitTimesOut, WaitFrame,
       ReleaseSurface, CancelBuffering, DrainSurface, CloseEncoder, encData
<1>8. DecodeSession \/ DecoderUnlocks \/ (\E e \in Encoders : EncoderUnlocks(e))
      \/ (\E i \in Sessions : CollectSession(i)) \/ UNCHANGED vars => BitstreamTypes'
    BY <1>1, DecodeFrame DEF DecoderUnlocks, EncoderUnlocks, CollectSession, vars,
       encVars, encData
<1> QED  BY <1>4, <1>5, <1>6, <1>7, <1>8 DEF Next, Finished, EncodeSession

(* The launcher, and the environment's faults.                             *)
LEMMA LauncherTypesStep == Typed /\ [Next]_vars => LauncherTypes'
<1> SUFFICES ASSUME Typed, [Next]_vars PROVE LauncherTypes'
    OBVIOUS
<1>0. m_bForceStop \in BOOLEAN /\ collected \in SUBSET Sessions /\ faults \in Nat
    BY DEF Typed, LauncherTypes
<1>1. MayFail \/ UNCHANGED faults => faults' \in Nat
    BY <1>0 DEF MayFail
<1>2. ASSUME MayFail \/ UNCHANGED faults, UNCHANGED runVars PROVE LauncherTypes'
    BY <1>0, <1>1, <1>2 DEF LauncherTypes, runVars
<1>3. CASE DecodeSession
  <2>1. MayFail \/ UNCHANGED faults
    BY <1>3 DEF DecodeSession, DecodeStart, GetFreeSurface, DecodeOneFrame,
       DecodeLastFrame, AddSurface, SignalInsertion, SyncOldest, NoMoreFramesAgain
  <2> QED  BY <1>2, <1>3, <2>1, DecodeFrame
<1>4. ASSUME NEW e \in Encoders, EncodeSession(e) PROVE LauncherTypes'
  <2>1. MayFail \/ UNCHANGED faults
    BY <1>4 DEF EncodeSession, GetSurface, SyncInput, WaitForSurfaceInsertion,
       WaitReturns, WaitTimesOut, EncodeOneFrame, ReleaseSurface, PutBS,
       CancelBuffering, DrainSurface, CloseEncoder
  <2> QED  BY <1>2, <1>4, <2>1, EncodeFrame DEF OtherThreads, runVars
<1>5. ASSUME NEW i \in Sessions, CollectSession(i) PROVE LauncherTypes'
  <2>1. m_bForceStop' \in BOOLEAN
    BY Zenon, <1>5 DEF CollectSession
  <2> QED  BY <1>0, <1>5, <2>1 DEF CollectSession, LauncherTypes
<1>6. DecoderUnlocks \/ (\E e \in Encoders : EncoderUnlocks(e)) \/ UNCHANGED vars
      => LauncherTypes'
    BY <1>2 DEF DecoderUnlocks, EncoderUnlocks, OtherThreads, vars, runVars
<1> QED  BY <1>3, <1>4, <1>5, <1>6 DEF Next, Finished

(* Every step keeps the types.                                             *)
LEMMA TypedStep == Typed /\ EncoderOwnership /\ [Next]_vars => Typed'
<1> SUFFICES ASSUME Typed, EncoderOwnership, [Next]_vars PROVE Typed'
    OBVIOUS
<1> DEFINE Putting(e) == epc[e] = "put" \/ (epc[e] = "release" /\ eNext[e] = "put")
<1>1. ASSUME NEW e \in Encoders PROVE Putting(e)' => (m_BSPool[e] # <<>>)'
  <2>0. Putting(e) => m_BSPool[e] # <<>>
    BY DEF Typed
  <2>1. /\ epc \in [Encoders -> {"get", "wait", "blocked", "encode", "release", "put",
                                 "flush", "drain", "done"}]
        /\ eNext \in [Encoders -> {"get", "put", "flush", "drain", "fail"}]
        /\ m_BSPool \in [Encoders -> Seq([id : 1..AsyncDepth, frame : 0..NumFrames])]
    BY DEF Typed, EncoderTypes, BitstreamTypes
  <2>2. CASE UNCHANGED <<epc, eNext, m_BSPool>>
    BY <2>0, <2>2
  <2>3. ASSUME NEW f \in Encoders, GetSurface(f) PROVE Putting(e)' => m_BSPool'[e] # <<>>
    BY <2>0, <2>1, <2>3 DEF GetSurface, SyncInput, DropPendingBitstreams, Goto, EndEncode
  <2>4. ASSUME NEW f \in Encoders,
               WaitForSurfaceInsertion(f) \/ WaitReturns(f) \/ WaitTimesOut(f)
        PROVE  Putting(e)' => m_BSPool'[e] # <<>>
    BY <2>0, <2>1, <2>4 DEF WaitForSurfaceInsertion, WaitReturns, WaitTimesOut,
       WaitFrame, encData, Goto, EndEncode
  <2>5. ASSUME NEW f \in Encoders, EncodeOneFrame(f)
        PROVE  Putting(e)' => m_BSPool'[e] # <<>>
    <3>1. CASE f # e
      <4>1. epc'[e] = epc[e] /\ eNext'[e] = eNext[e] /\ m_BSPool'[e] = m_BSPool[e]
        BY <2>1, <2>5, <3>1 DEF EncodeOneFrame, ReleaseThen, Goto
      <4> QED  BY <2>0, <4>1
    <3>2. CASE f = e
      <4>1. eNext'[e] = "put" =>
                \E x : m_BSPool' = [m_BSPool EXCEPT ![e] = Append(m_BSPool[e], x)]
        <5>1. ASSUME eNext'[e] = "put", NEW p, ReleaseThen(e, p) PROVE p = "put"
          BY <2>1, <5>1 DEF ReleaseThen
        <5>2. "put" # "get" /\ "put" # "flush" /\ "put" # "fail"
          OBVIOUS
        <5> QED  BY Zenon, <2>5, <3>2, <5>1, <5>2 DEF EncodeOneFrame
      <4>2. \A x : Append(m_BSPool[e], x) # <<>>
        BY <2>1, AppendNonempty
      <4>3. epc'[e] = "release"
        BY <2>1, <2>5, <3>2 DEF EncodeOneFrame, ReleaseThen, Goto
      <4> QED  BY <2>1, <4>1, <4>2, <4>3
    <3> QED  BY <3>1, <3>2
  <2>6. ASSUME NEW f \in Encoders, ReleaseSurface(f)
        PROVE  Putting(e)' => m_BSPool'[e] # <<>>
    BY <2>0, <2>1, <2>6 DEF ReleaseSurface, encData, Goto, EndEncode
  <2>7. ASSUME NEW f \in Encoders, PutBS(f) PROVE Putting(e)' => m_BSPool'[e] # <<>>
    BY <2>0, <2>1, <2>7 DEF PutBS, DropPendingBitstreams, Goto, EndEncode
  <2>8. ASSUME NEW f \in Encoders, CancelBuffering(f) \/ CloseEncoder(f)
        PROVE  Putting(e)' => m_BSPool'[e] # <<>>
    BY <2>0, <2>1, <2>8 DEF CancelBuffering, CloseEncoder, encData, Goto, EndEncode
  <2>9. ASSUME NEW f \in Encoders, DrainSurface(f)
        PROVE  Putting(e)' => m_BSPool'[e] # <<>>
    BY <2>0, <2>1, <2>9 DEF DrainSurface, ReleaseThen, Goto, encData
  <2>10. DecodeSession \/ DecoderUnlocks \/ (\E f \in Encoders : EncoderUnlocks(f))
         \/ (\E i \in Sessions : CollectSession(i)) \/ UNCHANGED vars
         => UNCHANGED <<epc, eNext, m_BSPool>>
    BY DecodeFrame DEF DecoderUnlocks, EncoderUnlocks, CollectSession, vars, encVars,
       encData
  <2> QED  BY <2>2, <2>3, <2>4, <2>5, <2>6, <2>7, <2>8, <2>9, <2>10
           DEF Next, Finished, EncodeSession
<1>2. (dpc = "decode" => dSurf \in Surfaces)'
  <2>1. CASE DecodeSession
    BY <2>1 DEF DecodeSession, DecodeStart, GetFreeSurface, DecodeOneFrame,
       DecoderReturns, DecodeLastFrame, AddSurface, SignalInsertion, NextBuffer,
       SyncOldest, NoMoreFramesAgain, StopDecoding, EndDecode, StartAdding, Typed,
       DecoderTypes
  <2>2. DecodeSession \/ UNCHANGED decVars
    BY EncodeFrame DEF Next, vars, OtherThreads, DecoderUnlocks, EncoderUnlocks,
       CollectSession, Finished
  <2> QED  BY <2>1, <2>2 DEF decVars, Typed
<1> QED  BY <1>1, <1>2, HolderTypesStep, DecoderTypesStep, BufferTypesStep,
         EncoderTypesStep, BitstreamTypesStep, LauncherTypesStep DEF Typed

----------------------------------------------------------------------------
(* Who may own a surface.                                                  *)

(* What an encode session or its library does to a queue and to a locked   *)
(* set never brings in a surface that was in neither.                      *)
LEMMA EncodersPassNothingOn ==
    ASSUME Typed, EncoderOwnership, NEW f \in Encoders,
           EncodeSession(f) \/ EncoderUnlocks(f),
           NEW e \in Encoders, NEW s \in Surfaces
    PROVE  /\ s \in Range(m_SList'[e]) => s \in Range(m_SList[e])
           /\ s \in encHold'[e] => s \in encHold[e] \/ s \in Range(m_SList[e])
<1>0. /\ m_SList \in [Encoders -> Seq(Surf0)]
      /\ encHold \in [Encoders -> SUBSET Surfaces]
    BY DEF Typed, BufferTypes, HolderTypes
<1>1. CASE EncodeOneFrame(f)
  <2>1. UNCHANGED m_SList
    BY <1>1 DEF EncodeOneFrame, bufVars
  <2>2. LockInput(f, Submitted(f)) \/ UNCHANGED encHold
    BY <1>1 DEF EncodeOneFrame
  <2>3. Submitted(f) # NoSurface => Submitted(f) \in Range(m_SList[f])
    BY <1>1 DEF EncodeOneFrame, Submitted, EncoderOwnership, Typed, EncoderTypes, Surf0
  <2> QED  BY <1>0, <2>1, <2>2, <2>3 DEF LockInput
<1>2. CASE ReleaseSurface(f)
  <2>1. Range(RemoveFirst(m_SList[f], eSurf[f])) \cap Surfaces \subseteq Range(m_SList[f])
    BY <1>0, RemoveFirstOnce DEF EncoderOwnership
  <2>2. m_SList' = [m_SList EXCEPT ![f] = RemoveFirst(@, eSurf[f])] /\ UNCHANGED encHold
    BY <1>2 DEF ReleaseSurface
  <2> QED  BY <1>0, <2>1, <2>2
<1>3. CASE CloseEncoder(f) \/ EncoderUnlocks(f)
  <2>1. UNCHANGED m_SList
    BY <1>3 DEF CloseEncoder, EncoderUnlocks, bufVars
  <2>2. s \in encHold'[e] => s \in encHold[e]
    BY <1>0, <1>3 DEF CloseEncoder, EncoderUnlocks
  <2> QED  BY <2>1, <2>2
<1>4. CASE GetSurface(f) \/ WaitForSurfaceInsertion(f) \/ WaitReturns(f)
           \/ WaitTimesOut(f) \/ PutBS(f) \/ CancelBuffering(f) \/ DrainSurface(f)
    BY <1>4 DEF GetSurface, WaitForSurfaceInsertion, WaitReturns, WaitTimesOut,
       WaitFrame, PutBS, CancelBuffering, DrainSurface, bufVars
<1> QED  BY <1>1, <1>2, <1>3, <1>4 DEF EncodeSession

(* The holders of a surface are finitely many.                             *)
LEMMA HoldersFinite == \A s : IsFiniteSet(Holders(s))
<1> SUFFICES ASSUME NEW s PROVE IsFiniteSet(Holders(s))
    OBVIOUS
<1>1. IsFiniteSet(Sessions)
    BY ConstantFacts, FS_Interval DEF Sessions
<1>2. IsFiniteSet({"decoder", "queue", "encoder"})
  <2>1. IsFiniteSet({"decoder"} \cup {"queue"} \cup {"encoder"})
    BY FS_Singleton, FS_AddElement
  <2> QED  BY <2>1
<1>3. IsFiniteSet({"decoder", "queue", "encoder"} \X Sessions)
    BY <1>1, <1>2, FS_Product
<1> QED  BY <1>3, FS_Subset DEF Holders

(* Who holds a surface, one kind of holder at a time.                      *)
LEMMA HolderMember ==
    ASSUME NEW s
    PROVE  /\ <<"decoder", 0>> \in Holders(s) <=> s \in decHold
           /\ \A e \in Encoders :
                 /\ <<"queue", e>> \in Holders(s) <=> s \in Range(m_SList[e])
                 /\ <<"encoder", e>> \in Holders(s) <=> s \in encHold[e]
           /\ \A h \in Holders(s) :
                 \/ h = <<"decoder", 0>>
                 \/ \E e \in Encoders : h = <<"queue", e>> \/ h = <<"encoder", e>>
<1>1. 0 \in Sessions /\ (\A e \in Encoders : e \in Sessions) /\ 0 \notin Encoders
    BY ConstantFacts DEF Sessions, Encoders
<1>2. \A h \in Holders(s) : h = <<h[1], h[2]>>
    BY DEF Holders
<1> QED  BY <1>1, <1>2 DEF Holders

(* GetFreeSurface takes a surface that nobody holds.                       *)
LEMMA UnlockedIsFree ==
    ASSUME Typed, LockedCountsHolders, NEW s \in Surfaces, Locked[s] = 0
    PROVE  s \notin decHold /\ NotPassedOn(s)
<1>1. Holders(s) = {}
    BY HoldersFinite, FS_EmptySet DEF LockedCountsHolders
<1> QED  BY <1>1, HolderMember DEF NotPassedOn

(* Every step keeps what the decode session assumes of its surface.        *)
LEMMA DecoderOwnershipStep ==
    Typed /\ DecoderOwnership /\ EncoderOwnership /\ LockedCountsHolders /\ [Next]_vars
        => DecoderOwnership'
<1> SUFFICES ASSUME Typed, DecoderOwnership, EncoderOwnership, LockedCountsHolders,
                    [Next]_vars
             PROVE  DecoderOwnership'
    OBVIOUS
<1>0. /\ decLib \in Seq(Surfaces) /\ dSurf \in Surf0 /\ dIdx \in Encoders
      /\ Range(decLib) \subseteq Surfaces
      /\ m_SList \in [Encoders -> Seq(Surf0)]
    BY RangeOfSeq DEF Typed, DecoderTypes, BufferTypes
<1>1. ASSUME UNCHANGED <<decLib, dpc, dSurf, dIdx, decHold, m_SList, encHold>>
      PROVE  DecoderOwnership'
    BY <1>1 DEF DecoderOwnership, NotPassedOn, ToBeAdded
<1>2. ASSUME NEW f \in Encoders, EncodeSession(f) \/ EncoderUnlocks(f)
      PROVE  DecoderOwnership'
  <2>1. UNCHANGED <<decLib, dpc, dSurf, dIdx, decHold>>
    BY <1>2, EncodeFrame DEF EncoderUnlocks, OtherThreads, decVars
  <2>2. \A s \in Surfaces : NotPassedOn(s) => NotPassedOn(s)'
    BY <1>2, EncodersPassNothingOn DEF NotPassedOn
  <2>3. \A e \in Encoders : ToBeAdded(e)' <=> ToBeAdded(e)
    BY <2>1 DEF ToBeAdded
  <2>4. \A e \in Encoders : \A s \in Surfaces :
            s \notin Range(m_SList[e]) /\ s \notin encHold[e]
            => s \notin Range(m_SList'[e]) /\ s \notin encHold'[e]
    BY <1>2, EncodersPassNothingOn
  <2> QED  BY <1>0, <2>1, <2>2, <2>3, <2>4 DEF DecoderOwnership
<1>3. CASE DecoderUnlocks
  <2>1. UNCHANGED <<decLib, dpc, dSurf, dIdx, m_SList, encHold>>
    BY <1>3 DEF DecoderUnlocks, decVars, bufVars
  <2>2. \A s \in Range(decLib) : s \in decHold => s \in decHold'
    BY <1>3 DEF DecoderUnlocks
  <2>3. decHold' \subseteq decHold
    BY <1>3 DEF DecoderUnlocks
  <2> QED  BY <2>1, <2>2, <2>3 DEF DecoderOwnership, NotPassedOn, ToBeAdded
<1> DEFINE Settled == UNCHANGED <<decHold, m_SList, encHold>>
           Quiet == dpc' \notin {"decode", "add", "signal"}
           Marking == dpc' = "add" /\ dSurf' = NoSurface
<1>4. ASSUME Settled, UNCHANGED decLib, Quiet \/ Marking PROVE DecoderOwnership'
  <2>1. NoSurface \notin Range(decLib)
    BY <1>0, ConstantFacts
  <2> QED  BY <1>4, <2>1, ConstantFacts DEF DecoderOwnership, NotPassedOn, ToBeAdded
<1>5. ASSUME Settled \/ (/\ UNCHANGED <<m_SList, encHold>>
                         /\ decHold \subseteq decHold'),
             NEW lib \in Seq(Surfaces), lib # <<>>, Once(lib, Surfaces),
             \A s \in Range(lib) : s \in decHold' /\ NotPassedOn(s),
             decLib' = Tail(lib), dpc' = "add", dSurf' = Head(lib)
      PROVE  DecoderOwnership'
  <2>1. /\ Head(lib) \in Surfaces /\ Head(lib) \in Range(lib)
        /\ Range(Tail(lib)) \subseteq Range(lib) /\ Once(Tail(lib), Surfaces)
        /\ Head(lib) \notin Range(Tail(lib))
    BY <1>5, TailOnce
  <2>2. \A s : NotPassedOn(s) => NotPassedOn(s)'
    BY <1>5 DEF NotPassedOn
  <2> QED  BY <1>5, <2>1, <2>2 DEF DecoderOwnership, NotPassedOn
<1>6. CASE DecodeStart \/ NoMoreFramesAgain \/ SyncOldest
    BY <1>4, <1>6 DEF DecodeStart, NoMoreFramesAgain, SyncOldest, EndDecode, StartAdding,
       bufVars
<1>7. CASE GetFreeSurface
  <2>1. CASE \E s \in Surfaces : Locked[s] = 0 /\ dSurf' = s /\ dpc' = "decode"
                                 /\ Settled /\ UNCHANGED decLib
    <3>1. PICK s \in Surfaces : Locked[s] = 0 /\ dSurf' = s /\ dpc' = "decode"
                                /\ Settled /\ UNCHANGED decLib
      BY <2>1
    <3>2. s \notin decHold /\ NotPassedOn(s)
      BY <3>1, UnlockedIsFree
    <3> QED  BY <3>1, <3>2 DEF DecoderOwnership, NotPassedOn, ToBeAdded
  <2>2. CASE Marking /\ Settled /\ UNCHANGED decLib
    BY <1>4, <2>2
  <2> QED  BY <1>7, <2>1, <2>2 DEF GetFreeSurface, StopDecoding, EndDecode, StartAdding,
           bufVars
<1>8. CASE DecodeOneFrame
  <2>1. CASE (Quiet \/ Marking) /\ Settled /\ UNCHANGED decLib
    BY <1>4, <2>1
  <2>2. ASSUME decHold' = decHold \cup {dSurf}, UNCHANGED <<m_SList, encHold>>,
               DecoderReturns(Append(decLib, dSurf)), dpc = "decode"
        PROVE  DecoderOwnership'
    <3> DEFINE lib == Append(decLib, dSurf)
    <3>1. /\ dSurf \in Surfaces /\ dSurf \notin decHold /\ NotPassedOn(dSurf)
          /\ Once(decLib, Surfaces) /\ \A s \in Range(decLib) : s \in decHold /\ NotPassedOn(s)
      BY <2>2 DEF DecoderOwnership
    <3>2. /\ lib \in Seq(Surfaces) /\ Range(lib) = Range(decLib) \cup {dSurf}
          /\ Once(lib, Surfaces)
      BY <1>0, <3>1, AppendOnce
    <3> HIDE DEF lib
    <3>3. \A s \in Range(lib) : s \in decHold' /\ NotPassedOn(s)
      BY <2>2, <3>1, <3>2
    <3>4. CASE lib # <<>> /\ decLib' = Tail(lib) /\ dpc' = "add" /\ dSurf' = Head(lib)
      BY <1>5, <2>2, <3>2, <3>3, <3>4
    <3>5. CASE decLib' = lib /\ dpc' = "free"
      <4>1. \A s : NotPassedOn(s) => NotPassedOn(s)'
        BY <2>2 DEF NotPassedOn
      <4> QED  BY <3>2, <3>3, <3>5, <4>1 DEF DecoderOwnership, ToBeAdded
    <3> QED  BY <2>2, <3>4, <3>5 DEF DecoderReturns, StartAdding, lib
  <2> QED  BY <1>8, <2>1, <2>2 DEF DecodeOneFrame, StopDecoding, EndDecode, StartAdding,
           bufVars
<1>9. CASE DecodeLastFrame
  <2>1. CASE Marking /\ Settled /\ UNCHANGED decLib
    BY <1>4, <2>1
  <2>2. CASE /\ decLib # <<>> /\ decLib' = Tail(decLib)
             /\ dpc' = "add" /\ dSurf' = Head(decLib) /\ Settled
    BY <1>0, <1>5, <2>2 DEF DecoderOwnership
  <2> QED  BY <1>9, <2>1, <2>2 DEF DecodeLastFrame, EndDecode, StartAdding, bufVars
<1>10. ASSUME NextBuffer, UNCHANGED <<decLib, dSurf, decHold, encHold>>,
              dpc \in {"add", "signal"}, dAfter \in {"sync", "again", "done"},
              \A e \in Encoders : e < dIdx => m_SList'[e] = m_SList[e],
              \A e \in Encoders : \A s \in Range(decLib) :
                  s \notin Range(m_SList[e]) => s \notin Range(m_SList'[e])
       PROVE  DecoderOwnership'
  <2>1. dIdx \in Nat /\ \A e \in Encoders : e \in Nat
    BY <1>0, ConstantFacts DEF Encoders
  <2>2. \A e \in Encoders : ToBeAdded(e)' => e < dIdx
    BY <1>10, <2>1 DEF ToBeAdded, NextBuffer
  <2>3. \A e \in Encoders : e < dIdx => ToBeAdded(e)
    BY <1>10 DEF ToBeAdded
  <2>4. dpc' # "decode"
    BY <1>10 DEF NextBuffer
  <2> QED  BY <1>10, <2>2, <2>3, <2>4 DEF DecoderOwnership, NotPassedOn
<1>11. CASE AddSurface
  <2>1. dAfter \in {"sync", "again", "done"} /\ dpc = "add"
        /\ UNCHANGED <<decLib, dSurf, decHold, encHold>>
    BY <1>11 DEF Typed, DecoderTypes, AddSurface
  <2>2. CASE m_IsBufferingAllowed[dIdx]
    <3>1. /\ m_SList' = [m_SList EXCEPT ![dIdx] = Append(@, dSurf)]
          /\ dpc' = "signal" /\ UNCHANGED dIdx
      BY <1>11, <2>2 DEF AddSurface
    <3>2. Range(Append(m_SList[dIdx], dSurf)) = Range(m_SList[dIdx]) \cup {dSurf}
      BY <1>0, AppendElements
    <3>3. \A s \in Range(decLib) : NotPassedOn(s) /\ s # dSurf => NotPassedOn(s)'
      BY <1>0, <2>1, <3>1, <3>2 DEF NotPassedOn
    <3>4. \A e \in Encoders : ToBeAdded(e)' => e # dIdx /\ ToBeAdded(e)
      BY <1>0, <2>1, <3>1, ConstantFacts DEF ToBeAdded, Encoders
    <3>5. \A e \in Encoders : e # dIdx => m_SList'[e] = m_SList[e]
      BY <1>0, <3>1
    <3> QED  BY <2>1, <3>1, <3>3, <3>4, <3>5 DEF DecoderOwnership
  <2>3. CASE ~ m_IsBufferingAllowed[dIdx]
    <3>1. NextBuffer /\ UNCHANGED m_SList
      BY <1>11, <2>3 DEF AddSurface
    <3> QED  BY <1>10, <2>1, <3>1
  <2> QED  BY <2>2, <2>3
<1>12. CASE SignalInsertion
  <2>1. dAfter \in {"sync", "again", "done"}
    BY DEF Typed, DecoderTypes
  <2> QED  BY <1>10, <1>12, <2>1 DEF SignalInsertion
<1>13. (\E i \in Sessions : CollectSession(i)) \/ UNCHANGED vars => DecoderOwnership'
    BY <1>1 DEF CollectSession, vars, decVars, bufVars
<1> QED  BY <1>2, <1>3, <1>6, <1>7, <1>8, <1>9, <1>11, <1>12, <1>13
         DEF Next, Finished, DecodeSession

(* Every step keeps what an encode session assumes of its surface.         *)
LEMMA EncoderOwnershipStep ==
    Typed /\ DecoderOwnership /\ EncoderOwnership /\ [Next]_vars => EncoderOwnership'
<1> SUFFICES ASSUME Typed, DecoderOwnership, EncoderOwnership, [Next]_vars,
                    NEW e \in Encoders
             PROVE  /\ Once(m_SList'[e], Surfaces)
                    /\ epc'[e] = "encode" /\ eSurf'[e] \in Surfaces =>
                           /\ eSurf'[e] \in Range(m_SList'[e])
                           /\ eSurf'[e] \notin encHold'[e]
                    /\ \A s \in encHold'[e] : s \in Range(m_SList'[e]) =>
                           epc'[e] = "release" /\ eSurf'[e] = s
    BY DEF EncoderOwnership, Once
<1> DEFINE Goal == /\ Once(m_SList'[e], Surfaces)
                   /\ epc'[e] = "encode" /\ eSurf'[e] \in Surfaces =>
                          /\ eSurf'[e] \in Range(m_SList'[e])
                          /\ eSurf'[e] \notin encHold'[e]
                   /\ \A s \in encHold'[e] : s \in Range(m_SList'[e]) =>
                          epc'[e] = "release" /\ eSurf'[e] = s
           pcs == {"get", "wait", "blocked", "encode", "release", "put", "flush",
                   "drain", "done"}
<1>0. /\ m_SList \in [Encoders -> Seq(Surf0)]
      /\ encHold \in [Encoders -> SUBSET Surfaces]
      /\ eSurf \in [Encoders -> Surf0]
      /\ epc \in [Encoders -> pcs]
      /\ eNext \in [Encoders -> {"get", "put", "flush", "drain", "fail"}]
    BY DEF Typed, BufferTypes, HolderTypes, EncoderTypes
<1>1. /\ Once(m_SList[e], Surfaces)
      /\ epc[e] = "encode" /\ eSurf[e] \in Surfaces =>
             eSurf[e] \in Range(m_SList[e]) /\ eSurf[e] \notin encHold[e]
      /\ \A s \in encHold[e] : s \in Range(m_SList[e]) =>
             epc[e] = "release" /\ eSurf[e] = s
    BY DEF EncoderOwnership
<1>2. ASSUME m_SList'[e] = m_SList[e], encHold'[e] \subseteq encHold[e],
             epc'[e] = epc[e], eSurf'[e] = eSurf[e]
      PROVE  Goal
    BY <1>1, <1>2
<1>3. ASSUME m_SList'[e] = m_SList[e], encHold'[e] \subseteq encHold[e],
             epc[e] # "release", epc'[e] # "encode"
      PROVE  Goal
    BY <1>1, <1>3
<1>4. CASE AddSurface
  <2>1. UNCHANGED <<epc, eSurf, encHold>> /\ dIdx \in Encoders /\ dSurf \in Surf0
        /\ dpc = "add" /\ dIdx \in Nat
    BY <1>4, ConstantFacts DEF AddSurface, encVars, Typed, DecoderTypes, Encoders
  <2>2. CASE m_IsBufferingAllowed[dIdx] /\ dIdx = e
    <3>1. m_SList'[e] = Append(m_SList[e], dSurf)
      BY <1>0, <1>4, <2>1, <2>2 DEF AddSurface
    <3>2. dSurf \in Surfaces => dSurf \notin Range(m_SList[e]) /\ dSurf \notin encHold[e]
      BY <2>1, <2>2 DEF DecoderOwnership, ToBeAdded
    <3>3. /\ Range(m_SList'[e]) = Range(m_SList[e]) \cup {dSurf}
          /\ Once(m_SList'[e], Surfaces)
      BY <1>0, <1>1, <2>1, <3>1, <3>2, AppendOnce
    <3>4. dSurf \notin Surfaces => dSurf \notin encHold[e]
      BY <1>0
    <3> QED  BY <1>1, <2>1, <3>2, <3>3, <3>4
  <2>3. CASE ~ (m_IsBufferingAllowed[dIdx] /\ dIdx = e)
    <3>1. m_SList'[e] = m_SList[e]
      BY <1>0, <1>4, <2>3 DEF AddSurface
    <3> QED  BY <1>2, <2>1, <3>1
  <2> QED  BY <2>2, <2>3
<1>5. CASE DecodeSession /\ ~ AddSurface
  <2>1. UNCHANGED m_SList
    BY <1>5 DEF DecodeSession, DecodeStart, GetFreeSurface, DecodeOneFrame,
       DecodeLastFrame, SignalInsertion, SyncOldest, NoMoreFramesAgain, bufVars
  <2> QED  BY <1>2, <1>5, <2>1, DecodeFrame DEF encVars
<1>6. ASSUME NEW f \in Encoders, f # e, EncodeSession(f) PROVE Goal
  <2>1. m_SList'[e] = m_SList[e]
    BY <1>0, <1>6 DEF EncodeSession, GetSurface, WaitForSurfaceInsertion, WaitReturns,
       WaitTimesOut, WaitFrame, EncodeOneFrame, ReleaseSurface, PutBS, CancelBuffering,
       DrainSurface, CloseEncoder, bufVars
  <2>2. encHold'[e] = encHold[e]
    BY <1>0, <1>6 DEF EncodeSession, GetSurface, WaitForSurfaceInsertion, WaitReturns,
       WaitTimesOut, WaitFrame, EncodeOneFrame, LockInput, ReleaseSurface, PutBS,
       CancelBuffering, DrainSurface, CloseEncoder
  <2>3. \E p : epc' = [epc EXCEPT ![f] = p]
    BY <1>6 DEF EncodeSession, GetSurface, WaitForSurfaceInsertion, WaitReturns,
       WaitTimesOut, EncodeOneFrame, ReleaseThen, ReleaseSurface, PutBS,
       CancelBuffering, DrainSurface, CloseEncoder, EndEncode, Goto
  <2>4. UNCHANGED eSurf \/ \E s : eSurf' = [eSurf EXCEPT ![f] = s]
    BY <1>6 DEF EncodeSession, GetSurface, WaitForSurfaceInsertion, WaitReturns,
       WaitTimesOut, WaitFrame, EncodeOneFrame, ReleaseSurface, PutBS, CancelBuffering,
       DrainSurface, CloseEncoder
  <2> QED  BY <1>0, <1>2, <1>6, <2>1, <2>2, <2>3, <2>4
<1>7. CASE GetSurface(e)
  <2>1. UNCHANGED <<m_SList, encHold>> /\ epc[e] = "get"
    BY <1>7 DEF GetSurface, bufVars
  <2>2. CASE epc'[e] # "encode"
    BY <1>3, <2>1, <2>2
  <2>3. CASE eSurf'[e] = NoSurface
    BY <1>1, <2>1, <2>3, ConstantFacts
  <2>4. CASE m_SList[e] # <<>> /\ eSurf'[e] = FrontSurface(e)
    <3>1. FrontSurface(e) \in Range(m_SList[e])
      BY <1>0, <2>4, TailOnce DEF FrontSurface
    <3> QED  BY <1>1, <2>1, <2>4, <3>1
  <2>5. eSurf'[e] = NoSurface \/ (m_SList[e] # <<>> /\ eSurf'[e] = FrontSurface(e))
        \/ epc'[e] # "encode"
    BY <1>0, <1>7 DEF GetSurface, Goto
  <2> QED  BY <2>2, <2>3, <2>4, <2>5
<1>8. CASE WaitForSurfaceInsertion(e) \/ WaitReturns(e) \/ WaitTimesOut(e)
    BY <1>0, <1>3, <1>8 DEF WaitForSurfaceInsertion, WaitReturns, WaitTimesOut, WaitFrame,
       EndEncode, Goto
<1>9. CASE EncodeOneFrame(e)
  <2>1. UNCHANGED <<m_SList, eSurf>> /\ epc[e] = "encode" /\ epc'[e] = "release"
    BY <1>0, <1>9 DEF EncodeOneFrame, ReleaseThen, Goto, bufVars
  <2>2. encHold'[e] \subseteq encHold[e] \cup ({eSurf[e]} \cap Surfaces)
    BY <1>0, <1>9 DEF EncodeOneFrame, LockInput, Submitted, Surf0
  <2> QED  BY <1>1, <2>1, <2>2
<1>10. CASE ReleaseSurface(e)
  <2>1. /\ m_SList'[e] = RemoveFirst(m_SList[e], eSurf[e])
        /\ epc[e] = "release" /\ epc'[e] # "encode" /\ UNCHANGED encHold
    BY <1>0, <1>10 DEF ReleaseSurface, EndEncode, Goto
  <2>2. /\ Once(m_SList'[e], Surfaces)
        /\ Range(m_SList'[e]) \cap Surfaces = (Range(m_SList[e]) \cap Surfaces) \ {eSurf[e]}
    BY <1>0, <1>1, <2>1, RemoveFirstOnce
  <2> QED  BY <1>0, <1>1, <2>1, <2>2
<1>11. CASE PutBS(e) \/ CancelBuffering(e) \/ CloseEncoder(e)
  <2>1. UNCHANGED m_SList /\ epc[e] # "release" /\ epc'[e] # "encode"
    BY <1>0, <1>11 DEF PutBS, CancelBuffering, CloseEncoder, EndEncode, Goto, bufVars
  <2>2. encHold'[e] \subseteq encHold[e]
    BY <1>0, <1>11 DEF PutBS, CancelBuffering, CloseEncoder
  <2> QED  BY <1>3, <2>1, <2>2
<1>12. CASE DrainSurface(e)
    BY <1>0, <1>3, <1>12 DEF DrainSurface, ReleaseThen, Goto, bufVars
<1>13. ASSUME NEW f \in Encoders, EncoderUnlocks(f) PROVE Goal
  <2>1. UNCHANGED <<m_SList, epc, eSurf>>
    BY <1>13 DEF EncoderUnlocks, bufVars, encVars
  <2>2. encHold'[e] \subseteq encHold[e]
    BY <1>0, <1>13 DEF EncoderUnlocks
  <2> QED  BY <1>2, <2>1, <2>2
<1>14. DecoderUnlocks \/ (\E i \in Sessions : CollectSession(i)) \/ UNCHANGED vars
       => Goal
    BY <1>2 DEF DecoderUnlocks, CollectSession, vars, bufVars, encVars
<1>15. ASSUME NEW f \in Encoders, EncodeSession(f) PROVE Goal
    BY <1>6, <1>7, <1>8, <1>9, <1>10, <1>11, <1>12, <1>15 DEF EncodeSession
<1> QED  BY <1>4, <1>5, <1>13, <1>14, <1>15 DEF Next, Finished

----------------------------------------------------------------------------
(* The reference count.                                                    *)

(* The number of holders when they stay the same,                          *)
LEMMA CountSame ==
    ASSUME LockedCountsHolders, NEW s \in Surfaces, Locked'[s] = Locked[s],
           Holders(s)' = Holders(s)
    PROVE  Locked'[s] = Cardinality(Holders(s)')
BY DEF LockedCountsHolders

(* ... when one is added, as by IncreaseReference,                         *)
LEMMA CountGain ==
    ASSUME LockedCountsHolders, NEW s \in Surfaces, Locked'[s] = Locked[s] + 1,
           NEW h, h \notin Holders(s), Holders(s)' = Holders(s) \cup {h}
    PROVE  Locked'[s] = Cardinality(Holders(s)')
BY HoldersFinite, FS_AddElement DEF LockedCountsHolders

(* ... and when one leaves, as by DecreaseReference.                       *)
LEMMA CountLoss ==
    ASSUME LockedCountsHolders, NEW s \in Surfaces, Locked'[s] = Locked[s] - 1,
           NEW h, h \in Holders(s), Holders(s)' = Holders(s) \ {h}
    PROVE  Locked'[s] = Cardinality(Holders(s)')
BY HoldersFinite, FS_RemoveElement DEF LockedCountsHolders

(* The holders of s as the union of what each party contributes, so that a *)
(* step is judged by the one contribution it changes.                      *)
LEMMA HoldersAre ==
    ASSUME NEW s
    PROVE  /\ Holders(s) =
                  (IF s \in decHold THEN {<<"decoder", 0>>} ELSE {})
                  \cup {<<"queue", e>> : e \in {f \in Encoders : s \in Range(m_SList[f])}}
                  \cup {<<"encoder", e>> : e \in {f \in Encoders : s \in encHold[f]}}
           /\ Holders(s)' =
                  (IF s \in decHold' THEN {<<"decoder", 0>>} ELSE {})
                  \cup {<<"queue", e>> : e \in {f \in Encoders : s \in Range(m_SList'[f])}}
                  \cup {<<"encoder", e>> : e \in {f \in Encoders : s \in encHold'[f]}}
<1>1. 0 \in Sessions /\ (\A e \in Encoders : e \in Sessions) /\ 0 \notin Encoders
    BY ConstantFacts DEF Sessions, Encoders
<1>2. Holders(s) =
          (IF s \in decHold THEN {<<"decoder", 0>>} ELSE {})
          \cup {<<"queue", e>> : e \in {f \in Encoders : s \in Range(m_SList[f])}}
          \cup {<<"encoder", e>> : e \in {f \in Encoders : s \in encHold[f]}}
    BY <1>1 DEF Holders
<1>3. Holders(s)' =
          (IF s \in decHold' THEN {<<"decoder", 0>>} ELSE {})
          \cup {<<"queue", e>> : e \in {f \in Encoders : s \in Range(m_SList'[f])}}
          \cup {<<"encoder", e>> : e \in {f \in Encoders : s \in encHold'[f]}}
    BY <1>1 DEF Holders
<1> QED  BY <1>2, <1>3

(* The holders of a surface that no step touched.                          *)
LEMMA HoldersSame ==
    ASSUME NEW s, s \in decHold' <=> s \in decHold,
           \A e \in Encoders : /\ s \in Range(m_SList'[e]) <=> s \in Range(m_SList[e])
                               /\ s \in encHold'[e] <=> s \in encHold[e]
    PROVE  Holders(s)' = Holders(s)
BY HoldersAre

(* Every step keeps Data.Locked the number of holders.                     *)
LEMMA CountStep ==
    Typed /\ DecoderOwnership /\ EncoderOwnership /\ LockedCountsHolders /\ [Next]_vars
        => LockedCountsHolders'
<1> SUFFICES ASSUME Typed, DecoderOwnership, EncoderOwnership, LockedCountsHolders,
                    [Next]_vars, NEW s \in Surfaces
             PROVE  Locked'[s] = Cardinality(Holders(s)')
    BY DEF LockedCountsHolders, Holders
<1> DEFINE Goal == Locked'[s] = Cardinality(Holders(s)')
<1>0. /\ Locked \in [Surfaces -> Int]
      /\ m_SList \in [Encoders -> Seq(Surf0)]
      /\ encHold \in [Encoders -> SUBSET Surfaces]
      /\ eSurf \in [Encoders -> Surf0]
    BY DEF Typed, BufferTypes, HolderTypes, EncoderTypes
<1>1. ASSUME Locked'[s] = Locked[s], s \in decHold' <=> s \in decHold,
             \A e \in Encoders : /\ s \in Range(m_SList'[e]) <=> s \in Range(m_SList[e])
                                 /\ s \in encHold'[e] <=> s \in encHold[e]
      PROVE  Goal
    BY <1>1, HoldersSame, CountSame
<1>2. ASSUME UNCHANGED <<Locked, decHold, encHold, m_SList>> PROVE Goal
    BY <1>1, <1>2
<1>3. CASE DecodeOneFrame
  <2>1. UNCHANGED <<m_SList, encHold>>
    BY <1>3 DEF DecodeOneFrame, bufVars
  <2>2. \/ UNCHANGED <<Locked, decHold>>
        \/ /\ Locked' = [Locked EXCEPT ![dSurf] = @ + 1]
           /\ decHold' = decHold \cup {dSurf}
    BY <1>3 DEF DecodeOneFrame, StopDecoding
  <2>3. dSurf \in Surfaces /\ dSurf \notin decHold
    BY <1>3 DEF DecodeOneFrame, DecoderOwnership
  <2>4. CASE Locked' = [Locked EXCEPT ![dSurf] = @ + 1] /\ decHold' = decHold \cup {dSurf}
             /\ s = dSurf
    <3>1. Holders(s)' = Holders(s) \cup {<<"decoder", 0>>}
      BY <2>1, <2>3, <2>4, HoldersAre
    <3>2. <<"decoder", 0>> \notin Holders(s)
      BY <2>3, <2>4, HolderMember
    <3>3. Locked'[s] = Locked[s] + 1
      BY <1>0, <2>4
    <3> QED  BY <3>1, <3>2, <3>3, CountGain
  <2> QED  BY <1>0, <1>1, <1>2, <2>1, <2>2, <2>4
<1>4. CASE AddSurface
  <2>1. UNCHANGED <<decHold, encHold>> /\ dIdx \in Encoders /\ dSurf \in Surf0
        /\ dpc = "add"
    BY <1>4 DEF AddSurface, Typed, DecoderTypes
  <2>2. CASE m_IsBufferingAllowed[dIdx]
    <3>1. m_SList' = [m_SList EXCEPT ![dIdx] = Append(@, dSurf)] /\ IncreaseReference(dSurf)
      BY <1>4, <2>2 DEF AddSurface
    <3>2. Range(Append(m_SList[dIdx], dSurf)) = Range(m_SList[dIdx]) \cup {dSurf}
      BY <1>0, <2>1, AppendElements
    <3>3. CASE s = dSurf
      <4>1. s \notin Range(m_SList[dIdx])
        BY <2>1, <3>3 DEF DecoderOwnership, ToBeAdded
      <4>2. \A e \in Encoders : s \in Range(m_SList'[e]) <=>
                                s \in Range(m_SList[e]) \/ e = dIdx
        BY <1>0, <2>1, <3>1, <3>2, <3>3
      <4>3. Holders(s)' = Holders(s) \cup {<<"queue", dIdx>>}
        BY <2>1, <4>2, HoldersAre
      <4>4. <<"queue", dIdx>> \notin Holders(s)
        BY <2>1, <4>1, HolderMember
      <4>5. Locked'[s] = Locked[s] + 1
        BY <1>0, <3>1, <3>3, ConstantFacts DEF IncreaseReference
      <4> QED  BY <4>3, <4>4, <4>5, CountGain
    <3>4. CASE s # dSurf
      <4>1. \A e \in Encoders : s \in Range(m_SList'[e]) <=> s \in Range(m_SList[e])
        BY <1>0, <2>1, <3>1, <3>2, <3>4
      <4>2. Locked'[s] = Locked[s]
        BY <1>0, <3>1, <3>4 DEF IncreaseReference
      <4> QED  BY <1>1, <2>1, <4>1, <4>2
    <3> QED  BY <3>3, <3>4
  <2>3. CASE ~ m_IsBufferingAllowed[dIdx]
    BY <1>2, <1>4, <2>1, <2>3 DEF AddSurface
  <2> QED  BY <2>2, <2>3
<1>5. CASE DecoderUnlocks
  <2>1. UNCHANGED <<m_SList, encHold>>
    BY <1>5 DEF DecoderUnlocks, bufVars
  <2>2. PICK t \in decHold : decHold' = decHold \ {t} /\ Locked' = [Locked EXCEPT ![t] = @ - 1]
    BY <1>5 DEF DecoderUnlocks
  <2>3. CASE s = t
    <3>1. Holders(s)' = Holders(s) \ {<<"decoder", 0>>}
      BY <2>1, <2>2, <2>3, HoldersAre
    <3>2. <<"decoder", 0>> \in Holders(s) /\ Locked'[s] = Locked[s] - 1
      BY <1>0, <2>2, <2>3, HolderMember
    <3> QED  BY <3>1, <3>2, CountLoss
  <2>4. CASE s # t
    BY <1>0, <1>1, <2>1, <2>2, <2>4
  <2> QED  BY <2>3, <2>4
<1>6. ASSUME NEW f \in Encoders, EncodeOneFrame(f) PROVE Goal
  <2>1. UNCHANGED <<m_SList, decHold>> /\ epc[f] = "encode"
    BY <1>6 DEF EncodeOneFrame, OtherThreads, bufVars
  <2>2. LockInput(f, Submitted(f)) \/ UNCHANGED <<Locked, encHold>>
    BY <1>6 DEF EncodeOneFrame
  <2>3. CASE Submitted(f) = s /\ LockInput(f, s)
    <3>1. s \notin encHold[f]
      BY <1>0, <2>1, <2>3, ConstantFacts DEF Submitted, EncoderOwnership
    <3>2. /\ encHold' = [encHold EXCEPT ![f] = @ \cup {s}]
          /\ Locked' = [Locked EXCEPT ![s] = @ + 1]
      BY <2>3, ConstantFacts DEF LockInput
    <3>3. \A e \in Encoders : s \in encHold'[e] <=> s \in encHold[e] \/ e = f
      BY <1>0, <3>2
    <3>4. Holders(s)' = Holders(s) \cup {<<"encoder", f>>}
      BY <2>1, <3>3, HoldersAre
    <3>5. <<"encoder", f>> \notin Holders(s) /\ Locked'[s] = Locked[s] + 1
      BY <1>0, <3>1, <3>2, HolderMember
    <3> QED  BY <3>4, <3>5, CountGain
  <2>4. CASE Submitted(f) # s /\ LockInput(f, Submitted(f))
    <3>1. \A e \in Encoders : s \in encHold'[e] <=> s \in encHold[e]
      BY <1>0, <2>4 DEF LockInput
    <3>2. Locked'[s] = Locked[s]
      BY <1>0, <2>4 DEF LockInput
    <3> QED  BY <1>1, <2>1, <3>1, <3>2
  <2> QED  BY <1>2, <2>1, <2>2, <2>3, <2>4
<1>7. ASSUME NEW f \in Encoders, ReleaseSurface(f) PROVE Goal
  <2>1. /\ m_SList' = [m_SList EXCEPT ![f] = RemoveFirst(@, eSurf[f])]
        /\ UNCHANGED <<decHold, encHold>>
        /\ IF eSurf[f] \in Surfaces /\ eSurf[f] \in Range(m_SList[f])
           THEN DecreaseReference(eSurf[f]) ELSE UNCHANGED Locked
    BY <1>7 DEF ReleaseSurface, OtherThreads
  <2>2. Range(m_SList'[f]) \cap Surfaces = (Range(m_SList[f]) \cap Surfaces) \ {eSurf[f]}
    BY <1>0, <2>1, RemoveFirstOnce DEF EncoderOwnership
  <2>3. \A e \in Encoders : e # f => m_SList'[e] = m_SList[e]
    BY <1>0, <2>1
  <2>4. CASE s = eSurf[f] /\ s \in Range(m_SList[f])
    <3>1. \A e \in Encoders : s \in Range(m_SList'[e]) <=> s \in Range(m_SList[e]) /\ e # f
      BY <2>2, <2>3, <2>4
    <3>2. Holders(s)' = Holders(s) \ {<<"queue", f>>}
      BY <2>1, <3>1, HoldersAre
    <3>3. <<"queue", f>> \in Holders(s) /\ Locked'[s] = Locked[s] - 1
      BY <1>0, <2>1, <2>4, HolderMember DEF DecreaseReference
    <3> QED  BY <3>2, <3>3, CountLoss
  <2>5. CASE ~ (s = eSurf[f] /\ s \in Range(m_SList[f]))
    <3>1. \A e \in Encoders : s \in Range(m_SList'[e]) <=> s \in Range(m_SList[e])
      BY <2>2, <2>3, <2>5
    <3>2. Locked'[s] = Locked[s]
      BY <1>0, <2>1, <2>5 DEF DecreaseReference
    <3> QED  BY <1>1, <2>1, <3>1, <3>2
  <2> QED  BY <2>4, <2>5
<1>8. ASSUME NEW f \in Encoders, CloseEncoder(f) \/ EncoderUnlocks(f) PROVE Goal
  <2>1. UNCHANGED <<m_SList, decHold>>
    BY <1>8 DEF CloseEncoder, EncoderUnlocks, OtherThreads, bufVars
  <2>2. /\ Locked'[s] = IF s \in encHold[f] /\ s \notin encHold'[f]
                        THEN Locked[s] - 1 ELSE Locked[s]
        /\ encHold'[f] \subseteq encHold[f]
        /\ \A e \in Encoders : e # f => encHold'[e] = encHold[e]
    BY <1>0, <1>8 DEF CloseEncoder, EncoderUnlocks
  <2>3. CASE s \in encHold[f] /\ s \notin encHold'[f]
    <3>1. Holders(s)' = Holders(s) \ {<<"encoder", f>>}
      <4>1. \A e \in Encoders : s \in encHold'[e] <=> s \in encHold[e] /\ e # f
        BY <2>2, <2>3
      <4> QED  BY <2>1, <4>1, HoldersAre
    <3>2. <<"encoder", f>> \in Holders(s)
      BY <2>3, HolderMember
    <3> QED  BY <2>2, <2>3, <3>1, <3>2, CountLoss
  <2>4. CASE ~ (s \in encHold[f] /\ s \notin encHold'[f])
    BY <1>1, <2>1, <2>2, <2>4
  <2> QED  BY <2>3, <2>4
<1>9. CASE DecodeStart \/ GetFreeSurface \/ DecodeLastFrame \/ SignalInsertion
           \/ SyncOldest \/ NoMoreFramesAgain
    BY <1>2, <1>9 DEF DecodeStart, GetFreeSurface, DecodeLastFrame, SignalInsertion,
       SyncOldest, NoMoreFramesAgain, StopDecoding, bufVars
<1>10. ASSUME NEW f \in Encoders,
              GetSurface(f) \/ WaitForSurfaceInsertion(f) \/ WaitReturns(f)
              \/ WaitTimesOut(f) \/ PutBS(f) \/ CancelBuffering(f) \/ DrainSurface(f)
       PROVE  Goal
    BY <1>2, <1>10 DEF GetSurface, WaitForSurfaceInsertion, WaitReturns, WaitTimesOut,
       WaitFrame, PutBS, CancelBuffering, DrainSurface, OtherThreads, bufVars
<1>11. (\E i \in Sessions : CollectSession(i)) \/ UNCHANGED vars => Goal
    BY <1>2 DEF CollectSession, vars, bufVars
<1> QED  BY <1>3, <1>4, <1>5, <1>6, <1>7, <1>8, <1>9, <1>10, <1>11
         DEF Next, Finished, DecodeSession, EncodeSession

----------------------------------------------------------------------------
(* The theorems.                                                           *)

(* The invariant holds at first.                                           *)
LEMMA InitIInv == Init => IInv
<1> SUFFICES ASSUME Init PROVE IInv
    OBVIOUS
<1>1. Typed
    BY TypedInit
<1>2. Once(<<>>, Surfaces) /\ Range(<<>>) = {}
    BY DEF Once, Range
<1>3. DecoderOwnership /\ EncoderOwnership
    BY <1>2 DEF Init, DecoderOwnership, EncoderOwnership, ToBeAdded, NotPassedOn
<1>4. ASSUME NEW s \in Surfaces PROVE Locked[s] = Cardinality(Holders(s))
  <2>1. Holders(s) = {}
    BY <1>2, HoldersAre DEF Init
  <2> QED  BY <2>1, FS_EmptySet DEF Init
<1> QED  BY <1>1, <1>3, <1>4 DEF IInv, LockedCountsHolders

(* Every step of every thread, and of the library, keeps the invariant.    *)
THEOREM InvariantHolds == Spec => []IInv
<1>1. IInv /\ [Next]_vars => IInv'
    BY TypedStep, DecoderOwnershipStep, EncoderOwnershipStep, CountStep DEF IInv
<1> QED  BY InitIInv, <1>1, PTL DEF Spec

(* The reference count of a surface always is the number of its holders:   *)
(* however the decoder, its sinks and their libraries interleave and       *)
(* whichever call fails, IncreaseReference and DecreaseReference balance.  *)
THEOREM ReferencesBalance == Spec => []LockedCountsHolders
<1>1. IInv => LockedCountsHolders
    BY DEF IInv
<1> QED  BY InvariantHolds, <1>1, PTL

(* Every variable keeps its type; so no count is ever released below zero. *)
THEOREM TypeCorrect == Spec => []TypeOK
<1>1. IInv => TypeOK
  <2> SUFFICES ASSUME IInv PROVE TypeOK
    OBVIOUS
  <2>1. \A s \in Surfaces : Cardinality(Holders(s)) \in Nat
    BY HoldersFinite, FS_CardinalityType
  <2>2. Locked \in [Surfaces -> Nat]
    BY <2>1 DEF IInv, Typed, LockedCountsHolders
  <2> QED  BY <2>2 DEF IInv, Typed, TypeOK
<1> QED  BY InvariantHolds, <1>1, PTL

(* The decoder writes only into a surface that no queue, no encoder and    *)
(* not the decoder itself still holds.                                     *)
THEOREM NothingOverwritten == Spec => NoOverwrite
<1>1. IInv /\ [Next]_vars =>
          \A s \in Surfaces : content'[s] # content[s] => Holders(s) = {}
  <2> SUFFICES ASSUME IInv, [Next]_vars, NEW s \in Surfaces, content'[s] # content[s]
               PROVE  Holders(s) = {}
    OBVIOUS
  <2>1. DecodeOneFrame
    BY EncodeFrame DEF Next, Finished, vars, decVars, OtherThreads, DecoderUnlocks,
       EncoderUnlocks, CollectSession, DecodeSession, DecodeStart, GetFreeSurface,
       DecodeLastFrame, AddSurface, SignalInsertion, SyncOldest, NoMoreFramesAgain,
       StopDecoding
  <2>2. dpc = "decode" /\ s = dSurf
    BY <2>1 DEF DecodeOneFrame, StopDecoding, IInv, Typed, HolderTypes
  <2>3. s \notin decHold /\ NotPassedOn(s)
    BY <2>2 DEF IInv, DecoderOwnership
  <2> QED  BY <2>3, HolderMember DEF NotPassedOn
<1> QED  BY InvariantHolds, <1>1, PTL DEF Spec, NoOverwrite
=============================================================================
