------------------------- MODULE TranscodeSessions -------------------------
(***************************************************************************)
(* sample_multi_transcode, 1-to-N mode: one decode session (eMode Sink)    *)
(* hands every decoded surface to NumEnc encode sessions (eMode Source)    *)
(* through a chain of SafetySurfaceBuffer objects, each session on its own *)
(* thread, under a Launcher that polls the threads and stops all sessions  *)
(* when one of them fails.                                                 *)
(*                                                                         *)
(* Configuration modelled: external allocation (GENERAL_ALLOC), no VPP, no *)
(* overlay, no cascade scaler, m_nTimeout = 0 (so bLastCycle is always     *)
(* true), m_ExactNframe = false, no robust reset.                          *)
(*                                                                         *)
(* A region the code runs under one mutex is one action.  The VPL library  *)
(* (decoder, encoder, SyncOperation) is external: it locks a surface given *)
(* to it, and unlocks it at any time once it no longer needs it.           *)
(***************************************************************************)
EXTENDS Integers, FiniteSets, SequencesExt

CONSTANTS
    NumEnc,       \* number of encode sessions; buffer e belongs to session e
    Surfaces,     \* m_pSurfaceDecPool, the decoder's surface pool
    NoSurface,    \* the null pSurface that marks the end of the stream
    NumFrames,    \* frames in the input stream
    AsyncDepth,   \* m_AsyncDepth
    FrameLimit,   \* m_MaxFramesForTranscode of each encode session
    DecDelay,     \* frames the decoder may keep back before it outputs one
    EncDelay,     \* frames the encoder may keep back before it outputs one
    Joined,       \* m_bIsJoinSession
    SoftRecovery, \* m_bSoftGpuHangRecovery
    MaxTries,     \* waits of one m_surface_wait_interval (1000 in the code)
    MaxFaults     \* bound on failed calls and spurious wakeups in one behaviour

Encoders == 1..NumEnc
Surf0 == Surfaces \cup {NoSurface}

ASSUME SessionsAssumption ==
    /\ NumEnc \in Nat \ {0}
    /\ IsFiniteSet(Surfaces) /\ Surfaces # {} /\ NoSurface \notin Surfaces
    /\ NumFrames \in Nat
    /\ AsyncDepth \in Nat \ {0}
    /\ FrameLimit \in [Encoders -> Nat \ {0}]
    /\ DecDelay \in Nat /\ EncDelay \in Nat
    /\ Joined \in BOOLEAN /\ SoftRecovery \in BOOLEAN
    /\ MaxTries \in Nat \ {0} /\ MaxFaults \in Nat

VARIABLES
    \* surfaces
    Locked,               \* Data.Locked of each surface
    content,              \* the frame each surface's memory holds, 0: none
    decLib,               \* surfaces decoded and not yet output by the library
    decHold,              \* surfaces the decoder library has locked
    \* decode session
    dpc, dSurf, dIdx, dAfter,
    nInput,               \* frames of the stream consumed by the decoder
    bEndOfFile,           \* Decode() is draining with DecodeLastFrame
    dProcessed,           \* m_nProcessedFramesNum of the decode session
    decSts,
    \* the buffers
    m_SList, m_IsBufferingAllowed, pInsEvent,
    \* encode sessions
    epc, eNext, eSurf, isQuit, bPollFlag, tries, eProcessed, encSts,
    encLib,               \* surfaces submitted and not yet output as bitstreams
    encHold,              \* surfaces the encoder library has locked
    freeBS, m_BSPool,     \* m_pBSStore's free entries; the pending bitstreams
    written,              \* frames written to the output file
    \* launcher and environment
    m_bForceStop, collected, faults

decVars == <<content, decLib, dpc, dSurf, dIdx, dAfter, nInput, bEndOfFile,
             dProcessed, decSts>>
bufVars == <<m_SList, m_IsBufferingAllowed, pInsEvent>>
encData == <<isQuit, bPollFlag, eProcessed, encLib, freeBS, m_BSPool, written>>
encVars == <<epc, eNext, eSurf, tries, encSts, encData>>
runVars == <<m_bForceStop, collected>>
vars == <<Locked, decHold, encHold, decVars, bufVars, encVars, runVars, faults>>

Statuses == {"run", "ok", "err"}

----------------------------------------------------------------------------
(* The library may fail a call: a bounded choice of the environment.       *)

MayFail == faults < MaxFaults /\ faults' = faults + 1

(* m_MaxFramesForEncode: the most frames any encode session wants.         *)
DecodeLimit ==
    CHOOSE m \in {FrameLimit[e] : e \in Encoders} :
        \A e \in Encoders : FrameLimit[e] <= m

(* IncreaseReference; the null surface has no counter.  Mutant: the buffer *)
(* keeps the surface without a reference.                                  *)
IncreaseReferenceForgotten(s) == Locked' = Locked

IncreaseReference(s) ==
    Locked' = IF s = NoSurface THEN Locked ELSE [Locked EXCEPT ![s] = @ + 1]

(* DecreaseReference.  Mutant: the reference is dropped twice.             *)
DecreaseReferenceTwice(s) == Locked' = [Locked EXCEPT ![s] = @ - 2]

DecreaseReference(s) == Locked' = [Locked EXCEPT ![s] = @ - 1]

(* SafetySurfaceBuffer::GetSurface: the oldest surface of buffer e.        *)
(* Mutant: the newest one.                                                 *)
FrontSurfaceNewest(e) == Last(m_SList[e])

FrontSurface(e) == Head(m_SList[e])

----------------------------------------------------------------------------
(* Decode session.                                                         *)

(* Hand surface s to the chain of buffers, which runs from the buffer      *)
(* created last to the one created first; then continue at next.           *)
StartAdding(s, next) ==
    /\ dSurf' = s
    /\ dIdx' = NumEnc
    /\ dAfter' = next
    /\ dpc' = "add"

(* NoMoreFramesSignal at the end of Decode(), which then returns sts.      *)
(* Mutant: Decode() returns without the signal.                            *)
EndDecodeSilently(sts) ==
    /\ dpc' = "done" /\ decSts' = sts
    /\ UNCHANGED <<dSurf, dIdx, dAfter>>

EndDecode(sts) ==
    /\ StartAdding(NoSurface, "done")
    /\ decSts' = sts

(* CheckStopCondition finds m_bForceStop: it signals all sinks, and        *)
(* Decode() leaves its loop and signals them once more.                    *)
StopDecoding ==
    /\ m_bForceStop
    /\ StartAdding(NoSurface, "again")
    /\ UNCHANGED <<content, decLib, decHold, nInput, bEndOfFile, decSts>>

DecodeStart ==
    /\ dpc = "start"
    /\ IF m_bForceStop
       THEN EndDecode("ok")
       ELSE dpc' = "free" /\ UNCHANGED <<dSurf, dIdx, dAfter, decSts>>
    /\ UNCHANGED <<Locked, decHold, encHold, content, decLib, nInput, bEndOfFile,
                   dProcessed, bufVars, encVars, runVars, faults>>

NoMoreFramesAgain ==
    /\ dpc = "again"
    /\ EndDecode("ok")
    /\ UNCHANGED <<Locked, decHold, encHold, content, decLib, nInput, bEndOfFile,
                   dProcessed, bufVars, encVars, runVars, faults>>

(* GetFreeSurface: any unlocked surface of the pool, or none when the wait *)
(* ends or a stop is requested.  Without a surface DecodeOneFrame checks   *)
(* the stop condition first, DecodeLastFrame fails at once.                *)
GetFreeSurface ==
    /\ dpc = "free"
    /\ \/ /\ ~m_bForceStop
          /\ \E s \in Surfaces : Locked[s] = 0 /\ dSurf' = s
          /\ dpc' = "decode"
          /\ UNCHANGED <<content, decLib, decHold, nInput, bEndOfFile, decSts, dIdx,
                         dAfter>>
       \/ /\ ~bEndOfFile
          /\ StopDecoding
       \/ /\ m_bForceStop => bEndOfFile
          /\ m_bForceStop \/ \A s \in Surfaces : Locked[s] # 0
          /\ EndDecode("err")
          /\ UNCHANGED <<content, decLib, decHold, nInput, bEndOfFile>>
    /\ UNCHANGED <<Locked, encHold, dProcessed, bufVars, encVars, runVars, faults>>

(* The decoder returns its oldest frame, or wants another surface.         *)
DecoderReturns(lib) ==
    \/ /\ lib # <<>>
       /\ decLib' = Tail(lib)
       /\ StartAdding(Head(lib), "sync")
    \/ /\ Len(lib) <= DecDelay
       /\ decLib' = lib
       /\ dpc' = "free"
       /\ UNCHANGED <<dSurf, dIdx, dAfter>>

(* DecodeOneFrame once GetFreeSurface has found dSurf: a stop request, a   *)
(* frame decoded into dSurf, the end of the stream, or a failed call.      *)
DecodeOneFrame ==
    /\ dpc = "decode" /\ ~bEndOfFile
    /\ \/ /\ StopDecoding
          /\ UNCHANGED <<Locked, faults>>
       \/ /\ ~m_bForceStop /\ nInput < NumFrames
          /\ nInput' = nInput + 1
          /\ content' = [content EXCEPT ![dSurf] = nInput + 1]
          /\ Locked' = [Locked EXCEPT ![dSurf] = @ + 1]
          /\ decHold' = decHold \cup {dSurf}
          /\ DecoderReturns(Append(decLib, dSurf))
          /\ UNCHANGED <<bEndOfFile, decSts, faults>>
       \/ /\ ~m_bForceStop /\ nInput = NumFrames
          /\ bEndOfFile' = TRUE
          /\ dpc' = "free"
          /\ UNCHANGED <<Locked, content, decLib, decHold, nInput, dSurf, dIdx, dAfter,
                         decSts, faults>>
       \/ /\ ~m_bForceStop /\ MayFail
          /\ EndDecode("err")
          /\ UNCHANGED <<Locked, content, decLib, decHold, nInput, bEndOfFile>>
    /\ UNCHANGED <<encHold, dProcessed, bufVars, encVars, runVars>>

(* DecodeLastFrame: one buffered frame, or no more, or a failed call.      *)
DecodeLastFrame ==
    /\ dpc = "decode" /\ bEndOfFile
    /\ \/ /\ decLib # <<>>
          /\ decLib' = Tail(decLib)
          /\ StartAdding(Head(decLib), "sync")
          /\ UNCHANGED <<decSts, faults>>
       \/ /\ decLib = <<>>
          /\ EndDecode("ok")
          /\ UNCHANGED <<decLib, faults>>
       \/ /\ MayFail
          /\ EndDecode("err")
          /\ UNCHANGED decLib
    /\ UNCHANGED <<Locked, decHold, encHold, content, nInput, bEndOfFile, dProcessed,
                   bufVars, encVars, runVars>>

(* The chain is walked to its end, then Decode() goes on.                  *)
NextBuffer ==
    IF dIdx = 1 THEN dpc' = dAfter /\ UNCHANGED dIdx
                ELSE dpc' = "add" /\ dIdx' = dIdx - 1

(* AddSurface, the part under the buffer's mutex.                          *)
AddSurface ==
    /\ dpc = "add"
    /\ IF m_IsBufferingAllowed[dIdx]
       THEN /\ m_SList' = [m_SList EXCEPT ![dIdx] = Append(@, dSurf)]
            /\ IncreaseReference(dSurf)
            /\ dpc' = "signal"
            /\ UNCHANGED dIdx
       ELSE NextBuffer /\ UNCHANGED <<m_SList, Locked>>
    /\ UNCHANGED <<decHold, encHold, content, decLib, dSurf, dAfter, nInput, bEndOfFile,
                   dProcessed, decSts, m_IsBufferingAllowed, pInsEvent, encVars,
                   runVars, faults>>

(* AddSurface, the event signalled after the mutex is released.            *)
SignalInsertion ==
    /\ dpc = "signal"
    /\ pInsEvent' = [pInsEvent EXCEPT ![dIdx] = TRUE]
    /\ NextBuffer
    /\ UNCHANGED <<Locked, decHold, encHold, content, decLib, dSurf, dAfter, nInput,
                   bEndOfFile, dProcessed, decSts, m_SList, m_IsBufferingAllowed,
                   encVars, runVars, faults>>

(* End of one turn of Decode()'s loop: when the last buffer of the chain   *)
(* holds AsyncDepth surfaces the front one is synchronised.  A failure     *)
(* there returns at once: no sink is told.  A hang is forgiven when        *)
(* SoftRecovery is on, and then the turn ends as usual.                    *)
SyncOldest ==
    /\ dpc = "sync"
    /\ \/ /\ Len(m_SList[1]) >= AsyncDepth
          /\ Head(m_SList[1]) # NoSurface
          /\ MayFail
          /\ dpc' = "done" /\ decSts' = "err"
          /\ UNCHANGED <<dSurf, dIdx, dAfter, dProcessed>>
       \/ /\ dProcessed' = dProcessed + 1
          /\ IF dProcessed + 1 >= DecodeLimit
             THEN EndDecode("ok")
             ELSE dpc' = "free" /\ UNCHANGED <<dSurf, dIdx, dAfter, decSts>>
          /\ UNCHANGED faults
    /\ UNCHANGED <<Locked, decHold, encHold, content, decLib, nInput, bEndOfFile,
                   bufVars, encVars, runVars>>

(* The decoder library no longer needs a surface it has output.            *)
DecoderUnlocks ==
    /\ \E s \in decHold :
          /\ s \notin Range(decLib)
          /\ decHold' = decHold \ {s}
          /\ Locked' = [Locked EXCEPT ![s] = @ - 1]
    /\ UNCHANGED <<encHold, decVars, bufVars, encVars, runVars, faults>>

DecodeSession ==
    \/ DecodeStart \/ GetFreeSurface \/ DecodeOneFrame \/ DecodeLastFrame
    \/ AddSurface \/ SignalInsertion \/ SyncOldest \/ NoMoreFramesAgain

----------------------------------------------------------------------------
(* Encode session e.                                                       *)

\* what an action of session e leaves alone
OtherThreads == UNCHANGED <<decHold, decVars, m_bForceStop, collected>>

Goto(e, pc) == epc' = [epc EXCEPT ![e] = pc]

EndEncode(e, sts) ==
    /\ Goto(e, "done")
    /\ encSts' = [encSts EXCEPT ![e] = sts]

(* ExtendedBSStore::Release.  Mutant: the entry stays taken.               *)
ReleaseBSForgotten(e, ids) == freeBS' = freeBS

ReleaseBS(e, ids) == freeBS' = [freeBS EXCEPT ![e] = @ \cup ids]

(* HandlePossibleGpuHang: every pending bitstream is given back unwritten. *)
DropPendingBitstreams(e) ==
    /\ m_BSPool' = [m_BSPool EXCEPT ![e] = <<>>]
    /\ ReleaseBS(e, {m_BSPool[e][i].id : i \in 1..Len(m_BSPool[e])})

(* A session that is not joined synchronises the surface on the decoder's  *)
(* session, where a hang may be forgiven.                                  *)
SyncInput(e) ==
    \/ UNCHANGED <<m_BSPool, freeBS, faults>>
    \/ /\ ~Joined /\ SoftRecovery /\ FrontSurface(e) # NoSurface
       /\ MayFail
       /\ DropPendingBitstreams(e)

(* The next surface to encode: none once the stream has ended, else the    *)
(* front of the buffer.  If it cannot be synchronised Encode() returns at  *)
(* once.                                                                   *)
GetSurface(e) ==
    /\ epc[e] = "get"
    /\ \/ /\ isQuit[e]
          /\ eSurf' = [eSurf EXCEPT ![e] = NoSurface]
          /\ Goto(e, "encode")
          /\ UNCHANGED <<isQuit, tries, encSts, m_BSPool, freeBS, faults>>
       \/ /\ ~isQuit[e] /\ m_SList[e] # <<>>
          /\ eSurf' = [eSurf EXCEPT ![e] = FrontSurface(e)]
          /\ isQuit' = [isQuit EXCEPT ![e] = FrontSurface(e) = NoSurface]
          /\ SyncInput(e)
          /\ Goto(e, "encode")
          /\ UNCHANGED <<tries, encSts>>
       \/ /\ ~isQuit[e] /\ m_SList[e] # <<>>
          /\ ~Joined /\ FrontSurface(e) # NoSurface
          /\ MayFail
          /\ eSurf' = [eSurf EXCEPT ![e] = FrontSurface(e)]
          /\ EndEncode(e, "err")
          /\ UNCHANGED <<isQuit, tries, m_BSPool, freeBS>>
       \/ /\ ~isQuit[e] /\ m_SList[e] = <<>>
          /\ tries' = [tries EXCEPT ![e] = 0]
          /\ Goto(e, "wait")
          /\ UNCHANGED <<eSurf, isQuit, encSts, m_BSPool, freeBS, faults>>
    /\ OtherThreads
    /\ UNCHANGED <<Locked, encHold, bufVars, eNext, bPollFlag, eProcessed, encLib,
                   written>>

\* what the steps of one TimedWait leave alone
WaitFrame ==
    /\ OtherThreads
    /\ UNCHANGED <<Locked, encHold, m_SList, m_IsBufferingAllowed, eNext, eSurf, encData>>

(* WaitForSurfaceInsertion: MSDKEvent::TimedWait takes a signalled event   *)
(* at once, else it blocks on the condition variable.                      *)
WaitForSurfaceInsertion(e) ==
    /\ epc[e] = "wait"
    /\ Goto(e, IF pInsEvent[e] THEN "get" ELSE "blocked")
    /\ pInsEvent' = [pInsEvent EXCEPT ![e] = FALSE]
    /\ UNCHANGED <<tries, encSts, faults>>
    /\ WaitFrame

(* pthread_cond_timedwait returns 0: signalled, or woken spuriously, which *)
(* is counted among the faults of the environment.                         *)
WaitReturns(e) ==
    /\ epc[e] = "blocked"
    /\ IF pInsEvent[e] THEN UNCHANGED faults ELSE MayFail
    /\ Goto(e, "get")
    /\ pInsEvent' = [pInsEvent EXCEPT ![e] = FALSE]
    /\ UNCHANGED <<tries, encSts>>
    /\ WaitFrame

(* ... or it returns ETIMEDOUT, perhaps after a Signal that came too late  *)
(* to be delivered: the event is reset in either case.  The session waits  *)
(* again without looking at the buffer, until its patience is exhausted.   *)
(* Mutant: its patience is never exhausted.                                *)
WaitTimesOutForever(e) ==
    /\ epc[e] = "blocked"
    /\ pInsEvent' = [pInsEvent EXCEPT ![e] = FALSE]
    /\ Goto(e, "wait")
    /\ UNCHANGED <<tries, encSts, faults>>
    /\ WaitFrame

WaitTimesOut(e) ==
    /\ epc[e] = "blocked"
    /\ pInsEvent' = [pInsEvent EXCEPT ![e] = FALSE]
    /\ tries' = [tries EXCEPT ![e] = @ + 1]
    /\ IF tries[e] + 1 >= MaxTries
       THEN EndEncode(e, "err")
       ELSE Goto(e, "wait") /\ UNCHANGED encSts
    /\ UNCHANGED faults
    /\ WaitFrame

(* Release the surface, then go on at next.                                *)
ReleaseThen(e, next) ==
    /\ Goto(e, "release")
    /\ eNext' = [eNext EXCEPT ![e] = next]

(* The surface given to EncodeFrameAsync: none once the frame limit is     *)
(* reached.                                                                *)
Submitted(e) == IF bPollFlag[e] THEN NoSurface ELSE eSurf[e]

(* EncodeFrameAsync locks the surface submitted.                           *)
LockInput(e, s) ==
    IF s = NoSurface
    THEN UNCHANGED <<Locked, encHold>>
    ELSE /\ Locked' = [Locked EXCEPT ![s] = @ + 1]
         /\ encHold' = [encHold EXCEPT ![e] = @ \cup {s}]

(* Only real surfaces are counted against the frame limit.  Mutant: one    *)
(* frame more than the limit is let through.                               *)
CountFrameLate(e, s) ==
    IF s = NoSurface
    THEN UNCHANGED <<eProcessed, bPollFlag>>
    ELSE /\ eProcessed' = [eProcessed EXCEPT ![e] = @ + 1]
         /\ bPollFlag' = [bPollFlag EXCEPT
                              ![e] = @ \/ eProcessed[e] + 1 > FrameLimit[e]]

CountFrame(e, s) ==
    IF s = NoSurface
    THEN UNCHANGED <<eProcessed, bPollFlag>>
    ELSE /\ eProcessed' = [eProcessed EXCEPT ![e] = @ + 1]
         /\ bPollFlag' = [bPollFlag EXCEPT
                              ![e] = @ \/ eProcessed[e] + 1 >= FrameLimit[e]]

(* EncodeOneFrame with a bitstream from m_pBSStore: a bitstream comes out, *)
(* or the encoder wants more data and the entry is given back, or the call *)
(* fails.  In each case the decoded surface is released next.  GetNext()   *)
(* finding no free entry (MFX_ERR_NOT_FOUND) is the state excluded by      *)
(* BitstreamsAccounted: the session would stop here.                       *)
EncodeOneFrame(e) ==
    LET s   == Submitted(e)
        lib == IF s = NoSurface THEN encLib[e] ELSE Append(encLib[e], s)
    IN
    /\ epc[e] = "encode"
    /\ freeBS[e] # {}
    /\ \E bs \in freeBS[e] :
          \/ /\ lib # <<>>
             /\ LockInput(e, s)
             /\ encLib' = [encLib EXCEPT ![e] = Tail(lib)]
             /\ freeBS' = [freeBS EXCEPT ![e] = @ \ {bs}]
             /\ m_BSPool' = [m_BSPool EXCEPT ![e] =
                    Append(@, [id |-> bs, frame |-> content[Head(lib)]])]
             /\ ReleaseThen(e, IF Len(m_BSPool[e]) + 1 = AsyncDepth
                               THEN "put" ELSE "get")
             /\ UNCHANGED faults
          \/ /\ IF s = NoSurface THEN lib = <<>> ELSE Len(lib) <= EncDelay
             /\ LockInput(e, s)
             /\ encLib' = [encLib EXCEPT ![e] = lib]
             /\ ReleaseThen(e, IF s = NoSurface THEN "flush" ELSE "get")
             /\ UNCHANGED <<freeBS, m_BSPool, faults>>
          \/ /\ MayFail
             /\ freeBS' = [freeBS EXCEPT ![e] = @ \ {bs}]
             /\ m_BSPool' = [m_BSPool EXCEPT ![e] =
                    Append(@, [id |-> bs, frame |-> 0])]
             /\ ReleaseThen(e, "fail")
             /\ UNCHANGED <<Locked, encHold, encLib>>
    /\ CountFrame(e, s)
    /\ OtherThreads
    /\ UNCHANGED <<bufVars, eSurf, isQuit, tries, encSts, written>>

(* ReleaseSurface takes the first entry of the buffer for this surface.    *)
ReleaseSurface(e) ==
    /\ epc[e] = "release"
    /\ m_SList' = [m_SList EXCEPT ![e] = RemoveFirst(@, eSurf[e])]
    /\ IF eSurf[e] \in Surfaces /\ eSurf[e] \in Range(m_SList[e])
       THEN DecreaseReference(eSurf[e]) ELSE UNCHANGED Locked
    /\ IF eNext[e] = "fail"
       THEN EndEncode(e, "err")
       ELSE Goto(e, eNext[e]) /\ UNCHANGED encSts
    /\ OtherThreads
    /\ UNCHANGED <<encHold, m_IsBufferingAllowed, pInsEvent, eNext, eSurf, tries,
                   encData, faults>>

(* PutBS: write the oldest pending bitstream and give its entry back.  A   *)
(* GPU hang either is forgiven, at the price of every pending bitstream,   *)
(* this one included, or ends the session, as any other failure does.      *)
PutBS(e) ==
    LET first == Head(m_BSPool[e]) IN
    /\ epc[e] = "put" \/ (epc[e] = "flush" /\ m_BSPool[e] # <<>>)
    /\ \/ /\ m_BSPool' = [m_BSPool EXCEPT ![e] = Tail(@)]
          /\ ReleaseBS(e, {first.id})
          /\ written' = [written EXCEPT ![e] = Append(@, first.frame)]
          /\ Goto(e, IF epc[e] = "put" THEN "get" ELSE "flush")
          /\ UNCHANGED <<encSts, faults>>
       \/ /\ SoftRecovery /\ MayFail
          /\ DropPendingBitstreams(e)
          /\ Goto(e, IF epc[e] = "put" THEN "get" ELSE "flush")
          /\ UNCHANGED <<encSts, written>>
       \/ /\ MayFail
          /\ EndEncode(e, "err")
          /\ UNCHANGED <<m_BSPool, freeBS, written>>
    /\ OtherThreads
    /\ UNCHANGED <<Locked, encHold, bufVars, eNext, eSurf, tries, isQuit, bPollFlag,
                   eProcessed, encLib>>

(* After the last bitstream the session refuses further surfaces ...       *)
(* Mutant: it goes on accepting them.                                      *)
CancelBufferingForgotten(e) ==
    /\ epc[e] = "flush" /\ m_BSPool[e] = <<>>
    /\ Goto(e, "drain")
    /\ OtherThreads
    /\ UNCHANGED <<Locked, encHold, bufVars, eNext, eSurf, tries, encSts, encData,
                   faults>>

CancelBuffering(e) ==
    /\ epc[e] = "flush" /\ m_BSPool[e] = <<>>
    /\ m_IsBufferingAllowed' = [m_IsBufferingAllowed EXCEPT ![e] = FALSE]
    /\ Goto(e, "drain")
    /\ OtherThreads
    /\ UNCHANGED <<Locked, encHold, m_SList, pInsEvent, eNext, eSurf, tries, encSts,
                   encData, faults>>

(* ... releases those still queued ...                                     *)
DrainSurface(e) ==
    /\ epc[e] = "drain" /\ m_SList[e] # <<>>
    /\ eSurf' = [eSurf EXCEPT ![e] = FrontSurface(e)]
    /\ ReleaseThen(e, "drain")
    /\ OtherThreads
    /\ UNCHANGED <<Locked, encHold, bufVars, tries, encSts, encData, faults>>

(* ... and closes the encoder, whose surfaces are unlocked.                *)
CloseEncoder(e) ==
    /\ epc[e] = "drain" /\ m_SList[e] = <<>>
    /\ Locked' = [s \in Surfaces |->
                     IF s \in encHold[e] THEN Locked[s] - 1 ELSE Locked[s]]
    /\ encHold' = [encHold EXCEPT ![e] = {}]
    /\ EndEncode(e, "ok")
    /\ OtherThreads
    /\ UNCHANGED <<bufVars, eNext, eSurf, tries, encData, faults>>

(* The encoder library no longer needs a surface it has encoded.           *)
EncoderUnlocks(e) ==
    /\ \E s \in encHold[e] :
          /\ s \notin Range(encLib[e])
          /\ encHold' = [encHold EXCEPT ![e] = @ \ {s}]
          /\ Locked' = [Locked EXCEPT ![s] = @ - 1]
    /\ OtherThreads
    /\ UNCHANGED <<bufVars, encVars, faults>>

EncodeSession(e) ==
    \/ GetSurface(e) \/ WaitForSurfaceInsertion(e) \/ WaitReturns(e)
    \/ WaitTimesOut(e) \/ EncodeOneFrame(e)
    \/ ReleaseSurface(e) \/ PutBS(e) \/ CancelBuffering(e) \/ DrainSurface(e)
    \/ CloseEncoder(e)

----------------------------------------------------------------------------
(* Launcher::DoTranscoding: the status of a thread that has ended is read  *)
(* once; an error stops every session.  Session 0 is the decode session.   *)

Sessions == 0..NumEnc
Ended(i) == IF i = 0 THEN dpc = "done" ELSE epc[i] = "done"
Status(i) == IF i = 0 THEN decSts ELSE encSts[i]

CollectSession(i) ==
    /\ i \notin collected /\ Ended(i)
    /\ collected' = collected \cup {i}
    /\ m_bForceStop' = (m_bForceStop \/ Status(i) = "err")
    /\ UNCHANGED <<Locked, decHold, encHold, decVars, bufVars, encVars, faults>>

Finished == collected = Sessions /\ UNCHANGED vars

----------------------------------------------------------------------------
Init ==
    /\ Locked = [s \in Surfaces |-> 0]
    /\ content = [s \in Surfaces |-> 0]
    /\ decLib = <<>> /\ decHold = {}
    /\ dpc = "start" /\ dSurf = NoSurface /\ dIdx = NumEnc /\ dAfter = "done"
    /\ nInput = 0 /\ bEndOfFile = FALSE /\ dProcessed = 0 /\ decSts = "run"
    /\ m_SList = [e \in Encoders |-> <<>>]
    /\ m_IsBufferingAllowed = [e \in Encoders |-> TRUE]
    /\ pInsEvent = [e \in Encoders |-> FALSE]
    /\ epc = [e \in Encoders |-> "get"]
    /\ eNext = [e \in Encoders |-> "get"]
    /\ eSurf = [e \in Encoders |-> NoSurface]
    /\ isQuit = [e \in Encoders |-> FALSE]
    /\ bPollFlag = [e \in Encoders |-> FALSE]
    /\ tries = [e \in Encoders |-> 0]
    /\ eProcessed = [e \in Encoders |-> 0]
    /\ encSts = [e \in Encoders |-> "run"]
    /\ encLib = [e \in Encoders |-> <<>>]
    /\ encHold = [e \in Encoders |-> {}]
    /\ freeBS = [e \in Encoders |-> 1..AsyncDepth]
    /\ m_BSPool = [e \in Encoders |-> <<>>]
    /\ written = [e \in Encoders |-> <<>>]
    /\ m_bForceStop = FALSE /\ collected = {} /\ faults = 0

Next ==
    \/ DecodeSession \/ DecoderUnlocks
    \/ \E e \in Encoders : EncodeSession(e) \/ EncoderUnlocks(e)
    \/ \E i \in Sessions : CollectSession(i)
    \/ Finished

Spec == Init /\ [][Next]_vars

(* Every thread keeps running and the launcher keeps polling; the library  *)
(* gives its surfaces back.                                                *)
FairSpec ==
    /\ Spec
    /\ WF_vars(DecodeSession) /\ WF_vars(DecoderUnlocks)
    /\ \A e \in Encoders : WF_vars(EncodeSession(e)) /\ WF_vars(EncoderUnlocks(e))
    /\ \A i \in Sessions : WF_vars(CollectSession(i))

----------------------------------------------------------------------------
(* Properties.                                                             *)

\* the types of the variables, by their owner
HolderTypes ==
    /\ content \in [Surfaces -> 0..NumFrames]
    /\ decHold \in SUBSET Surfaces
    /\ encHold \in [Encoders -> SUBSET Surfaces]

DecoderTypes ==
    /\ decLib \in Seq(Surfaces)
    /\ dpc \in {"start", "free", "decode", "add", "signal", "sync", "again", "done"}
    /\ dSurf \in Surf0
    /\ dIdx \in Encoders
    /\ dAfter \in {"sync", "again", "done"}
    /\ nInput \in 0..NumFrames
    /\ bEndOfFile \in BOOLEAN
    /\ dProcessed \in Nat
    /\ decSts \in Statuses

BufferTypes ==
    /\ m_SList \in [Encoders -> Seq(Surf0)]
    /\ m_IsBufferingAllowed \in [Encoders -> BOOLEAN]
    /\ pInsEvent \in [Encoders -> BOOLEAN]

EncoderTypes ==
    /\ epc \in [Encoders -> {"get", "wait", "blocked", "encode", "release", "put",
                             "flush", "drain", "done"}]
    /\ eNext \in [Encoders -> {"get", "put", "flush", "drain", "fail"}]
    /\ eSurf \in [Encoders -> Surf0]
    /\ isQuit \in [Encoders -> BOOLEAN]
    /\ bPollFlag \in [Encoders -> BOOLEAN]
    /\ tries \in [Encoders -> Nat]
    /\ eProcessed \in [Encoders -> Nat]
    /\ encSts \in [Encoders -> Statuses]

BitstreamTypes ==
    /\ encLib \in [Encoders -> Seq(Surfaces)]
    /\ freeBS \in [Encoders -> SUBSET (1..AsyncDepth)]
    /\ m_BSPool \in [Encoders -> Seq([id : 1..AsyncDepth, frame : 0..NumFrames])]
    /\ written \in [Encoders -> Seq(0..NumFrames)]

LauncherTypes ==
    /\ m_bForceStop \in BOOLEAN
    /\ collected \in SUBSET Sessions
    /\ faults \in Nat

(* Every variable has its type; in particular no surface is ever released  *)
(* below a count of zero.                                                  *)
TypeOK ==
    /\ Locked \in [Surfaces -> Nat]
    /\ HolderTypes /\ DecoderTypes /\ BufferTypes
    /\ EncoderTypes /\ BitstreamTypes /\ LauncherTypes

(* Everyone who still needs the contents of surface s.                     *)
Holders(s) ==
    {h \in {"decoder", "queue", "encoder"} \X Sessions :
        \/ h = <<"decoder", 0>> /\ s \in decHold
        \/ h[1] = "queue" /\ h[2] \in Encoders /\ s \in Range(m_SList[h[2]])
        \/ h[1] = "encoder" /\ h[2] \in Encoders /\ s \in encHold[h[2]]}

(* Data.Locked counts exactly the parties that hold a surface: no          *)
(* reference is lost (the pool would run dry) or dropped twice (the        *)
(* surface would be reused under somebody), on any path, error or not.     *)
LockedCountsHolders == \A s \in Surfaces : Locked[s] = Cardinality(Holders(s))

(* The decoder never writes a new frame into a surface that a buffer, an   *)
(* encoder or the decoder itself still holds.                              *)
NoOverwrite ==
    [][\A s \in Surfaces : content'[s] # content[s] => Holders(s) = {}]_vars

(* The frames a session has encoded, in the order of its bitstreams; 0     *)
(* stands for the bitstream of a failed call.                              *)
EncodedFrames(e) ==
    written[e] \o [i \in 1..Len(m_BSPool[e]) |-> m_BSPool[e][i].frame]

(* A session encodes the frames in stream order, none twice, although the  *)
(* surfaces that carry them are recycled between the threads.              *)
FramesInOrder ==
    \A e \in Encoders : \A i, j \in 1..Len(EncodedFrames(e)) :
        i < j /\ EncodedFrames(e)[i] # 0 /\ EncodedFrames(e)[j] # 0
            => EncodedFrames(e)[i] < EncodedFrames(e)[j]

(* When nobody was stopped and neither side reports an error, the output   *)
(* is the whole stream, up to the session's frame limit.  A forgiven GPU   *)
(* hang is the one thing that may cost frames.                             *)
OutputComplete ==
    \A e \in Encoders :
        /\ dpc = "done" /\ decSts = "ok" /\ encSts[e] = "ok"
        /\ ~m_bForceStop /\ (SoftRecovery => faults = 0)
        => LET n == IF NumFrames < FrameLimit[e] THEN NumFrames ELSE FrameLimit[e]
           IN  written[e] = [i \in 1..n |-> i]

(* The entries of m_pBSStore are free or pending, never both and never     *)
(* neither, so GetNext() has one for every frame that is to be encoded.    *)
BitstreamsAccounted ==
    \A e \in Encoders :
        LET pending == {m_BSPool[e][i].id : i \in 1..Len(m_BSPool[e])} IN
        /\ pending \cap freeBS[e] = {}
        /\ pending \cup freeBS[e] = 1..AsyncDepth
        /\ Cardinality(pending) = Len(m_BSPool[e])
        /\ epc[e] \in {"get", "encode"} => freeBS[e] # {}

(* A session that has ended well never again holds a decoder surface: its  *)
(* queue stays empty although the decoder goes on adding.                  *)
EndedSessionHoldsNothing ==
    \A e \in Encoders :
        encSts[e] = "ok" => m_SList[e] = <<>> /\ encHold[e] = {}

(* Once the decoder has ended well, every sink has been told: it has seen  *)
(* the null surface, or has it queued, or takes no more surfaces.          *)
EverySinkTold ==
    dpc = "done" /\ decSts = "ok" =>
        \A e \in Encoders :
            \/ isQuit[e] \/ NoSurface \in Range(m_SList[e])
            \/ ~m_IsBufferingAllowed[e] \/ encSts[e] = "err"

(* Whatever fails, every thread ends and the launcher collects it.         *)
AllSessionsEnd == <>(collected = Sessions)
=============================================================================
