------------------------ MODULE CompositionSessions ------------------------
(***************************************************************************)
(* sample_multi_transcode, N-to-1 mode: NumDec decode sessions (eMode      *)
(* Sink) feed one session (eMode Source) that composes one frame of each   *)
(* in VPP and encodes the composition.  Each decoder has a buffer of its   *)
(* own; the composing session walks their chain.  All sessions share one   *)
(* SurfaceUtilizationSynchronizer, which is on by default here.            *)
(*                                                                         *)
(* Configuration modelled: eModeExt VppComp, VISIBLE_INT_ALLOC, joined     *)
(* sessions, m_nTimeout = 0, no limit on the decoders, no prolonged        *)
(* streams, no soft recovery; an encoder that returns each frame at once.  *)
(* The insertion of a surface and its signal are one action here and two   *)
(* in TranscodeSessions.  The library's decoder and VPP are external: they *)
(* lock a surface and unlock it at any time once they no longer need it.   *)
(***************************************************************************)
EXTENDS SurfaceSynchronizer, FiniteSets, Functions

CONSTANTS
    NumDec,     \* number of decode sessions; buffer d belongs to decoder d
    NumFrames,  \* frames in each decoder's stream
    DecDelay,   \* frames that DecodeLastFrame returns at the end of a stream
    DecHolds,   \* surfaces a decoder of the library keeps locked at most
    AsyncDepth, \* m_AsyncDepth
    FrameLimit, \* m_MaxFramesForTranscode of the composing session
    MaxFaults   \* bound on failed calls in one behaviour

Decoders == 1..NumDec

ASSUME CompositionAssumption ==
    /\ NumDec \in Nat \ {0}
    /\ NumFrames \in [Decoders -> Nat]
    /\ DecDelay \in Nat /\ DecHolds \in Nat \ {0} /\ AsyncDepth \in Nat \ {0}
    /\ FrameLimit \in Nat \ {0} /\ MaxFaults \in Nat

(* The library allocates the surfaces: a frame has a surface of its own.   *)
Frames == UNION {{d} \X (1..NumFrames[d]) : d \in Decoders}
NoSurface == <<0, 0>>

VARIABLES
    decHold, vppHold,     \* surfaces the decoder library and VPP have locked
    vppIn,                \* inputs of VPP since its last output
    \* the decode sessions
    dpc, nDecoded, m_nProcessedFramesNum, decSts,
    \* the buffers
    m_SList, m_IsBufferingAllowed, pInsEvent,
    \* the composing session
    epc, curBuffer, isQuit,
    decExt,               \* DecExtSurface
    vppExt,               \* VppExtSurface: the frames composed, <<>> for null
    m_BSPool, written,    \* bitstreams pending and written, as compositions
    encSts,
    \* launcher and environment
    m_bForceStop, collected, faults

syncVars == <<m_Surfaces, m_wait>>
libVars == <<decHold, vppHold, vppIn>>
decVars == <<dpc, nDecoded, m_nProcessedFramesNum, decSts>>
bufVars == <<m_SList, m_IsBufferingAllowed, pInsEvent>>
outVars == <<m_BSPool, written>>
encVars == <<epc, curBuffer, isQuit, decExt, vppExt, outVars, encSts>>
runVars == <<m_bForceStop, collected>>
vars == <<refs, Locked, syncVars, libVars, decVars, bufVars, encVars, runVars, faults>>

----------------------------------------------------------------------------
(* The library may fail a call: a bounded choice of the environment.       *)

MayFail == faults < MaxFaults /\ faults' = faults + 1

Lock(S) == Locked' = [s \in Frames |-> IF s \in S THEN Locked[s] + 1 ELSE Locked[s]]
Unlock(S) == Locked' = [s \in Frames |-> IF s \in S THEN Locked[s] - 1 ELSE Locked[s]]

(* SafetySurfaceBuffer::AddSurface on buffer d.                            *)
AddSurface(d, s) ==
    IF ~m_IsBufferingAllowed[d]
    THEN UNCHANGED <<m_SList, pInsEvent, refs, Locked>>
    ELSE /\ m_SList' = [m_SList EXCEPT ![d] = Append(@, s)]
         /\ pInsEvent' = [pInsEvent EXCEPT ![d] = TRUE]
         /\ IF s = NoSurface THEN UNCHANGED <<refs, Locked>>
                             ELSE AddRef(s) /\ Lock({s})

(* SafetySurfaceBuffer::ReleaseSurface: the first entry for s, if there is *)
(* one.  Mutant: the lock is dropped, the reference is not.                *)
ReleaseSurfaceKeepsReference(d, s) ==
    /\ m_SList' = [m_SList EXCEPT ![d] = RemoveFirst(@, s)]
    /\ UNCHANGED refs
    /\ IF s \in Range(m_SList[d]) \ {NoSurface}
       THEN Unlock({s}) ELSE UNCHANGED Locked

ReleaseSurface(d, s) ==
    /\ m_SList' = [m_SList EXCEPT ![d] = RemoveFirst(@, s)]
    /\ IF s \in Range(m_SList[d]) \ {NoSurface}
       THEN Release(s) /\ Unlock({s})
       ELSE UNCHANGED <<refs, Locked>>

----------------------------------------------------------------------------
(* Decode session d.                                                       *)

\* what an action of a decode session leaves alone
OtherThreads == UNCHANGED <<vppHold, vppIn, encVars, runVars>>

GotoD(d, pc) == dpc' = [dpc EXCEPT ![d] = pc]

EndDecode(d, pc, sts) ==
    /\ GotoD(d, pc)
    /\ decSts' = [decSts EXCEPT ![d] = sts]

(* The frame that session d has in hand.                                   *)
Current(d) == <<d, nDecoded[d]>>

(* Decode() begins: a session stopped before tells its sink and returns.   *)
DecodeStart(d) ==
    /\ dpc[d] = "start"
    /\ IF m_bForceStop THEN EndDecode(d, "signal", "ok")
                       ELSE GotoD(d, "decode") /\ UNCHANGED decSts
    /\ OtherThreads
    /\ UNCHANGED <<refs, Locked, syncVars, decHold, nDecoded, m_nProcessedFramesNum,
                   bufVars, faults>>

(* bEndOfFile: DecodeLastFrame is called, which does not check the stop    *)
(* condition, once a call of DecodeOneFrame, which does, met the end.      *)
Draining(d) == nDecoded[d] > 0 /\ nDecoded[d] > NumFrames[d] - DecDelay

(* DecodeOneFrame or DecodeLastFrame: a frame, the end of the stream, a    *)
(* stop request (the sink is told now and once more at the end of          *)
(* Decode()), or a failed call.                                            *)
DecodeFrame(d) ==
    /\ dpc[d] = "decode"
    /\ \/ /\ ~m_bForceStop \/ Draining(d)
          /\ nDecoded[d] < NumFrames[d]
          /\ Cardinality({s \in decHold : s[1] = d}) < DecHolds
          /\ nDecoded' = [nDecoded EXCEPT ![d] = @ + 1]
          /\ AddRef(<<d, nDecoded[d] + 1>>) /\ Lock({<<d, nDecoded[d] + 1>>})
          /\ decHold' = decHold \cup {<<d, nDecoded[d] + 1>>}
          /\ GotoD(d, "push")
          /\ UNCHANGED <<m_SList, pInsEvent, decSts, faults>>
       \/ /\ ~m_bForceStop \/ Draining(d)
          /\ nDecoded[d] = NumFrames[d]
          /\ EndDecode(d, "signal", "ok")
          /\ UNCHANGED <<refs, Locked, decHold, nDecoded, m_SList, pInsEvent, faults>>
       \/ /\ m_bForceStop /\ ~Draining(d)
          /\ AddSurface(d, NoSurface)
          /\ EndDecode(d, "signal", "ok")
          /\ UNCHANGED <<decHold, nDecoded, faults>>
       \/ /\ MayFail
          /\ EndDecode(d, "signal", "err")
          /\ UNCHANGED <<refs, Locked, decHold, nDecoded, m_SList, pInsEvent>>
    /\ OtherThreads
    /\ UNCHANGED <<syncVars, m_nProcessedFramesNum, m_IsBufferingAllowed>>

(* NoMoreFramesSignal: in this mode the sink is told in one buffer only.   *)
NoMoreFramesSignal(d) ==
    /\ dpc[d] = "signal"
    /\ AddSurface(d, NoSurface)
    /\ GotoD(d, "done")
    /\ OtherThreads
    /\ UNCHANGED <<syncVars, decHold, nDecoded, m_nProcessedFramesNum, decSts,
                   m_IsBufferingAllowed, faults>>

(* The surface is registered before the session waits for the ration, and  *)
(* only then added to the buffer.                                          *)
RegisterSurface(d) ==
    /\ dpc[d] = "push"
    /\ PushSurface(Current(d))
    /\ GotoD(d, IF m_nProcessedFramesNum[d] + 1 >= NumFrameForAlloc
                THEN "ration" ELSE "add")
    /\ OtherThreads
    /\ UNCHANGED <<Locked, m_wait, decHold, nDecoded, m_nProcessedFramesNum, decSts,
                   bufVars, faults>>

StartWaitingForFree(d) ==
    /\ dpc[d] = "ration"
    /\ \/ TakeFree /\ GotoD(d, "add")
       \/ StartWaiting /\ GotoD(d, "waiting")
    /\ OtherThreads
    /\ UNCHANGED <<Locked, decHold, nDecoded, m_nProcessedFramesNum, decSts, bufVars,
                   faults>>

(* A woken session tests m_wait again: another one may have set it since.  *)
WakeUp(d) ==
    /\ dpc[d] = "waiting" /\ ~m_wait
    /\ GotoD(d, "add")
    /\ OtherThreads
    /\ UNCHANGED <<refs, Locked, syncVars, decHold, nDecoded, m_nProcessedFramesNum,
                   decSts, bufVars, faults>>

AddToBuffer(d) ==
    /\ dpc[d] = "add"
    /\ AddSurface(d, Current(d))
    /\ GotoD(d, "sync")
    /\ OtherThreads
    /\ UNCHANGED <<syncVars, decHold, nDecoded, m_nProcessedFramesNum, decSts,
                   m_IsBufferingAllowed, faults>>

(* The session's own reference is released, and the front of the buffer is *)
(* synchronised when AsyncDepth surfaces are queued.  A failure there      *)
(* returns at once: the sink is not told.                                  *)
FinishTurn(d) ==
    /\ dpc[d] = "sync"
    /\ Release(Current(d))
    /\ \/ /\ m_nProcessedFramesNum' = [m_nProcessedFramesNum EXCEPT ![d] = @ + 1]
          /\ GotoD(d, "decode")
          /\ UNCHANGED <<decSts, faults>>
       \/ /\ Len(m_SList[d]) >= AsyncDepth
          /\ MayFail
          /\ EndDecode(d, "done", "err")
          /\ UNCHANGED m_nProcessedFramesNum
    /\ OtherThreads
    /\ UNCHANGED <<Locked, syncVars, decHold, nDecoded, bufVars>>

(* The decoder library no longer needs a surface it has output.            *)
DecoderUnlocks ==
    /\ \E s \in decHold : decHold' = decHold \ {s} /\ Unlock({s})
    /\ OtherThreads
    /\ UNCHANGED <<refs, syncVars, decVars, bufVars, faults>>

DecodeSession(d) ==
    \/ DecodeStart(d) \/ DecodeFrame(d) \/ NoMoreFramesSignal(d)
    \/ RegisterSurface(d) \/ StartWaitingForFree(d) \/ WakeUp(d)
    \/ AddToBuffer(d) \/ FinishTurn(d)

----------------------------------------------------------------------------
(* The composing session.                                                  *)

\* what an action of the composing session leaves alone
DecodersAndLauncher == UNCHANGED <<decHold, decVars, runVars>>

Goto(pc) == epc' = pc /\ UNCHANGED encSts
EndEncode(sts) == epc' = "done" /\ encSts' = sts

(* The next surface: none once a stream has ended, else the front of the   *)
(* current buffer, for which the session waits when it is empty.           *)
GetSurface ==
    /\ epc = "get"
    /\ \/ /\ isQuit
          /\ decExt' = NoSurface /\ Goto("vpp")
          /\ UNCHANGED isQuit
       \/ /\ ~isQuit /\ m_SList[curBuffer] # <<>>
          /\ decExt' = Head(m_SList[curBuffer])
          /\ isQuit' = (decExt' = NoSurface)
          /\ Goto("vpp")
       \/ /\ ~isQuit /\ m_SList[curBuffer] = <<>>
          /\ Goto("wait")
          /\ UNCHANGED <<decExt, isQuit>>
    /\ DecodersAndLauncher
    /\ UNCHANGED <<refs, Locked, syncVars, vppHold, vppIn, bufVars, curBuffer, vppExt,
                   outVars, faults>>

(* No decoder will ever add a surface: each has ended or waits for the     *)
(* ration, and nothing that is held will be given back.                    *)
Starved ==
    /\ \A d \in Decoders : dpc[d] = "done" \/ (dpc[d] = "waiting" /\ m_wait)
    /\ decHold = {} /\ vppHold \subseteq Range(vppIn)
    /\ ~CanQueryFree \/ ~m_wait

(* One WaitForSurfaceInsertion: signalled, or expired, after which the     *)
(* session looks for a surface to give back.  The waits of one surface     *)
(* last m_surface_wait_interval together, long against any step of a       *)
(* decoder: they run out when nothing can come, or by a fault.             *)
WaitForSurfaceInsertion ==
    /\ epc = "wait"
    /\ \/ /\ pInsEvent[curBuffer]
          /\ pInsEvent' = [pInsEvent EXCEPT ![curBuffer] = FALSE]
          /\ Goto("get")
          /\ UNCHANGED <<refs, syncVars, faults>>
       \/ /\ ~pInsEvent[curBuffer]
          /\ NotifyFreeCome
          /\ \/ UNCHANGED <<epc, encSts, faults>>
             \/ Starved /\ EndEncode("err") /\ UNCHANGED faults
             \/ MayFail /\ EndEncode("err")
          /\ UNCHANGED pInsEvent
    /\ DecodersAndLauncher
    /\ UNCHANGED <<Locked, vppHold, vppIn, m_SList, m_IsBufferingAllowed, curBuffer,
                   isQuit, decExt, vppExt, outVars>>

(* VPPOneFrame.  VPP composes one surface of each stream: it wants more    *)
(* data until it has them.  With the null surface it returns what it has,  *)
(* or nothing.  A failed call ends Encode() at once.                       *)
VPPOneFrame ==
    LET inputs == Append(vppIn, decExt) IN
    /\ epc = "vpp"
    /\ \/ /\ decExt # NoSurface
          /\ vppHold' = vppHold \cup {decExt} /\ Lock({decExt})
          /\ IF Len(inputs) < NumDec
             THEN vppIn' = inputs /\ Goto("more") /\ UNCHANGED vppExt
             ELSE vppIn' = <<>> /\ vppExt' = inputs /\ Goto("composed")
          /\ UNCHANGED faults
       \/ /\ decExt = NoSurface
          /\ vppExt' \in {<<>>, vppIn}
          /\ vppIn' = IF vppExt' = <<>> THEN vppIn ELSE <<>>
          /\ Goto("composed")
          /\ UNCHANGED <<Locked, vppHold, faults>>
       \/ /\ MayFail
          /\ EndEncode("err")
          /\ UNCHANGED <<Locked, vppHold, vppIn, vppExt>>
    /\ DecodersAndLauncher
    /\ UNCHANGED <<refs, syncVars, bufVars, curBuffer, isQuit, decExt, outVars>>

(* The chain in the order of the streams; after its end, and after each    *)
(* output, the walk begins again.  Mutant: it goes on after an output.     *)
FirstBufferForgotten == curBuffer

FirstBuffer == 1

NextBuffer(d) == IF d < NumDec THEN d + 1 ELSE FirstBuffer

(* More data wanted: on to the next buffer.                                *)
SwitchBuffer ==
    /\ epc = "more"
    /\ ReleaseSurface(curBuffer, decExt)
    /\ curBuffer' = NextBuffer(curBuffer)
    /\ Goto("get")
    /\ DecodersAndLauncher
    /\ UNCHANGED <<syncVars, vppHold, vppIn, m_IsBufferingAllowed, pInsEvent, isQuit,
                   decExt, vppExt, outVars, faults>>

(* A composition is out: back to the first buffer.                         *)
ReleaseComposed ==
    /\ epc = "composed"
    /\ ReleaseSurface(curBuffer, decExt)
    /\ curBuffer' = FirstBuffer
    /\ Goto("encode")
    /\ DecodersAndLauncher
    /\ UNCHANGED <<syncVars, vppHold, vppIn, m_IsBufferingAllowed, pInsEvent, isQuit,
                   decExt, vppExt, outVars, faults>>

(* After FrameLimit frames the encoder gets the null surface only.         *)
Submitted == IF Len(written) + Len(m_BSPool) >= FrameLimit THEN <<>> ELSE vppExt

(* EncodeOneFrame: a bitstream, or no more of them, or a failed call.  In  *)
(* each case the first buffer is asked to release the surface, although    *)
(* it has come from any buffer and is released already.                    *)
EncodeOneFrame ==
    /\ epc = "encode"
    /\ ReleaseSurface(1, decExt)
    /\ \/ /\ Submitted # <<>>
          /\ m_BSPool' = Append(m_BSPool, Submitted)
          /\ Goto(IF Len(m_BSPool) + 1 = AsyncDepth THEN "put" ELSE "get")
          /\ UNCHANGED faults
       \/ /\ Submitted = <<>>
          /\ Goto("flush")
          /\ UNCHANGED <<m_BSPool, faults>>
       \/ /\ MayFail
          /\ EndEncode("err")
          /\ UNCHANGED m_BSPool
    /\ DecodersAndLauncher
    /\ UNCHANGED <<syncVars, vppHold, vppIn, m_IsBufferingAllowed, pInsEvent, curBuffer,
                   isQuit, decExt, vppExt, written>>

(* PutBS: SyncOperation returns once VPP has done with the inputs, then    *)
(* the session looks for a surface to give back and writes the bitstream.  *)
(* Either call may fail.                                                   *)
PutBS ==
    /\ epc = "put" \/ (epc = "flush" /\ m_BSPool # <<>>)
    /\ \/ /\ Range(Head(m_BSPool)) \cap vppHold = {}
          /\ NotifyFreeCome
          /\ written' = Append(written, Head(m_BSPool))
          /\ m_BSPool' = Tail(m_BSPool)
          /\ Goto(IF epc = "put" THEN "get" ELSE "flush")
          /\ UNCHANGED faults
       \/ /\ MayFail
          /\ NotifyFreeCome \/ UNCHANGED <<refs, syncVars>>
          /\ EndEncode("err")
          /\ UNCHANGED outVars
    /\ DecodersAndLauncher
    /\ UNCHANGED <<Locked, vppHold, vppIn, bufVars, curBuffer, isQuit, decExt, vppExt>>

(* All bitstreams are written: the buffers are cleaned up.  Mutant: those  *)
(* still pending are left unwritten.                                       *)
StartCleanUpEarly == epc = "flush"

StartCleanUp == epc = "flush" /\ m_BSPool = <<>>

CleanUp ==
    /\ StartCleanUp
    /\ curBuffer' = 1
    /\ Goto("clean")
    /\ DecodersAndLauncher
    /\ UNCHANGED <<refs, Locked, syncVars, vppHold, vppIn, bufVars, isQuit, decExt,
                   vppExt, outVars, faults>>

(* Each surface of a buffer is released, and with it the buffer is         *)
(* cancelled; a buffer found empty is left as it is.                       *)
CleanBuffer ==
    /\ epc = "clean"
    /\ IF m_SList[curBuffer] # <<>>
       THEN /\ decExt' = Head(m_SList[curBuffer])
            /\ ReleaseSurface(curBuffer, decExt')
            /\ m_IsBufferingAllowed' =
                   [m_IsBufferingAllowed EXCEPT ![curBuffer] = FALSE]
            /\ UNCHANGED <<curBuffer, epc>>
       ELSE /\ IF curBuffer < NumDec
               THEN curBuffer' = curBuffer + 1 /\ UNCHANGED epc
               ELSE epc' = "close" /\ UNCHANGED curBuffer
            /\ UNCHANGED <<refs, Locked, m_SList, m_IsBufferingAllowed, decExt>>
    /\ DecodersAndLauncher
    /\ UNCHANGED <<syncVars, vppHold, vppIn, pInsEvent, isQuit, vppExt, outVars, encSts,
                   faults>>

(* VPP is closed and unlocks its surfaces; the last NotifyFreeCome follows.*)
CloseVPP ==
    /\ epc = "close"
    /\ Unlock(vppHold)
    /\ vppHold' = {} /\ vppIn' = <<>>
    /\ Goto("notify")
    /\ DecodersAndLauncher
    /\ UNCHANGED <<refs, syncVars, bufVars, curBuffer, isQuit, decExt, vppExt, outVars,
                   faults>>

NotifyAtEnd ==
    /\ epc = "notify"
    /\ NotifyFreeCome
    /\ EndEncode("ok")
    /\ DecodersAndLauncher
    /\ UNCHANGED <<Locked, vppHold, vppIn, bufVars, curBuffer, isQuit, decExt, vppExt,
                   outVars, faults>>

(* VPP no longer needs a surface it has composed.                          *)
VPPUnlocks ==
    /\ \E s \in vppHold \ Range(vppIn) : vppHold' = vppHold \ {s} /\ Unlock({s})
    /\ DecodersAndLauncher
    /\ UNCHANGED <<refs, syncVars, vppIn, bufVars, encVars, faults>>

EncodeSession ==
    \/ GetSurface \/ WaitForSurfaceInsertion \/ VPPOneFrame \/ SwitchBuffer
    \/ ReleaseComposed \/ EncodeOneFrame \/ PutBS \/ CleanUp \/ CleanBuffer
    \/ CloseVPP \/ NotifyAtEnd

----------------------------------------------------------------------------
(* Launcher::DoTranscoding: the status of a thread that has ended is read  *)
(* once; an error stops every session.  Session 0 is the composing one.    *)

Sessions == 0..NumDec
Status(i) == IF i = 0 THEN encSts ELSE decSts[i]

CollectSession(i) ==
    /\ i \notin collected
    /\ IF i = 0 THEN epc = "done" ELSE dpc[i] = "done"
    /\ collected' = collected \cup {i}
    /\ m_bForceStop' = (m_bForceStop \/ Status(i) = "err")
    /\ UNCHANGED <<refs, Locked, syncVars, libVars, decVars, bufVars, encVars, faults>>

----------------------------------------------------------------------------
Init ==
    /\ refs = [s \in Frames |-> 0] /\ Locked = [s \in Frames |-> 0]
    /\ m_Surfaces = <<>> /\ m_wait = FALSE
    /\ decHold = {} /\ vppHold = {} /\ vppIn = <<>>
    /\ dpc = [d \in Decoders |-> "start"]
    /\ nDecoded = [d \in Decoders |-> 0]
    /\ m_nProcessedFramesNum = [d \in Decoders |-> 0]
    /\ decSts = [d \in Decoders |-> "run"]
    /\ m_SList = [d \in Decoders |-> <<>>]
    /\ m_IsBufferingAllowed = [d \in Decoders |-> TRUE]
    /\ pInsEvent = [d \in Decoders |-> FALSE]
    /\ epc = "get" /\ curBuffer = 1 /\ isQuit = FALSE
    /\ decExt = NoSurface /\ vppExt = <<>>
    /\ m_BSPool = <<>> /\ written = <<>> /\ encSts = "run"
    /\ m_bForceStop = FALSE /\ collected = {} /\ faults = 0

Next ==
    \/ \E d \in Decoders : DecodeSession(d)
    \/ DecoderUnlocks \/ EncodeSession \/ VPPUnlocks
    \/ \E i \in Sessions : CollectSession(i)

Spec == Init /\ [][Next]_vars

(* Every thread keeps running and the launcher keeps polling; the library  *)
(* gives its surfaces back.                                                *)
FairSpec ==
    /\ Spec
    /\ \A d \in Decoders : WF_vars(DecodeSession(d))
    /\ WF_vars(DecoderUnlocks) /\ WF_vars(EncodeSession) /\ WF_vars(VPPUnlocks)
    /\ \A i \in Sessions : WF_vars(CollectSession(i))

----------------------------------------------------------------------------
(* Properties.                                                             *)

Statuses == {"run", "ok", "err"}

\* the types of the variables, by their owner
SynchronizerTypes == m_Surfaces \in Seq(Frames) /\ m_wait \in BOOLEAN
LibraryTypes ==
    decHold \subseteq Frames /\ vppHold \subseteq Frames /\ vppIn \in Seq(Frames)
DecoderTypes ==
    /\ dpc \in [Decoders -> {"start", "decode", "signal", "push", "ration", "waiting",
                             "add", "sync", "done"}]
    /\ nDecoded \in [Decoders -> Nat] /\ m_nProcessedFramesNum \in [Decoders -> Nat]
    /\ decSts \in [Decoders -> Statuses]
BufferTypes ==
    /\ m_SList \in [Decoders -> Seq(Frames \cup {NoSurface})]
    /\ m_IsBufferingAllowed \in [Decoders -> BOOLEAN]
    /\ pInsEvent \in [Decoders -> BOOLEAN]
ComposerTypes ==
    /\ epc \in {"get", "wait", "vpp", "more", "composed", "encode", "put", "flush",
                "clean", "close", "notify", "done"}
    /\ curBuffer \in Decoders /\ isQuit \in BOOLEAN
    /\ decExt \in Frames \cup {NoSurface} /\ vppExt \in Seq(Frames)
    /\ m_BSPool \in Seq(Seq(Frames)) /\ written \in Seq(Seq(Frames))
    /\ encSts \in Statuses
LauncherTypes == m_bForceStop \in BOOLEAN /\ collected \subseteq Sessions /\ faults \in Nat

(* Every variable has its type; no surface is released below zero.         *)
CompositionTypeOK ==
    /\ refs \in [Frames -> Nat] /\ Locked \in [Frames -> Nat]
    /\ SynchronizerTypes /\ LibraryTypes /\ DecoderTypes /\ BufferTypes
    /\ ComposerTypes /\ LauncherTypes

(* A session has the frame it decoded last in hand until its turn ends.    *)
InHand(s) ==
    /\ s = Current(s[1])
    /\ dpc[s[1]] \in {"push", "ration", "waiting", "add", "sync"}

Count(b) == IF b THEN 1 ELSE 0

(* A surface's reference counter counts exactly its holders (the decode    *)
(* session, the buffer, the synchronizer), and Data.Locked counts the      *)
(* buffer and the library's components, on every path, error or not: an    *)
(* extra one would keep the surface in the ration for ever, a missing one  *)
(* would let QueryFree give it back while it is in use.                    *)
ReferencesBalanced ==
    \A s \in Frames :
        LET queued == Count(s \in Range(m_SList[s[1]])) IN
        /\ refs[s] = Count(InHand(s)) + queued + Count(s \in Range(m_Surfaces))
        /\ Locked[s] = queued + Count(s \in decHold) + Count(s \in vppHold)

Compositions == written \o m_BSPool

(* The k-th composition is made of the k-th frames of the streams in the   *)
(* order of the streams, although decoders run ahead of each other by as   *)
(* much as the ration lets them and the walk over the buffers starts again *)
(* after each output; only the one drained at the end may be partial.      *)
ComposedInStep ==
    \A k \in 1..Len(Compositions) :
        /\ \A i \in 1..Len(Compositions[k]) : Compositions[k][i] = <<i, k>>
        /\ Len(Compositions[k]) = NumDec \/ (k = Len(Compositions) /\ isQuit)

(* When every session ends well, the output has a full composition for     *)
(* each frame of the shortest stream, up to the limit.                     *)
OutputComplete ==
    encSts = "ok" /\ ~m_bForceStop /\ (\A d \in Decoders : decSts[d] # "err") =>
        \A k \in 1..FrameLimit :
            (\A d \in Decoders : k <= NumFrames[d]) =>
                k <= Len(written) /\ Len(written[k]) = NumDec

(* "When it ready to take more, [the decoder] does not take a new one, but *)
(* waits until one of them is available for work" (smt_cli.cpp:807-810): a *)
(* decoder that waits for the ration goes on in the end.                   *)
WaitingDecoderGoesOn ==
    \A d \in Decoders : dpc[d] = "waiting" ~> dpc[d] # "waiting"
=============================================================================
