# A verification project for libvpl-tools

TLA+ models of the concurrent and stateful core of this repository (the
samples under `src/tools/legacy`), checked with TLC and, for the parts listed
under *Proofs*, proved with TLAPS. `PROJECT.json` has the same information in
a form tools can read: components, runs, the definitions of the models with
the source lines they stand for, hazards and theorems.

To repeat a check: `tlc -config <file>.cfg <module>.tla` and
`tlapm <module>Proofs.tla`, in this directory. The theorems a reader
should know of are listed in `PROJECT.json`; the lemmas they rest on are in the
same modules.

Paths below are under `src/tools/legacy`; `P` is
`sample_multi_transcode/src/pipeline_transcode.cpp`, `D` is
`sample_decode/src/pipeline_decode.cpp`, `VM` is
`sample_common/src/vm/thread_linux.cpp`, `E`, `R` and `U` are
`sample_encode/src/pipeline_encode.cpp`, `pipeline_region_encode.cpp` and
`pipeline_user.cpp`, `S` is `sample_common/include/sample_utils.h`.

## 1. Inventory

| Component | State | Operations | How it interacts | What is hard |
|---|---|---|---|---|
| Transcoding sessions (`P`) | surface pools with `Data.Locked` counters, `SafetySurfaceBuffer` queues, `ExtendedBSStore`, frame counters, `m_bForceStop` | `Decode`, `Encode`, `Transcode`, `GetFreeSurface`, `AddSurface`, `ReleaseSurface`, `PutBS`, `StopSession` | one thread each; surfaces go from a decode session to encode sessions through the buffers; events signal insertion and release | sharing one surface among threads and the library's own threads, end of stream, failures in one session only, timeouts |
| Launcher (`sample_multi_transcode.cpp`) | the list of threads and their status | create the sessions and their buffers, poll, stop, robust restart | sets `m_bForceStop` of every session when one fails | stopping sessions that wait; restarting with what the last attempt left |
| Decoding pipeline (`D`, `sample_decode.cpp`) | loop status, current surfaces, output queue, counters, `m_error`, `m_bStopDeliverLoop` | `RunDecoding`, `SyncOutputSurface`, `DeliverOutput`, `DeliverLoop`, `ResetDecoder`, the recovery loop of `main` | a main thread and a delivery thread, which share `CBuffering`, a semaphore and an event | reading the counters and queues at different moments, resets with state left over, every status of every call |
| `CBuffering` (`mfx_buffering.*`) | lists of free, used, output and delivered surfaces, `render_lock` | allocate, take, move, return | called by both threads under its mutex | a surface in use by the library, the pipeline and the renderer at once |
| Event, semaphore, thread (`VM`) | `m_state`, `m_count`, mutex, condition variable | `Signal`, `Reset`, `Wait`, `TimedWait`, `Post` | used by all of the above | lost wakeups, timeouts that race a signal |
| `SurfaceUtilizationSynchronizer` (`S:1447-1518`) | list of registered surfaces, `m_wait`, mutex, condition variable | `PushSurface`, `StartWaitingForFree`, `NotifyFreeCome`, `QueryFree` | one ration of surfaces for all decoders when the library allocates them; encoders report free ones | a wait without a timeout, one flag for all waiting threads, one ration for sessions that need each other |
| Composing session (`P`, modes Sink and Source with `VppComp`) | the chain of buffers and the current one, VPP's inputs, bitstreams | `Encode` with VPP, clean-up of all buffers, `CloseVPP` | takes one frame of each decoder in turn | streams of unequal length, errors in one session, references and locks of each surface |
| Encode pipelines (`E`, `U`, `R`) | ring of tasks, surfaces, writers, `m_bInsertIDR`, `m_bFileWriterReset` | `Run`, `GetFreeTask`, `SynchronizeFirstTask`, `EncodeOneFrame`, recovery from a hang, restart after a lost device | one thread and the library, which encodes at its own pace; the region pipeline has a session and a ring for each region and one file | the order of bitstreams over several rings and passes, recovery in the middle, requests that must not be lost |
| Allocators, BRC, FRC/PTS checkers, AVC splitter, trackers, `SMTTracer`, v4l2, devices, CLI tools | see `PROJECT.json` | sequential, or optional | | reference counts, integer time stamps, buffer limits |

What makes them correct:

* sessions: `Data.Locked` counts who holds a surface; nobody writes into a
  surface somebody holds; each sink gets every frame once, in order, and the
  end; every bitstream entry comes back; every thread ends whatever fails;
* launcher: all threads are collected;
* decoding pipeline: no surface is lost from the pools; `render_lock` counts
  what waits for delivery; output in order and complete; the counters the main
  thread waits on measure the queue of the delivery thread; the program ends;
* `CBuffering`: free, used and current surfaces partition the pool;
* event and semaphore: mutual exclusion, no lost wakeup, each call atomic;
* synchronizer and composition: the reference counter and `Data.Locked` of each
  surface count exactly its holders; each composition is made of frames of the
  same number; none is missing at the end; a waiting decoder goes on;
* encode pipelines: each ring is a queue; bitstreams in order, in their file and
  complete; no surface written while the encoder reads it; what is lost ends with
  an IDR frame; the program ends.

## 2. Modules

| Module | What it models | Composition |
|---|---|---|
| `AbstractSyncObject` | what an event or a semaphore promises: each call takes effect in one step | |
| `SyncObject` | `MSDKEvent` and `MSDKSemaphore` with mutex and condition variable | implements `AbstractSyncObject` |
| `SyncObjectProofs` | theorems about `SyncObject` | |
| `TranscodeSessions` | decode session, encode sessions, buffers, launcher | its events are the atomic ones |
| `TranscodeSessionsProofs` | theorems about `TranscodeSessions`: who holds a surface | |
| `TranscodeSessionsOutcomeProofs` | theorems about `TranscodeSessions`: the end, the bitstreams, the order | extends `TranscodeSessionsProofs` |
| `SequenceLemmas` | lemmas about the operators on sequences that several models use | |
| `Buffering` | the surface pools of `CBuffering`, as operators on their values | |
| `DecodePipeline` | `RunDecoding`, `DeliverLoop`, resets, the recovery loop | extends `Buffering`; its semaphore and event are the atomic ones |
| `DecodePipelineProofs` | theorems about `DecodePipeline` | |
| `AbstractTaskQueue` | what a task pool promises: bounded first-in first-out queues | |
| `EncTaskPool` | `CEncTaskPool`: the ring of tasks | implements `AbstractTaskQueue` |
| `EncTaskPoolProofs` | theorems about `EncTaskPool` | |
| `EncodeSession` | source file, output files, surfaces, the external encoder | extends `EncTaskPool` |
| `EncodePipeline` | `Run` of `CEncodingPipeline` and `CUserPipeline` | extends `EncodeSession` |
| `RegionEncodePipeline` | `Run` of `CRegionEncodingPipeline`, `CResourcesPool` | extends `EncodeSession` |
| `SampleEncode` | the program: one of the three, and its restarts | composes the two |
| `SampleEncodeProofs` | theorems about `SampleEncode` | extends `EncTaskPoolProofs` |
| `SurfaceSynchronizer` | `SurfaceUtilizationSynchronizer`, as operators on its state | |
| `CompositionSessions` | N decode sessions, a composing session, launcher | extends `SurfaceSynchronizer` |
| `CompositionSessionsProofs` | theorems about `CompositionSessions` | |
| `MC...` | the instances TLC checks | |

### SyncObject

`value` is `m_state` or `m_count`; `kind` says which class (and `m_manual`).
A thread goes through `Call`, `Lock`, the body (`Signal`, `Post`, `Reset`,
`Test`), and `Unlock`. `Test` on the value 0 gives up the mutex and blocks
(`pthread_cond_wait`); a blocked thread goes on because it is signalled (part
of `Raise`), by chance, or because its time is over (`Expire`), takes the mutex
again (`Relock`), and then either tests again (`Wait`) or not (`TimedWait`,
`Woken`). `Raise` has the condition of the code: `Signal` and `Post` wake
somebody only when they find the value at 0. The refinement hides the mutex:
`Phase` is idle, called or done, and the effect of a call is the step that
moves it to `unlock`.

### TranscodeSessions

`dpc` and `epc[e]` are the program counters of the threads. A region that the
code runs under one mutex is one action; where the code unlocks and goes on
(`AddSurface`, then `pInsEvent->Signal()`; the event taken, then the queue
looked at) there are two. The decode session: `DecodeStart`, `GetFreeSurface`,
`DecodeOneFrame` or `DecodeLastFrame`, then `AddSurface` and `SignalInsertion`
for each buffer of the chain, `SyncOldest`, and `EndDecode`
(`NoMoreFramesSignal`) or `StopDecoding`. An encode session: `GetSurface`,
`WaitForSurfaceInsertion` with `WaitReturns` and `WaitTimesOut`,
`EncodeOneFrame`, `ReleaseSurface`, `PutBS`, `CancelBuffering`, `DrainSurface`,
`CloseEncoder`. `CollectSession` is the launcher. `DecoderUnlocks` and
`EncoderUnlocks` are the library, which gives a surface back at any time after
its last use; `decHold` and `encHold` are the surfaces it has. A call of the
library may fail (`MayFail`).

### DecodePipeline

`opt` is one configuration of the program (mode, VPP, frame limit,
`m_bSoftRobustFlag`, length of the stream) with the failures its environment
may show. `pc` walks through `RunDecoding`; `dpc` is the delivery thread.
`SyncOutputSurface` is a subroutine with three callers (`caller`), whose
different treatment of its status is in `StuckReturns`, `BusyReturns` and
`DrainReturns`. `CompareCounts`, `TimedWait`, `Drained` and `WaitDelivered`
are the moments at which the main thread reads the counters and waits, and
`DeliverTest` to `DeliverSignal` the moments of the delivery thread. `Exit` and
`ResetDecoder` are the loop of `main`. An element of the output queues carries
the number of the pool allocation it belongs to (`alloc`), because
`ResetDecoder` frees the pools.

### EncTaskPool, EncodeSession and the pipelines

`m_pTasks[p]` are the slots of pool `p` (the region pipeline has one for each
region, the others only pool 0); a slot holds the job whose bitstream it waits
for. `GetFreeTaskIndex`, `Submit`, `SynchronizeFirstTask` and `ClearTasks` have
the arithmetic of the code (`m_nTaskBufferStart`, remainders).

A frame that was given to an encoder is a `job` (frame, surface, pool, IDR or
not); `locks` are the jobs whose surface the encoder has locked and `reading`
those it has still to encode, which differ after `FreeSurfacePool`. `delivered`
and `file` are the bitstreams written. `phase` says which of the three loops of
`Run` it is in and `pc` where in the loop: `GetFreeTask` with the treatment of
every status of `SyncOperation` (`SyncFails`), `ReadFrame` or `NoFreeSurface` with the skipping of
`skipLoadingNextFrame`, `EndOfFile` with the rewinding of `-timeout`, `RunVpp`
and `DrainVpp`, `Encode` and `EncodeDrained` with their error paths,
`SynchronizeAll`, and the counterparts `RegionReadFrame` to `RegionDrain`.
`RecoverDevice` is the loop of `sample_encode_main`. `EncoderFinishes` is the
library. `DependentVppTasks` are the tasks that have VPP tasks to wait for: the one
a frame was given with, which need not be the one its bitstream comes in. `opt` is
the configuration with the failures that may happen (`opt.may`), each at most once
(`seen`).

### SurfaceSynchronizer and CompositionSessions

`refs[s]` is the reference counter of a surface above the library's own
reference, `Locked[s]` its `Data.Locked`. `dpc[d]` is the place in `Decode`:
`DecodeFrame`, `RegisterSurface` (`PushSurface`), `StartWaitingForFree` and
`WakeUp`, `AddToBuffer`, `FinishTurn` (release, synchronise), and
`NoMoreFramesSignal`. `epc` is the place in `Encode` of the composing session:
`GetSurface`, `WaitForSurfaceInsertion`, `VPPOneFrame`, `SwitchBuffer` (VPP
wants the next stream) or `ReleaseComposed`, `EncodeOneFrame`, `PutBS`, and at
the end `CleanUp`, `CleanBuffer`, `CloseVPP`, `NotifyAtEnd`. A composition is
the sequence of the frames in it. `CollectSession` is the launcher.

The waits of one surface last `m_surface_wait_interval` together, which is long
against any step of a decoder. They run out when nothing can come any more
(`Starved`), or, as a failure like any other, at any time.

## 3. Runs

| Run | Instance | States | What it shows |
|---|---|---|---|
| `sync_objects` | 3 threads, all kinds; semaphore with 1 waiting thread and 2 that post | 27,072 | types, mutual exclusion, `NoLostWakeup`, the refinement, `SleeperWakes` |
| `two_sinks` | 2 encode sessions (one limited to 1 frame), 2 surfaces, 2 frames, 1 failure | 1,364,566 | all safety properties of the sessions when sinks end at different times |
| `one_sink_delayed` | 1 encode session that is not joined, 3 surfaces, 3 frames, `AsyncDepth` 2, codecs that keep one frame back, GPU-hang recovery | 1,186,932 | order, balance and completeness when frames come out late and bitstreams are dropped |
| `all_end` | 2 encode sessions, 1 frame, 1 failure, fair | 476,594 | `AllSessionsEnd` |
| `pipeline` | 5 configurations: rendering with any two failures; rendering and file with forgiven ones; file with VPP and recovery; performance mode | 794,225 | pools, `render_lock`, counters, order, completeness |
| `pipeline_ends` | 3 configurations with one failure, fair | 130,607 | `ProgramEnds` |
| `encode` | the three pipelines in 16 configurations (VPP, two views, `-robust:soft`, cut and uncut, frame limit, frames kept back), 2 frames, 2 passes, 3 surfaces, rings of 2 and 1, each allowed failure once, fair | 55,293 | the ring implements a queue; order, files, completeness, no overwriting; `LossEndsWithIDR`; `Ends` |
| `composition` | 2 decoders (3 and 2 frames), ration of 2, `AsyncDepth` 2, 1 failure | 1,254,511 | `ReferencesBalanced`, `ComposedInStep`, `OutputComplete` |
| `bug_exit` | rendering, no failure | violated | `SurfaceAlwaysFound`, see section 5 |
| `deliver_error` | rendering, one failed delivery, fair | violated | `ProgramEnds`, see section 5 |
| `encode_cut` | `-timeout` with a cut output, no failure | violated | `CutFileStartsWithIDR`, see section 5 |
| `composition_waits` | 2 decoders of 3 frames, ration of 2, no failure, fair | violated | `WaitingDecoderGoesOn`, see section 5 |

Each property of a passing run has a mutant in `PROJECT.json`: a plausible bug
in one definition under which the run finds the property violated.

**Bounds, and why they are enough.** With two surfaces and two frames a surface
is already recycled while another is in flight, and with two sinks one may end,
fail or lag while the other goes on; a third surface and frame and a codec
delay of one let frames be kept back while others are encoded. In
`DecodePipeline` three surfaces of which the library may hold two, and an
`AsyncDepth` of two, make both "no free surface" and "queue full" happen; four
frames are enough for two resets with something before, between and after
them. One or two failures (`MaxFaults`) cover a failure during the handling of
another. `MaxTries` stands for the 1000 waits of `GetSurfaceWaitInterval`:
after the last one the code fails whatever the number is. `MaxCount` bounds how
often the semaphore is posted ahead of its reader. In `SampleEncode` a ring of
two is full after two frames, so that each pass over a file of two frames waits
for a task, turns the ring, and starts the second pass (`MaxPasses`) with tasks
of the first in execution; three surfaces let one be free while two are
encoded; two regions are enough for a bitstream to be out of order. In
`CompositionSessions` a ration of two makes a decoder wait from its second
frame on, and streams of three and two frames let one end while the other's
frames are queued; both make the walk over the buffers meet the end of a stream
in the middle. `FrameLimit` is above the frames there are. The proofs need none
of these bounds, but that there is one for frames and passes (`JobsAssumption`).

**Fairness.** Every thread that can take a step eventually does (weak fairness
of each session, of `MainThread` and `DeliverLoop`, and of the threads of
`SyncObject`): they are operating-system threads. The library gives back the
surfaces it has finished with: its contract. `SyncObject` also assumes that a
thread which waits for a mutex that is free again and again gets it (strong
fairness of `Lock` and `Relock`). Nobody has to call an operation, no wait ends
by chance, and no timed wait is assumed to expire in `SyncObject`; in
`TranscodeSessions` a wait of an encode session does end (its time is finite).
In `SampleEncode`, `Run` is one thread and the encoder finishes what it has
(`SyncOperation` returns). In `CompositionSessions` each session, the launcher
and the library's unlocking are fair, one by one.

**Deadlock** is checked in every passing run but `pipeline`, where the program
really may hang after a failed delivery, and `composition`, where a decoder may
wait for ever (section 5 for both). A program that has ended
stutters (`Done`, `Finished`); an idle caller of `SyncObject` may always call.

## 4. Proofs

The proofs hold for every value of the constants: any number of threads,
sessions, surfaces, frames, tasks, regions and failures.

`TranscodeSessionsProofs` proves `ReferencesBalance` (`LockedCountsHolders`),
`NothingOverwritten` (`NoOverwrite`) and `TypeCorrect` (`TypeOK`), from
`SessionsAssumption` alone. That `Data.Locked` equals the number of holders is
not inductive: `IncreaseReference` adds one holder only if the buffer did not
queue that surface yet, and `DecreaseReference` removes one only if the party
that calls it still was a holder. The inductive invariant `IInv` therefore adds
who owns a surface in each phase: what the decoder has not output yet is
nowhere else; the surface being handed out is in the buffers already passed and
in no other (`DecoderOwnership`); a sink's surface stays in its queue until it
is released, and the encoder locks it only in between (`EncoderOwnership`); no
queue has a surface twice. Each action changes the holders by exactly what it
does to the counter (`CountGain`, `CountLoss`). `NoOverwrite` follows because
`GetFreeSurface` takes a surface whose count is 0, and the decode step writes
only there; the types follow because a count of holders is not negative.

`TranscodeSessionsOutcomeProofs` builds on that invariant and speaks of one
encode session at a time; `OtherSessions` and `DecoderLeaves` say once what the
other threads can do to it. `EndInv` gives `EndedHoldsNothing`
(`EndedSessionHoldsNothing`), `SinksAreTold` (`EverySinkTold`) and `BitstreamsKept`
(`BitstreamsAccounted`). None of the three is inductive: that an ended session
holds nothing needs that its buffer was closed before it was drained
(`Outcome`); that every sink was told needs that a null surface leaves a buffer
only for a session that takes note of it (`TakesNote`) and that the decoder ends
well only at the end of its walk over the buffers, of which those behind it have
been told (`WalkTells`); that entries are accounted for needs that the pending
ones are all different, and that a session goes back for a frame only when one
is free (`StoreKept`). `OrderInv` gives `FramesEncodedInOrder` (`FramesInOrder`): the
frames of the bitstreams of a session, those its codec keeps back, those that
wait in its buffer, the one being handed out, and those the decoder keeps back
are in order at each place, and each place is older than the next (`InTurn`,
`InLine`); no surface carries a frame newer than the last one read
(`DecodedInOrder`). `CompleteInv` gives `StreamComesOutWhole` (`OutputComplete`), in two
steps. The library of the decoder holds exactly what was read and not handed out,
and the decoder ends well only with nothing left there or with the frames it was
asked for (`DecodedWhole`). For an encode session that nothing has disturbed, the
frames written and those its codec keeps back are 1 to `eProcessed`, and until it
has reached its limit those frames, the ones in its buffer, the one being handed
out and those in the decoder are 1 to `nInput` (`NoneMissing`); the null surface comes when
the decoder has ended and is the last of its queue, the session flushes its codec
only at its limit or after the null surface, and its store of bitstreams is empty
before it releases its buffer (`EndInPlace`). `Undisturbed` is true until a failure,
a stop or a recovery that may cost this session a frame, and then false for ever,
so the invariant can have it as a premise. That a session has 1 to n then says
that it wrote n frames in order, with `FramesInOrder` (`CountingUp`).

`CompositionSessionsProofs` proves `TypeCorrect`, `CountersBalance`
(`ReferencesBalanced`) and `FramesComposedInStep` (`ComposedInStep`). For the
counters `IInv` adds where a frame is in each phase of its decoder
(`QueueOwnership`, `HandOwnership`) and who may hold one at all
(`HolderOwnership`); the effect of every action on counters and holders is one of
a few (`DecoderEffect`, `ComposerEffect`, `GivesBack`). For the frames
composed together `InStep` says how far each stream has been consumed at every
place of the walk over the buffers: as many frames as there are compositions,
and one more before the current buffer. `EveryFrameIsComposed` (`OutputComplete`) needs
to know when a composition may be partial and when the loop ends. As long as no
decoder fails and the launcher stops nobody (`Undisturbed`), the null surface of a
stream is in its buffer behind every frame of the stream (`NullBehindFrames`); so
the composing session meets it only after a full composition for each of these
frames, a composition is partial only past the end of a stream, and the loop is
left only at the limit or when a stream is used up (`NoFrameMissing`). What was composed
is written before the session has its status (`StatusesAtTheEnd`).

`DecodePipelineProofs` has eight invariants, most resting on those before them.
`Pools`: the lists of `CBuffering` partition the surfaces (`PoolOf`), a surface that
is free is in nobody's use (`AvailableAreIdle`), and the surfaces in hand are
where `pc` says (`HeldSurfaces`); it gives `PoolsPartitioned` (`SurfacesPartitioned`)
and `NothingOverwritten` (`NoOverwrite`). `Delivery`: the semaphore's count is the
length of the delivered list, with one more or less while either thread is
between the two (`PostsMatchQueue`), and the thread leaves its loop only when it
is told to (`DeliveryThread`); it gives `CountersMeasure`
(`CountersMeasureDelivery`) and `DeliveryFinds` (`DeliveryFindsSurface`). `Locks`:
`render_lock` of a surface counts the outputs of the current allocation in the
queue, in hand and with the delivery thread, and no output belongs to an
allocation to come; it gives `RenderLocksCount`. `OutputQueue`: how far
`m_SurfacesCount` may be above the length of the queue; it gives `FullQueueFinds`
(`FullQueueHasSurface`). `TypeCorrect` collects the types. The proof of
`FullQueueHasSurface` made its condition exact: a reset leaves a count that may
be `AsyncDepth` with an empty queue after the frame limit was reached, which is
harmless because the loop ends before it looks; and it fails when an old
`m_pCurrentOutputSurface` outlives a reset (section 5), the condition
`NoStaleSurface`. `Current`: every output in a queue is of the current allocation,
but for that one surface, which after a GPU hang nothing looks at any more
(`Hung`, `SyncHung`). `OrderInv` gives `FramesDeliveredInOrder` (`FramesInOrder`):
what was delivered, the frame with the delivery thread, its list, the frame
being synchronised, the output queue and the frames the library keeps back are
one line in which frame numbers ascend (`InLine`, `Ordered`). A surface in the line
keeps its frame because it is locked (`LineIsBusy`, from `Locks`), and the decoder
and VPP write idle ones only (`Pools`). With a delivery thread this needs no
condition, since such a program does not deliver again after a reset. The last
invariant, `LibraryHolds` with `SurfaceFound`, gives `SurfaceIsFound`
(`SurfaceFoundWithoutThread`): a pool in which nothing is free has all surfaces
locked (`NothingFree`); the library holds at most `DecoderNeeds` of them, fewer
than there are, and none of the VPP output; so one has a `render_lock`, and
without a delivery thread that is a surface `SyncOutputSurface` can take
(`WaitsSomewhere`). It assumes of the constants that the decoder has more surfaces
than the library keeps, and that VPP has one (`AllocFrames` fails otherwise).
The eighth, `CompleteInv`, gives `FinishedIsComplete` (`FinishedMeansComplete`). With only the
failures of `Forgiven` the frames consumed are counted by the places a frame can be
in: kept back by the library, in the output queue, with the surface `SyncOperation`
failed on, in the delivered list, with the delivery thread, delivered
(`FramesCounted`). The stream is given up only when it was read (`StreamRead`), and the
loop is left with a status that is no error only when all places but the last are
empty (`Emptying`, `NothingQueued`, `Emptied`, `AllDelivered`). This holds until
`m_nFrames` were delivered; from then on frames are dropped, and the number
delivered is known from the counter (`DeliveredCounted`).

`SyncObjectProofs` proves `SyncMutexHeld`, `SyncTypeCorrect`,
`SyncNoLostWakeup` and `SyncImplementsAbstract`. The invariant `IInv` adds to
types and mutual exclusion what a thread may be doing at each place
(`CallsConsistent`): only a timed wait reaches `woken`, and only after it can a
status say that the time was over. For lost wakeups the argument differs by
kind. An automatic event may keep a thread asleep while it is signalled, but
then another thread is on its way that resets it; a manual event and a
semaphore keep nobody asleep while the value is not 0 (`Awake`). For the
semaphore this assumes that one thread waits (`OneWaits`), which is how
`DecodePipeline` uses it; with two sleepers two posts in a row would wake one
of them only.

`EncTaskPoolProofs` proves `RingStaysContiguous` and `RingIsAQueue` for any
number of pools of any size, from `PoolAssumption`. The tasks in execution are
one run of the ring that begins at `m_nTaskBufferStart` (`RingIsContiguous`,
inductive with the types): a task is taken at the first free slot after it, and
the start moves on when the first task is done. The lemmas show that walking
around the ring meets every slot once (`AtFacts`, from the arithmetic of the
remainder) and that a run has one length (`RunLength`), so that the run is a
sequence, which `Submit` extends at its end and `SynchronizeFirstTask` shortens
at its front. The theorems are about `PoolSpec`, any caller that fills a task
only at the index `GetFreeTaskIndex` gave.

`SampleEncodeProofs` shows that the three pipelines are such callers, so that the
ring is a queue in the program (`TasksContiguous`, `PipelinesUseAQueue`). Between
`GetFreeTask` and the call that fills the task a frame is read and preprocessed;
that the task is still the first free one then is `TaskGiven`, which together with
the types, what is impossible at each place of the loops, and a bound on the
number of jobs (`JobsCount`: no frame read is given to an encoder twice, but for
one that VPP doubles) is the inductive invariant `PoolUse`. The bound is needed
because jobs are numbered and `Jobs` is any set with enough numbers
(`JobsAssumption`): the model counts frames of a finite file, read a finite number of
times. Every step of the program is one of seven steps of jobs and tasks (`JobStep`,
`StepIsJobStep`), and the other proofs go by these. `NothingOverwrittenUnencoded`
(`NoOverwrite`): what the encoder reads it has locked (`SurfacesSafe`), an encoder
that keeps nothing back has all it reads in the tasks (`NothingKeptBack`), so a
recovery that clears the tasks forgets no frame whose surface it unlocks, and the
surface VPP will write was free when it was found and is so still.
`WrittenInOrder` (`BitstreamsInOrder`): with one pool, what was delivered, the queue of the
ring and what the encoder keeps back are one ascending sequence of jobs
(`PipelineOrder`); clearing drops the middle or the end of it. In the region
pipeline the regions whose task is in execution are neighbours (`RegionsBusy`), from
the first one while they are being filled and up to the last one while they are
synchronised (`RegionShape`), and their jobs ascend (`RegionJobs`). `ViewsStayApart`
(`ViewsToTheirWriter`): with a file for each view the job of a frame has the parity
of the frame, a task has the parity of its job, and the next task that of the job
the encoder will put into it, whatever it keeps back (`InTurn`, checked by TLC
before it was proved). A ring of an even number of tasks alternates all the way
round (`RingAlternates`), and `GetFreeTask` synchronises only a full ring, which
moves the start by one (`SynchronizedRun`); the last synchronisation, after which
the start stays where it is, comes when no frame follows. `NothingIsLost`
(`NothingLost`) follows from `LossInv`, which assumes no failure but a busy encoder and a
GPU hang (`Sound`) and speaks of frames and of jobs. For each encoder the frames given
to it, the one in the surface to encode, if it is due to this encoder (`Due`), and
those VPP has are as many as were read (`AllGiven`), the k-th of them being the k-th
frame of the passes over the file (`JobsAsRead`, `FramesAsRead`). A frame moves
in four ways (`FrameReadIn`, `FrameToVpp`, `FrameFromVpp`, `FrameToEncoder`), and every other
step leaves all where they are (`FramesStay`). A job is written, in a task or kept back
(`Accounted`): a task that is submitted or synchronised stays so, and only a
hang, which happens once, clears tasks, at most as many as the ring has
(`MissingBound`). When `Run` is over nothing is due, VPP and the encoders are empty
(`Emptied`) and so are the tasks (`TasksEmptied`): in the pipelines because
`SynchronizeAll` stops at a start that is not in execution, where a contiguous ring is
empty, and in the region pipeline because it gets a free task for each region
before it drains. `LossesEndWithIDR` (`LossEndsWithIDR`) is about the jobs that are
neither written, nor in a task, nor kept back (`Gone`); its invariant is `Recovering`.
A request for an IDR frame is pending while `m_bInsertIDR` is set or the encoder is
new, and none is needed once no frame will follow (`IDRPending`). What the encoder
keeps back are the last jobs, at most `opt.delay` (`Latest`), so when tasks are lost the
last one lost is that close to the newest job: either an IDR frame was given to the
encoder behind it (`NextIDR`), or at most the frames kept back were, and the request
is pending (`LossesMet`). Submitting, synchronising and draining lose no job; a hang
and a lost device do, and both leave a pending request; every other step keeps it
until a frame is given to the encoder (`PendingStep`), which is then the IDR frame.
`EncodeTypeCorrect` needs `PoolUse` only.

Only model-checked, and why:

* liveness (`AllSessionsEnd`, `ProgramEnds`, `SleeperWakes`, `Ends`): fairness and
  ENABLED are out of the prover's reach.

Every invariant and every action property that a passing run checks is stated by
a theorem. No module here declares a RECURSIVE operator, and no proof uses an
induction over data; where a property counts the frames of a sequence, it is
stated with cardinalities and lengths (`GivenTo`, `FramesCounted`), which a step
changes by one.

## 5. Where the code and its words disagree

Four runs show a behaviour of the code that a comment, a message or the help
text of the repository rules out:

* `bug_exit`: `RunDecoding` looks for a free surface (`D:1848`), then for an
  output surface, then compares the counters (`D:1869`). When the delivery
  thread returns its last surface in between, all counters agree, and the
  program ends with "failed to find output surface, that's a bug!".
* `deliver_error`: after a failed `DeliverOutput` the delivery thread delivers
  nothing more, and the main thread that drains the queue waits for the
  counters (`D:1997`) without looking at `m_error`: it never ends.
* `encode_cut`: when the input of `-timeout` begins again, the next frame is an
  IDR frame, "forcedly insert idr frame to make output file readable"
  (`E:2729`), but `GetFreeTask` resets the writers (`E:2240`) before the tasks
  of the previous pass are written. Their bitstreams begin the new file.
* `composition_waits`: a decoder registers its frame and waits for the ration
  (`P:1342-1354`) before it hands the frame over. The frames of another decoder,
  which wait in its buffer for that very frame, may be the whole ration. No call
  fails; the composing session times out, and the waiting decoders see neither
  that nor `m_bForceStop`. The help text says a decoder "waits until one of them
  is available" (`smt_cli.cpp:807`). The option is on by default for N-to-1 too,
  although the comment at `sample_multi_transcode.cpp:1310` speaks of 1-to-N.
  The same happens with a ration of three and streams of six frames.

The properties of the passing runs leave out, in their instance or in a
condition, other behaviours met while modelling. No run reports them; anybody
can restore them by widening the instance or dropping the condition.

Sessions: `MSDKEvent::TimedWait` resets the event whatever ended the wait
(`VM:198`), and `Encode` waits again without looking at the buffer (`P:1505`),
so a surface that is inserted as the time ends is noticed only by a later
insertion.

`sample_decode` (run `pipeline`):

* a second `RunDecoding` in rendering mode ends at once with success, because
  `m_bStopDeliverLoop` stays true (`D:2147`); hence `Forgiven` has
  `incompatible` only without a delivery thread;
* a `SyncOperation` or event wait that times out, or a failed reallocation
  (`D:2020`), leads to "Decoding finished" without all the frames; hence
  `Forgiven` in `FinishedMeansComplete`;
* `m_pCurrentOutputSurface` survives `ResetDecoder`, which frees what it points
  to (`D:1492`); hence no `sync_failed` or `sync_timeout` together with a reset
  when the main thread delivers;
* the drain at the end of the stream ignores `m_nFrames` (`D:1989`), so more
  frames than asked for may be written; `FinishedMeansComplete` says "at least";
* the guard against endless resets compares values of
  `GetTotalBytesProcessed` that may be equal although input was consumed,
  because `ReadNextFrame` sets `DataOffset` to 0 (`sample_decode.cpp:908`);
* `FreeBuffers` frees the delivered list and keeps its tail
  (`mfx_buffering.cpp:100`); the next surface added to it is written through that
  pointer. The delivery thread has ended by then for good (`D:2147`), so nothing
  comes out of the list, and `ResetDecoder` has it empty;
* `SyncFrameSurfaces` moves at most one surface per call, because its variable
  `next` is never assigned (`mfx_buffering.cpp:152`); `Buffering` has it so.

`sample_encode` (run `encode`; each is a condition in a property of
`SampleEncode`, with its reason):

* `-robust:soft` is "Recovery from GPU hang by inserting an IDR"
  (`sample_encode.cpp:152`), but the request for that frame is lost when the
  encoder is busy and the call is made again (`E:2461-2477`), and at the start of an
  uncut pass (`m_bInsertIDR = m_bCutOutput`, `E:2730`): no IDR frame follows the
  loss, hence the two conditions of `LossEndsWithIDR`; the region pipeline gives the
  IDR frame to the first region only, and is not part of it;
* in the region pipeline the failure of one region's encoder, or a task that is
  not ready in time (`MFX_WRN_IN_EXECUTION` is no error to `MSDK_CHECK_STATUS`),
  is passed over, and slices come out of order, although `R:35` says that every
  first task is synchronised "to write regions (slices) into destination in
  correct order";
* a timeout in the final synchronisation ends the program with success and the
  remaining bitstreams unwritten (hence `seen` in `NothingLost`);
* when VPP has more than one output for the last input, one is dropped
  (`E:2545`);
* after the hang of a VPP task a list that was cleared before is popped
  (`E:215-225`): undefined behaviour, the status "undefined" of the model;
* after a recovery the two views may change places, because the writer belongs
  to the task (`ViewsToTheirWriter`); a restart begins the alternation again;
* `FreeSurfacePool` unlocks surfaces of frames the encoder keeps back
  (`NoOverwrite`);
* `CUserPipeline` encodes a surface that nothing is written to (`U:325-345`);
  its frames are therefore not part of `NothingLost`.

Composition (run `composition`, where these show in the state and violate none
of the properties):

* when the streams differ in length, a buffer that is empty at the clean-up is
  never cancelled (`P:1808-1817`, "all of them have data from decoders"), and its
  decoder goes on filling it until it waits for the ration for ever;
* the last `NotifyFreeCome` may come while the library still holds surfaces, and
  nobody notifies a waiting decoder later;
* `NotifyFreeCome` gives one surface back and wakes every waiting decoder, so
  the list grows beyond `NumFrameForAlloc` when two of them wait;
* a decoder that waits does not see that the launcher stops the sessions,
  against "Stop all the sessions if an error happened in one";
* the output surface of VPP is not released when VPP asks for more data
  (`P:1572-1594`); outputs have no counter in the model.

## 6. Not modelled

* `TranscodeSessions`: sessions that decode and encode (`Transcode`), VPP,
  overlay, `m_nTimeout > 0`, the robust reset, the cascade scaler.
* `CompositionSessions`: application-allocated surfaces (there `TranscodeSessions`
  has the counters), `VppCompOnly` and rendering, prolonged streams, soft
  recovery, an encoder that keeps frames back.
* `DecodePipeline`: low latency, the video wall and `-timeout`, MVC, the
  recycled descriptors of output surfaces, windows and devices.
* `SampleEncode`: `-perf_opt`, QP files, reading by frame, v4l2 input, the
  surfaces that frames are read into for VPP or the rotation plug-in and the wait
  for one of them, the set-up of parameters and allocators.
* `SyncObject`: failing pthread calls.
* Other components are listed with their reasons in `PROJECT.json`: most are
  sequential set-up, parsing, printing, or calls of the system. More than half
  of the lines under `src/` are of this kind, generated, or vendored
  (`ext/googletest`).

## 7. Plan

Done: the event and semaphore, the sessions of 1-to-N, the decoding pipeline,
the synchronizer with N-to-1 composition, the three encode pipelines with their
ring, and the refinements of the event, the semaphore and the ring; proofs of
every invariant and action property of the passing runs.

Left, in this order:

1. The launcher's robust reset with `ReleaseSurfaceAll` (`P:5306`), and sessions
   that decode and encode, in `TranscodeSessions`.
2. As operators in these modules or their own: `CascadeScalerConfig`, time
   stamps of `sample_vpp`, the allocator's reference counts, `SMTTracer`.
