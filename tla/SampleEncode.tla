---------------------------- MODULE SampleEncode ----------------------------
(***************************************************************************)
(* sample_encode: sample_encode_main runs the pipeline CreatePipeline made *)
(* and starts it again after a lost device, while the encoder works on its *)
(* own on the frames it was given.                                         *)
(***************************************************************************)
EXTENDS EncodePipeline, RegionEncodePipeline

Terminated == pc \in Ended /\ UNCHANGED vars

Next ==
    \/ EncodeStep \/ RegionStep \/ NoFreeSurface \/ EncoderBusy \/ RecoverDevice
    \/ EncoderFinishes

Spec == SessionInit /\ [][Next \/ Terminated]_vars

\* The encoder finishes what it has in execution, and Run is one thread.
FairSpec == Spec /\ WF_vars(Next) /\ WF_vars(EncoderFinishes)

-----------------------------------------------------------------------------
EncodeTypeOK ==
    /\ PoolTypeOK
    /\ opt \in Configurations
    /\ pc \in {"task", "frame", "vpp", "encode", "rsync", "retry", "sync", "device"} \cup Ended
    /\ phase \in {"main", "vpp_drain", "enc_drain"}
    /\ region \in Pools /\ syncing \in 0..(Cardinality(Regions) + 1)
    /\ pCurrentTask \in UNION {Slots(p) : p \in Pools} /\ nEncSurfIdx \in Surfaces
    /\ pos \in 0..NumFrames /\ passes \in 1..MaxPasses /\ processed <= Len(job)
    /\ {skipLoading, m_bFileWriterReset, m_bInsertIDR} \subseteq BOOLEAN
    /\ content \in [Surfaces -> 0..NumFrames] /\ vppHeld \in Seq(1..NumFrames)
    /\ \A j \in DOMAIN job : /\ job[j].frame \in 0..NumFrames /\ job[j].surf \in Surfaces
                             /\ job[j].pool \in UsedPools /\ job[j].idr \in BOOLEAN
    /\ locks \subseteq reading /\ reading \subseteq DOMAIN job
    /\ DependentVppTasks \subseteq IF opt.vpp THEN UNION {Slots(p) : p \in Pools} ELSE {}
    /\ seen \subseteq opt.may

(* Bitstreams are written in the order their frames were given to the      *)
(* encoder, and none twice: through full pools, drains, hangs, lost        *)
(* devices, and with all regions of a frame in their order.  (A region     *)
(* whose encoder fails, or whose first task is not ready in time, is       *)
(* passed over in silence, and the order is lost.)                         *)
BitstreamsInOrder ==
    (opt.kind = "region" => seen \cap {"encode_failed", "device", "timeout"} = {})
    => \A i, k \in DOMAIN delivered : i < k => delivered[i] < delivered[k]

\* those of the first n jobs that the encoder of pool p was given
GivenTo(p, n) == {j \in 1..n : job[j].pool = p}

FramesRead == (passes - 1) * NumFrames + pos

\* the frame that is read as the k-th one
ReadAs(k) == ((k - 1) % NumFrames) + 1

Delivered == {delivered[k] : k \in DOMAIN delivered}

(* When Run ends with no error every frame read has been encoded once, in  *)
(* order, by every encoder, whatever VPP and the encoders kept back, and   *)
(* every bitstream is written; a GPU hang costs at most the tasks that     *)
(* were in execution.                                                      *)
NothingLost ==
    (pc = "done" /\ seen \subseteq {"busy", "hang"}) =>
        /\ \A p \in UsedPools :
             /\ Cardinality(GivenTo(p, Len(job))) = FramesRead
             /\ opt.kind # "user" =>
                  \A j \in GivenTo(p, Len(job)) :
                      job[j].frame = ReadAs(Cardinality(GivenTo(p, j)))
        /\ Cardinality(DOMAIN job \ Delivered) <= IF "hang" \in seen THEN PoolSize[0] ELSE 0

(* With a file for each view, every bitstream goes to the file of its      *)
(* view, though the writer belongs to the task and not to the frame: no    *)
(* task is passed over and the pool never runs empty before the end.       *)
(* (Clearing the tasks breaks the alternation.)                            *)
ViewsToTheirWriter ==
    (opt.views = 2 /\ seen \cap {"hang", "device"} = {})
    => \A w \in {1, 2} : \A k \in DOMAIN file[w] : ViewOf(job[file[w][k]].frame) = w

(* No frame is read, and no VPP output put, into a surface from which the  *)
(* encoder has yet to encode a frame.  (FreeSurfacePool unlocks the        *)
(* surfaces of frames the encoder keeps back, too.)                        *)
NoOverwrite ==
    (seen \cap {"hang", "vpp_hang"} # {} => opt.delay = 0)
    => \A j \in reading : content[job[j].surf] = job[j].frame

\* jobs whose bitstream will never be written
Lost == DOMAIN job \ (Delivered \cup InTasks \cup {encIn[0][k] : k \in DOMAIN encIn[0]})

(* Where bitstreams were lost, to a GPU hang that was recovered from or    *)
(* with a device, the decoder is given an IDR frame to go on from: of the  *)
(* bitstreams written behind a lost one, at most the opt.delay frames the  *)
(* encoder had already kept back come before it.  (A busy encoder and the  *)
(* start of an uncut pass over the file drop the request for it.)          *)
LossEndsWithIDR ==
    (opt.kind # "region" /\ "busy" \notin seen /\ (opt.cut \/ passes = 1)) =>
        \A j \in Lost : j + 1 \notin Lost =>
            \/ Len(job) <= j + opt.delay
            \/ \E k \in (j + 1)..(j + 1 + opt.delay) : job[k].idr

(* The file of a cut output starts with an IDR frame, which makes it       *)
(* readable.                                                               *)
CutFileStartsWithIDR == file[1] # <<>> => job[file[1][1]].idr

(* The program ends, whatever fails.                                       *)
Ends == <>(pc \in Ended)
=============================================================================
