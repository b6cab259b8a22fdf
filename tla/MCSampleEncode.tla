--------------------------- MODULE MCSampleEncode ---------------------------
(* Instances of SampleEncode for TLC: the pipelines, the options that      *)
(* change their control, and the failures that may happen in each.         *)
EXTENDS SampleEncode

\* the pool of a pipeline has two tasks, that of a region one
AsyncDepths == [p \in Pools |-> IF p = 0 THEN 2 ELSE 1]

\* what JobsAssumption asks for
JobNumbers == 1..((NumFrames * MaxPasses + 1) * Cardinality(Pools))

Runs(kind, vpp, views, robust, cut, delay, limit, may) ==
    [kind : {kind}, vpp : {vpp}, views : {views}, robust : {robust}, cut : {cut},
     delay : delay, limit : {limit}, may : {may}]

\* -robust:soft with and without frames kept back; VPP with all it may do and
\* a limit on the frames; two views; -uncut without recovery and with it;
\* rotation; the regions with what must be in order, and with all failures.
AllConfigurations ==
    Runs("encode", FALSE, 1, TRUE, TRUE, {0, 1}, 0, {"hang", "busy", "timeout", "device"})
    \cup Runs("encode", TRUE, 1, TRUE, TRUE, {0, 1}, 3, {"vpp_hang", "double", "more_surface"})
    \cup Runs("encode", TRUE, 1, TRUE, TRUE, {0, 1}, 3, {"vpp_hang", "device"})
    \cup Runs("encode", TRUE, 1, FALSE, FALSE, {1}, 0, {"vpp_hang", "double", "aborted", "encode_failed", "vpp_failed"})
    \cup Runs("encode", FALSE, 2, TRUE, TRUE, {0, 1}, 0, {"hang", "device"})
    \cup Runs("encode", FALSE, 1, FALSE, FALSE, {0}, 0, {"hang", "aborted", "encode_failed"})
    \cup Runs("encode", FALSE, 1, TRUE, FALSE, {0, 1}, 0, {"hang"})
    \cup Runs("user", FALSE, 1, FALSE, TRUE, {0, 1}, 0, {"hang", "timeout"})
    \cup Runs("region", FALSE, 1, FALSE, TRUE, {0}, 0, {"busy", "timeout", "hang"})
    \cup Runs("region", FALSE, 1, FALSE, FALSE, {0}, 0, {"aborted", "encode_failed", "device"})

CuttingWell == Runs("encode", FALSE, 1, FALSE, TRUE, {0}, 0, {})
=============================================================================
