------------------------- MODULE MCDecodePipeline -------------------------
(* Instances of DecodePipeline for TLC: the configurations of the program  *)
(* and the failures that may happen in each.                               *)
EXTENDS DecodePipeline

NoLimit == 9

Runs(mode, vpp, limit, soft, frames, read, may) ==
    [mode : {mode}, vpp : {vpp}, limit : {limit}, soft : {soft},
     frames : {frames}, read : {read}, may : {may}]

\* failures that make the program drop frames and start again, or end
RecoveryFaults == {"decode_failed", "vpp_failed", "incompatible", "realloc_failed",
                   "reset_failed", "deliver_failed"}

\* A delivery thread and any failure; a file and a limit on the frames, with
\* the forgiven failures; a file and VPP, with recovery; no output.  Without a
\* delivery thread a reset after SyncOperation failed or timed out keeps the
\* old m_pCurrentOutputSurface, whose memory is freed: no property can hold
\* then.
AllConfigurations ==
    Runs("rendering", FALSE, NoLimit, FALSE, 3, 1, FaultKinds)
    \cup Runs("rendering", FALSE, NoLimit, TRUE, 4, 1,
              {"gpu_hang", "device_busy", "realloc", "spurious"})
    \cup Runs("file_dump", FALSE, 3, TRUE, 4, 2,
              {"gpu_hang", "device_busy", "realloc", "incompatible"})
    \cup Runs("file_dump", TRUE, NoLimit, FALSE, 4, 3, RecoveryFaults)
    \cup Runs("performance", FALSE, NoLimit, FALSE, 3, 2, FaultKinds \ {"sync_failed", "sync_timeout"})

\* failures that the delivery thread and the main loop must end after
EndingConfigurations ==
    Runs("rendering", FALSE, 2, FALSE, 3, 1, FaultKinds \ {"deliver_failed"})
    \cup Runs("rendering", FALSE, NoLimit, TRUE, 3, 2, {"gpu_hang", "device_busy", "incompatible"})
    \cup Runs("file_dump", TRUE, NoLimit, FALSE, 3, 1, RecoveryFaults \ {"deliver_failed"})

RenderingWell == Runs("rendering", FALSE, NoLimit, FALSE, 3, 1, {})

DeliveryFails == Runs("rendering", FALSE, NoLimit, FALSE, 3, 1, {"deliver_failed"})
=============================================================================
