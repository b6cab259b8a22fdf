--------------------------- MODULE MCSyncObject ----------------------------
(* An instance of SyncObject for TLC: every thread may call everything on  *)
(* an event; on a semaphore one thread waits, as the delivery thread of    *)
(* DecodePipeline does, and two post.                                      *)
EXTENDS SyncObject

CONSTANTS t1, t2, t3

AnyCalls == [t \in Threads |-> {"signal", "reset", "wait", "timed_wait"}]

MCCalls ==
    [k \in Kinds |->
        IF k = "semaphore" THEN [t \in Threads |-> IF t = t1 THEN {"wait"} ELSE {"post"}]
        ELSE AnyCalls]
=============================================================================
