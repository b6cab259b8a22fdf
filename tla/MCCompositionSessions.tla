----------------------- MODULE MCCompositionSessions -----------------------
(* Instances of CompositionSessions for TLC.                               *)
EXTENDS CompositionSessions

\* the first stream is the longer one
LongAndShort == <<3, 2>>
SameLength == <<3, 3>>
=============================================================================
