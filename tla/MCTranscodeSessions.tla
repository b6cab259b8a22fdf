------------------------ MODULE MCTranscodeSessions ------------------------
(* Instances of TranscodeSessions for TLC.                                 *)
EXTENDS TranscodeSessions

\* both sessions want the whole stream, or the first wants one frame only
NoLimit == [e \in Encoders |-> NumFrames + 1]
FirstLimited == [e \in Encoders |-> IF e = 1 THEN 1 ELSE NumFrames + 1]

SurfaceSymmetry == Permutations(Surfaces)
=============================================================================
