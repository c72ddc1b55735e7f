----------------------------- MODULE MCSlotRings -----------------------------
(* Instances of SlotRings for TLC. *)
EXTENDS SlotRings, TLC

CONSTANTS WindowA, WindowB, BytesA, BytesB, FramesA, FramesB

MCRecvWindowSize == (A :> WindowA) @@ (B :> WindowB)
MCRecvWindowSizeBytes == (A :> BytesA) @@ (B :> BytesB)
MCMaxFrames == (A :> FramesA) @@ (B :> FramesB)
=============================================================================
