---------------------------- MODULE MCBatchQueue ----------------------------
(***************************************************************************)
(* The batch queue with an atomic batch of two owner-signed operations and *)
(* a session batch of one that bypasses the queue; two requests at a time. *)
(***************************************************************************)
EXTENDS BatchQueue, TLC

CONSTANTS b1, b2

MCOpCount == b1 :> 2 @@ b2 :> 1
MCSessionUntil == b1 :> 0 @@ b2 :> 3
MCBps == <<5000, 6000>>
=============================================================================
