------------------------------ MODULE MCStream ------------------------------
(***************************************************************************)
(* Stream for TLC.  Packets have 0, 1 or 2 samples in turn.                *)
(***************************************************************************)
EXTENDS Stream

MCPacketLen == [n \in Packets |-> n % 3]
=============================================================================
