-------------------------- MODULE MCCaptureHandoff --------------------------
(***************************************************************************)
(* CaptureHandoff for TLC: the constants are given in the configurations.  *)
(* Two slots are enough for every case of the handoff: Started in one slot *)
(* and a packet in the other, both holding packets, an Ended behind a      *)
(* packet, a full channel, an empty pool.                                  *)
(***************************************************************************)
EXTENDS CaptureHandoff
=============================================================================
