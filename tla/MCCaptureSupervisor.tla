------------------------ MODULE MCCaptureSupervisor ------------------------
(***************************************************************************)
(* CaptureSupervisor for TLC.  One slot and one packet suffice: what the   *)
(* handoff itself can do is checked by CaptureHandoff, and the supervisor  *)
(* tells apart only whether a stream started, erred and ended and how the  *)
(* owner completed, all of which happen at this size.                      *)
(***************************************************************************)
EXTENDS CaptureSupervisor
=============================================================================
