------------------------- MODULE MCConsumerService -------------------------
(* Two clients that contend for one session; the second one's capture never  *)
(* starts.                                                                 *)
EXTENDS ConsumerService

CONSTANTS s1, s2
=============================================================================
