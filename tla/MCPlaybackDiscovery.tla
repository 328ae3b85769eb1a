------------------------- MODULE MCPlaybackDiscovery ------------------------
(***************************************************************************)
(* PlaybackDiscovery for TLC.  Two endpoints that share a backend key and  *)
(* differ in their token give native key reuse and its return.  Listing    *)
(* one of them twice gives duplicate evidence, which is ambiguous; the     *)
(* system may also list an endpoint that could be either.                  *)
(***************************************************************************)
EXTENDS PlaybackDiscovery

a == [backend_key |-> "k", continuity_token |-> "a"]
b == [backend_key |-> "k", continuity_token |-> "b"]

MCContinuities == {a, b}

Endpoint(name, kind, evidence, default) ==
  [display_name |-> name, is_active |-> TRUE, is_default_playback |-> default,
   continuity |-> [kind |-> kind, evidence |-> evidence]]

\* Native key reuse and return in the first namespace; the second only opens.
FourThenTwo == <<4, 2>>
Four == <<4>>

MCObservations ==
  {Endpoint("n", "Stable", {a}, FALSE),
   Endpoint("n", "Stable", {a}, TRUE),
   Endpoint("n", "Stable", {b}, TRUE),
   Endpoint("n", "Ambiguous", {a, b}, FALSE)}

\* The candidate an earlier persist left is truncated before anything reads it,
\* so states that differ in it only behave alike.
UsedCandidate ==
  IF writing \in PersistSteps \ {"CreateCandidate"} THEN candidate ELSE Missing

MCView ==
  <<current, backup, UsedCandidate, writing, image, registry, namespaces, at,
    sessionVars, published>>
=============================================================================
