-------------------------- MODULE IdentityRegistry --------------------------
(***************************************************************************)
(* The source identity registry (crates/resonance-agent/src/identity.rs)   *)
(* as a value: what observations, allocation, retirement and loading make  *)
(* of it.  RegistryStorage has its files, PlaybackDiscovery its callers.   *)
(*                                                                         *)
(* A registry maps each source id to the continuity evidence it stands for *)
(* and to its state.  Retirement reasons and the diagnostics of refusals   *)
(* are left out; so is reset_namespace, which nothing calls.               *)
(***************************************************************************)
EXTENDS Integers, Sequences, FiniteSets

CONSTANTS
  Continuities,  (* continuity evidence: records with a backend_key        *)
  Names          (* display names                                          *)

SourceStates == {"Live", "Absent", "Retired"}

SourceIds == [namespace : Nat, sequence : Nat]

SourceRecords ==
  [continuity : Continuities, display_name : Names, state : SourceStates]

(* What an endpoint shows of its continuity: one piece of evidence, several *)
(* it could be, or none.                                                    *)
ObservedContinuities ==
  [kind : {"Stable"}, evidence : {{c} : c \in Continuities}]
    \cup [kind : {"Ambiguous", "Unknown"}, evidence : SUBSET Continuities]

Registries ==
  [namespace : Nat, revision : Nat, next_source_sequence : Nat,
   entries : UNION {[ids -> SourceRecords] : ids \in SUBSET SourceIds}]

SourceObservations ==
  [display_name : Names, continuity : ObservedContinuities]

BlankRegistry(namespace) ==
  [namespace |-> namespace, revision |-> 1, next_source_sequence |-> 0,
   entries |-> <<>>]

----------------------------------------------------------------------------
(* Loading.  An image that names a continuity twice is refused as corrupt. *)

Loadable(loaded) ==
  \A i, j \in DOMAIN loaded.entries :
    loaded.entries[i].continuity = loaded.entries[j].continuity => i = j

Greatest(numbers) == CHOOSE n \in numbers : \A m \in numbers : m <= n

FromPersisted(loaded) ==
  [loaded EXCEPT !.next_source_sequence =
     Greatest({@} \cup {id.sequence : id \in DOMAIN loaded.entries})]

----------------------------------------------------------------------------
(* Lookups *)

Unretired(r) == {id \in DOMAIN r.entries : r.entries[id].state # "Retired"}

\* Defect: tombstones are found too.
KnownAs_FindsRetired(r, c) ==
  {id \in DOMAIN r.entries : r.entries[id].continuity = c}

KnownAs(r, c) == {id \in Unretired(r) : r.entries[id].continuity = c}

\* source_id_for_observation: only stable evidence finds an identity.
SourceIdsFor(r, observed) ==
  IF observed.kind = "Stable"
  THEN UNION {KnownAs(r, c) : c \in observed.evidence} ELSE {}

----------------------------------------------------------------------------
(* Observations *)

StableEvidence(observations) ==
  UNION {observations[i].continuity.evidence :
           i \in {k \in DOMAIN observations :
                    observations[k].continuity.kind = "Stable"}}

MarkAbsent(r, observed) ==
  [r EXCEPT !.entries = [id \in DOMAIN @ |->
     IF @[id].state = "Live" /\ @[id].continuity \notin observed
     THEN [@[id] EXCEPT !.state = "Absent"] ELSE @[id]]]

Retire(r, ids) ==
  [r EXCEPT !.entries = [id \in DOMAIN @ |->
     IF id \in ids THEN [@[id] EXCEPT !.state = "Retired"] ELSE @[id]]]

Recognise(r, ids, name) ==
  [r EXCEPT !.entries = [id \in DOMAIN @ |->
     IF id \in ids
     THEN [@[id] EXCEPT !.state = "Live", !.display_name = name] ELSE @[id]]]

(* The next sequence number whose id is not taken, tombstones included. *)
Allocate(r, c, name) ==
  LET taken == {id.sequence : id \in {k \in DOMAIN r.entries :
                                        k.namespace = r.namespace}}
      sequence == CHOOSE n \in r.next_source_sequence + 1
                                 .. r.next_source_sequence + 1 + Cardinality(taken) :
                    n \notin taken
                    /\ r.next_source_sequence + 1 .. n - 1 \subseteq taken
      id == [namespace |-> r.namespace, sequence |-> sequence]
      record == [continuity |-> c, display_name |-> name, state |-> "Live"]
  IN [r EXCEPT !.next_source_sequence = sequence,
               !.entries = [k \in DOMAIN @ \cup {id} |->
                              IF k = id THEN record ELSE @[k]]]

(* Identities that lose a backend key to a new continuity: only when there *)
(* is exactly one can it be told which.                                    *)
ReuseCandidates(r, c, observed) ==
  {id \in Unretired(r) :
     /\ r.entries[id].continuity # c
     /\ r.entries[id].continuity.backend_key = c.backend_key
     /\ r.entries[id].continuity \notin observed}

\* Defect: an absent source that returns is not recognised.
ObserveStable_ForgetsAbsent(r, c, name, observed) ==
  LET live == {id \in KnownAs(r, c) : r.entries[id].state = "Live"}
      losers == ReuseCandidates(r, c, observed)
  IN IF live # {} THEN Recognise(r, live, name)
     ELSE Allocate(IF Cardinality(losers) = 1 THEN Retire(r, losers) ELSE r,
                   c, name)

ObserveStable(r, c, name, observed) ==
  IF KnownAs(r, c) # {} THEN Recognise(r, KnownAs(r, c), name)
  ELSE LET losers == ReuseCandidates(r, c, observed)
       IN Allocate(IF Cardinality(losers) = 1 THEN Retire(r, losers) ELSE r,
                   c, name)

Observe(r, observation, observed) ==
  LET seen == observation.continuity
  IN CASE seen.kind = "Stable" ->
            ObserveStable(r, CHOOSE c \in seen.evidence : TRUE,
                          observation.display_name, observed)
       [] seen.kind = "Ambiguous" ->
            Retire(r, UNION {KnownAs(r, c) : c \in seen.evidence})
       [] seen.kind = "Unknown" -> r

AdvanceRevision(r) == [r EXCEPT !.revision = @ + 1]

(***************************************************************************)
(* apply_observations.  The code's `changed` flag is that the registry     *)
(* differs: nothing it sets is undone later in the same call.              *)
(***************************************************************************)
ObserveAll(r, observations, observed) ==
  LET after[n \in 0 .. Len(observations)] ==
        IF n = 0 THEN MarkAbsent(r, observed)
        ELSE Observe(after[n - 1], observations[n], observed)
  IN after[Len(observations)]

ApplyObservations(r, observations) ==
  LET result == ObserveAll(r, observations, StableEvidence(observations))
  IN IF result = r THEN r ELSE AdvanceRevision(result)

----------------------------------------------------------------------------
(* r is a later state of the registry that was published as `earlier`. *)
Extends(r, earlier) ==
  /\ r.revision >= earlier.revision
  /\ \A id \in DOMAIN earlier.entries :
       /\ id \in DOMAIN r.entries
       /\ r.entries[id].continuity = earlier.entries[id].continuity
       /\ earlier.entries[id].state = "Retired" => r.entries[id].state = "Retired"

=============================================================================
