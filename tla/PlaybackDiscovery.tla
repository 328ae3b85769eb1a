------------------------- MODULE PlaybackDiscovery -------------------------
(***************************************************************************)
(* Playback discovery (crates/resonance-agent/src/discovery.rs) over the   *)
(* identity registry and its files, as windows.rs uses it: a discovery     *)
(* request or a capture start takes DISCOVERY_ACCESS, opens the registry,  *)
(* refreshes it from the endpoints the system lists, and lets it go again. *)
(* A capture refreshes twice, before and after it opens the device, and    *)
(* starts only on a binding both agree on.                                 *)
(*                                                                         *)
(* The lock makes these sessions follow one another; devices come, go and  *)
(* change role between any two refreshes, every file call may fail, and    *)
(* the process may die at any step.  Consumers keep what was published and *)
(* ask later for a source they know by its id.                             *)
(***************************************************************************)
EXTENDS IdentityRegistry, RegistryStorage

CONSTANTS
  Observations,     (* what the system may say of one endpoint             *)
  MaxEndpoints,     (* endpoints listed at a time                          *)
  MaxRevision,      (* bound on the revision, for each namespace           *)
  MaxNamespaces     (* bound on the namespaces ever generated              *)

ASSUME DiscoveryAssumption ==
  /\ MaxEndpoints \in Nat
  /\ MaxNamespaces \in Nat
  /\ MaxRevision \in [1..MaxNamespaces -> Nat]
  /\ Observations \subseteq [display_name : Names, is_active : BOOLEAN,
                             continuity : ObservedContinuities,
                             is_default_playback : BOOLEAN]

Identities == [namespace : Nat, revision : Nat]

Snapshots ==
  [identity : Identities,
   sources : SUBSET [source_id : SourceIds, display_name : Names,
                     is_available : BOOLEAN, is_default_playback : BOOLEAN],
   bindings : SUBSET [identity : Identities, source_id : SourceIds,
                      endpoint_id : {c.backend_key : c \in Continuities}],
   default : SUBSET SourceIds]

ASSUME NoneAssumption == None \notin Snapshots

VARIABLES
  registry,       (* the open registry, None when no session has one       *)
  namespaces,     (* namespaces generated so far                           *)
  at,             (* where the session is, "Idle" when the lock is free    *)
  intent,         (* what the session is for, or None                      *)
  draft,          (* the snapshot of a refresh still to be persisted       *)
  last_snapshot,  (* the last finished refresh of this session             *)
  binding,        (* the capture's binding, or None                        *)
  enumerated,     (* the active endpoints of the session's last refresh    *)
  published       (* a snapshot some consumer holds, with the registry it  *)
                  (* was taken from, or None                               *)

sessionVars == <<intent, draft, last_snapshot, binding, enumerated>>
vars == <<storageVars, registry, namespaces, at, sessionVars, published>>

Enumerations == UNION {[1..n -> Observations] : n \in 0..MaxEndpoints}

NoSession ==
  /\ intent = None
  /\ draft = None
  /\ last_snapshot = None
  /\ binding = None
  /\ enumerated = <<>>

Init ==
  /\ StorageInit
  /\ registry = None
  /\ namespaces = 0
  /\ at = "Idle"
  /\ NoSession
  /\ published = None

----------------------------------------------------------------------------
(* Snapshots and bindings *)

Identity(r) == [namespace |-> r.namespace, revision |-> r.revision]

IfActive(active, endpoint) ==
  IF endpoint.is_active THEN Append(active, endpoint) ELSE active

Active(endpoints) ==
  LET active[n \in 0 .. Len(endpoints)] ==
        IF n = 0 THEN <<>> ELSE IfActive(active[n - 1], endpoints[n])
  IN active[Len(endpoints)]

DefaultClaims(active) == {i \in DOMAIN active : active[i].is_default_playback}

(* Stable evidence that two active endpoints show is ambiguous for both. *)
IsDescribable(active, i) ==
  /\ active[i].continuity.kind = "Stable"
  /\ \A j \in DOMAIN active :
       active[j].continuity = active[i].continuity => j = i

Describable(active) == {i \in DOMAIN active : IsDescribable(active, i)}

(* One observation per endpoint: the code gives duplicates one between     *)
(* them, and an ambiguous observation repeated changes nothing.            *)
RegistryObservations(active) ==
  [i \in DOMAIN active |->
     [display_name |-> active[i].display_name,
      continuity |-> IF /\ active[i].continuity.kind = "Stable"
                        /\ ~IsDescribable(active, i)
                     THEN [active[i].continuity EXCEPT !.kind = "Ambiguous"]
                     ELSE active[i].continuity]]

BindingOf(r, id) ==
  [identity |-> Identity(r), source_id |-> id,
   endpoint_id |-> r.entries[id].continuity.backend_key]

Bindings(r, active) ==
  {BindingOf(r, id) :
     id \in UNION {SourceIdsFor(r, active[i].continuity) : i \in Describable(active)}}

DefaultSourceIds(r, active) ==
  UNION {SourceIdsFor(r, active[i].continuity) :
           i \in Describable(active) \cap DefaultClaims(active)}

Descriptor(r, id, is_default) ==
  [source_id |-> id, display_name |-> r.entries[id].display_name,
   is_available |-> r.entries[id].state = "Live",
   is_default_playback |-> is_default]

Sources(r, active) ==
  {Descriptor(r, id, id \in DefaultSourceIds(r, active)) : id \in Unretired(r)}

SnapshotOf(r, active) ==
  [identity |-> Identity(r), sources |-> Sources(r, active),
   bindings |-> Bindings(r, active), default |-> DefaultSourceIds(r, active)]

(***************************************************************************)
(* The registry after a refresh.  When it did not change, its revision     *)
(* still advances if this is the first refresh since it was opened, or if  *)
(* the descriptors differ from the last ones: the default role moved.      *)
(***************************************************************************)
\* Defect: reopening the registry does not count as a change.
RevisionIsStale_IgnoresReopen(before, r, active) ==
  /\ r = before
  /\ last_snapshot # None
  /\ last_snapshot.sources # Sources(r, active)

RevisionIsStale(before, r, active) ==
  /\ r = before
  /\ \/ last_snapshot = None
     \/ last_snapshot.sources # Sources(r, active)

Refreshed(r, active) ==
  LET after == ApplyObservations(r, RegistryObservations(active))
  IN IF RevisionIsStale(r, after, active) THEN AdvanceRevision(after) ELSE after

(* resolve_default_playback_capture, resolve_explicit_playback_capture *)
BindingsFor(wanted, r, snapshot) ==
  {b \in snapshot.bindings :
     /\ snapshot.identity = Identity(r)
     /\ IF wanted.kind = "DefaultPlayback" THEN b.source_id \in snapshot.default
        ELSE /\ b.source_id = wanted.source_id
             /\ wanted.source_id \in DOMAIN r.entries
             /\ r.entries[wanted.source_id].state = "Live"}

----------------------------------------------------------------------------
(* A session begins and the registry is opened *)

\* An explicit id is one some consumer was told of.
Begin ==
  /\ at = "Idle"
  /\ at' = "Opening"
  /\ intent' \in [kind : {"Discover", "DefaultPlayback"}]
       \cup IF published = None THEN {}
            ELSE [kind : {"Explicit"},
                  source_id : {s.source_id : s \in published.snapshot.sources}]
  /\ UNCHANGED <<storageVars, registry, namespaces, draft, last_snapshot,
                 binding, enumerated, published>>

EndSession ==
  /\ at' = "Idle"
  /\ registry' = None
  /\ intent' = None
  /\ draft' = None
  /\ last_snapshot' = None
  /\ binding' = None
  /\ enumerated' = <<>>

Load ==
  /\ at = "Opening"
  /\ \E loaded \in LoadOutcomes \ {None} :
       Loadable(loaded) /\ registry' = FromPersisted(loaded)
  /\ at' = "Refresh"
  /\ UNCHANGED <<storageVars, namespaces, sessionVars, published>>

LoadIsRefused ==
  /\ at = "Opening"
  /\ \E loaded \in LoadOutcomes \ {None} : ~Loadable(loaded)
  /\ EndSession
  /\ UNCHANGED <<storageVars, namespaces, published>>

\* There is no storage directory, or it cannot be created.
OpenFails ==
  /\ at = "Opening"
  /\ EndSession
  /\ UNCHANGED <<storageVars, namespaces, published>>

NewBlank ==
  /\ at = "Opening"
  /\ None \in LoadOutcomes
  /\ namespaces < MaxNamespaces
  /\ namespaces' = namespaces + 1
  /\ registry' = BlankRegistry(namespaces + 1)
  /\ Persist(registry')
  /\ at' = "Initialising"
  /\ UNCHANGED <<sessionVars, published>>

Initialised ==
  /\ at = "Initialising"
  /\ writing = "Done"
  /\ Return
  /\ at' = "Refresh"
  /\ UNCHANGED <<registry, namespaces, sessionVars, published>>

----------------------------------------------------------------------------
(* Refresh *)

\* A call of the enumeration fails; nothing has been observed or written.
EnumerationFails ==
  /\ at \in {"Refresh", "Revalidate"}
  /\ draft = None
  /\ EndSession
  /\ UNCHANGED <<storageVars, namespaces, published>>

\* More than one active endpoint claims the default role.
ClaimsConflict ==
  /\ at \in {"Refresh", "Revalidate"}
  /\ draft = None
  /\ \E endpoints \in Enumerations : Cardinality(DefaultClaims(Active(endpoints))) > 1
  /\ EndSession
  /\ UNCHANGED <<storageVars, namespaces, published>>

\* Between the two refreshes of a capture the device cannot be opened, or is
\* not the one of the binding.
OpenDeviceFails ==
  /\ at = "Revalidate"
  /\ draft = None
  /\ EndSession
  /\ UNCHANGED <<storageVars, namespaces, published>>

\* Defect: a revision that only advanced is not persisted.
Refresh_SkipsRevision ==
  /\ at \in {"Refresh", "Revalidate"}
  /\ draft = None
  /\ registry.revision < MaxRevision[registry.namespace]
  /\ \E endpoints \in Enumerations :
       /\ Cardinality(DefaultClaims(Active(endpoints))) <= 1
       /\ enumerated' = Active(endpoints)
       /\ registry' = Refreshed(registry, Active(endpoints))
       /\ draft' = SnapshotOf(registry', Active(endpoints))
  /\ IF registry'.entries = registry.entries
     THEN UNCHANGED storageVars
     ELSE Persist(registry')
  /\ UNCHANGED <<namespaces, at, intent, last_snapshot, binding, published>>

(***************************************************************************)
(* refresh up to its persist, if it has one: there is at most one, since   *)
(* only a registry that did not change has its revision advanced.          *)
(***************************************************************************)
Refresh ==
  /\ at \in {"Refresh", "Revalidate"}
  /\ draft = None
  /\ registry.revision < MaxRevision[registry.namespace]
  /\ \E endpoints \in Enumerations :
       /\ Cardinality(DefaultClaims(Active(endpoints))) <= 1
       /\ enumerated' = Active(endpoints)
       /\ registry' = Refreshed(registry, Active(endpoints))
       /\ draft' = SnapshotOf(registry', Active(endpoints))
  /\ IF registry' = registry
     THEN UNCHANGED storageVars
     ELSE Persist(registry')
  /\ UNCHANGED <<namespaces, at, intent, last_snapshot, binding, published>>

\* The snapshot of the refresh is returned once its revision is committed.
Committed ==
  /\ draft # None
  /\ \/ writing = "Idle" /\ UNCHANGED storageVars
     \/ writing = "Done" /\ Return

FinishRefresh ==
  /\ Committed
  /\ last_snapshot' = draft
  /\ draft' = None

Publish ==
  /\ FinishRefresh
  /\ intent.kind = "Discover"
  /\ at' = "Published"
  /\ UNCHANGED <<registry, namespaces, intent, binding, enumerated, published>>

Bind ==
  /\ FinishRefresh
  /\ intent.kind # "Discover"
  /\ at = "Refresh"
  /\ binding' \in BindingsFor(intent, registry, draft)
  /\ at' = "Revalidate"
  /\ UNCHANGED <<registry, namespaces, intent, enumerated, published>>

\* Defect: any binding will do, not only the one the device was opened for.
Confirm_AnyBinding ==
  /\ FinishRefresh
  /\ at = "Revalidate"
  /\ BindingsFor(intent, registry, draft) # {}
  /\ at' = "Started"
  /\ UNCHANGED <<registry, namespaces, intent, binding, enumerated, published>>

Confirm ==
  /\ FinishRefresh
  /\ at = "Revalidate"
  /\ BindingsFor(intent, registry, draft) = {binding}
  /\ at' = "Started"
  /\ UNCHANGED <<registry, namespaces, intent, binding, enumerated, published>>

(* No binding to resolve, or not the one the device was opened for. *)
BindingIsRefused ==
  /\ Committed
  /\ intent.kind # "Discover"
  /\ LET found == BindingsFor(intent, registry, draft)
     IN IF at = "Refresh" THEN found = {} ELSE found # {binding}
  /\ EndSession
  /\ UNCHANGED <<namespaces, published>>

----------------------------------------------------------------------------
(* The session ends *)

\* The lock is released; a consumer of the snapshot may keep it.
Release ==
  /\ at \in {"Published", "Started"}
  /\ published' \in {published}
       \cup IF at = "Published"
            THEN {[snapshot |-> last_snapshot, registry |-> registry]} ELSE {}
  /\ EndSession
  /\ UNCHANGED <<storageVars, namespaces>>

PersistFails ==
  /\ writing = "Failed"
  /\ Return
  /\ EndSession
  /\ UNCHANGED <<namespaces, published>>

FileStep ==
  /\ PersistStep \/ CallFails
  /\ UNCHANGED <<registry, namespaces, at, sessionVars, published>>

Restart ==
  /\ Crash
  /\ EndSession
  /\ UNCHANGED <<namespaces, published>>

Next ==
  \/ Begin
  \/ Load
  \/ LoadIsRefused
  \/ OpenFails
  \/ NewBlank
  \/ Initialised
  \/ EnumerationFails
  \/ ClaimsConflict
  \/ OpenDeviceFails
  \/ Refresh
  \/ Publish
  \/ Bind
  \/ Confirm
  \/ BindingIsRefused
  \/ Release
  \/ PersistFails
  \/ FileStep
  \/ Restart

Spec == Init /\ [][Next]_vars

----------------------------------------------------------------------------
(* Properties *)

(***************************************************************************)
(* At most one identity that is not retired stands for a continuity, in    *)
(* memory and in what a load would read, whatever is observed and wherever *)
(* a crash or a failed call stopped the writing of it.                     *)
(***************************************************************************)
UniqueContinuity(r) ==
  \A i, j \in Unretired(r) : r.entries[i].continuity = r.entries[j].continuity => i = j

OneIdentityPerContinuity ==
  /\ registry # None => UniqueContinuity(registry)
  /\ Loaded # None => UniqueContinuity(Loaded)

(***************************************************************************)
(* An id a consumer was told of keeps its meaning: as long as the          *)
(* namespace lives it stands for the same continuity, it is not forgotten, *)
(* and once retired it stays retired (ADR 0015: never restored, reassigned *)
(* or redirected), across failures, restarts and the fallback to the       *)
(* backup.                                                                 *)
(***************************************************************************)
PublishedIdsKeepTheirMeaning ==
  registry # None /\ published # None
    /\ registry.namespace = published.registry.namespace
    => Extends(registry, published.registry)

(***************************************************************************)
(* A revision identifies what it was published with: two snapshots that    *)
(* carry the same namespace and revision list the same sources with the    *)
(* same availability and default role, so a consumer's stale selection is  *)
(* never taken for a current one.                                          *)
(***************************************************************************)
RevisionIdentifiesSnapshot ==
  at = "Published" /\ published # None
    /\ last_snapshot.identity = published.snapshot.identity
    => last_snapshot = published.snapshot

(***************************************************************************)
(* Nothing is shown before it is committed: when a snapshot is published   *)
(* or a capture started, a process that dies now would load that registry. *)
(***************************************************************************)
ShownIsCommitted == at \in {"Published", "Started"} => Loaded = registry

(***************************************************************************)
(* A capture that starts has the endpoint its intent asked for, as the     *)
(* system last listed it: the one active endpoint that claims the default  *)
(* role, or the one that shows the continuity the requested id stood for   *)
(* when it was published.                                                  *)
(***************************************************************************)
EndpointShowing(c) ==
  {i \in DOMAIN enumerated :
     enumerated[i].continuity = [kind |-> "Stable", evidence |-> {c}]}

StartedOnTheIntendedSource ==
  at = "Started" =>
    LET c == registry.entries[binding.source_id].continuity
    IN /\ Cardinality(EndpointShowing(c)) = 1
       /\ binding.endpoint_id = c.backend_key
       /\ intent.kind = "DefaultPlayback" => EndpointShowing(c) = DefaultClaims(enumerated)
       /\ intent.kind = "Explicit" =>
            published.registry.entries[intent.source_id].continuity = c

(***************************************************************************)
(* docs/decisions/0015, Persistence Failures: "Restart reuses a valid      *)
(* committed namespace and mappings": what was committed is never refused. *)
(***************************************************************************)
CommittedRegistryLoads == at = "Published" => Loadable(Loaded)

(***************************************************************************)
(* docs/decisions/0015, Atomic commits: "A crash or partial write before   *)
(* replacement leaves the last valid committed image authoritative": once  *)
(* a registry was published there is always one to load.                   *)
(***************************************************************************)
PublishedRegistrySurvives == published # None => Loaded # None
=============================================================================
