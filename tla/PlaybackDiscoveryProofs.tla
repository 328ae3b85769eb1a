---------------------- MODULE PlaybackDiscoveryProofs ----------------------
(***************************************************************************)
(* Playback discovery over its registry and files, for every set of        *)
(* observations, every sequence of sessions, failures and crashes.         *)
(*                                                                         *)
(* Files: while the current file is intact, what a load returns changes    *)
(* only to the image being persisted.  Removing the current file is the    *)
(* step that could change it to something else, so StorageInv says what    *)
(* persist has in its files by then: a backup, and a candidate, of the     *)
(* image.  Every session step makes one call of the storage or none.       *)
(*                                                                         *)
(* Registry: whatever is observed continues it, keeping every id, what it  *)
(* stands for, and its end (Continued).                                    *)
(*                                                                         *)
(* Sessions: DiscoveryInv says that the open registry, the image that is   *)
(* written and both files that a load reads hold registries that continue  *)
(* the published one or are of another namespace (Good), and what a        *)
(* session has committed by each of its steps.                             *)
(***************************************************************************)
EXTENDS PlaybackDiscovery, EventSequenceProofs

(* Files that hold the image. *)
Copies == [exists : {TRUE}, synced : BOOLEAN, image : {image}]

ImageGiven == writing \in PersistSteps => image # None

CandidateWritten ==
  writing \in {"SyncCandidate", "RemoveBackup", "CopyBackup", "RemoveCurrent",
               "RenameCandidate"}
    => candidate \in Copies

BackupWritten ==
  writing \in {"RemoveCurrent", "RenameCandidate", "SyncCurrent"}
    => backup \in Copies

(* A file that is current was renamed from a synced candidate, so that no  *)
(* power loss takes its contents.                                          *)
CandidateSynced ==
  writing \in {"RemoveBackup", "CopyBackup", "RemoveCurrent", "RenameCandidate"}
    => candidate.synced

CurrentSynced == current.synced

StorageInv ==
  /\ ImageGiven
  /\ CandidateWritten
  /\ BackupWritten
  /\ CandidateSynced
  /\ CurrentSynced

----------------------------------------------------------------------------
(* The invariant holds of the empty directory and of a stuttering step. *)
LEMMA StorageInvInit == StorageInit => StorageInv
  BY DEF StorageInit, StorageInv, ImageGiven, CandidateWritten, BackupWritten,
         CandidateSynced, CurrentSynced, PersistSteps, Missing

(* Every call of persist establishes what the next ones rely on. *)
LEMMA StorageInvPersistStep ==
  ASSUME StorageInv, PersistStep
  PROVE  StorageInv'
<1> USE DEF StorageInv, ImageGiven, CandidateWritten, BackupWritten,
            CandidateSynced, CurrentSynced, PersistSteps, Copies
<1>1. CASE CreateCandidate
  BY <1>1 DEF CreateCandidate
<1>2. CASE WriteCandidate
  BY <1>2 DEF WriteCandidate, Unsynced
<1>3. CASE SyncCandidate
  BY <1>3 DEF SyncCandidate
<1>4. CASE RemoveBackup
  BY <1>4 DEF RemoveBackup
<1>5. CASE CopyBackup
  BY <1>5 DEF CopyBackup, Unsynced
<1>6. CASE RemoveCurrent
  BY <1>6 DEF RemoveCurrent, Missing
<1>7. CASE RenameCandidate
  BY <1>7 DEF RenameCandidate
<1>8. CASE SyncCurrent
  BY <1>8 DEF SyncCurrent
<1>9. QED
  BY <1>1, <1>2, <1>3, <1>4, <1>5, <1>6, <1>7, <1>8 DEF PersistStep

(* No step of the storage breaks the invariant. *)
LEMMA StorageInvNext ==
  ASSUME StorageInv, [StorageNext]_storageVars
  PROVE  StorageInv'
<1> USE DEF StorageInv, ImageGiven, CandidateWritten, BackupWritten,
            CandidateSynced, CurrentSynced, PersistSteps, Copies
<1>1. CASE \E i : Persist(i)
  BY <1>1 DEF Persist, files
<1>2. CASE PersistStep
  BY <1>2, StorageInvPersistStep
<1>3. CASE CallFails
  BY <1>3 DEF CallFails
<1>4. CASE Return
  BY <1>4 DEF Return, files
<1>5. CASE Crash
  BY <1>5 DEF Crash, AfterCrash
<1>6. CASE UNCHANGED storageVars
  BY <1>6 DEF storageVars, files
<1>7. QED
  BY <1>1, <1>2, <1>3, <1>4, <1>5, <1>6 DEF StorageNext

----------------------------------------------------------------------------
(* What a load returns depends on the two files it looks at only. *)
LEMMA LoadedUnchanged ==
  ASSUME UNCHANGED <<current, backup>>
  PROVE  Loaded' = Loaded
  BY DEF Loaded, Valid

(* An intact current file that stays is what a load returns. *)
LEMMA LoadedFromCurrent ==
  ASSUME Valid(current), UNCHANGED current
  PROVE  Loaded' = Loaded
  BY DEF Loaded, Valid

(* A step that finds the current file intact leaves what a load returns, or *)
(* makes it the image.                                                      *)
LEMMA ReplacementStep ==
  ASSUME StorageInv, [StorageNext]_storageVars, Valid(current)
  PROVE  Loaded' \in {Loaded, image}
<1>1. CASE \E i : Persist(i)
  BY <1>1, LoadedFromCurrent DEF Persist, files
<1>2. CASE RemoveCurrent
  <2>1. writing = "RemoveCurrent" /\ backup' = backup /\ current' = Missing
    BY <1>2 DEF RemoveCurrent
  <2>2. backup.image = image /\ image # None
    BY <2>1 DEF StorageInv, BackupWritten, ImageGiven, PersistSteps, Copies
  <2>3. QED
    BY <2>1, <2>2 DEF Loaded, Valid, Missing
<1>3. CASE RenameCandidate
  <2>1. writing = "RenameCandidate" /\ current' = candidate
    BY <1>3 DEF RenameCandidate
  <2>2. candidate.image = image /\ image # None
    BY <2>1 DEF StorageInv, CandidateWritten, ImageGiven, PersistSteps, Copies
  <2>3. QED
    BY <2>1, <2>2 DEF Loaded, Valid
<1>4. CASE SyncCurrent
  <2>1. writing = "SyncCurrent" /\ backup' = backup
        /\ current' = [current EXCEPT !.synced = TRUE]
    BY <1>4 DEF SyncCurrent
  <2>2. current'.image = current.image
    BY <2>1
  <2>3. QED
    BY <2>1, <2>2 DEF Loaded, Valid
<1>5. CASE CreateCandidate \/ WriteCandidate \/ SyncCandidate \/ RemoveBackup
           \/ CopyBackup
  BY <1>5, LoadedFromCurrent
     DEF CreateCandidate, WriteCandidate, SyncCandidate, RemoveBackup, CopyBackup
<1>6. CASE CallFails
  BY <1>6, LoadedFromCurrent DEF CallFails
<1>7. CASE Return
  BY <1>7, LoadedFromCurrent DEF Return, files
<1>8. CASE Crash
  <2>1. current' = current
    BY <1>8 DEF Crash, AfterCrash, StorageInv, CurrentSynced
  <2>2. QED
    BY <2>1, LoadedFromCurrent
<1>9. CASE UNCHANGED storageVars
  BY <1>9, LoadedFromCurrent DEF storageVars, files
<1>10. QED
  BY <1>1, <1>2, <1>3, <1>4, <1>5, <1>6, <1>7, <1>8, <1>9
     DEF StorageNext, PersistStep

(* identity.rs, persist and load_or_init: with the current file intact, no  *)
(* file call, failure, crash or power loss makes a load return anything but *)
(* what it returned before or the image that is being persisted.            *)
THEOREM StorageReplacesAtomically == StorageSpec => AtomicReplacement
<1>1. StorageInv /\ [StorageNext]_storageVars
        => [Valid(current) => Loaded' \in {Loaded, image}]_storageVars
  BY ReplacementStep
<1>2. StorageInv /\ [StorageNext]_storageVars => StorageInv'
  BY StorageInvNext
<1>3. QED
  BY <1>1, <1>2, StorageInvInit, PTL DEF StorageSpec, AtomicReplacement

-----------------------------------------------------------------------------
(* Beginning to persist anything is a step of the storage. *)
LEMMA PersistIsStorageStep ==
  ASSUME NEW i, Persist(i)
  PROVE  StorageNext
  BY DEF StorageNext

(* Returning the snapshot of a refresh is a return from persist, or nothing. *)
LEMMA CommittedIsStorageStep ==
  ASSUME Committed
  PROVE  [StorageNext]_storageVars
  BY DEF Committed, StorageNext

(* Every step of a session is a step of the storage or leaves it alone. *)
LEMMA NextIsStorageStep ==
  ASSUME [Next]_vars
  PROVE  [StorageNext]_storageVars
<1>1. CASE \/ Begin \/ Load \/ LoadIsRefused \/ OpenFails \/ EnumerationFails
           \/ ClaimsConflict \/ OpenDeviceFails \/ Release
  BY <1>1 DEF Begin, Load, LoadIsRefused, OpenFails, EnumerationFails,
              ClaimsConflict, OpenDeviceFails, Release
<1>2. CASE NewBlank
  BY <1>2, PersistIsStorageStep DEF NewBlank
<1>3. CASE Initialised \/ PersistFails
  BY <1>3 DEF Initialised, PersistFails, StorageNext
<1>4. CASE Refresh
  <2>1. UNCHANGED storageVars \/ Persist(registry')
    BY <1>4 DEF Refresh
  <2>2. QED
    BY <2>1, PersistIsStorageStep
<1>5. CASE Publish \/ Bind \/ Confirm \/ BindingIsRefused
  BY <1>5, CommittedIsStorageStep
     DEF Publish, Bind, Confirm, BindingIsRefused, FinishRefresh
<1>6. CASE FileStep
  BY <1>6 DEF FileStep, StorageNext
<1>7. CASE Restart
  BY <1>7 DEF Restart, StorageNext
<1>8. CASE UNCHANGED vars
  BY <1>8 DEF vars
<1>9. QED
  BY <1>1, <1>2, <1>3, <1>4, <1>5, <1>6, <1>7, <1>8 DEF Next

(* Discovery uses the files of its registry as RegistryStorage says, so all *)
(* that is proved of the storage holds of discovery sessions.               *)
THEOREM DiscoveryImplementsStorage == Spec => StorageSpec
<1>1. Init => StorageInit
  BY DEF Init
<1>2. [Next]_vars => [StorageNext]_storageVars
  BY NextIsStorageStep
<1>3. QED
  BY <1>1, <1>2, PTL DEF Spec, StorageSpec

(* discovery.rs over identity.rs: whatever sessions observe and wherever a  *)
(* call fails or the process dies, with the current file intact a load      *)
(* returns what it returned before, or the registry being persisted.        *)
THEOREM DiscoveryReplacesAtomically == Spec => AtomicReplacement
  BY DiscoveryImplementsStorage, StorageReplacesAtomically

-----------------------------------------------------------------------------
(* The registry.                                                           *)

(* What apply_observations relies on and keeps: ids are of the registry's  *)
(* namespace and numbered up to the last number given out.                 *)
IdsGivenOut(r) ==
  \A id \in DOMAIN r.entries :
    id.namespace = r.namespace /\ id.sequence <= r.next_source_sequence

WellKept(r) == r \in Registries /\ IdsGivenOut(r) /\ UniqueContinuity(r)

\* What the registry may be before its revision is advanced.
Continued(r) ==
  {q \in Registries : /\ WellKept(q) /\ Extends(q, r)
                      /\ q.namespace = r.namespace /\ q.revision = r.revision}

\* The parts of a registry are typed.
LEMMA RegistryParts ==
  ASSUME NEW r \in Registries
  PROVE  /\ r.namespace \in Nat /\ r.revision \in Nat /\ r.next_source_sequence \in Nat
         /\ DOMAIN r.entries \in SUBSET SourceIds
         /\ r.entries \in [DOMAIN r.entries -> SourceRecords]
BY DEF Registries

\* A registry extends itself.
LEMMA ExtendsItself ==
  ASSUME NEW r \in Registries
  PROVE  Extends(r, r)
BY RegistryParts DEF Extends

\* What extends an extension extends the registry.
LEMMA ExtendsFurther ==
  ASSUME NEW r \in Registries, NEW q \in Registries, NEW p \in Registries,
         Extends(q, r), Extends(p, q)
  PROVE  Extends(p, r)
<1>1. p.revision \in Nat /\ q.revision \in Nat /\ r.revision \in Nat
  BY RegistryParts
<1> QED BY <1>1 DEF Extends

\* What continues a continuation continues the registry.
LEMMA ContinuedFurther ==
  ASSUME NEW r \in Registries, NEW q \in Continued(r), NEW p \in Continued(q)
  PROVE  p \in Continued(r)
BY ExtendsFurther DEF Continued

\* A well kept registry continues itself.
LEMMA ContinuedAsIs ==
  ASSUME NEW r, WellKept(r)
  PROVE  r \in Continued(r)
BY ExtendsItself DEF Continued, WellKept

\* New states and names for the ids there are, none brought back.
LEMMA EntriesRewritten ==
  ASSUME NEW r, WellKept(r), NEW e \in [DOMAIN r.entries -> SourceRecords],
         \A id \in DOMAIN r.entries :
           /\ e[id].continuity = r.entries[id].continuity
           /\ r.entries[id].state = "Retired" => e[id].state = "Retired"
  PROVE  [r EXCEPT !.entries = e] \in Continued(r)
<1> DEFINE q == [r EXCEPT !.entries = e]
<1>1. /\ r.namespace \in Nat /\ r.revision \in Nat /\ r.next_source_sequence \in Nat
      /\ DOMAIN r.entries \in SUBSET SourceIds
  BY RegistryParts DEF WellKept
<1>2. q = [namespace |-> r.namespace, revision |-> r.revision,
           next_source_sequence |-> r.next_source_sequence, entries |-> e]
  BY DEF WellKept, Registries
<1>3. q \in Registries
  BY <1>1, <1>2 DEF Registries
<1>4. /\ q.namespace = r.namespace /\ q.revision = r.revision
      /\ q.next_source_sequence = r.next_source_sequence /\ q.entries = e
      /\ DOMAIN e = DOMAIN r.entries
  BY <1>2
<1> HIDE DEF q
<1>5. IdsGivenOut(q)
  BY <1>4 DEF IdsGivenOut, WellKept
<1>6. UniqueContinuity(q)
  <2>1. \A id \in Unretired(q) : id \in Unretired(r)
    BY <1>4 DEF Unretired
  <2> QED BY <1>4, <2>1 DEF UniqueContinuity, WellKept, Unretired
<1>7. Extends(q, r)
  BY <1>1, <1>4 DEF Extends
<1> QED BY <1>3, <1>4, <1>5, <1>6, <1>7 DEF WellKept, Continued, q

\* To mark the sources that were not observed continues the registry.
LEMMA MarkAbsentContinues ==
  ASSUME NEW r, WellKept(r), NEW observed
  PROVE  MarkAbsent(r, observed) \in Continued(r)
<1> DEFINE e == [id \in DOMAIN r.entries |->
                   IF r.entries[id].state = "Live" /\ r.entries[id].continuity \notin observed
                   THEN [r.entries[id] EXCEPT !.state = "Absent"] ELSE r.entries[id]]
<1>1. r.entries \in [DOMAIN r.entries -> SourceRecords]
  BY RegistryParts DEF WellKept
<1>2. e \in [DOMAIN r.entries -> SourceRecords]
  BY <1>1 DEF SourceRecords, SourceStates
<1>3. \A id \in DOMAIN r.entries :
        /\ e[id].continuity = r.entries[id].continuity
        /\ r.entries[id].state = "Retired" => e[id].state = "Retired"
  BY <1>1 DEF SourceRecords
<1>4. MarkAbsent(r, observed) = [r EXCEPT !.entries = e]
  BY DEF MarkAbsent, WellKept, Registries
<1> HIDE DEF e
<1> QED BY <1>2, <1>3, <1>4, EntriesRewritten

\* To retire sources does, and retires exactly these.
LEMMA RetireContinues ==
  ASSUME NEW r, WellKept(r), NEW ids
  PROVE  /\ Retire(r, ids) \in Continued(r)
         /\ Unretired(Retire(r, ids)) = Unretired(r) \ ids
         /\ \A id \in DOMAIN r.entries :
              Retire(r, ids).entries[id].continuity = r.entries[id].continuity
<1> DEFINE e == [id \in DOMAIN r.entries |->
                   IF id \in ids THEN [r.entries[id] EXCEPT !.state = "Retired"]
                   ELSE r.entries[id]]
<1>1. r.entries \in [DOMAIN r.entries -> SourceRecords]
  BY RegistryParts DEF WellKept
<1>2. e \in [DOMAIN r.entries -> SourceRecords]
  BY <1>1 DEF SourceRecords, SourceStates
<1>3. \A id \in DOMAIN r.entries :
        /\ e[id].continuity = r.entries[id].continuity
        /\ e[id].state = IF id \in ids THEN "Retired" ELSE r.entries[id].state
  BY <1>1 DEF SourceRecords
<1>4. Retire(r, ids) = [r EXCEPT !.entries = e]
  BY DEF Retire, WellKept, Registries
<1>5. Retire(r, ids).entries = e /\ DOMAIN e = DOMAIN r.entries
  BY <1>4 DEF WellKept, Registries
<1> HIDE DEF e
<1>6. Retire(r, ids) \in Continued(r)
  BY <1>2, <1>3, <1>4, EntriesRewritten
<1>7. Unretired(Retire(r, ids)) = Unretired(r) \ ids
  BY <1>3, <1>5 DEF Unretired
<1> QED BY <1>3, <1>5, <1>6, <1>7

\* To recognise a source does.
LEMMA RecogniseContinues ==
  ASSUME NEW r, WellKept(r), NEW ids \in SUBSET Unretired(r), NEW name \in Names
  PROVE  Recognise(r, ids, name) \in Continued(r)
<1> DEFINE e == [id \in DOMAIN r.entries |->
                   IF id \in ids
                   THEN [r.entries[id] EXCEPT !.state = "Live", !.display_name = name]
                   ELSE r.entries[id]]
<1>1. r.entries \in [DOMAIN r.entries -> SourceRecords]
  BY RegistryParts DEF WellKept
<1>2. e \in [DOMAIN r.entries -> SourceRecords]
  BY <1>1 DEF SourceRecords, SourceStates
<1>3. \A id \in DOMAIN r.entries :
        /\ e[id].continuity = r.entries[id].continuity
        /\ r.entries[id].state = "Retired" => e[id].state = "Retired"
  BY <1>1 DEF SourceRecords, Unretired
<1>4. Recognise(r, ids, name) = [r EXCEPT !.entries = e]
  BY DEF Recognise, WellKept, Registries
<1> HIDE DEF e
<1> QED BY <1>2, <1>3, <1>4, EntriesRewritten

\* A new id has a number that no id had before.
LEMMA AllocateContinues ==
  ASSUME NEW r, WellKept(r), NEW c \in Continuities, NEW name \in Names, KnownAs(r, c) = {}
  PROVE  Allocate(r, c, name) \in Continued(r)
<1> DEFINE next == r.next_source_sequence + 1
           taken == {id.sequence : id \in {k \in DOMAIN r.entries :
                                             k.namespace = r.namespace}}
           sequence == CHOOSE n \in next .. next + Cardinality(taken) :
                         n \notin taken /\ next .. n - 1 \subseteq taken
           id == [namespace |-> r.namespace, sequence |-> next]
           record == [continuity |-> c, display_name |-> name, state |-> "Live"]
           e == [k \in DOMAIN r.entries \cup {id} |-> IF k = id THEN record ELSE r.entries[k]]
           q == [r EXCEPT !.next_source_sequence = next, !.entries = e]
<1>1. /\ r.namespace \in Nat /\ r.revision \in Nat /\ r.next_source_sequence \in Nat
      /\ DOMAIN r.entries \in SUBSET SourceIds
      /\ r.entries \in [DOMAIN r.entries -> SourceRecords]
  BY RegistryParts DEF WellKept
<1>2. \A n \in taken : n \in 0 .. r.next_source_sequence
  BY <1>1 DEF WellKept, IdsGivenOut, SourceIds
<1>3. Cardinality(taken) \in Nat
  <2>1. taken \in SUBSET (0 .. r.next_source_sequence)
    BY <1>2
  <2>2. IsFiniteSet(0 .. r.next_source_sequence)
    BY <1>1, FS_Interval
  <2> HIDE DEF taken
  <2> QED BY <2>1, <2>2, FS_Subset, FS_CardinalityType
<1>4. sequence = next
  <2> HIDE DEF taken
  <2>1. /\ next \in next .. next + Cardinality(taken) /\ next \notin taken
        /\ next .. next - 1 \subseteq taken
    BY <1>1, <1>2, <1>3
  <2>2. ASSUME NEW n \in next .. next + Cardinality(taken),
               n \notin taken, next .. n - 1 \subseteq taken
        PROVE  n = next
    <3> SUFFICES ASSUME n # next PROVE FALSE
      OBVIOUS
    <3>1. next \in next .. n - 1
      BY <1>1, <1>3
    <3> QED BY <2>1, <2>2, <3>1
  <2> QED BY <2>1, <2>2
<1>5. id \in SourceIds /\ id \notin DOMAIN r.entries
  BY <1>1 DEF SourceIds, WellKept, IdsGivenOut
<1>6. Allocate(r, c, name) = q
  BY <1>4, <1>5 DEF Allocate, WellKept, Registries
<1>8. DOMAIN r.entries \cup {id} \in SUBSET SourceIds
      /\ e \in [DOMAIN r.entries \cup {id} -> SourceRecords]
  BY <1>1, <1>5 DEF SourceRecords, SourceStates
<1>9. /\ DOMAIN e = DOMAIN r.entries \cup {id}
      /\ e[id].continuity = c /\ \A k \in DOMAIN r.entries : e[k] = r.entries[k]
  BY <1>5
<1>7. q = [namespace |-> r.namespace, revision |-> r.revision,
           next_source_sequence |-> next, entries |-> e]
  <2> DEFINE s == [r EXCEPT !.next_source_sequence = next]
  <2> HIDE DEF e, next
  <2>1. s = [namespace |-> r.namespace, revision |-> r.revision,
             next_source_sequence |-> next, entries |-> r.entries]
    BY DEF WellKept, Registries
  <2>2. q = [s EXCEPT !.entries = e]
    BY DEF WellKept, Registries
  <2> HIDE DEF s
  <2> QED BY <2>1, <2>2
<1> HIDE DEF e
<1>10. next \in Nat /\ next > r.next_source_sequence
       /\ id.namespace = r.namespace /\ id.sequence = next
  BY <1>1
<1>11. q \in Registries
  BY <1>1, <1>7, <1>8, <1>10 DEF Registries
<1>12. /\ q.namespace = r.namespace /\ q.revision = r.revision
       /\ q.next_source_sequence = next /\ q.entries = e
  BY <1>7
<1> HIDE DEF q, id, next
<1>13. IdsGivenOut(q)
  <2>1. ASSUME NEW k \in DOMAIN r.entries
        PROVE  k.namespace = q.namespace /\ k.sequence <= next
    <3>1. k.namespace = r.namespace /\ k.sequence <= r.next_source_sequence
      BY DEF WellKept, IdsGivenOut
    <3>2. k.sequence \in Nat
      BY <1>1 DEF SourceIds
    <3> QED BY <1>1, <1>10, <1>12, <3>1, <3>2
  <2> QED BY <1>9, <1>10, <1>12, <2>1 DEF IdsGivenOut
<1>14. UniqueContinuity(q)
  <2>1. \A k \in DOMAIN r.entries : k \in Unretired(q) <=> k \in Unretired(r)
    BY <1>9, <1>12 DEF Unretired
  <2>2. \A k \in Unretired(q) : k = id \/ k \in Unretired(r)
    BY <1>9, <1>12, <2>1 DEF Unretired
  <2>3. \A k \in Unretired(r) : q.entries[k].continuity = r.entries[k].continuity
                                /\ r.entries[k].continuity # c
    BY <1>9, <1>12 DEF Unretired, KnownAs
  <2>4. \A i, j \in Unretired(r) :
          r.entries[i].continuity = r.entries[j].continuity => i = j
    BY DEF WellKept, UniqueContinuity
  <2> QED BY <1>9, <1>12, <2>2, <2>3, <2>4 DEF UniqueContinuity
<1>15. Extends(q, r)
  BY <1>1, <1>9, <1>12 DEF Extends
<1> QED BY <1>6, <1>11, <1>12, <1>13, <1>14, <1>15 DEF WellKept, Continued

\* To observe a source with stable evidence does.
LEMMA ObserveStableContinues ==
  ASSUME NEW r, WellKept(r), NEW c \in Continuities, NEW name \in Names, NEW observed
  PROVE  ObserveStable(r, c, name, observed) \in Continued(r)
<1>1. CASE KnownAs(r, c) # {}
  <2>1. KnownAs(r, c) \in SUBSET Unretired(r)
    BY DEF KnownAs
  <2> QED BY <1>1, <2>1, RecogniseContinues DEF ObserveStable
<1>2. CASE KnownAs(r, c) = {}
  <2> DEFINE losers == ReuseCandidates(r, c, observed)
             q == IF Cardinality(losers) = 1 THEN Retire(r, losers) ELSE r
  <2>1. q \in Continued(r)
    BY RetireContinues, ContinuedAsIs
  <2>2. Unretired(Retire(r, losers)) \subseteq Unretired(r)
        /\ \A id \in Unretired(r) :
             Retire(r, losers).entries[id].continuity = r.entries[id].continuity
    BY RetireContinues DEF Unretired
  <2>3. KnownAs(q, c) = {}
    BY <1>2, <2>2 DEF KnownAs
  <2>4. ObserveStable(r, c, name, observed) = Allocate(q, c, name)
    BY <1>2 DEF ObserveStable
  <2> HIDE DEF q
  <2>5. WellKept(q)
    BY <2>1 DEF Continued
  <2>6. Allocate(q, c, name) \in Continued(q)
    BY <2>3, <2>5, AllocateContinues
  <2> QED BY <2>1, <2>4, <2>5, <2>6, ContinuedFurther DEF WellKept
<1> QED BY <1>1, <1>2

\* To observe any source does.
LEMMA ObserveContinues ==
  ASSUME NEW r, WellKept(r), NEW observation \in SourceObservations, NEW observed
  PROVE  Observe(r, observation, observed) \in Continued(r)
<1> DEFINE seen == observation.continuity
<1>1. observation.display_name \in Names /\ seen \in ObservedContinuities
  BY DEF SourceObservations
<1>2. CASE seen.kind = "Stable"
  <2>1. (CHOOSE c \in seen.evidence : TRUE) \in Continuities
    BY <1>1, <1>2 DEF ObservedContinuities
  <2> QED BY <1>1, <1>2, <2>1, ObserveStableContinues DEF Observe
<1>3. CASE seen.kind = "Ambiguous"
  BY <1>3, RetireContinues DEF Observe
<1>4. CASE seen.kind = "Unknown"
  BY <1>4, ContinuedAsIs DEF Observe
<1> QED BY <1>1, <1>2, <1>3, <1>4 DEF ObservedContinuities

\* Whatever is observed, one observation after the other.
LEMMA ObserveAllContinues ==
  ASSUME NEW r, WellKept(r), NEW observations \in Seq(SourceObservations), NEW observed
  PROVE  ObserveAll(r, observations, observed) \in Continued(r)
<1> DEFINE last == Len(observations)
           start == MarkAbsent(r, observed)
           step == [x \in Continued(r) \X (1 .. last) |->
                      Observe(x[1], observations[x[2]], observed)]
           after == CHOOSE f : f = [n \in 0 .. last |->
                      IF n = 0 THEN start ELSE Observe(f[n - 1], observations[n], observed)]
<1>1. last \in Nat /\ \A n \in 1 .. last : observations[n] \in SourceObservations
  BY LenProperties, ElementOfSeq
<1>2. start \in Continued(r)
  BY MarkAbsentContinues
<1>3. ASSUME NEW q \in Continued(r), NEW n \in 1 .. last
      PROVE  Observe(q, observations[n], observed) \in Continued(r)
  <2>1. WellKept(q)
    BY DEF Continued
  <2>2. Observe(q, observations[n], observed) \in Continued(q)
    BY <1>1, <2>1, ObserveContinues
  <2> QED BY <2>1, <2>2, ContinuedFurther DEF WellKept
<1>4. step \in [Continued(r) \X (1 .. last) -> Continued(r)]
  BY <1>3
<1>5. ASSUME NEW q \in Continued(r), NEW n \in 1 .. last
      PROVE  step[<<q, n>>] = Observe(q, observations[n], observed)
  OBVIOUS
<1>6. ObserveAll(r, observations, observed) = after[last]
  BY DEF ObserveAll
<1> HIDE DEF last, start, step
<1>7. PICK f : Iterates(f, Continued(r), last, start, step)
  BY <1>1, <1>2, <1>4, IterationIsDefined
<1>8. /\ f \in [0 .. last -> Continued(r)] /\ f[0] = start
      /\ \A n \in 1 .. last : f[n] = step[<<f[n - 1], n>>]
  BY <1>7 DEF Iterates
<1>9. ASSUME NEW n \in 1 .. last
      PROVE  f[n - 1] \in Continued(r) /\ f[n] = Observe(f[n - 1], observations[n], observed)
  <2>1. n - 1 \in 0 .. last
    BY <1>1
  <2> QED BY <1>5, <1>8, <2>1
<1>10. f = [n \in 0 .. last |->
             IF n = 0 THEN start ELSE Observe(f[n - 1], observations[n], observed)]
  BY <1>8, <1>9
<1>11. after = [n \in 0 .. last |->
             IF n = 0 THEN start ELSE Observe(after[n - 1], observations[n], observed)]
  BY <1>10
<1> HIDE DEF after
<1>12. after[0] = f[0]
  BY <1>1, <1>8, <1>11
<1>13. ASSUME NEW n \in 1 .. last, after[n - 1] = f[n - 1]
       PROVE  after[n] = f[n]
  BY <1>1, <1>9, <1>11, <1>13
<1>14. after[last] = f[last]
  BY <1>1, <1>12, <1>13, IterationsAgree
<1> QED BY <1>1, <1>6, <1>8, <1>14

-----------------------------------------------------------------------------
(* A refresh.                                                              *)

\* The active endpoints of an enumeration are observations.
LEMMA ActiveIsTyped ==
  ASSUME NEW endpoints \in Enumerations
  PROVE  Active(endpoints) \in Seq(Observations)
<1> DEFINE last == Len(endpoints)
           S == Seq(Observations)
           step == [x \in S \X (1 .. last) |-> IfActive(x[1], endpoints[x[2]])]
           active == CHOOSE f : f = [n \in 0 .. last |->
                       IF n = 0 THEN <<>> ELSE IfActive(f[n - 1], endpoints[n])]
<1>1. last \in Nat /\ \A n \in 1 .. last : endpoints[n] \in Observations
  <2>1. PICK m \in Nat : endpoints \in [1 .. m -> Observations]
    BY DiscoveryAssumption DEF Enumerations
  <2>2. endpoints \in Seq(Observations)
    BY <2>1, SeqDef
  <2> QED BY <2>2, LenProperties, ElementOfSeq
<1>2. <<>> \in S
  OBVIOUS
<1>3. ASSUME NEW q \in S, NEW n \in 1 .. last
      PROVE  IfActive(q, endpoints[n]) \in S
  BY <1>1, AppendProperties DEF IfActive
<1>4. step \in [S \X (1 .. last) -> S]
  BY <1>3
<1>5. ASSUME NEW q \in S, NEW n \in 1 .. last
      PROVE  step[<<q, n>>] = IfActive(q, endpoints[n])
  OBVIOUS
<1>6. Active(endpoints) = active[last]
  BY DEF Active
<1> HIDE DEF last, step, S
<1>7. PICK f : Iterates(f, S, last, <<>>, step)
  BY <1>1, <1>2, <1>4, IterationIsDefined
<1>8. /\ f \in [0 .. last -> S] /\ f[0] = <<>>
      /\ \A n \in 1 .. last : f[n] = step[<<f[n - 1], n>>]
  BY <1>7 DEF Iterates
<1>9. ASSUME NEW n \in 1 .. last
      PROVE  f[n] = IfActive(f[n - 1], endpoints[n])
  <2>1. n - 1 \in 0 .. last
    BY <1>1
  <2> QED BY <1>5, <1>8, <2>1
<1>10. f = [n \in 0 .. last |->
              IF n = 0 THEN <<>> ELSE IfActive(f[n - 1], endpoints[n])]
  BY <1>8, <1>9
<1>11. active = [n \in 0 .. last |->
              IF n = 0 THEN <<>> ELSE IfActive(active[n - 1], endpoints[n])]
  BY <1>10
<1> HIDE DEF active
<1>12. active[0] = f[0]
  BY <1>1, <1>8, <1>11
<1>13. ASSUME NEW n \in 1 .. last, active[n - 1] = f[n - 1]
       PROVE  active[n] = f[n]
  BY <1>1, <1>9, <1>11, <1>13
<1>14. active[last] = f[last]
  BY <1>1, <1>12, <1>13, IterationsAgree
<1> QED BY <1>1, <1>6, <1>8, <1>14 DEF S

\* Every active endpoint has a name and its continuity.
LEMMA ActiveEndpoint ==
  ASSUME NEW active \in Seq(Observations), NEW i \in DOMAIN active
  PROVE  /\ active[i].display_name \in Names /\ active[i].continuity \in ObservedContinuities
         /\ i \in 1 .. Len(active) /\ Len(active) \in Nat
<1>1. i \in 1 .. Len(active) /\ Len(active) \in Nat
  BY LenProperties
<1>2. active[i] \in Observations
  BY <1>1, ElementOfSeq
<1> QED BY <1>1, <1>2, DiscoveryAssumption

\* What the registry is given of them are its observations.
LEMMA ObservationsAreTyped ==
  ASSUME NEW active \in Seq(Observations)
  PROVE  RegistryObservations(active) \in Seq(SourceObservations)
<1>1. ASSUME NEW i \in DOMAIN active
      PROVE  RegistryObservations(active)[i] \in SourceObservations
  <2>1. active[i].display_name \in Names /\ active[i].continuity \in ObservedContinuities
    BY ActiveEndpoint
  <2>2. active[i].continuity.kind = "Stable" =>
          [active[i].continuity EXCEPT !.kind = "Ambiguous"] \in ObservedContinuities
    BY <2>1 DEF ObservedContinuities
  <2> QED BY <2>1, <2>2 DEF RegistryObservations, SourceObservations
<1>2. DOMAIN RegistryObservations(active) = 1 .. Len(active) /\ Len(active) \in Nat
      /\ DOMAIN active = 1 .. Len(active)
  BY LenProperties DEF RegistryObservations
<1>3. RegistryObservations(active) \in [1 .. Len(active) -> SourceObservations]
  BY <1>1, <1>2 DEF RegistryObservations
<1> QED BY <1>2, <1>3, SeqDef

\* The revision goes up by one, and nothing else is lost.
LEMMA AdvancedContinues ==
  ASSUME NEW r, WellKept(r), NEW q \in Continued(r)
  PROVE  /\ WellKept(AdvanceRevision(q)) /\ Extends(AdvanceRevision(q), r)
         /\ AdvanceRevision(q).namespace = r.namespace
         /\ AdvanceRevision(q).revision = r.revision + 1
<1> DEFINE p == AdvanceRevision(q)
<1>1. /\ q \in Registries /\ IdsGivenOut(q) /\ UniqueContinuity(q) /\ Extends(q, r)
      /\ q.namespace = r.namespace /\ q.revision = r.revision
  BY DEF Continued, WellKept
<1>2. q.revision \in Nat /\ r.revision \in Nat
  BY <1>1, RegistryParts
<1>3. /\ p \in Registries /\ p.namespace = q.namespace /\ p.revision = q.revision + 1
      /\ p.next_source_sequence = q.next_source_sequence /\ p.entries = q.entries
  BY <1>1, <1>2 DEF AdvanceRevision, Registries
<1> HIDE DEF p
<1>4. IdsGivenOut(p) /\ UniqueContinuity(p)
  BY <1>1, <1>3 DEF IdsGivenOut, UniqueContinuity, Unretired
<1>5. Extends(p, r)
  BY <1>1, <1>2, <1>3 DEF Extends
<1> QED BY <1>1, <1>3, <1>4, <1>5 DEF WellKept, p

(* The registry after a refresh is the one before or has the next revision, *)
(* which it always has after the first refresh of a session.                *)
LEMMA RefreshContinues ==
  ASSUME NEW r, WellKept(r), NEW active \in Seq(Observations)
  PROVE  /\ WellKept(Refreshed(r, active)) /\ Extends(Refreshed(r, active), r)
         /\ Refreshed(r, active).namespace = r.namespace
         /\ \/ Refreshed(r, active) = r /\ last_snapshot # None
            \/ Refreshed(r, active).revision = r.revision + 1
<1> DEFINE observations == RegistryObservations(active)
           result == ObserveAll(r, observations, StableEvidence(observations))
           after == ApplyObservations(r, observations)
<1>1. result \in Continued(r)
  BY ObservationsAreTyped, ObserveAllContinues
<1>2. after = IF result = r THEN r ELSE AdvanceRevision(result)
  BY DEF ApplyObservations
<1>3. Refreshed(r, active) =
        IF RevisionIsStale(r, after, active) THEN AdvanceRevision(after) ELSE after
  BY DEF Refreshed
<1>4. RevisionIsStale(r, after, active) => after = r
  BY DEF RevisionIsStale
<1>5. after = r /\ last_snapshot = None => RevisionIsStale(r, after, active)
  BY DEF RevisionIsStale
<1> HIDE DEF observations, result, after
<1>6. r \in Continued(r)
  BY ContinuedAsIs
<1>7. CASE RevisionIsStale(r, after, active)
  BY <1>3, <1>4, <1>6, <1>7, AdvancedContinues
<1>8. CASE ~ RevisionIsStale(r, after, active) /\ after = r
  BY <1>3, <1>5, <1>6, <1>8 DEF Continued
<1>9. CASE ~ RevisionIsStale(r, after, active) /\ after # r
  <2>1. Refreshed(r, active) = AdvanceRevision(result)
    BY <1>2, <1>3, <1>9
  <2> QED BY <1>1, <2>1, AdvancedContinues
<1> QED BY <1>7, <1>8, <1>9

\* from_persisted restores what was written.
LEMMA LoadedAsWritten ==
  ASSUME NEW r, WellKept(r)
  PROVE  FromPersisted(r) = r
<1> DEFINE next == r.next_source_sequence
           numbers == {next} \cup {id.sequence : id \in DOMAIN r.entries}
<1>1. next \in Nat /\ \A n \in numbers : n \in Nat /\ n <= next
  BY RegistryParts DEF WellKept, IdsGivenOut, SourceIds
<1>2. Greatest(numbers) = next
  <2>1. next \in numbers
    OBVIOUS
  <2> HIDE DEF numbers, next
  <2>2. \A n \in numbers : (\A m \in numbers : m <= n) => n = next
    BY <1>1, <2>1
  <2> QED BY <1>1, <2>1, <2>2 DEF Greatest
<1>3. FromPersisted(r) = [r EXCEPT !.next_source_sequence = Greatest(numbers)]
  BY DEF FromPersisted, WellKept, Registries
<1> QED BY <1>2, <1>3 DEF WellKept, Registries

\* The ids found for an endpoint are of unretired sources with its evidence.
LEMMA KnownIds ==
  ASSUME NEW r \in Registries, NEW seen \in ObservedContinuities, NEW id \in SourceIdsFor(r, seen)
  PROVE  /\ id \in Unretired(r) /\ id \in DOMAIN r.entries /\ seen.kind = "Stable"
         /\ seen = [kind |-> "Stable", evidence |-> {r.entries[id].continuity}]
<1>1. seen.kind = "Stable"
  BY DEF SourceIdsFor
<1>2. PICK c \in Continuities : seen = [kind |-> "Stable", evidence |-> {c}]
  BY <1>1 DEF ObservedContinuities
<1>3. id \in KnownAs(r, c)
  BY <1>1, <1>2 DEF SourceIdsFor
<1> QED BY <1>2, <1>3 DEF KnownAs, Unretired

\* The snapshot of a registry is a snapshot.
LEMMA SnapshotIsTyped ==
  ASSUME NEW r \in Registries, NEW active \in Seq(Observations)
  PROVE  SnapshotOf(r, active) \in Snapshots
<1>1. /\ DOMAIN r.entries \in SUBSET SourceIds
      /\ \A id \in DOMAIN r.entries : /\ r.entries[id].continuity \in Continuities
                                      /\ r.entries[id].display_name \in Names
  BY RegistryParts DEF SourceRecords
<1>2. Identity(r) \in Identities
  BY RegistryParts DEF Identity, Identities
<1>3. \A i \in Describable(active) : i \in DOMAIN active
  BY DEF Describable
<1>4. \A i \in Describable(active) :
        \A id \in SourceIdsFor(r, active[i].continuity) : id \in DOMAIN r.entries
  BY <1>3, ActiveEndpoint, KnownIds
<1>5. DefaultSourceIds(r, active) \in SUBSET SourceIds
  BY <1>1, <1>4 DEF DefaultSourceIds
<1>6. Bindings(r, active) \in SUBSET [identity : Identities, source_id : SourceIds,
                                      endpoint_id : {c.backend_key : c \in Continuities}]
  <2>1. ASSUME NEW id \in DOMAIN r.entries
        PROVE  BindingOf(r, id) \in [identity : Identities, source_id : SourceIds,
                                     endpoint_id : {c.backend_key : c \in Continuities}]
    BY <1>1, <1>2 DEF BindingOf
  <2> QED BY <1>4, <2>1 DEF Bindings
<1>7. Sources(r, active) \in SUBSET [source_id : SourceIds, display_name : Names,
                                     is_available : BOOLEAN, is_default_playback : BOOLEAN]
  <2>1. ASSUME NEW id \in DOMAIN r.entries
        PROVE  Descriptor(r, id, id \in DefaultSourceIds(r, active)) \in
                 [source_id : SourceIds, display_name : Names,
                  is_available : BOOLEAN, is_default_playback : BOOLEAN]
    BY <1>1 DEF Descriptor
  <2> QED BY <2>1 DEF Sources, Unretired
<1> QED BY <1>2, <1>5, <1>6, <1>7 DEF SnapshotOf, Snapshots

\* Sources that are shown have ids the registry knows.
LEMMA ShownIds ==
  ASSUME NEW r \in Registries, NEW active, NEW s \in SnapshotOf(r, active).sources
  PROVE  s.source_id \in DOMAIN r.entries
BY DEF SnapshotOf, Sources, Descriptor, Unretired

-----------------------------------------------------------------------------
(* Sessions.                                                               *)

\* A registry as some refresh of the namespace left it, before or after the one
\* that was published.
Good(r) ==
  /\ WellKept(r)
  /\ r.namespace \in 1 .. namespaces
  /\ published # None /\ r.namespace = published.registry.namespace =>
       Extends(r, published.registry)

\* What a load may find, and that a finished persist is in both files it reads.
ImagesInv ==
  /\ \A i \in {image, current.image, backup.image} : i # None => Good(i)
  /\ writing = "Idle" => image = None
  /\ writing \in {"SyncCurrent", "Done"} => current.image = image
  /\ writing = "Done" => backup.image = image /\ image # None

Open == at \in {"Initialising", "Refresh", "Revalidate", "Published", "Started"}

\* A persist is under way only within a refresh, and is of the open registry.
SessionInv ==
  /\ namespaces \in Nat
  /\ ~ Open => registry = None /\ writing = "Idle"
  /\ Open => Good(registry)
  /\ at \notin {"Refresh", "Revalidate"} => draft = None
  /\ at \in {"Idle", "Opening", "Initialising", "Refresh"} => last_snapshot = None
  /\ at \in {"Refresh", "Revalidate"} =>
       /\ draft = None => writing = "Idle"
       /\ writing # "Idle" => image = registry
  /\ at = "Refresh" /\ draft # None => writing # "Idle"
  /\ at = "Revalidate" => intent.kind # "Discover"
  /\ at \in {"Published", "Started"} => writing = "Idle"

\* A binding or a snapshot that was given out is of a registry that is committed.
CommitInv ==
  /\ at \in {"Revalidate", "Published", "Started"} /\ writing = "Idle" => Loaded = registry
  /\ at = "Published" => current.image = registry /\ backup.image = registry

\* Every session takes the revision past the one that was published.
AheadInv ==
  /\ Open /\ published # None
  /\ at \in {"Revalidate", "Published", "Started"} \/ draft # None
  /\ registry.namespace = published.registry.namespace
  => registry.revision > published.registry.revision

SnapshotInv ==
  /\ draft # None =>
       /\ draft = SnapshotOf(registry, enumerated)
       /\ enumerated \in Seq(Observations)
       /\ Cardinality(DefaultClaims(enumerated)) <= 1
  /\ at = "Published" => last_snapshot = SnapshotOf(registry, enumerated)

PublishedInv ==
  published # None =>
    /\ WellKept(published.registry)
    /\ published.registry.namespace \in 1 .. namespaces
    /\ published.snapshot.identity = Identity(published.registry)
    /\ \A s \in published.snapshot.sources :
         s.source_id \in DOMAIN published.registry.entries

\* An explicit intent names a source that was published.
IntentInv ==
  /\ Open \/ at = "Opening"
  /\ intent.kind = "Explicit"
  =>  published # None /\ intent.source_id \in DOMAIN published.registry.entries

DiscoveryInv ==
  /\ StorageInv
  /\ ImagesInv
  /\ SessionInv
  /\ CommitInv
  /\ AheadInv
  /\ SnapshotInv
  /\ PublishedInv
  /\ IntentInv
  /\ StartedOnTheIntendedSource

\* What is good stays good while no consumer takes another snapshot.
LEMMA StaysGood ==
  ASSUME NEW r, Good(r), published' = published, namespaces \in Nat, namespaces' \in Nat,
         namespaces <= namespaces'
  PROVE  Good(r)'
<1>1. r.namespace \in 1 .. namespaces'
  BY DEF Good
<1> QED BY <1>1 DEF Good

\* A good registry is typed and well kept.
LEMMA GoodParts ==
  ASSUME NEW r, Good(r)
  PROVE  WellKept(r) /\ r \in Registries /\ r.revision \in Nat /\ r.namespace \in Nat
BY RegistryParts DEF Good, WellKept

\* The files only ever hold what they held and the image being written.
LEMMA FilesHold ==
  ASSUME StorageInv,
         PersistStep \/ CallFails \/ Return \/ Crash \/ UNCHANGED storageVars
  PROVE  /\ image' \in {image, None}
         /\ current'.image \in {image, current.image, None}
         /\ backup'.image \in {image, backup.image, None}
<1>1. CASE CopyBackup
  BY <1>1 DEF CopyBackup, StorageInv, CandidateWritten, Copies, Unsynced
<1>2. CASE RenameCandidate
  BY <1>2 DEF RenameCandidate, StorageInv, CandidateWritten, Copies
<1>3. CASE SyncCurrent
  <2>1. current'.image = current.image
    BY <1>3 DEF SyncCurrent
  <2> QED BY <1>3, <2>1 DEF SyncCurrent
<1>4. CASE \/ CreateCandidate \/ WriteCandidate \/ SyncCandidate \/ RemoveBackup
           \/ RemoveCurrent
  BY <1>4 DEF CreateCandidate, WriteCandidate, SyncCandidate, RemoveBackup, RemoveCurrent,
              Missing
<1>5. CASE CallFails
  BY <1>5 DEF CallFails, Unparsable
<1>6. CASE Return \/ UNCHANGED storageVars
  BY <1>6 DEF Return, storageVars, files
<1>7. CASE Crash
  BY <1>7 DEF Crash, AfterCrash, Unparsable
<1> QED BY <1>1, <1>2, <1>3, <1>4, <1>5, <1>6, <1>7 DEF PersistStep

\* While no persist begins, what a load may find is what it might before.
LEMMA ImagesKept ==
  ASSUME StorageInv, ImagesInv, namespaces \in Nat, UNCHANGED <<namespaces, published>>,
         PersistStep \/ CallFails \/ Return \/ Crash \/ UNCHANGED storageVars
  PROVE  ImagesInv'
<1>1. \A i \in {image, current.image, backup.image} : i # None => Good(i)
  BY DEF ImagesInv
<1>2. \A i \in {image', current'.image, backup'.image} :
        i \in {image, current.image, backup.image} \cup {None}
  BY FilesHold
<1>3. ASSUME NEW i \in {image', current'.image, backup'.image}, i # None
      PROVE  Good(i)'
  <2>1. Good(i)
    BY <1>1, <1>2, <1>3
  <2> QED BY <2>1, StaysGood
<1>4. writing' = "Idle" => image' = None
  BY DEF PersistStep, CreateCandidate, WriteCandidate, SyncCandidate, RemoveBackup, CopyBackup,
         RemoveCurrent, RenameCandidate, SyncCurrent, CallFails, Return, Crash, storageVars,
         ImagesInv
<1>5. /\ writing' \in {"SyncCurrent", "Done"} => current'.image = image'
      /\ writing' = "Done" => backup'.image = image' /\ image' # None
  <2>1. CASE RenameCandidate
    BY <2>1 DEF RenameCandidate, StorageInv, CandidateWritten, Copies
  <2>2. CASE SyncCurrent
    <3>1. writing = "SyncCurrent" /\ current'.image = current.image
      BY <2>2 DEF SyncCurrent
    <3> QED BY <2>2, <3>1
            DEF SyncCurrent, StorageInv, BackupWritten, ImageGiven, PersistSteps, Copies, ImagesInv
  <2>3. CASE \/ CreateCandidate \/ WriteCandidate \/ SyncCandidate \/ RemoveBackup
             \/ CopyBackup \/ RemoveCurrent \/ CallFails \/ Return \/ Crash
    BY <2>3 DEF CreateCandidate, WriteCandidate, SyncCandidate, RemoveBackup, CopyBackup,
                RemoveCurrent, CallFails, Return, Crash
  <2>4. CASE UNCHANGED storageVars
    BY <2>4 DEF storageVars, files, ImagesInv
  <2> QED BY <2>1, <2>2, <2>3, <2>4 DEF PersistStep
<1> QED BY <1>3, <1>4, <1>5 DEF ImagesInv

\* A persist begins, of a registry that is good.
LEMMA ImagesBegun ==
  ASSUME ImagesInv, namespaces \in Nat, namespaces' \in Nat, namespaces <= namespaces',
         published' = published, NEW r, Good(r)', Persist(r)
  PROVE  ImagesInv'
<1>1. \A i \in {current.image, backup.image} : i # None => Good(i)
  BY DEF ImagesInv
<1>2. /\ image' = r /\ current' = current /\ backup' = backup /\ writing' = "CreateCandidate"
  BY DEF Persist, files
<1>3. ASSUME NEW i \in {current.image, backup.image}, i # None
      PROVE  Good(i)'
  <2>1. Good(i)
    BY <1>1, <1>3
  <2> QED BY <2>1, StaysGood
<1>4. ASSUME NEW i \in {image', current'.image, backup'.image}, i # None
      PROVE  Good(i)'
  BY <1>2, <1>3, <1>4
<1> QED BY <1>2, <1>4 DEF ImagesInv

\* The lock is released, and nothing is being written.
LEMMA EndsWell ==
  ASSUME DiscoveryInv, EndSession, writing' = "Idle", UNCHANGED <<namespaces, published>>
  PROVE  /\ SessionInv' /\ CommitInv' /\ AheadInv' /\ SnapshotInv' /\ PublishedInv'
         /\ IntentInv' /\ StartedOnTheIntendedSource'
<1>1. SessionInv' /\ CommitInv' /\ AheadInv' /\ SnapshotInv' /\ IntentInv'
      /\ StartedOnTheIntendedSource'
  BY DEF DiscoveryInv, EndSession, SessionInv, CommitInv, AheadInv, SnapshotInv, IntentInv,
         StartedOnTheIntendedSource, Open
<1>2. PublishedInv'
  BY DEF DiscoveryInv, PublishedInv
<1> QED BY <1>1, <1>2

\* The registry is opened: what a load finds is good, and so is a new one.
LEMMA OpeningKeeps ==
  ASSUME DiscoveryInv, Begin \/ Load \/ NewBlank \/ Initialised
  PROVE  DiscoveryInv'
<1>1. CASE Begin
  <2>1. /\ at = "Idle" /\ at' = "Opening" /\ UNCHANGED storageVars
        /\ UNCHANGED <<registry, namespaces, draft, last_snapshot, binding, enumerated,
                       published>>
    BY <1>1 DEF Begin
  <2>2. StorageInv' /\ ImagesInv'
    BY <2>1, StorageInvNext, ImagesKept DEF DiscoveryInv, SessionInv
  <2>3. intent'.kind = "Explicit" =>
          published # None /\ \E s \in published.snapshot.sources :
                                intent'.source_id = s.source_id
    BY <1>1 DEF Begin
  <2>4. IntentInv'
    BY <2>1, <2>3 DEF IntentInv, DiscoveryInv, PublishedInv
  <2>5. SessionInv' /\ CommitInv' /\ AheadInv' /\ SnapshotInv' /\ PublishedInv'
        /\ StartedOnTheIntendedSource'
    BY <2>1 DEF DiscoveryInv, SessionInv, CommitInv, AheadInv, SnapshotInv, PublishedInv,
                StartedOnTheIntendedSource, Open, storageVars
  <2> QED BY <2>2, <2>4, <2>5 DEF DiscoveryInv
<1>2. CASE Load
  <2>1. /\ at = "Opening" /\ at' = "Refresh" /\ UNCHANGED storageVars
        /\ UNCHANGED <<namespaces, published, intent, draft, last_snapshot, binding, enumerated>>
    BY <1>2 DEF Load, sessionVars
  <2>2. StorageInv' /\ ImagesInv'
    BY <2>1, StorageInvNext, ImagesKept DEF DiscoveryInv, SessionInv
  <2>3. PICK loaded \in LoadOutcomes \ {None} : registry' = FromPersisted(loaded)
    BY <1>2 DEF Load
  <2>4. Good(loaded)
    BY <2>3 DEF LoadOutcomes, Loaded, DiscoveryInv, ImagesInv
  <2>5. registry' = loaded
    BY <2>3, <2>4, LoadedAsWritten, GoodParts
  <2>6. Good(registry)'
    <3>1. Good(loaded)'
      BY <2>1, <2>4, StaysGood DEF DiscoveryInv, SessionInv
    <3> QED BY <2>5, <3>1 DEF Good
  <2>7. SessionInv'
    BY <2>1, <2>6 DEF DiscoveryInv, SessionInv, Open, storageVars
  <2>8. CommitInv' /\ AheadInv' /\ SnapshotInv' /\ PublishedInv' /\ IntentInv'
        /\ StartedOnTheIntendedSource'
    BY <2>1 DEF DiscoveryInv, SessionInv, CommitInv, AheadInv, SnapshotInv, PublishedInv,
                IntentInv, StartedOnTheIntendedSource, Open, storageVars
  <2> QED BY <2>2, <2>7, <2>8 DEF DiscoveryInv
<1>3. CASE NewBlank
  <2> PICK blank : blank = BlankRegistry(namespaces + 1)
    OBVIOUS
  <2>1. /\ at = "Opening" /\ at' = "Initialising" /\ namespaces' = namespaces + 1
        /\ registry' = blank /\ Persist(blank) /\ writing' = "CreateCandidate"
        /\ UNCHANGED <<published, intent, draft, last_snapshot, binding, enumerated>>
    BY <1>3 DEF NewBlank, sessionVars, Persist
  <2>2. namespaces \in Nat /\ namespaces' \in Nat /\ namespaces <= namespaces'
    BY <2>1 DEF DiscoveryInv, SessionInv
  <2>3. WellKept(blank)
    <3>1. blank.entries = <<>> /\ DOMAIN blank.entries = {}
      BY DEF BlankRegistry
    <3>2. PICK e : e = <<>>
      OBVIOUS
    <3>3. e \in [{} -> SourceRecords]
      BY <3>2
    <3>4. blank = [namespace |-> namespaces + 1, revision |-> 1, next_source_sequence |-> 0,
                   entries |-> e]
      BY <3>2 DEF BlankRegistry
    <3> HIDE <3>2
    <3>5. blank \in Registries
      <4>1. \E ids \in SUBSET SourceIds : e \in [ids -> SourceRecords]
        <5>1. {} \in SUBSET SourceIds
          OBVIOUS
        <5> QED BY <3>3, <5>1
      <4>2. namespaces + 1 \in Nat
        BY <2>2
      <4>3. e \in UNION {[ids -> SourceRecords] : ids \in SUBSET SourceIds}
        BY <4>1
      <4> QED BY <3>4, <4>2, <4>3 DEF Registries
    <3> QED BY <3>1, <3>5 DEF WellKept, IdsGivenOut, UniqueContinuity, Unretired
  <2>4. blank.namespace = namespaces'
    BY <2>1 DEF BlankRegistry
  <2>5. Good(blank)'
    <3>1. published # None => published.registry.namespace # namespaces'
      BY <2>1, <2>2 DEF DiscoveryInv, PublishedInv
    <3> QED BY <2>1, <2>2, <2>3, <2>4, <3>1 DEF Good
  <2>6. StorageInv' /\ ImagesInv'
    <3>1. StorageNext
      BY <2>1, PersistIsStorageStep
    <3> QED BY <2>1, <2>2, <2>5, <3>1, StorageInvNext, ImagesBegun DEF DiscoveryInv
  <2>7. SessionInv'
    <3>1. Good(registry)'
      BY <2>1, <2>5 DEF Good
    <3> QED BY <2>1, <2>2, <3>1 DEF DiscoveryInv, SessionInv, Open
  <2>8. CommitInv' /\ AheadInv' /\ SnapshotInv' /\ IntentInv'
        /\ StartedOnTheIntendedSource'
    BY <2>1 DEF DiscoveryInv, SessionInv, CommitInv, AheadInv, SnapshotInv,
                IntentInv, StartedOnTheIntendedSource, Open
  <2>9. PublishedInv'
    BY <2>1, <2>2 DEF DiscoveryInv, PublishedInv
  <2> QED BY <2>6, <2>7, <2>8, <2>9 DEF DiscoveryInv
<1>4. CASE Initialised
  <2>1. /\ at = "Initialising" /\ at' = "Refresh" /\ Return /\ writing' = "Idle"
        /\ UNCHANGED <<registry, namespaces, published, intent, draft, last_snapshot, binding,
                       enumerated>>
    BY <1>4 DEF Initialised, sessionVars, Return
  <2>2. StorageInv' /\ ImagesInv'
    BY <2>1, StorageInvNext, ImagesKept DEF DiscoveryInv, SessionInv, StorageNext
  <2>3. Good(registry)'
    <3>1. Good(registry)
      BY <2>1 DEF DiscoveryInv, SessionInv, Open
    <3> QED BY <2>1, <3>1 DEF Good
  <2>4. SessionInv'
    BY <2>1, <2>3 DEF DiscoveryInv, SessionInv, Open
  <2>5. CommitInv' /\ AheadInv' /\ SnapshotInv' /\ PublishedInv' /\ IntentInv'
        /\ StartedOnTheIntendedSource'
    BY <2>1 DEF DiscoveryInv, SessionInv, CommitInv, AheadInv, SnapshotInv, PublishedInv,
                IntentInv, StartedOnTheIntendedSource, Open
  <2> QED BY <2>2, <2>4, <2>5 DEF DiscoveryInv
<1> QED BY <1>1, <1>2, <1>3, <1>4

\* The registry is refreshed, and persisted if that changed it.
LEMMA RefreshKeeps ==
  ASSUME DiscoveryInv, Refresh
  PROVE  DiscoveryInv'
<1>1. PICK active \in Seq(Observations) :
        /\ Cardinality(DefaultClaims(active)) <= 1
        /\ enumerated' = active
        /\ registry' = Refreshed(registry, active)
        /\ draft' = SnapshotOf(registry', active)
  BY ActiveIsTyped DEF Refresh
<1>2. /\ at \in {"Refresh", "Revalidate"} /\ draft = None
      /\ IF registry' = registry THEN UNCHANGED storageVars ELSE Persist(registry')
      /\ UNCHANGED <<namespaces, at, intent, last_snapshot, binding, published>>
  BY DEF Refresh
<1>3. writing = "Idle" /\ Good(registry) /\ namespaces \in Nat /\ WellKept(registry)
  BY <1>2, GoodParts DEF DiscoveryInv, SessionInv, Open
<1>4. PICK q : q = registry'
  OBVIOUS
<1>5. /\ WellKept(q) /\ Extends(q, registry) /\ q.namespace = registry.namespace
      /\ (q = registry /\ last_snapshot # None) \/ q.revision = registry.revision + 1
  BY <1>1, <1>3, <1>4, RefreshContinues
<1>6. Good(q)
  BY <1>3, <1>5, ExtendsFurther DEF Good, WellKept, DiscoveryInv, PublishedInv
<1>7. Good(q)' /\ Good(registry)'
  <2>1. Good(q)'
    BY <1>2, <1>3, <1>6, StaysGood
  <2> QED BY <1>4, <2>1 DEF Good
<1>8. draft' = SnapshotOf(q, active) /\ draft' # None
  BY <1>1, <1>4, <1>5, SnapshotIsTyped, NoneAssumption DEF WellKept
<1>9. CASE q = registry
  <2>1. UNCHANGED storageVars /\ registry' = registry /\ last_snapshot # None
        /\ registry.revision \in Nat
    BY <1>2, <1>3, <1>4, <1>5, <1>9, GoodParts
  <2>2. at = "Revalidate"
    BY <1>2, <2>1 DEF DiscoveryInv, SessionInv
  <2>3. StorageInv' /\ ImagesInv'
    BY <1>2, <1>3, <2>1, StorageInvNext, ImagesKept DEF DiscoveryInv
  <2>4. Loaded' = Loaded
    BY <2>1, LoadedUnchanged DEF storageVars, files
  <2>5. SessionInv' /\ CommitInv' /\ AheadInv'
    BY <1>2, <1>3, <1>4, <1>7, <1>8, <2>1, <2>2, <2>4
       DEF DiscoveryInv, SessionInv, CommitInv, AheadInv, Open, storageVars
  <2> QED
    <3>1. SnapshotInv' /\ PublishedInv' /\ IntentInv' /\ StartedOnTheIntendedSource'
      BY <1>1, <1>2, <1>4, <1>8, <2>2
         DEF DiscoveryInv, SnapshotInv, PublishedInv, IntentInv, StartedOnTheIntendedSource, Open
    <3> QED BY <2>3, <2>5, <3>1 DEF DiscoveryInv
<1>10. CASE q # registry
  <2>1. Persist(q) /\ writing' = "CreateCandidate" /\ image' = q
    BY <1>2, <1>4, <1>10 DEF Persist
  <2>2. StorageInv' /\ ImagesInv'
    <3>1. StorageNext
      BY <2>1, PersistIsStorageStep
    <3> QED BY <1>2, <1>3, <1>7, <2>1, <3>1, StorageInvNext, ImagesBegun DEF DiscoveryInv
  <2>3. SessionInv' /\ CommitInv'
    BY <1>2, <1>3, <1>4, <1>7, <1>8, <2>1 DEF DiscoveryInv, SessionInv, CommitInv, Open
  <2>4. AheadInv'
    <3>1. q.revision = registry.revision + 1 /\ registry.revision \in Nat
      BY <1>3, <1>5, <1>10, GoodParts
    <3>2. published # None => published.registry.revision \in Nat
      BY RegistryParts DEF DiscoveryInv, PublishedInv, WellKept
    <3>3. published # None /\ registry.namespace = published.registry.namespace
            => registry.revision >= published.registry.revision
      BY <1>3 DEF Good, Extends
    <3> QED BY <1>2, <1>4, <1>5, <3>1, <3>2, <3>3 DEF AheadInv
  <2> QED
    <3>1. SnapshotInv' /\ PublishedInv' /\ IntentInv' /\ StartedOnTheIntendedSource'
      BY <1>1, <1>2, <1>4, <1>8
         DEF DiscoveryInv, SnapshotInv, PublishedInv, IntentInv, StartedOnTheIntendedSource, Open
    <3> QED BY <2>2, <2>3, <2>4, <3>1 DEF DiscoveryInv
<1> QED BY <1>9, <1>10

\* The endpoints that show a continuity.
Showing(active, c) ==
  {i \in DOMAIN active : active[i].continuity = [kind |-> "Stable", evidence |-> {c}]}

IsIntended(b, active) ==
  LET c == registry.entries[b.source_id].continuity
  IN /\ Cardinality(Showing(active, c)) = 1
     /\ b.endpoint_id = c.backend_key
     /\ intent.kind = "DefaultPlayback" => Showing(active, c) = DefaultClaims(active)
     /\ intent.kind = "Explicit" =>
          published.registry.entries[intent.source_id].continuity = c

\* A binding of the snapshot is the endpoint asked for, as it was last listed.
LEMMA BindingIsIntended ==
  ASSUME Good(registry), IntentInv, PublishedInv, Open,
         NEW active \in Seq(Observations), Cardinality(DefaultClaims(active)) <= 1,
         NEW b \in BindingsFor(intent, registry, SnapshotOf(registry, active))
  PROVE  IsIntended(b, active)
<1> DEFINE c == registry.entries[b.source_id].continuity
           showing == Showing(active, c)
<1>1. registry \in Registries /\ DOMAIN registry.entries \in SUBSET SourceIds
  BY GoodParts, RegistryParts
<1>2. b \in Bindings(registry, active)
  BY DEF BindingsFor, SnapshotOf
<1>3. PICK i \in Describable(active) :
        \E id \in SourceIdsFor(registry, active[i].continuity) : b = BindingOf(registry, id)
  BY <1>2 DEF Bindings
<1>4. PICK id \in SourceIdsFor(registry, active[i].continuity) : b = BindingOf(registry, id)
  BY <1>3
<1>5. b.source_id = id /\ b.endpoint_id = c.backend_key
  BY <1>4 DEF BindingOf
<1>6. ASSUME NEW k \in Describable(active), id \in SourceIdsFor(registry, active[k].continuity)
      PROVE  k \in DOMAIN active /\ showing = {k}
  <2>1. k \in DOMAIN active
    BY DEF Describable
  <2>2. active[k].continuity \in ObservedContinuities
    BY <2>1, ActiveEndpoint
  <2>3. active[k].continuity = [kind |-> "Stable", evidence |-> {c}]
    BY <1>1, <1>5, <1>6, <2>2, KnownIds
  <2>4. \A j \in DOMAIN active : active[j].continuity = active[k].continuity => j = k
    BY DEF Describable, IsDescribable
  <2> QED BY <2>1, <2>3, <2>4 DEF Showing
<1>7. showing = {i} /\ Cardinality(showing) = 1
  BY <1>4, <1>6, FS_Singleton
<1>8. ASSUME intent.kind = "DefaultPlayback"
      PROVE  showing = DefaultClaims(active)
  <2>1. id \in DefaultSourceIds(registry, active)
    BY <1>5, <1>8 DEF BindingsFor, SnapshotOf
  <2>2. PICK k \in Describable(active) \cap DefaultClaims(active) :
          id \in SourceIdsFor(registry, active[k].continuity)
    BY <2>1 DEF DefaultSourceIds
  <2>3. showing = {k} /\ k \in DefaultClaims(active)
    BY <1>6, <2>2
  <2>4. DefaultClaims(active) = {k}
    <3> DEFINE claims == DefaultClaims(active)
    <3>1. claims \in SUBSET (1 .. Len(active)) /\ IsFiniteSet(1 .. Len(active))
      <4>1. Len(active) \in Nat /\ DOMAIN active = 1 .. Len(active)
        BY LenProperties
      <4>2. IsFiniteSet(1 .. Len(active))
        BY <4>1, FS_Interval
      <4> QED BY <4>1, <4>2 DEF DefaultClaims
    <3> HIDE DEF claims
    <3>2. IsFiniteSet(claims) /\ Cardinality(claims) \in Nat
      BY <3>1, FS_Subset, FS_CardinalityType
    <3>3. IsFiniteSet(claims \ {k}) /\ Cardinality(claims \ {k}) = Cardinality(claims) - 1
      BY <2>3, <3>2, FS_RemoveElement DEF claims
    <3>4. Cardinality(claims) <= 1 /\ Cardinality(claims \ {k}) \in Nat
      BY <3>3, FS_CardinalityType DEF claims
    <3>5. Cardinality(claims \ {k}) = 0
      BY <3>2, <3>3, <3>4
    <3>6. claims \ {k} = {}
      BY <3>3, <3>5, FS_EmptySet
    <3> QED BY <2>3, <3>6 DEF claims
  <2> QED BY <2>3, <2>4
<1>9. ASSUME intent.kind = "Explicit"
      PROVE  published.registry.entries[intent.source_id].continuity = c
  <2>1. intent.source_id = id /\ id \in DOMAIN registry.entries
    <3>1. id \in DOMAIN registry.entries
      <4>1. active[i].continuity \in ObservedContinuities
        BY <1>6, <1>4, ActiveEndpoint
      <4> QED BY <1>1, <1>4, <4>1, KnownIds
    <3> QED BY <1>5, <1>9, <3>1 DEF BindingsFor
  <2>2. published # None /\ id \in DOMAIN published.registry.entries
    BY <1>9, <2>1 DEF IntentInv
  <2>3. id.namespace = registry.namespace /\ id.namespace = published.registry.namespace
    BY <2>1, <2>2, GoodParts DEF WellKept, IdsGivenOut, PublishedInv
  <2> QED BY <1>5, <2>1, <2>2, <2>3 DEF Good, Extends
<1> QED BY <1>5, <1>7, <1>8, <1>9 DEF IsIntended

\* What a finished refresh has committed.
LEMMA CommittedIsLoaded ==
  ASSUME DiscoveryInv, Committed
  PROVE  /\ at \in {"Refresh", "Revalidate"} /\ Open
         /\ writing' = "Idle" /\ Loaded' = registry
         /\ at = "Refresh" => current'.image = registry /\ backup'.image = registry
         /\ StorageInv'
         /\ UNCHANGED <<namespaces, published>> => ImagesInv'
<1>1. at \in {"Refresh", "Revalidate"} /\ draft # None
  BY DEF Committed, DiscoveryInv, SessionInv
<1>2. StorageInv'
  BY CommittedIsStorageStep, StorageInvNext DEF DiscoveryInv
<1>3. ASSUME UNCHANGED <<namespaces, published>> PROVE ImagesInv'
  BY <1>3, ImagesKept DEF Committed, DiscoveryInv, SessionInv
<1>4. CASE writing = "Idle" /\ UNCHANGED storageVars
  <2>1. at = "Revalidate" /\ Loaded = registry
    BY <1>1, <1>4 DEF DiscoveryInv, SessionInv, CommitInv
  <2> QED BY <1>1, <1>2, <1>3, <1>4, <2>1, LoadedUnchanged DEF Open, storageVars, files
<1>5. CASE writing = "Done" /\ Return
  <2>1. /\ current' = current /\ backup' = backup /\ writing' = "Idle"
        /\ current.image = registry /\ backup.image = registry /\ registry # None
    BY <1>1, <1>5 DEF Return, files, DiscoveryInv, SessionInv, ImagesInv
  <2> QED BY <1>1, <1>2, <1>3, <2>1 DEF Open, Loaded, Valid
<1> QED BY <1>4, <1>5 DEF Committed

\* The snapshot of a refresh is returned: published, bound to, or started with.
LEMMA FinishKeeps ==
  ASSUME DiscoveryInv, Publish \/ Bind \/ Confirm
  PROVE  DiscoveryInv'
<1>1. /\ Committed /\ last_snapshot' = draft /\ draft' = None
      /\ UNCHANGED <<registry, namespaces, intent, enumerated, published>>
  BY DEF Publish, Bind, Confirm, FinishRefresh
<1>2. /\ at \in {"Refresh", "Revalidate"} /\ Open
      /\ writing' = "Idle" /\ Loaded' = registry
      /\ at = "Refresh" => current'.image = registry /\ backup'.image = registry
      /\ StorageInv' /\ ImagesInv'
  BY <1>1, CommittedIsLoaded
<1>3. /\ draft # None /\ draft = SnapshotOf(registry, enumerated)
      /\ enumerated \in Seq(Observations)
      /\ Cardinality(DefaultClaims(enumerated)) <= 1
  BY <1>1 DEF Committed, DiscoveryInv, SnapshotInv
<1>4. Good(registry) /\ Good(registry)' /\ namespaces \in Nat
  <2>1. Good(registry) /\ namespaces \in Nat
    BY <1>2 DEF DiscoveryInv, SessionInv
  <2> QED BY <1>1, <2>1 DEF Good
<1>5. at' \in {"Published", "Revalidate", "Started"} /\ Open'
  BY DEF Publish, Bind, Confirm, Open
<1>6. at' = "Revalidate" => intent'.kind # "Discover"
  BY DEF Publish, Bind, Confirm
<1>7. at' = "Published" => at = "Refresh"
  BY <1>2 DEF Publish, Bind, Confirm, DiscoveryInv, SessionInv
<1>8. SessionInv'
  BY <1>1, <1>2, <1>4, <1>5, <1>6 DEF SessionInv
<1>9. CommitInv'
  BY <1>1, <1>2, <1>5, <1>7 DEF CommitInv
<1>10. AheadInv'
  BY <1>1, <1>2, <1>3 DEF DiscoveryInv, AheadInv
<1>11. SnapshotInv' /\ PublishedInv' /\ IntentInv'
  BY <1>1, <1>2, <1>3 DEF DiscoveryInv, SnapshotInv, PublishedInv, IntentInv
<1>12. StartedOnTheIntendedSource'
  <2> SUFFICES ASSUME at' = "Started" PROVE StartedOnTheIntendedSource'
    BY DEF StartedOnTheIntendedSource
  <2>1. Confirm
    BY DEF Publish, Bind, Confirm
  <2>2. binding \in BindingsFor(intent, registry, SnapshotOf(registry, enumerated))
        /\ binding' = binding
    BY <1>3, <2>1 DEF Confirm
  <2>3. PICK b : b = binding
    OBVIOUS
  <2>4. PICK active : active = enumerated
    OBVIOUS
  <2>5. IsIntended(b, active)
    <3>1. /\ active \in Seq(Observations) /\ Cardinality(DefaultClaims(active)) <= 1
          /\ b \in BindingsFor(intent, registry, SnapshotOf(registry, active))
          /\ IntentInv /\ PublishedInv
      BY <1>3, <2>2, <2>3, <2>4 DEF DiscoveryInv
    <3> QED BY <1>2, <1>4, <3>1, BindingIsIntended
  <2> QED BY <1>1, <2>2, <2>3, <2>4, <2>5
          DEF StartedOnTheIntendedSource, EndpointShowing, Showing, IsIntended, DefaultClaims
<1> QED BY <1>2, <1>8, <1>9, <1>10, <1>11, <1>12 DEF DiscoveryInv

\* A session is over, and some consumer may keep what it was shown.
LEMMA ReleaseKeeps ==
  ASSUME DiscoveryInv, Release
  PROVE  DiscoveryInv'
<1>1. /\ at \in {"Published", "Started"} /\ EndSession /\ UNCHANGED storageVars
      /\ namespaces' = namespaces /\ writing = "Idle" /\ writing' = "Idle"
      /\ \/ published' = published
         \/ /\ at = "Published"
            /\ published' = [snapshot |-> last_snapshot, registry |-> registry]
  BY DEF Release, DiscoveryInv, SessionInv, storageVars
<1>2. StorageInv'
  BY <1>1, StorageInvNext DEF DiscoveryInv
<1>3. CASE published' = published
  <2>1. ImagesInv'
    BY <1>1, <1>3, ImagesKept DEF DiscoveryInv, SessionInv
  <2> QED BY <1>1, <1>2, <1>3, <2>1, EndsWell DEF DiscoveryInv
<1>4. CASE /\ at = "Published"
           /\ published' = [snapshot |-> last_snapshot, registry |-> registry]
  <2>1. /\ Good(registry) /\ last_snapshot = SnapshotOf(registry, enumerated)
        /\ current.image = registry /\ backup.image = registry /\ image = None
        /\ namespaces \in Nat
    BY <1>1, <1>4
       DEF DiscoveryInv, SessionInv, CommitInv, SnapshotInv, ImagesInv, Open
  <2>2. PICK shown : shown = registry
    OBVIOUS
  <2>3. /\ WellKept(shown) /\ shown \in Registries /\ shown.namespace \in 1 .. namespaces
        /\ published'.registry = shown
    BY <1>4, <2>1, <2>2, GoodParts DEF Good
  <2>4. Good(shown)'
    <3>1. Extends(shown, shown)
      BY <2>3, ExtendsItself
    <3> QED BY <1>1, <2>3, <3>1 DEF Good
  <2>5. ImagesInv'
    <3>1. /\ \A i \in {image', current'.image, backup'.image} : i # None => i = shown
          /\ image' = None /\ writing' = "Idle"
      BY <1>1, <2>1, <2>2 DEF storageVars, files
    <3> QED BY <2>4, <3>1 DEF ImagesInv
  <2>6. PublishedInv'
    <3>1. published'.snapshot = SnapshotOf(shown, enumerated)
      BY <1>4, <2>1, <2>2
    <3>2. published'.snapshot.identity = Identity(shown)
      BY <3>1 DEF SnapshotOf
    <3>3. \A s \in published'.snapshot.sources : s.source_id \in DOMAIN shown.entries
      BY <2>3, <3>1, ShownIds
    <3> QED BY <1>1, <2>3, <3>2, <3>3 DEF PublishedInv, Identity
  <2>7. SessionInv' /\ CommitInv' /\ AheadInv' /\ SnapshotInv' /\ IntentInv'
        /\ StartedOnTheIntendedSource'
    BY <1>1, <2>1 DEF EndSession, SessionInv, CommitInv, AheadInv, SnapshotInv, IntentInv,
                      StartedOnTheIntendedSource, Open
  <2> QED BY <1>2, <2>5, <2>6, <2>7 DEF DiscoveryInv
<1> QED BY <1>1, <1>3, <1>4

\* A session that fails, or dies.
LEMMA FailureKeeps ==
  ASSUME DiscoveryInv,
         \/ LoadIsRefused \/ OpenFails \/ EnumerationFails \/ ClaimsConflict
         \/ OpenDeviceFails \/ BindingIsRefused \/ PersistFails \/ Restart
  PROVE  DiscoveryInv'
<1>1. EndSession /\ UNCHANGED <<namespaces, published>>
  BY DEF LoadIsRefused, OpenFails, EnumerationFails, ClaimsConflict, OpenDeviceFails,
         BindingIsRefused, PersistFails, Restart
<1>2. /\ UNCHANGED storageVars \/ Return \/ Crash
      /\ writing' = "Idle"
  <2>1. CASE \/ LoadIsRefused \/ OpenFails \/ EnumerationFails \/ ClaimsConflict
             \/ OpenDeviceFails
    BY <2>1 DEF LoadIsRefused, OpenFails, EnumerationFails, ClaimsConflict, OpenDeviceFails,
                DiscoveryInv, SessionInv, Open, storageVars
  <2>2. CASE BindingIsRefused
    BY <2>2 DEF BindingIsRefused, Committed, Return, storageVars
  <2>3. CASE PersistFails \/ Restart
    BY <2>3 DEF PersistFails, Restart, Return, Crash
  <2> QED BY <2>1, <2>2, <2>3
<1>3. StorageInv' /\ ImagesInv'
  BY <1>1, <1>2, StorageInvNext, ImagesKept DEF DiscoveryInv, SessionInv, StorageNext
<1> QED BY <1>1, <1>2, <1>3, EndsWell DEF DiscoveryInv

\* A file call, within a persist.
LEMMA FileStepKeeps ==
  ASSUME DiscoveryInv, FileStep
  PROVE  DiscoveryInv'
<1>1. /\ PersistStep \/ CallFails
      /\ UNCHANGED <<registry, namespaces, at, intent, draft, last_snapshot, binding,
                     enumerated, published>>
  BY DEF FileStep, sessionVars
<1>2. writing # "Idle" /\ writing' # "Idle" /\ image' = image
  BY <1>1 DEF PersistStep, CreateCandidate, WriteCandidate, SyncCandidate, RemoveBackup,
              CopyBackup, RemoveCurrent, RenameCandidate, SyncCurrent, CallFails, CallMade,
              PersistSteps
<1>3. StorageInv' /\ ImagesInv'
  BY <1>1, StorageInvNext, ImagesKept DEF DiscoveryInv, SessionInv, StorageNext
<1>4. Open => Good(registry)'
  BY <1>1 DEF DiscoveryInv, SessionInv, Good
<1>5. SessionInv'
  BY <1>1, <1>2, <1>4 DEF DiscoveryInv, SessionInv, Open
<1>6. CommitInv'
  BY <1>1, <1>2 DEF DiscoveryInv, SessionInv, CommitInv
<1>7. AheadInv' /\ SnapshotInv' /\ PublishedInv' /\ IntentInv'
  BY <1>1 DEF DiscoveryInv, AheadInv, SnapshotInv, PublishedInv, IntentInv, Open
<1>8. StartedOnTheIntendedSource'
  BY <1>1 DEF DiscoveryInv, StartedOnTheIntendedSource, EndpointShowing
<1> QED BY <1>3, <1>5, <1>6, <1>7, <1>8 DEF DiscoveryInv

\* The invariant holds at the beginning.
LEMMA DiscoveryInvInit == Init => DiscoveryInv
BY StorageInvInit
   DEF Init, NoSession, StorageInit, Missing, DiscoveryInv, ImagesInv, SessionInv, CommitInv,
       AheadInv, SnapshotInv, PublishedInv, IntentInv, StartedOnTheIntendedSource, Open

\* Every step keeps the invariant.
LEMMA DiscoveryInvNext == DiscoveryInv /\ [Next]_vars => DiscoveryInv'
<1> SUFFICES ASSUME DiscoveryInv, [Next]_vars PROVE DiscoveryInv'
  OBVIOUS
<1>1. CASE UNCHANGED vars
  <2>1. UNCHANGED storageVars
        /\ UNCHANGED <<registry, namespaces, at, intent, draft, last_snapshot, binding,
                       enumerated, published>>
    BY <1>1 DEF vars, sessionVars
  <2>2. StorageInv' /\ ImagesInv'
    BY <2>1, StorageInvNext, ImagesKept DEF DiscoveryInv, SessionInv
  <2>3. Open => Good(registry)'
    BY <2>1 DEF DiscoveryInv, SessionInv, Good
  <2>4. SessionInv' /\ CommitInv'
    BY <2>1, <2>3, LoadedUnchanged
       DEF DiscoveryInv, SessionInv, CommitInv, Open, storageVars, files
  <2>5. AheadInv' /\ SnapshotInv' /\ PublishedInv' /\ IntentInv'
    BY <2>1 DEF DiscoveryInv, AheadInv, SnapshotInv, PublishedInv, IntentInv, Open
  <2>6. StartedOnTheIntendedSource'
    BY <2>1 DEF DiscoveryInv, StartedOnTheIntendedSource, EndpointShowing
  <2> QED BY <2>2, <2>4, <2>5, <2>6 DEF DiscoveryInv
<1> QED BY <1>1, OpeningKeeps, RefreshKeeps, FinishKeeps, ReleaseKeeps, FailureKeeps,
           FileStepKeeps DEF Next

(* identity.rs: at any time, whatever was observed and wherever a call failed or the   *)
(* process died, at most one identity that is not retired stands for a continuity,     *)
(* in the open registry and in what a load would read.                                 *)
THEOREM OneIdentity == Spec => []OneIdentityPerContinuity
<1>1. DiscoveryInv => OneIdentityPerContinuity
  <2> SUFFICES ASSUME DiscoveryInv PROVE OneIdentityPerContinuity
    OBVIOUS
  <2>1. registry # None => Good(registry)
    BY DEF DiscoveryInv, SessionInv
  <2>2. Loaded # None => Good(Loaded)
    BY DEF DiscoveryInv, ImagesInv, Loaded, Valid
  <2> QED BY <2>1, <2>2 DEF Good, WellKept, OneIdentityPerContinuity
<1> QED BY <1>1, DiscoveryInvInit, DiscoveryInvNext, PTL DEF Spec

(* identity.rs: an id that was published keeps its continuity and stays retired once   *)
(* it is, in every registry of its namespace that is opened later.                     *)
THEOREM IdsKeepTheirMeaning == Spec => []PublishedIdsKeepTheirMeaning
<1>1. DiscoveryInv => PublishedIdsKeepTheirMeaning
  <2> SUFFICES ASSUME DiscoveryInv, registry # None PROVE PublishedIdsKeepTheirMeaning
    BY DEF PublishedIdsKeepTheirMeaning
  <2>1. Good(registry)
    BY DEF DiscoveryInv, SessionInv
  <2> QED BY <2>1 DEF Good, PublishedIdsKeepTheirMeaning
<1> QED BY <1>1, DiscoveryInvInit, DiscoveryInvNext, PTL DEF Spec

(* discovery.rs, refresh: two snapshots that carry the same namespace and revision are *)
(* the same.                                                                           *)
THEOREM RevisionsIdentify == Spec => []RevisionIdentifiesSnapshot
<1>1. DiscoveryInv => RevisionIdentifiesSnapshot
  <2> SUFFICES ASSUME DiscoveryInv, at = "Published", published # None,
                      last_snapshot.identity = published.snapshot.identity
               PROVE  FALSE
    BY DEF RevisionIdentifiesSnapshot
  <2>1. Identity(registry) = Identity(published.registry)
    BY DEF DiscoveryInv, SnapshotInv, PublishedInv, SnapshotOf
  <2>2. registry.namespace = published.registry.namespace
        /\ registry.revision = published.registry.revision
    BY <2>1 DEF Identity
  <2>3. registry.revision > published.registry.revision
    BY <2>2 DEF DiscoveryInv, AheadInv, Open
  <2>4. registry.revision \in Nat
    BY GoodParts DEF DiscoveryInv, SessionInv, Open
  <2> QED BY <2>2, <2>3, <2>4
<1> QED BY <1>1, DiscoveryInvInit, DiscoveryInvNext, PTL DEF Spec

(* discovery.rs over identity.rs: what a consumer is shown, or a capture started on, is *)
(* of the registry that a load would return.                                           *)
THEOREM ShownAfterCommit == Spec => []ShownIsCommitted
<1>1. DiscoveryInv => ShownIsCommitted
  BY DEF DiscoveryInv, SessionInv, CommitInv, ShownIsCommitted
<1> QED BY <1>1, DiscoveryInvInit, DiscoveryInvNext, PTL DEF Spec

(* windows.rs, capture_thread_inner: a capture that starts has the one endpoint that   *)
(* claims the default role, or shows the continuity of the id that was asked for.      *)
THEOREM StartsAsIntended == Spec => []StartedOnTheIntendedSource
<1>1. DiscoveryInv => StartedOnTheIntendedSource
  BY DEF DiscoveryInv
<1> QED BY <1>1, DiscoveryInvInit, DiscoveryInvNext, PTL DEF Spec
=============================================================================
