-------------------------- MODULE RegistryStorage --------------------------
(***************************************************************************)
(* The files behind IdentityRegistry (crates/resonance-agent/src/          *)
(* identity.rs): the steps of `persist`, what `load_or_init` reads back,   *)
(* and the crashes and failed calls in between.                            *)
(*                                                                         *)
(* A persist writes the whole image to the candidate file, replaces the    *)
(* backup by a copy of it, removes the current file and renames the        *)
(* candidate.  Each call on the file system is one step.  A call may fail, *)
(* and the process may die before any of them; where a power loss is       *)
(* possible, a file that was not synced may come back without its contents.*)
(* Renames and removals are ordered as on a journaling file system.        *)
(***************************************************************************)
CONSTANTS
  None,                (* no image                                         *)
  PowerLossPossible    (* a crash may lose what was not synced             *)

ASSUME StorageAssumption == PowerLossPossible \in BOOLEAN

VARIABLES
  current,    (* source-identity-registry.json                             *)
  backup,     (* source-identity-registry.backup                           *)
  candidate,  (* source-identity-registry.candidate                        *)
  writing,    (* the call persist is at, "Idle" outside of it              *)
  image       (* the image persist is writing, None outside of it         *)

files == <<current, backup, candidate>>
storageVars == <<files, writing, image>>

(* A file holds an image or, half written, something that does not parse.  *)
Missing == [exists |-> FALSE, synced |-> TRUE, image |-> None]
Unparsable == [exists |-> TRUE, synced |-> FALSE, image |-> None]
Unsynced(i) == [exists |-> TRUE, synced |-> FALSE, image |-> i]

PersistSteps == {"CreateCandidate", "WriteCandidate", "SyncCandidate",
                 "RemoveBackup", "CopyBackup", "RemoveCurrent",
                 "RenameCandidate", "SyncCurrent"}

StorageInit ==
  /\ current = Missing
  /\ backup = Missing
  /\ candidate = Missing
  /\ writing = "Idle"
  /\ image = None

(***************************************************************************)
(* load_or_init: the current file, else the backup; the candidate is never *)
(* read.  None stands for a new blank registry.                            *)
(***************************************************************************)
Valid(file) == file.image # None

Loaded ==
  IF Valid(current) THEN current.image
  ELSE IF Valid(backup) THEN backup.image
  ELSE None

\* A file that cannot be read for the moment counts as one that is corrupt.
LoadOutcomes == {Loaded, backup.image, None}

----------------------------------------------------------------------------
(* persist, one call on the file system after the other *)

Persist(i) ==
  /\ i # None
  /\ writing = "Idle"
  /\ writing' = "CreateCandidate"
  /\ image' = i
  /\ UNCHANGED files

CreateCandidate ==
  /\ writing = "CreateCandidate"
  /\ candidate' = Unparsable
  /\ writing' = "WriteCandidate"
  /\ UNCHANGED <<current, backup, image>>

WriteCandidate ==
  /\ writing = "WriteCandidate"
  /\ candidate' = Unsynced(image)
  /\ writing' = "SyncCandidate"
  /\ UNCHANGED <<current, backup, image>>

SyncCandidate ==
  /\ writing = "SyncCandidate"
  /\ candidate' = [candidate EXCEPT !.synced = TRUE]
  /\ writing' = "RemoveBackup"
  /\ UNCHANGED <<current, backup, image>>

\* Defect: the current file makes room before there is a new backup.
RemoveBackup_ClearsBoth ==
  /\ writing = "RemoveBackup"
  /\ backup' = Missing
  /\ current' = Missing
  /\ writing' = "CopyBackup"
  /\ UNCHANGED <<candidate, image>>

RemoveBackup ==
  /\ writing = "RemoveBackup"
  /\ backup' = Missing
  /\ writing' = "CopyBackup"
  /\ UNCHANGED <<current, candidate, image>>

CopyBackup ==
  /\ writing = "CopyBackup"
  /\ backup' = Unsynced(candidate.image)
  /\ writing' = "RemoveCurrent"
  /\ UNCHANGED <<current, candidate, image>>

RemoveCurrent ==
  /\ writing = "RemoveCurrent"
  /\ current' = Missing
  /\ writing' = "RenameCandidate"
  /\ UNCHANGED <<backup, candidate, image>>

RenameCandidate ==
  /\ writing = "RenameCandidate"
  /\ current' = candidate
  /\ candidate' = Missing
  /\ writing' = "SyncCurrent"
  /\ UNCHANGED <<backup, image>>

\* Only the first sync is checked; the directory's is best effort.
SyncCurrent ==
  /\ writing = "SyncCurrent"
  /\ current' = [current EXCEPT !.synced = TRUE]
  /\ writing' = "Done"
  /\ UNCHANGED <<backup, candidate, image>>

PersistStep ==
  \/ CreateCandidate
  \/ WriteCandidate
  \/ SyncCandidate
  \/ RemoveBackup
  \/ CopyBackup
  \/ RemoveCurrent
  \/ RenameCandidate
  \/ SyncCurrent

(* Removing a file that does not exist is not attempted, so cannot fail.   *)
CallMade ==
  /\ writing \in PersistSteps
  /\ writing = "RemoveBackup" => backup.exists
  /\ writing = "RemoveCurrent" => current.exists

(***************************************************************************)
(* A call fails and `?` returns from persist.  It has done nothing, or the *)
(* copy has left part of a backup; a half written candidate is the         *)
(* unparsable one that CreateCandidate left.                               *)
(***************************************************************************)
CallFails ==
  /\ CallMade
  /\ writing' = "Failed"
  /\ backup' \in IF writing = "CopyBackup" THEN {backup, Unparsable} ELSE {backup}
  /\ UNCHANGED <<current, candidate, image>>

Return ==
  /\ writing \in {"Done", "Failed"}
  /\ writing' = "Idle"
  /\ image' = None
  /\ UNCHANGED files

AfterCrash(file) ==
  IF PowerLossPossible /\ Valid(file) /\ ~file.synced
  THEN {file, Unparsable} ELSE {file}

Crash ==
  /\ current' \in AfterCrash(current)
  /\ backup' \in AfterCrash(backup)
  /\ candidate' \in AfterCrash(candidate)
  /\ writing' = "Idle"
  /\ image' = None

\* As far as the files are concerned an image may be anything.
StorageNext ==
  \/ \E i : Persist(i)
  \/ PersistStep
  \/ CallFails
  \/ Return
  \/ Crash

StorageSpec == StorageInit /\ [][StorageNext]_storageVars

----------------------------------------------------------------------------
(***************************************************************************)
(* While the current file is intact no call, failure, crash or power loss  *)
(* changes what a load returns, except to the image being persisted: the   *)
(* order in which persist replaces its three files.                        *)
(***************************************************************************)
AtomicReplacement ==
  [][Valid(current) => Loaded' \in {Loaded, image}]_storageVars

=============================================================================
