------------------------------- MODULE Backup -------------------------------
(***************************************************************************)
(* The production backup pipeline of infra/db/backup: overlapping          *)
(* scheduled runs that dump the database, describe the dump, encrypt it,   *)
(* upload the ciphertext and apply retention; the local prune; restores    *)
(* into a fresh database.  A run may die at any step, a stored dump may    *)
(* rot.                                                                    *)
(*                                                                         *)
(* A file's contents are "whole" (what pg_dump wrote to its end),          *)
(* "partial", "damaged", or "none" for no file.  A metadata file is the    *)
(* contents its checksum was taken of, or "torn" when it is not JSON.  A   *)
(* ciphertext is the contents it decrypts to, or "torn".  Runs are         *)
(* numbered in the order they start, which is the order of created_at.     *)
(***************************************************************************)
EXTENDS Integers, Sequences, FiniteSets, SequencesExt

CONSTANTS
    Runs,       \* the scheduled runs, 1 .. n
    Restorers,  \* the operators' restore commands
    Targets,    \* the names of databases a restore may be given
    KeepLast,   \* cfg.retention_count
    Setups      \* the configurations and the events each is looked at under

VARIABLES
    setup,      \* destination, recipient and what may happen
    staging,    \* run -> its files in the staging directory
    offsite,    \* the destination's objects, oldest first
    job,        \* run -> where its process is
    pruner,     \* the prune command
    restore,    \* restorer -> its command
    databases   \* target name -> what is there

backupVars == <<setup, staging, offsite, job, pruner, restore, databases>>

Setup(destination, recipient, runs, events) ==
    [destination |-> destination, recipient |-> recipient, runs |-> runs, events |-> events]

\* The files of one run: the archive, its metadata and its ciphertext.
Files(dump, meta, cipher) == [dump |-> dump, meta |-> meta, cipher |-> cipher]

Ended == {"failed", "dead", "done"}

\* The steps during which a run holds the lock.
Holding == {"dump", "dumping", "describe", "verify", "encrypt", "encrypting", "check", "record",
            "upload", "uploading", "retention", "deleting"}

At(r, step) == job' = [job EXCEPT ![r].at = step]

OtherRest == UNCHANGED <<setup, pruner, restore, databases>>

------------------------------------------------------------------------------
(* The scheduled run.                                                       *)

LockFreeAlways(r) == TRUE

\* backup_lock: an flock, which the kernel frees when its holder dies.
LockFree(r) == \A s \in Runs \ {r} : job[s].at \notin Holding

\* A second run finds the lock held and fails at once; a full disk fails the
\* run before pg_dump starts.
StartRun(r) ==
    /\ job[r].at = "idle"
    /\ r \in setup.runs
    /\ \A s \in Runs : s < r => job[s].at # "idle"
    /\ \/ LockFree(r) /\ At(r, "dump")
       \/ At(r, "failed")
    /\ UNCHANGED <<staging, offsite>> /\ OtherRest

OpenArtifact(r) ==
    /\ job[r].at = "dump"
    /\ staging' = [staging EXCEPT ![r].dump = "partial"]
    /\ At(r, "dumping")
    /\ UNCHANGED offsite /\ OtherRest

DumpedUnchecked(r) ==
    \/ staging' = [staging EXCEPT ![r].dump = "whole"] /\ At(r, "describe")
    \/ UNCHANGED staging /\ At(r, "describe")

\* pg_dump ends: a non-zero exit removes the archive.
Dumped(r) ==
    \/ staging' = [staging EXCEPT ![r].dump = "whole"] /\ At(r, "describe")
    \/ staging' = [staging EXCEPT ![r].dump = "none"] /\ At(r, "failed")

CreateBackup(r) == job[r].at = "dumping" /\ Dumped(r) /\ UNCHANGED offsite /\ OtherRest

WriteMetadata(r) ==
    /\ job[r].at = "describe"
    /\ staging' = [staging EXCEPT ![r].meta = staging[r].dump]
    /\ At(r, "verify")
    /\ UNCHANGED offsite /\ OtherRest

VerifiedAlways(f) == f.meta \notin {"none", "torn"} /\ f.dump # "none"

\* verify_backup_checksum: the metadata loads and the archive has its checksum.
Verified(f) == f.meta \notin {"none", "torn"} /\ f.dump = f.meta

\* A destination needs a valid recipient; without one a local run skips encryption.
AfterVerify ==
    IF setup.recipient = "none" THEN (IF setup.destination THEN "failed" ELSE "done")
    ELSE IF setup.recipient = "malformed" THEN "failed" ELSE "encrypt"

VerifyArtifact(r) ==
    /\ job[r].at = "verify"
    /\ At(r, IF Verified(staging[r]) THEN AfterVerify ELSE "failed")
    /\ UNCHANGED <<staging, offsite>> /\ OtherRest

OpenCiphertext(r) ==
    /\ job[r].at = "encrypt"
    /\ staging' = [staging EXCEPT ![r].cipher = "torn"]
    /\ At(r, "encrypting")
    /\ UNCHANGED offsite /\ OtherRest

\* age ends: a failure, or an archive that is gone, leaves no ciphertext.
Encrypt(r) ==
    /\ job[r].at = "encrypting"
    /\ \/ /\ staging[r].dump # "none"
          /\ staging' = [staging EXCEPT ![r].cipher = staging[r].dump]
          /\ At(r, "check")
       \/ staging' = [staging EXCEPT ![r].cipher = "none"] /\ At(r, "failed")
    /\ UNCHANGED offsite /\ OtherRest

\* verify_encrypted_artifact, at the gate before the destination and before the record.
CheckCiphertext(r) ==
    /\ job[r].at = "check"
    /\ At(r, IF staging[r].cipher \notin {"none", "torn"} THEN "record" ELSE "failed")
    /\ UNCHANGED <<staging, offsite>> /\ OtherRest

\* The metadata is rewritten with the ciphertext's checksum; it must load first.
RecordCiphertext(r) ==
    /\ job[r].at = "record"
    /\ At(r, IF staging[r].meta = "none" THEN "failed"
             ELSE IF setup.destination THEN "upload" ELSE "done")
    /\ UNCHANGED <<staging, offsite>> /\ OtherRest

SourceIsArtifact(r) == [kind |-> "plaintext", body |-> staging[r].dump]

\* _ciphertext_for_upload: the only file a destination is handed.
UploadSource(r) == [kind |-> "ciphertext", body |-> staging[r].cipher]

Object(r, source, complete) == [run |-> r, kind |-> source.kind, body |-> source.body,
                                complete |-> complete]

\* A copy being written is visible in the destination before it is complete.
OpenUpload(r) ==
    /\ job[r].at = "upload"
    /\ offsite' = Append(offsite, Object(r, UploadSource(r), FALSE))
    /\ At(r, "uploading")
    /\ UNCHANGED staging /\ OtherRest

\* A failed upload leaves a partial copy, or in an object store nothing.
Upload(r) ==
    /\ job[r].at = "uploading"
    /\ \/ /\ offsite' = [i \in DOMAIN offsite |->
                            [offsite[i] EXCEPT !.complete = @ \/ offsite[i].run = r]]
          /\ At(r, "retention")
       \/ UNCHANGED offsite /\ At(r, "failed")
       \/ offsite' = SelectSeq(offsite, LAMBDA o : o.run # r) /\ At(r, "failed")
    /\ UNCHANGED staging /\ OtherRest

\* apply_retention lists the objects by last_modified and keeps the newest ones, at least one.
ListForRetention(r) ==
    /\ job[r].at = "retention"
    /\ LET keep == IF KeepLast < 1 THEN 1 ELSE KeepLast
           old == SubSeq(offsite, 1, Len(offsite) - keep)
       IN job' = [job EXCEPT ![r] = [at |-> "deleting", doomed |-> old]]
    /\ UNCHANGED <<staging, offsite>> /\ OtherRest

\* The objects go one by one; a delete that fails ends the run.
DeleteObject(r) ==
    /\ job[r].at = "deleting"
    /\ IF job[r].doomed = <<>>
       THEN UNCHANGED offsite /\ At(r, "done")
       ELSE \/ /\ offsite' = SelectSeq(offsite, LAMBDA o : o.run # Head(job[r].doomed).run)
               /\ job' = [job EXCEPT ![r].doomed = Tail(@)]
            \/ UNCHANGED offsite /\ At(r, "failed")
    /\ UNCHANGED staging /\ OtherRest

\* The process dies.  A metadata file it was writing may be left torn.
Crash(r) ==
    /\ "crash" \in setup.events
    /\ job[r].at \in Holding
    /\ At(r, "dead")
    /\ \/ UNCHANGED staging
       \/ /\ job[r].at \in {"describe", "record"}
          /\ staging' = [staging EXCEPT ![r].meta = "torn"]
    /\ UNCHANGED offsite /\ OtherRest

------------------------------------------------------------------------------
(* Restore, prune and the medium.                                           *)

\* A described dump at rest rots; not between a restore's checksum and its pg_restore.
Damage(r) ==
    /\ "damage" \in setup.events
    /\ staging[r].dump = "whole" /\ staging[r].meta = "whole"
    /\ \A q \in Restorers : restore[q].run = r => restore[q].at \notin {"create", "load"}
    /\ staging' = [staging EXCEPT ![r].dump = "damaged"]
    /\ UNCHANGED <<offsite, job>> /\ OtherRest

MoveRestore(q, step) == restore' = [restore EXCEPT ![q].at = step]

RestRuns == UNCHANGED <<setup, offsite, job, pruner>>

\* run_production_restore is given a metadata file, a target and perhaps a ciphertext.
StartRestore(q, r, t, encrypted) ==
    /\ "restore" \in setup.events
    /\ restore[q].at = "idle"
    /\ staging[r].meta # "none"
    /\ restore' = [restore EXCEPT ![q] =
                      [at |-> IF encrypted THEN "decrypt" ELSE "check", run |-> r, target |-> t]]
    /\ RestRuns /\ UNCHANGED <<staging, databases>>

\* age starts to write the plaintext over the archive's own path, or there is nothing to decrypt.
OpenPlaintext(q) ==
    /\ restore[q].at = "decrypt"
    /\ LET r == restore[q].run
       IN \/ /\ staging[r].cipher # "none"
             /\ staging' = [staging EXCEPT ![r].dump = "partial"]
             /\ MoveRestore(q, "decrypting")
          \/ UNCHANGED staging /\ MoveRestore(q, "failed")
    /\ RestRuns /\ UNCHANGED databases

\* It writes all of it, or fails and the path is removed, or exceeds its time and the path stays.
Decrypt(q) ==
    /\ restore[q].at = "decrypting"
    /\ LET r == restore[q].run
       IN \/ /\ staging[r].cipher \notin {"none", "torn"}
             /\ staging' = [staging EXCEPT ![r].dump = staging[r].cipher]
             /\ MoveRestore(q, "check")
          \/ /\ staging' = [staging EXCEPT ![r].dump = "none"]
             /\ MoveRestore(q, "failed")
          \/ UNCHANGED staging /\ MoveRestore(q, "failed")
    /\ RestRuns /\ UNCHANGED databases

VerifyForRestoreExists(q) ==
    /\ restore[q].at = "check"
    /\ MoveRestore(q, IF staging[restore[q].run].dump # "none" THEN "create" ELSE "failed")
    /\ RestRuns /\ UNCHANGED <<staging, databases>>

VerifyForRestore(q) ==
    /\ restore[q].at = "check"
    /\ MoveRestore(q, IF Verified(staging[restore[q].run]) THEN "create" ELSE "failed")
    /\ RestRuns /\ UNCHANGED <<staging, databases>>

CreatableAlways(t) == TRUE

\* CREATE DATABASE fails when a database of that name exists.
Creatable(t) == databases[t].holds = "absent"

CreateDatabase(q) ==
    /\ restore[q].at = "create"
    /\ LET t == restore[q].target
       IN IF Creatable(t)
          THEN /\ databases' = [databases EXCEPT ![t] = [holds |-> "empty", by |-> q]]
               /\ MoveRestore(q, "load")
          ELSE UNCHANGED databases /\ MoveRestore(q, "failed")
    /\ RestRuns /\ UNCHANGED staging

\* pg_restore in a single transaction: all of the archive that is there now, or nothing if it
\* ends too early.
RestoreBackup(q) ==
    /\ restore[q].at = "load"
    /\ \/ /\ staging[restore[q].run].dump \notin {"none", "partial"}
          /\ databases' = [databases EXCEPT ![restore[q].target].holds =
                              staging[restore[q].run].dump]
          /\ MoveRestore(q, "done")
       \/ UNCHANGED databases /\ MoveRestore(q, "failed")
    /\ RestRuns /\ UNCHANGED staging

\* list_backups skips what verify_backup_checksum refuses with a BackupError; a
\* checksum that differs is not one, and ends the listing.
Listable(f) == Verified(f)
ListRaises == \E r \in Runs :
    staging[r].meta \notin {"none", "torn"} /\ staging[r].dump \notin {"none", staging[r].meta}

RestRestores == UNCHANGED <<setup, offsite, job, restore, databases>>

\* backups[:-keep_last], oldest first.
ToRemove(listed, keep) == {r \in listed : Cardinality({s \in listed : s > r}) >= keep}

\* prune_backups takes no lock.
ListForPrune ==
    /\ "prune" \in setup.events
    /\ pruner.at = "idle"
    /\ pruner' = IF ListRaises THEN [pruner EXCEPT !.at = "raised"]
                 ELSE [at |-> "deleting", doomed |->
                          ToRemove({r \in Runs : Listable(staging[r])}, 1)]
    /\ UNCHANGED staging /\ RestRestores

\* The archive goes first, then its metadata; oldest backup first.
PruneBackup ==
    /\ pruner.at = "deleting"
    /\ IF pruner.doomed = {} THEN UNCHANGED staging /\ pruner' = [pruner EXCEPT !.at = "done"]
       ELSE LET r == CHOOSE x \in pruner.doomed : \A y \in pruner.doomed : x <= y
            IN IF staging[r].dump # "none"
               THEN staging' = [staging EXCEPT ![r].dump = "none"] /\ UNCHANGED pruner
               ELSE /\ staging' = [staging EXCEPT ![r].meta = "none"]
                    /\ pruner' = [pruner EXCEPT !.doomed = @ \ {r}]
    /\ RestRestores

------------------------------------------------------------------------------
BackupInit ==
    /\ setup \in Setups
    /\ staging = [r \in Runs |-> Files("none", "none", "none")]
    /\ offsite = <<>>
    /\ job = [r \in Runs |-> [at |-> "idle", doomed |-> <<>>]]
    /\ pruner = [at |-> "idle", doomed |-> {}]
    /\ restore = [q \in Restorers |-> [at |-> "idle", run |-> 0, target |-> ""]]
    /\ databases = [t \in Targets |->
                       [holds |-> IF t = "live" THEN "production" ELSE "absent", by |-> "owner"]]

RunStep(r) ==
    \/ StartRun(r) \/ OpenArtifact(r) \/ CreateBackup(r) \/ WriteMetadata(r)
    \/ VerifyArtifact(r) \/ OpenCiphertext(r) \/ Encrypt(r) \/ CheckCiphertext(r)
    \/ RecordCiphertext(r) \/ OpenUpload(r) \/ Upload(r) \/ ListForRetention(r)
    \/ DeleteObject(r) \/ Crash(r) \/ Damage(r)

RestoreStep(q) ==
    \/ \E r \in Runs, t \in Targets, e \in BOOLEAN : StartRestore(q, r, t, e)
    \/ OpenPlaintext(q) \/ Decrypt(q) \/ VerifyForRestore(q) \/ CreateDatabase(q) \/ RestoreBackup(q)

BackupNext ==
    \/ \E r \in Runs : RunStep(r)
    \/ \E q \in Restorers : RestoreStep(q)
    \/ ListForPrune
    \/ PruneBackup

BackupSpec == BackupInit /\ [][BackupNext]_backupVars

\* The values of the variables.
BackupTypeOK ==
    /\ setup \in Setups
    /\ \A r \in Runs : staging[r].dump \in {"none", "partial", "whole", "damaged"}
    /\ \A r \in Runs : job[r].at \in Holding \cup Ended \cup {"idle"}

\* An off-site destination holds nothing but ciphertext: no run, whatever its
\* recipient and whichever step fails, hands it the archive itself.
OffSiteIsCiphertext == \A i \in DOMAIN offsite : offsite[i].kind = "ciphertext"

Intact == {i \in DOMAIN offsite : offsite[i].complete}

RecoveryPointStaysStep ==
    Intact # {} => Intact' # {}

\* Retention never takes the last recovery point: once a complete object is off
\* site one always is, although a newer copy may be cut short and a run may die
\* between its upload and its deletes.
RecoveryPointStays == [][RecoveryPointStaysStep]_backupVars

\* A backup that is listed holds a dump pg_dump finished, though runs die while dumping.
ListedIsWhole == \A r \in Runs : Listable(staging[r]) => staging[r].dump = "whole"

\* A restored database holds a whole dump: an archive that rotted, or that was
\* decrypted from one that had, is never loaded.
RestoredIsWhole == \A t \in Targets : databases[t].holds \notin {"partial", "damaged"}

NeverRestoredOverStep ==
    \A t \in Targets : databases[t].holds \notin {"absent", "empty"} =>
        databases'[t] = databases[t]

\* A restore only fills a database it created: what another command restored and
\* what production holds is never written over.
NeverRestoredOver == [][NeverRestoredOverStep]_backupVars

\* One bad file does not end the listing (list_backups: a file that fails to
\* verify is skipped, not raised).
ListingSkipsBadFiles == pruner.at # "raised"
=============================================================================
