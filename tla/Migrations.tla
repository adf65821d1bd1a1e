----------------------------- MODULE Migrations -----------------------------
(***************************************************************************)
(* migrateSchema of internal/storage/storage.go: the versions 1 to 5 of    *)
(* the database file, one transaction each, run whenever the store is      *)
(* opened; the crashes between and inside them; and what the dedup key is  *)
(* worth afterwards, when StoreBatch relies on it.                         *)
(*                                                                         *)
(* A metric is what generateDedupKey looks at: its name, time and device   *)
(* (one element of Base), its tags and its value type.                     *)
(***************************************************************************)
EXTENDS Naturals, FiniteSets

CONSTANTS
  Base,               \* name, timestamp and device of a metric
  Tags,               \* sets of tags
  NoTags,             \* the empty set of tags
  NoKey,              \* NULL
  Id                  \* bound: row ids

ASSUME TagsAssumption == NoTags \in Tags

VARIABLES
  disk,       \* the committed file
  log,        \* the files a power loss may leave
  tx,         \* the file as the connection sees it, transaction included
  pc,         \* "closed", "migrate", "rekey", "open" or "failed"
  version,    \* the migration of the loop in migrateSchema
  todo        \* the rows whose key it has still to write

vars == <<disk, log, tx, pc, version, todo>>

Latest == 5
Type == {"numeric", "text"}
Metric == [base : Base, tags : Tags, type : Type]
Legacy == [base : Base, tags : {NoTags}, type : {"numeric"}]

-----------------------------------------------------------------------------
(* Keys and files *)

\* The key that older versions of the agent wrote.
OldKey(metric) == [base |-> metric.base, tags |-> metric.tags]

\* Mutant: the tags are left out.
Key_NoTags(metric) == [base |-> metric.base, type |-> metric.type]

\* generateDedupKey.  sha256 is taken to have no collisions.
Key(metric) == metric

\* NULL is no key.
ASSUME NoKeyAssumption == \A metric \in Metric : NoKey # OldKey(metric) /\ NoKey # Key(metric)

Row(metric, key) == [metric |-> metric, key |-> key]

DistinctKeys(rows) ==
  \A i, j \in DOMAIN rows : rows[i].key = rows[j].key /\ rows[i].key # NoKey => i = j

Tables(rows) == UNION {[ids -> rows] : ids \in SUBSET Id}

File(v, columns, unique, rows) ==
  [version |-> v, columns |-> columns, unique |-> unique, rows |-> rows]

\* A file that does not exist yet, or that M1 left, with or without its
\* version; rows had no key, no tags and nothing that made them unique.
M1Files ==
  LET tables == Tables({Row(m, NoKey) : m \in Legacy})
  IN  {File(0, {}, FALSE, rows) : rows \in tables} \union {File(1, {}, FALSE, rows) : rows \in tables}

\* Files of an older agent that wrote keys without the value type.
M2Files ==
  {File(3, {2}, TRUE, rows) : rows \in
     {t \in Tables({Row(m, OldKey(m)) : m \in {n \in Metric : n.type = "numeric"}}) :
        DistinctKeys(t)}}
  \union
  {File(4, {2, 4}, TRUE, rows) : rows \in
     {t \in Tables({Row(m, OldKey(m)) : m \in Metric}) : DistinctKeys(t)}}

-----------------------------------------------------------------------------
Init ==
  /\ disk \in M1Files \union M2Files
  /\ log = {disk}
  /\ tx = disk /\ pc = "closed" /\ version = 0 /\ todo = {}

Write(file) ==
  /\ disk' = file
  /\ log' = log \union {file}

\* currentVersion is read once; the first version above it is next.
Open ==
  /\ pc = "closed"
  /\ version' = disk.version + 1
  /\ pc' = "migrate"
  /\ UNCHANGED <<disk, log, tx, todo>>

\* The columns that the ALTERs of a version add.
Added(v) == IF v \in {2, 4} THEN {v} ELSE {}

Altered(file, v) == [file EXCEPT !.columns = @ \union Added(v)]

\* Mutant: version 5, too, writes the missing keys only.
Rekeyed_NullOnly(file, v) ==
  IF v \in {3, 5} THEN {i \in DOMAIN file.rows : file.rows[i].key = NoKey} ELSE {}

\* The rows whose keys a version writes: the NULL ones, and all.
Rekeyed(file, v) ==
  CASE v = 3 -> {i \in DOMAIN file.rows : file.rows[i].key = NoKey}
    [] v = 5 -> DOMAIN file.rows
    [] OTHER -> {}

\* Mutant: the statements of the version run outside of the transaction.
Apply_Autocommit ==
  /\ pc = "migrate" /\ version <= Latest
  /\ Added(version) \intersect disk.columns = {}
  /\ Write(Altered(disk, version))
  /\ tx' = Altered(disk, version)
  /\ todo' = Rekeyed(disk, version)
  /\ pc' = "rekey"
  /\ UNCHANGED version

\* Begin and the statements of one version; a column cannot be added twice.
Apply ==
  /\ pc = "migrate" /\ version <= Latest
  /\ Added(version) \intersect disk.columns = {}
  /\ tx' = Altered(disk, version)
  /\ todo' = Rekeyed(disk, version)
  /\ pc' = "rekey"
  /\ UNCHANGED <<disk, log, version>>

Rewritten(i) == [tx EXCEPT !.rows[i].key = Key(tx.rows[i].metric)]

\* One row of migrateV3Backfill or migrateV5RegenerateDedupKeys.  The unique
\* index, once it exists, sees every single update.
Rekey ==
  /\ pc = "rekey"
  /\ \E i \in todo :
       /\ tx.unique => DistinctKeys(Rewritten(i).rows)
       /\ tx' = Rewritten(i)
       /\ todo' = todo \ {i}
  /\ UNCHANGED <<disk, log, pc, version>>

IndexPossible == version = 3 => DistinctKeys(tx.rows)

\* The unique index of version 3, the version's own row, and Commit.
Commit ==
  /\ pc = "rekey" /\ todo = {} /\ IndexPossible
  /\ tx' = [tx EXCEPT !.version = version, !.unique = @ \/ version = 3]
  /\ Write(tx')
  /\ version' = version + 1
  /\ pc' = "migrate"
  /\ UNCHANGED todo

Rollback ==
  /\ tx' = disk
  /\ todo' = {}
  /\ pc' = "failed"
  /\ UNCHANGED <<disk, log, version>>

\* CREATE UNIQUE INDEX finds two rows with one key.
IndexFails ==
  /\ pc = "rekey" /\ todo = {} /\ ~IndexPossible
  /\ Rollback

\* Any other statement fails, say for want of disk space.
StatementFails ==
  /\ pc \in {"migrate", "rekey"}
  /\ pc = "rekey" /\ todo = {} => IndexPossible
  /\ Rollback

Opened ==
  /\ pc = "migrate" /\ version > Latest
  /\ pc' = "open"
  /\ UNCHANGED <<disk, log, tx, version, todo>>

\* One metric: ON CONFLICT (dedup_key) DO NOTHING.
StoreBatch ==
  /\ pc = "open"
  /\ \E metric \in Metric, i \in Id \ DOMAIN disk.rows :
       /\ \A j \in DOMAIN disk.rows : disk.rows[j].key # Key(metric)
       /\ Write([disk EXCEPT !.rows =
                   [j \in DOMAIN disk.rows \union {i} |->
                      IF j = i THEN Row(metric, Key(metric)) ELSE disk.rows[j]]])
  /\ tx' = disk'
  /\ UNCHANGED <<pc, version, todo>>

CheckpointWAL ==
  /\ pc = "open"
  /\ log' = {disk}
  /\ UNCHANGED <<disk, tx, pc, version, todo>>

\* main exits when the store cannot be opened; the service starts it again.
Restart ==
  /\ pc = "failed"
  /\ pc' = "closed"
  /\ UNCHANGED <<disk, log, tx, version, todo>>

Stop ==
  /\ tx' = disk' /\ todo' = {}
  /\ pc' = "closed"
  /\ UNCHANGED version

\* What is not committed is gone.
Crash ==
  /\ pc \in {"migrate", "rekey", "open"}
  /\ UNCHANGED <<disk, log>>
  /\ Stop

\* synchronous=NORMAL: the last commits may be gone too.
PowerLoss ==
  /\ disk' \in log
  /\ log' = {disk'}
  /\ Stop

Next ==
  \/ Open \/ Apply \/ Rekey \/ Commit \/ IndexFails \/ StatementFails \/ Opened
  \/ StoreBatch \/ CheckpointWAL
  \/ Restart \/ Crash \/ PowerLoss

Spec == Init /\ [][Next]_vars

FairSpec ==
  /\ Spec
  /\ WF_vars(Open) /\ WF_vars(Apply) /\ WF_vars(Rekey) /\ WF_vars(Commit)
  /\ WF_vars(IndexFails) /\ WF_vars(Opened) /\ WF_vars(Restart)

-----------------------------------------------------------------------------
IsFile(file) ==
  /\ file = File(file.version, file.columns, file.unique, file.rows)
  /\ file.version \in 0..Latest /\ file.columns \subseteq {2, 4} /\ file.unique \in BOOLEAN
  /\ DOMAIN file.rows \subseteq Id
  /\ \A i \in DOMAIN file.rows :
       /\ file.rows[i] = Row(file.rows[i].metric, file.rows[i].key)
       /\ file.rows[i].metric \in Metric
       /\ file.rows[i].key \in {NoKey, OldKey(file.rows[i].metric), Key(file.rows[i].metric)}

\* Type invariant.
TypeOK ==
  /\ disk \in log /\ IsFile(tx) /\ \A file \in log : IsFile(file)
  /\ pc \in {"closed", "migrate", "rekey", "open", "failed"}
  /\ version \in 0..(Latest + 1)
  /\ todo \subseteq DOMAIN tx.rows

\* Whatever a crash or a power loss leaves is a file that the next start can
\* migrate: columns, keys and index are those of the recorded version.
FilesMatchVersion ==
  \A file \in log :
    /\ file.columns = {v \in {2, 4} : v <= file.version}
    /\ file.unique <=> file.version >= 3
    /\ file.version >= 3 =>
         DistinctKeys(file.rows) /\ \A i \in DOMAIN file.rows : file.rows[i].key # NoKey
    /\ file.version = 5 => \A i \in DOMAIN file.rows : file.rows[i].key = Key(file.rows[i].metric)

\* Once the store is open, a metric it holds is recognised, however old the
\* agent that wrote it: there is one row of each, under the key that StoreBatch
\* would look for.
StoredOnce ==
  pc = "open" =>
    /\ \A i \in DOMAIN disk.rows : disk.rows[i].key = Key(disk.rows[i].metric)
    /\ \A i, j \in DOMAIN disk.rows : disk.rows[i].metric = disk.rows[j].metric => i = j

Duplicates ==
  \E i, j \in DOMAIN disk.rows : i # j /\ disk.rows[i].metric = disk.rows[j].metric

\* No statement of a migration has to fail: no column is added twice, however
\* an earlier attempt ended; row by row, under the unique index, version 5
\* never meets a key that another row still has or already has; and version 3
\* can build the index, unless M1 left two rows that it cannot tell apart.
MigrationPossible ==
  /\ pc = "migrate" => Added(version) \intersect disk.columns = {}
  /\ pc = "rekey" /\ tx.unique => \A i \in todo : DistinctKeys(Rewritten(i).rows)
  /\ pc = "rekey" /\ todo = {} /\ ~Duplicates => IndexPossible

\* The store opens again and again, unless the machine keeps going down or
\* the disk keeps failing.
MigrationSucceeds ==
  []<>(pc = "open") \/ []<><<Crash \/ PowerLoss \/ StatementFails>>_vars

\* ... for every file without such rows.
MigrationEnds == MigrationSucceeds \/ []Duplicates
=============================================================================
