-------------------------- MODULE MigrationsProofs --------------------------
(***************************************************************************)
(* The migrations of the database file, for any rows and keys.             *)
(***************************************************************************)
EXTENDS Migrations, TLAPS

\* A file that a version may leave behind.  The keys of versions 3 and 4 are
\* all of one format: that of the agent that wrote them, or that of the
\* migration.  The next version rests on it.
FileInv(file) ==
  /\ IsFile(file)
  /\ file.columns = {v \in {2, 4} : v <= file.version}
  /\ file.unique <=> file.version >= 3
  /\ file.version < 3 => \A i \in DOMAIN file.rows : file.rows[i].key = NoKey
  /\ file.version >= 3 => DistinctKeys(file.rows)
  /\ file.version \in {3, 4} =>
       \/ \A i \in DOMAIN file.rows : file.rows[i].key = OldKey(file.rows[i].metric)
       \/ \A i \in DOMAIN file.rows : file.rows[i].key = Key(file.rows[i].metric)
  /\ file.version = 5 => \A i \in DOMAIN file.rows : file.rows[i].key = Key(file.rows[i].metric)

\* What a transaction under way has done to the committed file.
TxInv ==
  /\ version = disk.version + 1 /\ version <= Latest
  /\ tx.version = disk.version /\ tx.unique = disk.unique
  /\ tx.columns = disk.columns \union Added(version)
  /\ DOMAIN tx.rows = DOMAIN disk.rows
  /\ version \notin {3, 5} => todo = {}
  /\ \A i \in DOMAIN tx.rows :
       /\ tx.rows[i].metric = disk.rows[i].metric
       /\ i \in todo \/ version \notin {3, 5} => tx.rows[i].key = disk.rows[i].key
       /\ i \notin todo /\ version \in {3, 5} => tx.rows[i].key = Key(tx.rows[i].metric)

IInv ==
  /\ TypeOK
  /\ \A file \in log : FileInv(file)
  /\ pc = "rekey" => TxInv
  /\ pc # "rekey" => tx = disk /\ todo = {}
  /\ pc = "migrate" => version = disk.version + 1
  /\ pc = "open" => disk.version = Latest

-----------------------------------------------------------------------------
(* Keys *)

\* Metrics with one key are one metric.
LEMMA KeyInjective == ASSUME NEW m, NEW n, Key(m) = Key(n) PROVE m = n
BY DEF Key

\* The value type is new in the keys, so no new key is an old one.
LEMMA KeysDiffer ==
  ASSUME NEW m \in Metric, NEW n \in Metric
  PROVE  OldKey(m) # Key(n)
<1>1. DOMAIN OldKey(m) = {"base", "tags"}
  BY DEF OldKey
<1>2. DOMAIN n = {"base", "tags", "type"}
  BY DEF Metric
<1>. QED
  BY <1>1, <1>2 DEF Key

\* A record whose parts are those of a file is a file.
LEMMA FilesByParts ==
  ASSUME NEW file,
         file = File(file.version, file.columns, file.unique, file.rows),
         file.version \in 0..5, file.columns \subseteq {2, 4}, file.unique \in BOOLEAN,
         DOMAIN file.rows \subseteq Id,
         \A i \in DOMAIN file.rows :
           /\ file.rows[i] = Row(file.rows[i].metric, file.rows[i].key)
           /\ file.rows[i].metric \in Metric
           /\ file.rows[i].key \in {NoKey, OldKey(file.rows[i].metric), Key(file.rows[i].metric)}
  PROVE  IsFile(file)
BY Zenon DEF IsFile, Latest

\* A file with the unique index holds no metric twice.
LEMMA MetricsDiffer ==
  ASSUME NEW file, FileInv(file), file.version >= 3,
         NEW i \in DOMAIN file.rows, NEW j \in DOMAIN file.rows,
         file.rows[i].metric = file.rows[j].metric
  PROVE  i = j
<1>1. file.version \in {3, 4, 5} /\ file.rows[i].metric \in Metric
  BY DEF FileInv, IsFile, Latest
<1>2. file.rows[i].key = file.rows[j].key /\ file.rows[i].key # NoKey
  BY <1>1, NoKeyAssumption DEF FileInv
<1>. QED
  BY <1>2 DEF FileInv, DistinctKeys

-----------------------------------------------------------------------------
(* What the statements make of a file *)

\* What the ALTER TABLE of a version changes.
LEMMA AlteredFile ==
  ASSUME NEW file, IsFile(file), NEW v
  PROVE  /\ IsFile(Altered(file, v))
         /\ Altered(file, v).version = file.version
         /\ Altered(file, v).columns = file.columns \union Added(v)
         /\ Altered(file, v).unique = file.unique
         /\ Altered(file, v).rows = file.rows
<1> DEFINE f == Altered(file, v)
<1>1. file = File(file.version, file.columns, file.unique, file.rows)
  BY Zenon DEF IsFile
<1>2. /\ f.version = file.version /\ f.columns = file.columns \union Added(v)
      /\ f.unique = file.unique /\ f.rows = file.rows
      /\ f = File(f.version, f.columns, f.unique, f.rows)
  BY <1>1 DEF File, Altered
<1>3. f.columns \subseteq {2, 4}
  BY <1>2 DEF IsFile, Added
<1>4. f.version \in 0..5 /\ f.unique \in BOOLEAN /\ DOMAIN f.rows \subseteq Id
  BY <1>2, Zenon DEF IsFile, Latest
<1>5. \A i \in DOMAIN f.rows :
        /\ f.rows[i] = Row(f.rows[i].metric, f.rows[i].key)
        /\ f.rows[i].metric \in Metric
        /\ f.rows[i].key \in {NoKey, OldKey(f.rows[i].metric), Key(f.rows[i].metric)}
  BY <1>2, Zenon DEF IsFile
<1>6. IsFile(f)
  BY <1>2, <1>3, <1>4, <1>5, FilesByParts, Zenon
<1>. QED
  BY <1>2, <1>6

\* Rewriting the key of a row changes nothing else.
LEMMA RekeyedFile ==
  ASSUME NEW file, IsFile(file), NEW i \in DOMAIN file.rows,
         NEW f, f = [file EXCEPT !.rows[i].key = Key(file.rows[i].metric)]
  PROVE  /\ IsFile(f)
         /\ f.version = file.version /\ f.columns = file.columns /\ f.unique = file.unique
         /\ DOMAIN f.rows = DOMAIN file.rows
         /\ \A j \in DOMAIN f.rows : f.rows[j].metric = file.rows[j].metric
         /\ \A j \in DOMAIN f.rows \ {i} : f.rows[j].key = file.rows[j].key
         /\ f.rows[i].key = Key(f.rows[i].metric)
<1>1. file = File(file.version, file.columns, file.unique, file.rows)
  BY Zenon DEF IsFile
<1>2. /\ f.version = file.version /\ f.columns = file.columns /\ f.unique = file.unique
      /\ f.rows = [file.rows EXCEPT ![i].key = Key(file.rows[i].metric)]
      /\ f = File(f.version, f.columns, f.unique, f.rows)
  BY <1>1 DEF File
<1>3. DOMAIN f.rows = DOMAIN file.rows
  BY <1>2
<1>4. \A j \in DOMAIN f.rows \ {i} : f.rows[j] = file.rows[j]
  BY <1>2, <1>3
<1>5. f.rows[i] = [file.rows[i] EXCEPT !.key = Key(file.rows[i].metric)]
  BY <1>2, <1>3
<1>6. file.rows[i] = Row(file.rows[i].metric, file.rows[i].key)
  BY Zenon DEF IsFile
<1>7. /\ f.rows[i].metric = file.rows[i].metric
      /\ f.rows[i].key = Key(f.rows[i].metric)
      /\ f.rows[i] = Row(f.rows[i].metric, f.rows[i].key)
  BY <1>5, <1>6 DEF Row
<1>8. \A j \in DOMAIN f.rows :
        /\ f.rows[j] = Row(f.rows[j].metric, f.rows[j].key)
        /\ f.rows[j].metric \in Metric
        /\ f.rows[j].key \in {NoKey, OldKey(f.rows[j].metric), Key(f.rows[j].metric)}
  <2> TAKE j \in DOMAIN f.rows
  <2>1. CASE j = i
    BY <1>7, <2>1, Zenon DEF IsFile
  <2>2. CASE j # i
    BY <1>3, <1>4, <2>2, Zenon DEF IsFile
  <2>. QED
    BY <2>1, <2>2
<1>9. /\ f.version \in 0..5 /\ f.columns \subseteq {2, 4} /\ f.unique \in BOOLEAN
      /\ DOMAIN f.rows \subseteq Id
  BY <1>2, <1>3, Zenon DEF IsFile, Latest
<1>10. IsFile(f)
  BY <1>2, <1>8, <1>9, FilesByParts, Zenon
<1>. QED
  BY <1>2, <1>3, <1>4, <1>7, <1>10, Zenon

\* The file that Commit writes.
Committed(file, v) == [file EXCEPT !.version = v, !.unique = @ \/ v = 3]

\* What the end of the transaction of a version changes.
LEMMA CommittedFile ==
  ASSUME NEW file, IsFile(file), NEW v \in 1..5, NEW f, f = Committed(file, v)
  PROVE  /\ IsFile(f)
         /\ f.version = v /\ f.columns = file.columns /\ f.rows = file.rows
         /\ f.unique <=> (file.unique \/ v = 3)
<1>1. file = File(file.version, file.columns, file.unique, file.rows)
  BY Zenon DEF IsFile
<1>2. /\ f.version = v /\ f.columns = file.columns /\ f.rows = file.rows
      /\ f = File(f.version, f.columns, f.unique, f.rows)
  BY <1>1 DEF File, Committed
<1>3. f.unique = (file.unique \/ v = 3)
  BY <1>1, Zenon DEF File, Committed
<1>4. f.version \in 0..5
  BY <1>2
<1>5. f.columns \subseteq {2, 4} /\ f.unique \in BOOLEAN /\ DOMAIN f.rows \subseteq Id
  BY <1>2, <1>3, Zenon DEF IsFile
<1>6. \A i \in DOMAIN f.rows :
        /\ f.rows[i] = Row(f.rows[i].metric, f.rows[i].key)
        /\ f.rows[i].metric \in Metric
        /\ f.rows[i].key \in {NoKey, OldKey(f.rows[i].metric), Key(f.rows[i].metric)}
  BY <1>2, Zenon DEF IsFile
<1>7. IsFile(f)
  BY <1>2, <1>4, <1>5, <1>6, FilesByParts, Zenon
<1>. QED
  BY <1>2, <1>3, <1>7, Zenon

\* The file that StoreBatch writes.
Stored(file, metric, i) ==
  [file EXCEPT !.rows = [j \in DOMAIN file.rows \union {i} |->
                           IF j = i THEN Row(metric, Key(metric)) ELSE file.rows[j]]]

\* Under the index, a version 5 that has all its keys and a metric that none
\* of them is for.
LEMMA StoredFile ==
  ASSUME NEW file, FileInv(file), file.version = 5,
         NEW metric \in Metric, NEW i \in Id \ DOMAIN file.rows,
         \A j \in DOMAIN file.rows : file.rows[j].key # Key(metric),
         NEW f, f = Stored(file, metric, i)
  PROVE  FileInv(f) /\ f.version = 5
<1>1. IsFile(file) /\ file = File(file.version, file.columns, file.unique, file.rows)
  BY Zenon DEF IsFile, FileInv
<1>2. /\ f.version = 5 /\ f.columns = file.columns /\ f.unique = file.unique
      /\ f.rows = [j \in DOMAIN file.rows \union {i} |->
                     IF j = i THEN Row(metric, Key(metric)) ELSE file.rows[j]]
      /\ f = File(f.version, f.columns, f.unique, f.rows)
  BY <1>1 DEF File, Stored
<1>3. DOMAIN f.rows = DOMAIN file.rows \union {i}
  BY <1>2
<1>4. f.rows[i] = Row(metric, Key(metric)) /\ \A j \in DOMAIN file.rows : f.rows[j] = file.rows[j]
  BY <1>2, <1>3
<1>5. f.rows[i].metric = metric /\ f.rows[i].key = Key(metric)
  BY <1>4 DEF Row
<1>6. \A j \in DOMAIN f.rows :
        /\ f.rows[j] = Row(f.rows[j].metric, f.rows[j].key)
        /\ f.rows[j].metric \in Metric
        /\ f.rows[j].key = Key(f.rows[j].metric)
  <2> TAKE j \in DOMAIN f.rows
  <2>1. CASE j = i
    BY <1>4, <1>5, <2>1, Zenon
  <2>2. CASE j # i
    BY <1>1, <1>3, <1>4, <2>2, Zenon DEF IsFile, FileInv
  <2>. QED
    BY <2>1, <2>2
<1>7. f.version \in 0..5
  BY <1>2
<1>8. f.columns \subseteq {2, 4} /\ f.unique \in BOOLEAN /\ DOMAIN f.rows \subseteq Id
  BY <1>1, <1>2, <1>3, Zenon DEF IsFile
<1>a. \A j \in DOMAIN f.rows :
        f.rows[j].key \in {NoKey, OldKey(f.rows[j].metric), Key(f.rows[j].metric)}
  BY <1>6
<1>b. f = File(f.version, f.columns, f.unique, f.rows)
  BY <1>2
<1>9. IsFile(f)
  BY <1>b, <1>6, <1>7, <1>8, <1>a, FilesByParts, Zenon
<1>10. DistinctKeys(f.rows)
  <2>1. file.version >= 3
    OBVIOUS
  <2>2. DistinctKeys(file.rows)
    BY <2>1, Zenon DEF FileInv
  <2>3. ASSUME NEW j \in DOMAIN f.rows, NEW k \in DOMAIN f.rows,
               f.rows[j].key = f.rows[k].key, f.rows[j].key # NoKey
        PROVE  j = k
    <3>1. CASE j # i /\ k # i
      <4>1. j \in DOMAIN file.rows /\ k \in DOMAIN file.rows
        BY <1>3, <3>1
      <4>. QED
        BY <1>4, <2>2, <2>3, <4>1, Zenon DEF DistinctKeys
    <3>2. CASE j = i /\ k # i
      BY <1>3, <1>4, <1>5, <2>3, <3>2
    <3>3. CASE j # i /\ k = i
      BY <1>3, <1>4, <1>5, <2>3, <3>3
    <3>. QED
      BY <3>1, <3>2, <3>3
  <2>. QED
    BY <2>3, Zenon DEF DistinctKeys
<1>11. f.columns = {v \in {2, 4} : v <= f.version}
  BY <1>2, Zenon DEF FileInv
<1>12. f.unique <=> f.version >= 3
  BY <1>2, Zenon DEF FileInv
<1>13. ~(f.version < 3) /\ f.version \notin {3, 4}
  BY <1>2
<1>. QED
  BY <1>2, <1>6, <1>9, <1>10, <1>11, <1>12, <1>13, Zenon DEF FileInv

\* A transaction that is through its rows, and whose index can be built,
\* leaves a file of its version.
LEMMA CommitLeavesFile ==
  ASSUME TypeOK, FileInv(disk), TxInv, todo = {}, IndexPossible,
         NEW f, f = Committed(tx, version)
  PROVE  FileInv(f) /\ f.version = version
<1>1. /\ disk.version \in 0..5 /\ version \in 1..5 /\ version = disk.version + 1
      /\ disk.columns = {v \in {2, 4} : v <= disk.version}
  BY DEF FileInv, IsFile, TxInv, Latest
<1>2. IsFile(tx)
  BY DEF TypeOK
<1>3. /\ IsFile(f)
      /\ f.version = version /\ f.columns = tx.columns /\ f.rows = tx.rows
      /\ f.unique <=> (tx.unique \/ version = 3)
  BY <1>1, <1>2, CommittedFile
<1>4. f.columns = {v \in {2, 4} : v <= f.version}
  BY <1>1, <1>3 DEF TxInv, Added
<1>5. tx.unique <=> disk.version >= 3
  BY Zenon DEF TxInv, FileInv
<1>6. f.unique <=> f.version >= 3
  <2>1. (version >= 3) <=> (disk.version >= 3 \/ version = 3)
    BY <1>1
  <2>. QED
    BY <1>3, <1>5, <2>1, Zenon
<1>7. \A i \in DOMAIN f.rows :
        /\ i \in DOMAIN disk.rows
        /\ f.rows[i].metric = disk.rows[i].metric
        /\ version \notin {3, 5} => f.rows[i].key = disk.rows[i].key
        /\ version \in {3, 5} => f.rows[i].key = Key(f.rows[i].metric)
  BY <1>3, Zenon DEF TxInv
<1>8. f.version < 3 => \A i \in DOMAIN f.rows : f.rows[i].key = NoKey
  <2>1. version < 3 => disk.version < 3 /\ version \notin {3, 5}
    BY <1>1
  <2>. QED
    BY <1>3, <1>7, <2>1, Zenon DEF FileInv
<1>9. f.version \in {3, 5} => \A i \in DOMAIN f.rows : f.rows[i].key = Key(f.rows[i].metric)
  BY <1>3, <1>7, Zenon
<1>10. f.version = 4 =>
         \/ \A i \in DOMAIN f.rows : f.rows[i].key = OldKey(f.rows[i].metric)
         \/ \A i \in DOMAIN f.rows : f.rows[i].key = Key(f.rows[i].metric)
  <2>1. version = 4 => disk.version \in {3, 4} /\ version \notin {3, 5}
    BY <1>1
  <2>2. CASE \A i \in DOMAIN disk.rows : disk.rows[i].key = OldKey(disk.rows[i].metric)
    BY <1>3, <1>7, <2>1, <2>2, Zenon
  <2>3. CASE \A i \in DOMAIN disk.rows : disk.rows[i].key = Key(disk.rows[i].metric)
    BY <1>3, <1>7, <2>1, <2>3, Zenon
  <2>. QED
    BY <1>3, <2>1, <2>2, <2>3, Zenon DEF FileInv
<1>11. f.version >= 3 => DistinctKeys(f.rows)
  <2>1. CASE version = 3
    BY <1>3, <2>1, Zenon DEF IndexPossible
  <2>2. CASE version = 4
    <3>1. DistinctKeys(disk.rows)
      BY <1>1, <2>2 DEF FileInv
    <3>2. version \notin {3, 5}
      BY <2>2
    <3>3. \A i \in DOMAIN f.rows : i \in DOMAIN disk.rows /\ f.rows[i].key = disk.rows[i].key
      BY <1>7, <3>2
    <3>4. DistinctKeys(f.rows)
      BY <3>1, <3>3, Zenon DEF DistinctKeys
    <3>. QED
      BY <3>4
  <2>3. CASE version = 5
    <3>1. disk.version >= 3
      BY <1>1, <2>3
    <3>2. ASSUME NEW i \in DOMAIN f.rows, NEW j \in DOMAIN f.rows, f.rows[i].key = f.rows[j].key
          PROVE  i = j
      <4>1. Key(f.rows[i].metric) = Key(f.rows[j].metric)
        BY <1>3, <1>9, <2>3, <3>2
      <4>2. disk.rows[i].metric = disk.rows[j].metric
        BY <1>7, <4>1, KeyInjective
      <4>. QED
        BY <1>7, <3>1, <4>2, MetricsDiffer
    <3>3. DistinctKeys(f.rows)
      BY <3>2, Zenon DEF DistinctKeys
    <3>. QED
      BY <3>3
  <2>. QED
    BY <1>1, <1>3, <2>1, <2>2, <2>3
<1>12. f.version \in {3, 4} => f.version \in {3, 5} \/ f.version = 4
  OBVIOUS
<1>13. f.version = 5 => f.version \in {3, 5}
  OBVIOUS
<1>. QED
  BY <1>3, <1>4, <1>6, <1>8, <1>9, <1>10, <1>11, <1>12, <1>13, Zenon DEF FileInv

-----------------------------------------------------------------------------
(* The start *)

\* The files an agent may find: of M1, and of every later version.
LEMMA InitFiles == ASSUME Init PROVE FileInv(disk)
<1>1. CASE disk \in M1Files
  <2>1. PICK v \in {0, 1}, rows \in Tables({Row(m, NoKey) : m \in Legacy}) :
          disk = File(v, {}, FALSE, rows)
    BY <1>1 DEF M1Files
  <2>2. /\ disk.version = v /\ disk.columns = {} /\ disk.unique = FALSE /\ disk.rows = rows
        /\ disk = File(disk.version, disk.columns, disk.unique, disk.rows)
    BY <2>1 DEF File
  <2>3. DOMAIN rows \subseteq Id /\ \A i \in DOMAIN rows : rows[i] \in {Row(m, NoKey) : m \in Legacy}
    BY DEF Tables
  <2>4. \A i \in DOMAIN rows :
          /\ rows[i].key = NoKey /\ rows[i].metric \in Metric
          /\ rows[i] = Row(rows[i].metric, rows[i].key)
    BY <2>3, TagsAssumption DEF Row, Legacy, Metric, Type
  <2>a. disk.unique \in BOOLEAN /\ ~disk.unique
    BY <2>2, Zenon
  <2>b. disk.version \in 0..5 /\ disk.columns \subseteq {2, 4}
    BY <2>2
  <2>5. IsFile(disk)
    BY <2>2, <2>3, <2>4, <2>a, <2>b, FilesByParts, Zenon
  <2>6. disk.columns = {c \in {2, 4} : c <= disk.version}
    BY <2>2
  <2>7. disk.version < 3 /\ ~(disk.version >= 3) /\ disk.version \notin {3, 4, 5}
    BY <2>2
  <2>8. \A i \in DOMAIN disk.rows : disk.rows[i].key = NoKey
    BY <2>2, <2>4
  <2>. QED
    BY <2>a, <2>5, <2>6, <2>7, <2>8, Zenon DEF FileInv
<1>2. CASE disk \in M2Files
  <2>1. PICK v \in {3, 4}, columns \in {{2}, {2, 4}}, rows \in Tables({Row(m, OldKey(m)) : m \in Metric}) :
          /\ disk = File(v, columns, TRUE, rows) /\ DistinctKeys(rows)
          /\ columns = {c \in {2, 4} : c <= v}
    <3>1. CASE disk \in {File(3, {2}, TRUE, rows) : rows \in
                 {t \in Tables({Row(m, OldKey(m)) : m \in {n \in Metric : n.type = "numeric"}}) :
                    DistinctKeys(t)}}
      <4>1. PICK rows \in Tables({Row(m, OldKey(m)) : m \in {n \in Metric : n.type = "numeric"}}) :
              disk = File(3, {2}, TRUE, rows) /\ DistinctKeys(rows)
        BY <3>1
      <4>2. rows \in Tables({Row(m, OldKey(m)) : m \in Metric})
        BY <4>1 DEF Tables
      <4>3. {2} = {c \in {2, 4} : c <= 3}
        OBVIOUS
      <4>. QED
        BY <4>1, <4>2, <4>3, Zenon
    <3>2. CASE disk \in {File(4, {2, 4}, TRUE, rows) : rows \in
                 {t \in Tables({Row(m, OldKey(m)) : m \in Metric}) : DistinctKeys(t)}}
      <4>1. PICK rows \in Tables({Row(m, OldKey(m)) : m \in Metric}) :
              disk = File(4, {2, 4}, TRUE, rows) /\ DistinctKeys(rows)
        BY <3>2
      <4>2. {2, 4} = {c \in {2, 4} : c <= 4}
        OBVIOUS
      <4>. QED
        BY <4>1, <4>2, Zenon
    <3>. QED
      BY <1>2, <3>1, <3>2 DEF M2Files
  <2>2. /\ disk.version = v /\ disk.columns = columns /\ disk.unique = TRUE /\ disk.rows = rows
        /\ disk = File(disk.version, disk.columns, disk.unique, disk.rows)
    BY <2>1 DEF File
  <2>3. DOMAIN rows \subseteq Id /\ \A i \in DOMAIN rows : rows[i] \in {Row(m, OldKey(m)) : m \in Metric}
    BY DEF Tables
  <2>4. \A i \in DOMAIN rows :
          /\ rows[i].metric \in Metric /\ rows[i].key = OldKey(rows[i].metric)
          /\ rows[i] = Row(rows[i].metric, rows[i].key)
    BY <2>3 DEF Row
  <2>a. disk.unique \in BOOLEAN /\ disk.unique
    BY <2>2, Zenon
  <2>b. disk.version \in 0..5 /\ disk.columns \subseteq {2, 4}
    BY <2>2
  <2>5. IsFile(disk)
    BY <2>2, <2>3, <2>4, <2>a, <2>b, FilesByParts, Zenon
  <2>6. disk.columns = {c \in {2, 4} : c <= disk.version}
    BY <2>1, <2>2
  <2>c. disk.version \in {3, 4}
    BY <2>2, Zenon
  <2>7. ~(disk.version < 3) /\ disk.version >= 3 /\ disk.version # 5
    BY <2>c
  <2>8. DistinctKeys(disk.rows)
    BY <2>1, <2>2
  <2>9. \A i \in DOMAIN disk.rows : disk.rows[i].key = OldKey(disk.rows[i].metric)
    BY <2>2, <2>4
  <2>. QED
    BY <2>a, <2>5, <2>6, <2>7, <2>8, <2>9, Zenon DEF FileInv
<1>. QED
  BY <1>1, <1>2 DEF Init

\* The first opening satisfies the invariant.
LEMMA InitIInv == Init => IInv
<1> SUFFICES ASSUME Init PROVE IInv
  OBVIOUS
<1>1. FileInv(disk)
  BY InitFiles
<1>. QED
  BY <1>1 DEF Init, IInv, TypeOK, FileInv, Latest

-----------------------------------------------------------------------------
(* The steps *)

\* The committed file is one that a version left behind.
LEMMA DiskIsFile == ASSUME IInv PROVE FileInv(disk) /\ IsFile(disk) /\ disk.version \in 0..5
<1>1. FileInv(disk)
  BY Zenon DEF IInv, TypeOK
<1>. QED
  BY <1>1, Zenon DEF FileInv, IsFile, Latest

\* The first statements of a version.
LEMMA ApplyStep == ASSUME IInv, Apply PROVE IInv'
<1>1. /\ tx = disk /\ todo = {} /\ pc = "migrate"
      /\ version = disk.version + 1 /\ version <= Latest /\ disk.version \in 0..5
  BY DiskIsFile DEF IInv, Apply
<1>2. /\ tx' = Altered(disk, version) /\ todo' = Rekeyed(disk, version) /\ pc' = "rekey"
      /\ disk' = disk /\ log' = log /\ version' = version
  BY DEF Apply
<1>3. /\ IsFile(tx') /\ tx'.version = disk.version
      /\ tx'.columns = disk.columns \union Added(version)
      /\ tx'.unique = disk.unique /\ tx'.rows = disk.rows
  BY <1>2, DiskIsFile, AlteredFile
<1>4. version \in {3, 5} => todo' = DOMAIN disk.rows
  <2>1. CASE version = 3
    <3>1. disk.version < 3
      BY <1>1, <2>1
    <3>2. \A i \in DOMAIN disk.rows : disk.rows[i].key = NoKey
      BY <3>1, DiskIsFile DEF FileInv
    <3>. QED
      BY <1>2, <2>1, <3>2 DEF Rekeyed
  <2>2. CASE version = 5
    BY <1>2, <2>2 DEF Rekeyed
  <2>. QED
    BY <2>1, <2>2
<1>5. todo' \subseteq DOMAIN tx'.rows
  BY <1>2, <1>3 DEF Rekeyed
<1>6. TypeOK'
  <2>1. version' \in 0..(Latest + 1)
    BY <1>2, Zenon DEF IInv, TypeOK
  <2>. QED
    BY <1>2, <1>3, <1>5, <2>1, Zenon DEF IInv, TypeOK
<1>7. TxInv'
  <2>1. \A i \in DOMAIN tx'.rows :
          /\ tx'.rows[i] = disk'.rows[i]
          /\ i \notin todo' => version' \notin {3, 5}
    BY <1>2, <1>3, <1>4
  <2>2. /\ version' = disk'.version + 1 /\ version' <= Latest
        /\ DOMAIN tx'.rows = DOMAIN disk'.rows
        /\ version' \notin {3, 5} => todo' = {}
    BY <1>1, <1>2, <1>3 DEF Rekeyed
  <2>3. /\ tx'.version = disk'.version /\ tx'.unique = disk'.unique
        /\ tx'.columns = disk'.columns \union Added(version')
    BY <1>2, <1>3, Zenon
  <2>. QED
    BY <2>1, <2>2, <2>3, Zenon DEF TxInv
<1>. QED
  BY <1>2, <1>6, <1>7, Zenon DEF IInv

\* One row of the loop of a version.
LEMMA RekeyStep == ASSUME IInv, Rekey PROVE IInv'
<1>1. PICK i \in todo : tx' = Rewritten(i) /\ todo' = todo \ {i}
  BY DEF Rekey
<1>2. /\ pc = "rekey" /\ pc' = "rekey"
      /\ disk' = disk /\ log' = log /\ version' = version
  BY DEF Rekey
<1>3. TxInv /\ IsFile(tx) /\ todo \subseteq DOMAIN tx.rows /\ i \in DOMAIN tx.rows
  BY <1>1, <1>2 DEF IInv, TypeOK
<1>4. tx' = [tx EXCEPT !.rows[i].key = Key(tx.rows[i].metric)]
  BY <1>1, Zenon DEF Rewritten
<1>5. /\ IsFile(tx')
      /\ tx'.version = tx.version /\ tx'.columns = tx.columns /\ tx'.unique = tx.unique
      /\ DOMAIN tx'.rows = DOMAIN tx.rows
      /\ \A j \in DOMAIN tx'.rows : tx'.rows[j].metric = tx.rows[j].metric
      /\ \A j \in DOMAIN tx'.rows \ {i} : tx'.rows[j].key = tx.rows[j].key
      /\ tx'.rows[i].key = Key(tx'.rows[i].metric)
  BY <1>3, <1>4, RekeyedFile
<1>6. version \in {3, 5}
  BY <1>1, <1>2 DEF IInv, TxInv
<1>7. TypeOK'
  <2>1. todo' \subseteq DOMAIN tx'.rows
    BY <1>1, <1>3, <1>5
  <2>. QED
    BY <1>2, <1>5, <2>1, Zenon DEF IInv, TypeOK
<1>. QED
  BY <1>1, <1>2, <1>3, <1>5, <1>6, <1>7 DEF IInv, TxInv

\* The commit of a version.
LEMMA CommitStep == ASSUME IInv, Commit PROVE IInv'
<1>1. /\ pc = "rekey" /\ todo = {} /\ IndexPossible /\ TypeOK /\ TxInv
      /\ disk' = tx' /\ log' = log \union {tx'} /\ version' = version + 1
      /\ pc' = "migrate" /\ todo' = {}
  BY DEF Commit, Write, IInv
<1>2. tx' = Committed(tx, version)
  BY Zenon DEF Commit, Committed
<1>3. FileInv(tx') /\ tx'.version = version
  BY <1>1, <1>2, DiskIsFile, CommitLeavesFile
<1>4. IsFile(tx') /\ version \in 0..5
  BY <1>1, <1>3 DEF FileInv, TypeOK, TxInv, Latest
<1>5. version' \in 0..(Latest + 1)
  BY <1>1, <1>4 DEF Latest
<1>6. TypeOK'
  <2>1. \A file \in log' : IsFile(file)
    BY <1>1, <1>4, Zenon DEF TypeOK
  <2>2. disk' \in log' /\ todo' \subseteq DOMAIN tx'.rows
    BY <1>1
  <2>. QED
    BY <1>1, <1>4, <1>5, <2>1, <2>2, Zenon DEF TypeOK
<1>7. \A file \in log' : FileInv(file)
  BY <1>1, <1>3, Zenon DEF IInv
<1>8. version' = disk'.version + 1
  BY <1>1, <1>3
<1>. QED
  BY <1>1, <1>6, <1>7, <1>8, Zenon DEF IInv

\* A batch stored between two openings.
LEMMA StoreStep == ASSUME IInv, StoreBatch PROVE IInv'
<1>1. PICK metric \in Metric, i \in Id \ DOMAIN disk.rows :
        /\ \A j \in DOMAIN disk.rows : disk.rows[j].key # Key(metric)
        /\ disk' = Stored(disk, metric, i) /\ log' = log \union {disk'}
  BY Zenon DEF StoreBatch, Write, Stored
<1>2. /\ pc = "open" /\ pc' = "open" /\ tx' = disk' /\ version' = version /\ todo' = todo
      /\ todo = {} /\ disk.version = 5
  BY DEF StoreBatch, IInv, Latest
<1>3. FileInv(disk') /\ disk'.version = 5
  BY <1>1, <1>2, DiskIsFile, StoredFile
<1>4. IsFile(disk')
  BY <1>3, Zenon DEF FileInv
<1>5. TypeOK'
  <2>1. \A file \in log' : IsFile(file)
    BY <1>1, <1>4, Zenon DEF IInv, TypeOK
  <2>2. disk' \in log' /\ todo' \subseteq DOMAIN tx'.rows
    BY <1>1, <1>2
  <2>3. version' \in 0..(Latest + 1)
    BY <1>2, Zenon DEF IInv, TypeOK
  <2>. QED
    BY <1>2, <1>4, <2>1, <2>2, <2>3, Zenon DEF TypeOK
<1>6. \A file \in log' : FileInv(file)
  BY <1>1, <1>3, Zenon DEF IInv
<1>. QED
  BY <1>2, <1>3, <1>5, <1>6 DEF IInv, Latest

\* A transaction that ends without Commit, and a start or a stop, leave what
\* is on the disk and nothing else.
LEMMA EndStep ==
  ASSUME IInv,
         IndexFails \/ StatementFails \/ Open \/ Opened \/ Restart \/ Crash \/ CheckpointWAL
  PROVE  IInv'
<1>1. /\ disk' = disk /\ log' \subseteq log /\ disk' \in log'
      /\ disk.version \in 0..5 /\ IsFile(disk)
  BY DiskIsFile DEF IInv, TypeOK, IndexFails, StatementFails, Rollback, Open, Opened, Restart, Crash, Stop, CheckpointWAL
<1>2. pc' # "rekey" /\ tx' = disk' /\ todo' = {}
  BY DEF IInv, IndexFails, StatementFails, Rollback, Open, Opened, Restart, Crash, Stop, CheckpointWAL
<1>3. pc' \in {"closed", "migrate", "open", "failed"}
  BY DEF IndexFails, StatementFails, Rollback, Open, Opened, Restart, Crash, Stop, CheckpointWAL
<1>4. version' \in 0..(Latest + 1) /\ (pc' = "migrate" => version' = disk'.version + 1)
  BY <1>1 DEF IInv, TypeOK, Latest, IndexFails, StatementFails, Rollback, Open, Opened, Restart, Crash, Stop, CheckpointWAL
<1>5. pc' = "open" => disk'.version = Latest
  BY <1>1 DEF IInv, Latest, IndexFails, StatementFails, Rollback, Open, Opened, Restart, Crash, Stop, CheckpointWAL
<1>6. TypeOK'
  BY <1>1, <1>2, <1>3, <1>4 DEF IInv, TypeOK
<1>7. \A file \in log' : FileInv(file)
  BY <1>1, Zenon DEF IInv
<1>. QED
  BY <1>2, <1>4, <1>5, <1>6, <1>7, Zenon DEF IInv

\* A power loss returns to a file that was committed.
LEMMA PowerLossStep == ASSUME IInv, PowerLoss PROVE IInv'
<1>1. /\ disk' \in log /\ log' = {disk'} /\ tx' = disk' /\ todo' = {}
      /\ pc' = "closed" /\ version' = version
  BY DEF PowerLoss, Stop
<1>2. FileInv(disk') /\ IsFile(disk')
  BY <1>1, Zenon DEF IInv, TypeOK
<1>3. TypeOK'
  BY <1>1, <1>2 DEF IInv, TypeOK
<1>. QED
  BY <1>1, <1>2, <1>3 DEF IInv

\* Every step keeps the invariant.
LEMMA StepIInv == IInv /\ [Next]_vars => IInv'
<1> SUFFICES ASSUME IInv, [Next]_vars PROVE IInv'
  OBVIOUS
<1>1. CASE Apply
  BY <1>1, ApplyStep
<1>2. CASE Rekey
  BY <1>2, RekeyStep
<1>3. CASE Commit
  BY <1>3, CommitStep
<1>4. CASE StoreBatch
  BY <1>4, StoreStep
<1>5. CASE IndexFails \/ StatementFails \/ Open \/ Opened \/ Restart \/ Crash \/ CheckpointWAL
  BY <1>5, EndStep
<1>6. CASE PowerLoss
  BY <1>6, PowerLossStep
<1>7. CASE UNCHANGED vars
  BY <1>7 DEF vars, IInv, TypeOK, TxInv, Added
<1>. QED
  BY <1>1, <1>2, <1>3, <1>4, <1>5, <1>6, <1>7 DEF Next

\* The strengthened invariant holds in every reachable state.
THEOREM Invariance == Spec => []IInv
BY InitIInv, StepIInv, PTL DEF Spec

-----------------------------------------------------------------------------
(* What follows *)

\* Types of the file, of the log and of the transaction, for any rows.
THEOREM TypeCorrect == Spec => []TypeOK
<1>1. IInv => TypeOK
  BY DEF IInv
<1>. QED
  BY <1>1, Invariance, PTL

\* Whatever a crash, an error or a power loss leaves is a file of the version
\* it says it is, which the next start can go on from.
THEOREM EveryFileMatches == Spec => []FilesMatchVersion
<1>1. ASSUME IInv PROVE FilesMatchVersion
  <2>1. ASSUME NEW file \in log, file.version >= 3
        PROVE  \A i \in DOMAIN file.rows : file.rows[i].key # NoKey
    <3>1. FileInv(file) /\ IsFile(file)
      BY <1>1, Zenon DEF IInv, TypeOK
    <3>2. file.version \in {3, 4, 5}
      BY <2>1, <3>1 DEF IsFile, Latest
    <3>3. \A i \in DOMAIN file.rows : file.rows[i].metric \in Metric
      BY <3>1, Zenon DEF IsFile
    <3>. QED
      BY <3>1, <3>2, <3>3, NoKeyAssumption DEF FileInv
  <2>2. \A file \in log : FileInv(file)
    BY <1>1 DEF IInv
  <2>. QED
    BY <2>1, <2>2, Zenon DEF FilesMatchVersion, FileInv
<1>. QED
  BY <1>1, Invariance, PTL

\* An open store holds a metric once, under the key StoreBatch looks for,
\* however old the agent that wrote it.
THEOREM MetricsAreStoredOnce == Spec => []StoredOnce
<1>1. ASSUME IInv PROVE StoredOnce
  <2>1. SUFFICES ASSUME pc = "open"
                 PROVE  /\ \A i \in DOMAIN disk.rows : disk.rows[i].key = Key(disk.rows[i].metric)
                        /\ \A i, j \in DOMAIN disk.rows : disk.rows[i].metric = disk.rows[j].metric => i = j
    BY Zenon DEF StoredOnce
  <2>2. FileInv(disk) /\ disk.version = 5
    BY <1>1, <2>1, DiskIsFile DEF IInv, Latest
  <2>. QED
    BY <2>2, MetricsDiffer DEF FileInv
<1>. QED
  BY <1>1, Invariance, PTL

\* No statement of a migration has to fail, save for rows that M1 left and
\* that its key cannot tell apart.
THEOREM StatementsCanSucceed == Spec => []MigrationPossible
<1>1. ASSUME IInv PROVE MigrationPossible
  <2>1. pc = "migrate" => Added(version) \intersect disk.columns = {}
    BY <1>1, DiskIsFile DEF IInv, FileInv, Added
  <2>2. ASSUME pc = "rekey", tx.unique, NEW i \in todo PROVE DistinctKeys(Rewritten(i).rows)
    <3>1. TxInv /\ IsFile(tx) /\ i \in DOMAIN tx.rows
      BY <1>1, <2>2 DEF IInv, TypeOK
    <3>2. disk.version >= 3 /\ FileInv(disk)
      BY <1>1, <2>2, <3>1, DiskIsFile, Zenon DEF FileInv, TxInv
    <3>. DEFINE f == Rewritten(i)
    <3>3. /\ DOMAIN f.rows = DOMAIN tx.rows
          /\ \A j \in DOMAIN f.rows : f.rows[j].metric = tx.rows[j].metric
          /\ \A j \in DOMAIN f.rows \ {i} : f.rows[j].key = tx.rows[j].key
          /\ f.rows[i].key = Key(f.rows[i].metric)
      <4>1. f = [tx EXCEPT !.rows[i].key = Key(tx.rows[i].metric)]
        BY Zenon DEF Rewritten
      <4>. QED
        BY <3>1, <4>1, RekeyedFile
    <3>4. \A j \in DOMAIN f.rows :
            /\ j \in DOMAIN disk.rows /\ f.rows[j].metric = disk.rows[j].metric
            /\ disk.rows[j].metric \in Metric
      BY <3>1, <3>3, DiskIsFile, <1>1, Zenon DEF TxInv, IsFile
    <3>5. version \in 4..5 /\ version = disk.version + 1 /\ disk.version \in {3, 4}
      BY <1>1, <3>1, <3>2, DiskIsFile DEF TxInv, Latest
    <3>6. \A j \in DOMAIN f.rows \ {i} :
            \/ f.rows[j].key = Key(disk.rows[j].metric)
            \/ f.rows[j].key = OldKey(disk.rows[j].metric)
      BY <3>1, <3>2, <3>3, <3>4, <3>5 DEF TxInv, FileInv
    <3>7. \A j \in DOMAIN f.rows \ {i} : f.rows[j].key # f.rows[i].key
      <4> SUFFICES ASSUME NEW j \in DOMAIN f.rows \ {i}, f.rows[j].key = f.rows[i].key
                   PROVE  FALSE
        OBVIOUS
      <4>1. f.rows[i].key = Key(disk.rows[i].metric) /\ i \in DOMAIN f.rows
        BY <3>1, <3>3, <3>4
      <4>2. disk.rows[i].metric # disk.rows[j].metric
        BY <3>2, <3>4, <4>1, MetricsDiffer
      <4>. QED
        BY <3>4, <3>6, <4>1, <4>2, KeyInjective, KeysDiffer
    <3>8. ASSUME NEW j \in DOMAIN f.rows \ {i}, NEW k \in DOMAIN f.rows \ {i},
                 f.rows[j].key = f.rows[k].key
          PROVE  j = k
      <4>1. CASE f.rows[j].key = Key(disk.rows[j].metric) /\ f.rows[k].key = Key(disk.rows[k].metric)
        BY <3>2, <3>4, <3>8, <4>1, KeyInjective, MetricsDiffer
      <4>2. CASE f.rows[j].key = disk.rows[j].key /\ f.rows[k].key = disk.rows[k].key
        <5>1. disk.rows[j].key # NoKey
          BY <3>2, <3>4, <3>5, <3>6, <4>2, NoKeyAssumption
        <5>. QED
          BY <3>2, <3>4, <3>8, <4>2, <5>1 DEF FileInv, DistinctKeys
      <4>. QED
        BY <3>1, <3>2, <3>3, <3>4, <3>5, <3>6, <3>8, <4>1, <4>2, KeysDiffer DEF TxInv, FileInv
    <3>. QED
      BY <3>7, <3>8, Zenon DEF DistinctKeys
  <2>3. ASSUME pc = "rekey", todo = {}, ~Duplicates PROVE IndexPossible
    <3>1. TxInv /\ FileInv(disk)
      BY <1>1, <2>3, DiskIsFile DEF IInv
    <3>2. SUFFICES ASSUME version = 3 PROVE DistinctKeys(tx.rows)
      BY DEF IndexPossible
    <3>3. \A i \in DOMAIN tx.rows :
            /\ i \in DOMAIN disk.rows /\ tx.rows[i].metric = disk.rows[i].metric
            /\ tx.rows[i].key = Key(tx.rows[i].metric)
      BY <2>3, <3>1, <3>2 DEF TxInv
    <3>. QED
      BY <2>3, <3>3, KeyInjective DEF DistinctKeys, Duplicates
  <2>. QED
    BY <2>1, <2>2, <2>3 DEF MigrationPossible
<1>. QED
  BY <1>1, Invariance, PTL
=============================================================================
