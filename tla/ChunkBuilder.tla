---------------------------- MODULE ChunkBuilder ----------------------------
(***************************************************************************)
(* BuildChunks of internal/uploader/victoriametrics.go: a batch is sorted  *)
(* by time and cut into runs of chunkSize metrics; the numeric metrics of  *)
(* a run become a chunk; a run whose compressed form is over the limit is  *)
(* handed to a recursive call with half the size.                          *)
(*                                                                         *)
(* A metric is its position in the batch, which stands for its storage id. *)
(* The recursion is a stack of loops, one step per run.  A call sorts a    *)
(* copy of its slice, and what it has cut before is never looked at again: *)
(* the copies are one sequence here.  BuildVMJSONL is taken to succeed.    *)
(***************************************************************************)
EXTENDS Naturals, Sequences, FiniteSets, Functions

CONSTANTS
  Sample,                \* what a metric may be: its time, numeric or string
  CompressedSize(_, _),  \* of some metrics of a batch: whatever gzip makes of them
  Limit,                 \* MaxChunkSizeBytes
  DefaultSize,           \* 50 in the code
  MaxLength,             \* bound: longest batch
  MaxSize                \* bound: largest chunk size asked for

Batches == UNION {[1..n -> Sample] : n \in 0..MaxLength}

ASSUME ChunkAssumption ==
  /\ \A s \in Sample : s.time \in Nat /\ s.numeric \in BOOLEAN
  /\ \A b \in Batches : \A ids \in SUBSET DOMAIN b : CompressedSize(b, ids) \in Nat
  /\ Limit \in Nat /\ DefaultSize \in Nat \ {0} /\ MaxLength \in Nat /\ MaxSize \in Nat

VARIABLES
  batch,      \* the metrics argument
  asked,      \* the chunkSize argument; 0 stands for every value <= 0
  sorted,     \* sortedMetrics
  loops,      \* the loops under way, the innermost first
  built,      \* chunks: the positions in sorted of the metrics of each
  outcome     \* "called", "running", "ok" or "failed"

buildVars == <<batch, asked, sorted, loops, built, outcome>>

-----------------------------------------------------------------------------
\* sort.Slice is not stable: equal timestamps come in any order.
InOrder(s) == \A p, q \in DOMAIN s : p < q => batch[s[p]].time <= batch[s[q]].time

Sortings == {s \in [DOMAIN batch -> DOMAIN batch] : IsInjective(s) /\ InOrder(s)}

\* The recursive call sorts its slice again.
SliceSortings(run) ==
  {s \in Sortings : \A p \in DOMAIN batch \ run : s[p] = sorted[p]}

\* BuildVMJSONL skips string metrics and returns the ids of the others.
IncludedIDs(run) == {sorted[p] : p \in {q \in run : batch[sorted[q]].numeric}}

\* Mutant: one byte too much.
Fits_Above(run) == CompressedSize(batch, IncludedIDs(run)) <= Limit + 1

Fits(run) == CompressedSize(batch, IncludedIDs(run)) <= Limit

EffectiveSize(n) == IF n = 0 THEN DefaultSize ELSE n

Half(n) == IF n \div 2 < 1 THEN 1 ELSE n \div 2

\* A loop from position next on, over the positions up to last.
Loop(next, last, size) == [next |-> next, last |-> last, size |-> size]

End(l) == IF l.next + l.size - 1 > l.last THEN l.last ELSE l.next + l.size - 1

\* The run that a loop is at.
Run(l) == l.next..End(l)

\* Mutant: a pair of metrics is not split either.
Unsplittable_Pair(l) == End(l) <= l.next + 1

Unsplittable(l) == End(l) <= l.next

Advanced == <<Loop(End(loops[1]) + 1, loops[1].last, loops[1].size)>> \o Tail(loops)

-----------------------------------------------------------------------------
BuildInit ==
  /\ batch \in Batches
  /\ asked \in 0..MaxSize
  /\ sorted = <<>> /\ loops = <<>> /\ built = <<>>
  /\ outcome = "called"

Call ==
  /\ outcome = "called"
  /\ sorted' \in Sortings
  /\ loops' = <<Loop(1, Len(batch), EffectiveSize(asked))>>
  /\ outcome' = "running"
  /\ UNCHANGED <<batch, asked, built>>

AtRun == outcome = "running" /\ loops[1].next <= loops[1].last

\* Mutant: the loop continues without going on.
SkipRun_Stays ==
  /\ AtRun /\ IncludedIDs(Run(loops[1])) = {}
  /\ UNCHANGED buildVars

SkipRun ==
  /\ AtRun /\ IncludedIDs(Run(loops[1])) = {}
  /\ loops' = Advanced
  /\ UNCHANGED <<batch, asked, sorted, built, outcome>>

AddChunk ==
  /\ AtRun /\ IncludedIDs(Run(loops[1])) # {} /\ Fits(Run(loops[1]))
  /\ built' = Append(built, Run(loops[1]))
  /\ loops' = Advanced
  /\ UNCHANGED <<batch, asked, sorted, outcome>>

\* Mutant: the chunks of the slice are returned as those of the whole.
Bisect_ReturnsEarly ==
  /\ AtRun /\ IncludedIDs(Run(loops[1])) # {} /\ ~Fits(Run(loops[1]))
  /\ ~Unsplittable(loops[1])
  /\ sorted' \in SliceSortings(Run(loops[1]))
  /\ loops' = <<Loop(loops[1].next, End(loops[1]), Half(loops[1].size))>> \o Tail(loops)
  /\ UNCHANGED <<batch, asked, built, outcome>>

\* Mutant: the loop goes on with the smaller size.
Bisect_Shrinks ==
  /\ AtRun /\ IncludedIDs(Run(loops[1])) # {} /\ ~Fits(Run(loops[1]))
  /\ ~Unsplittable(loops[1])
  /\ sorted' \in SliceSortings(Run(loops[1]))
  /\ loops' = <<Loop(loops[1].next, loops[1].last, Half(loops[1].size))>> \o Tail(loops)
  /\ UNCHANGED <<batch, asked, built, outcome>>

Bisect ==
  /\ AtRun /\ IncludedIDs(Run(loops[1])) # {} /\ ~Fits(Run(loops[1]))
  /\ ~Unsplittable(loops[1])
  /\ sorted' \in SliceSortings(Run(loops[1]))
  /\ loops' = <<Loop(loops[1].next, End(loops[1]), Half(loops[1].size))>> \o Advanced
  /\ UNCHANGED <<batch, asked, built, outcome>>

\* An error anywhere is an error of all.
GiveUp ==
  /\ AtRun /\ IncludedIDs(Run(loops[1])) # {} /\ ~Fits(Run(loops[1]))
  /\ Unsplittable(loops[1])
  /\ loops' = <<>> /\ built' = <<>>
  /\ outcome' = "failed"
  /\ UNCHANGED <<batch, asked, sorted>>

\* The innermost call returns, and with the outermost the whole.
Return ==
  /\ outcome = "running" /\ loops[1].next > loops[1].last
  /\ loops' = Tail(loops)
  /\ outcome' = IF Len(loops) = 1 THEN "ok" ELSE "running"
  /\ UNCHANGED <<batch, asked, sorted, built>>

BuildNext == Call \/ SkipRun \/ AddChunk \/ Bisect \/ GiveUp \/ Return

BuildSpec == BuildInit /\ [][BuildNext]_buildVars

-----------------------------------------------------------------------------
\* However often a run was cut again, the chunks together hold every numeric
\* metric of the batch exactly once, no string metric, and go up in time from
\* one to the next.
Complete ==
  outcome = "ok" =>
    /\ UNION {IncludedIDs(built[i]) : i \in DOMAIN built} = {m \in DOMAIN batch : batch[m].numeric}
    /\ \A i, j \in DOMAIN built : i < j =>
         \A m \in IncludedIDs(built[i]), n \in IncludedIDs(built[j]) :
           m # n /\ batch[m].time <= batch[n].time

\* No chunk is empty, over the number asked for or over the byte limit.
WithinLimits ==
  \A i \in DOMAIN built :
    /\ Cardinality(IncludedIDs(built[i])) \in 1..EffectiveSize(asked)
    /\ CompressedSize(batch, IncludedIDs(built[i])) <= Limit

\* More input never compresses to less: true of most batches.
PartsFit ==
  \A T \in SUBSET DOMAIN batch :
    CompressedSize(batch, T) <= Limit =>
      \A S \in SUBSET T : CompressedSize(batch, S) <= Limit

Giant(m) == batch[m].numeric /\ CompressedSize(batch, {m}) > Limit

\* The call fails when one metric alone is over the limit, and only then:
\* halving gives up on nothing that could be sent.  (A compressor for which
\* the whole is less than a part may hide a metric that is over the limit.)
FailsOnlyForGiant ==
  /\ outcome = "failed" => \E m \in DOMAIN batch : Giant(m)
  /\ outcome = "ok" /\ PartsFit => \A m \in DOMAIN batch : ~Giant(m)

\* The runs of the size asked for, as the outermost loop would make them.
FirstRun(k) ==
  Run(Loop(k * EffectiveSize(asked) + 1, Len(batch), EffectiveSize(asked)))

\* A run of the size asked for that fits is sent as it is, whatever other
\* runs of the batch need.
WholeRuns ==
  outcome = "ok" =>
    \A k \in 0..Len(batch) :
      LET run == FirstRun(k)
      IN  IncludedIDs(run) # {} /\ CompressedSize(batch, IncludedIDs(run)) <= Limit
            => run \in Range(built)

\* Halving ends: the call returns.
Returns == <>(outcome \in {"ok", "failed"})
=============================================================================
