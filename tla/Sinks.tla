------------------------------- MODULE Sinks -------------------------------
(***************************************************************************)
(* The data pipeline (core/pipeline.py) and its sinks (core/sinks/), in    *)
(* the order SpiderRunner._run drives them: a pipeline is opened, given    *)
(* each item, flushed when the spider is drained and closed in any case.   *)
(* A retry runs inside the handler of the error, so its pipeline is opened *)
(* and closed before that of the failed attempt is closed.                 *)
(*                                                                         *)
(* SpiderRunner builds its pipeline without sinks at present; here it has  *)
(* those that the settings of a spider ask for.                            *)
(***************************************************************************)
EXTENDS Integers, Sequences, FiniteSets, FiniteSetsExt, SequencesExt

CONSTANTS
    Configs,      \* the sinks a pipeline may have, sequences of Kinds
    BatchSize,    \* batch_size, and flush_interval of the Parquet sink
    MaxItems,     \* bound: items all attempts produce together
    MaxAttempts   \* bound: attempts, one more than the retries

Kinds == {"json", "csv", "excel", "parquet", "kafka", "doris", "database"}

ASSUME SinksAssumption ==
    /\ \A c \in Configs : c \in Seq(Kinds) /\ c # <<>>
    /\ BatchSize \in Nat \ {0} /\ MaxItems \in Nat /\ MaxAttempts \in Nat \ {0}

VARIABLES
    sinks,        \* the sinks of this spider, the same in each attempt
    odd,          \* the items that the file formats cannot take
    pipes,        \* the open pipelines, the innermost last
    op,           \* what the innermost does, with which sink
    store,        \* what each sink's target holds
    \* History.
    opened,       \* attempts so far
    yielded,      \* items all attempts produced so far
    taken,        \* items each sink was given in each attempt
    flawless,     \* sinks of which no write has failed
    cancelled     \* the task was cancelled

vars == <<sinks, odd, pipes, op, store, opened, yielded, taken, flawless, cancelled>>

Items == 1..MaxItems

Attempts == 1..MaxAttempts

Positions == 1..Len(sinks)

\* A record is an item of an attempt; Old was there before.
Old == <<0, 1>>

Record == {Old} \cup (Attempts \X Items)

Ups == {"up", "down", "absent"}

Pipe == pipes[Len(pipes)]

\* The open pipelines when the innermost has changed to p.
WithPipe(p) == [pipes EXCEPT ![Len(pipes)] = p]

NewPipe ==
    [up   |-> [i \in Positions |-> "down"],
     buf  |-> [i \in Positions |-> <<>>],
     rows |-> [i \in Positions |-> <<>>]]

\* The kinds whose target is a file that the sink reads.
Rereading == {"excel", "parquet"}

\* The kinds that await something of the outside while they write.
Awaiting == {"kafka", "doris", "database"}

At(name, i) == [at |-> name, sink |-> i]

\* Mutant of Following: the loop goes one sink too far.
FollowingTooFar(name, i, done) == IF i <= Len(sinks) THEN At(name, i + 1) ELSE done

\* A loop of the pipeline goes on to its next sink, or is done.
Following(name, i, done) == IF i < Len(sinks) THEN At(name, i + 1) ELSE done

-----------------------------------------------------------------------------
(* What each sink may make of open(): it is up, it is not initialised since *)
(* open() raised, or the library it needs is absent.                       *)

FileOpens == {"up", "down"}

\* The producer may not start; without aiokafka there is none.
KafkaOpens == {"up", "down", "absent"}

\* What fails is passed over, and the client is there.
DorisOpens == {"up"}

LibraryOpens == {"up", "down", "absent"}

DatabaseOpens == {"up", "down"}

Opens ==
    [json |-> FileOpens, csv |-> FileOpens, excel |-> LibraryOpens, parquet |-> LibraryOpens,
     kafka |-> KafkaOpens, doris |-> DorisOpens, database |-> DatabaseOpens]

\* The Excel sink loads the rows of its file; if it cannot read them all it
\* goes on with those it read.
Loads(i, up) ==
    {SubSeq(store[i], 1, n) :
        n \in IF sinks[i] = "excel" /\ up = "up" THEN 0..Len(store[i]) ELSE {0}}

-----------------------------------------------------------------------------
(* Writing a batch: the ways _write_batch of each sink may go, as how many *)
(* of the batch reach the target, and whether an exception leaves the      *)
(* batch in the buffer.                                                    *)

All(batch) == [n |-> Len(batch), kept |-> FALSE]

Dropped == [n |-> 0, kept |-> FALSE]

Raised == [n |-> 0, kept |-> TRUE]

Broken(batch) == {[n |-> n, kept |-> TRUE] : n \in 0..Len(batch)}

\* The batch up to the first item that is refused.
Until(refused, batch) ==
    IF refused = {} THEN All(batch) ELSE [n |-> Min(refused) - 1, kept |-> TRUE]

\* json.dumps refuses some items.
JsonWays(up, batch) ==
    {IF up = "up" THEN Until({j \in DOMAIN batch : batch[j][2] \in odd}, batch) ELSE Raised}

\* A DictWriter refuses an item with a field that the first of its batch lacks.
CsvWays(up, batch) ==
    {IF up = "up" /\ batch[1][2] \notin odd
     THEN Until({j \in DOMAIN batch : batch[j][2] \in odd}, batch)
     ELSE IF up = "up" THEN All(batch) ELSE Raised}

\* A send may fail, also after it took effect.
KafkaWays(up, batch) ==
    CASE up = "up"     -> {All(batch)} \cup Broken(batch)
      [] up = "down"   -> {Raised}
      [] up = "absent" -> {Dropped}

\* So may a commit.
DatabaseWays(batch) == {All(batch)} \cup Broken(batch)

\* A Stream Load is never seen to fail.
DorisWays(batch) == {All(batch), Dropped}

\* The Parquet sink raises, and catches it, whenever its file exists.
ParquetWays(up, batch, file) ==
    IF up = "absent" THEN {Dropped} ELSE {Raised} \cup (IF file = <<>> THEN {All(batch)} ELSE {})

\* The Excel sink keeps its rows in memory.
ExcelWays == {Dropped}

\* Nothing is written for an empty buffer.
Ways(i) ==
    LET batch == Pipe.buf[i]
        up    == Pipe.up[i]
    IN  IF batch = <<>> THEN {All(batch)}
        ELSE CASE sinks[i] = "json"     -> JsonWays(up, batch)
               [] sinks[i] = "csv"      -> CsvWays(up, batch)
               [] sinks[i] = "kafka"    -> KafkaWays(up, batch)
               [] sinks[i] = "database" -> DatabaseWays(batch)
               [] sinks[i] = "doris"    -> DorisWays(batch)
               [] sinks[i] = "parquet"  -> ParquetWays(up, batch, store[i])
               [] sinks[i] = "excel"    -> ExcelWays

\* Mutant of FlushInto: the buffer is emptied whatever happens.
FlushIntoDropping(i, ways) ==
    \E w \in ways :
        LET batch == Pipe.buf[i] IN
        /\ store' = [store EXCEPT ![i] = @ \o SubSeq(batch, 1, w.n)]
        /\ pipes' = WithPipe([Pipe EXCEPT
               !.buf[i] = <<>>, !.rows[i] = IF sinks[i] = "excel" THEN @ \o batch ELSE @])
        /\ flawless' = [flawless EXCEPT ![i] =
                           @ /\ (sinks[i] = "excel" \/ (w.n = Len(batch) /\ ~w.kept))]

\* BaseSink.flush: the buffer is emptied when the batch is written.
FlushInto(i, ways) ==
    \E w \in ways :
        LET batch == Pipe.buf[i] IN
        /\ store' = [store EXCEPT ![i] = @ \o SubSeq(batch, 1, w.n)]
        /\ pipes' = WithPipe([Pipe EXCEPT
               !.buf[i] = IF w.kept THEN @ ELSE <<>>,
               !.rows[i] = IF sinks[i] = "excel" THEN @ \o batch ELSE @])
        /\ flawless' = [flawless EXCEPT ![i] =
                           @ /\ (sinks[i] = "excel" \/ (w.n = Len(batch) /\ ~w.kept))]

-----------------------------------------------------------------------------
(* The pipeline.                                                           *)

\* Pipeline.open: each sink is opened, and an exception of one is logged.
OpenSink ==
    LET i == op.sink IN
    /\ op.at = "open"
    /\ \E up \in Opens[sinks[i]] : \E rows \in Loads(i, up) :
          /\ pipes' = WithPipe([Pipe EXCEPT !.up[i] = up, !.rows[i] = rows])
          /\ flawless' = [flawless EXCEPT ![i] =
                             @ /\ up = "up" /\ (sinks[i] = "excel" => rows = store[i])]
    /\ op' = Following("open", i, At("loop", 0))
    /\ UNCHANGED <<sinks, odd, store, opened, yielded, taken, cancelled>>

\* The spider yields an item.
Yield ==
    /\ op.at = "loop" /\ yielded < MaxItems
    /\ yielded' = yielded + 1
    /\ op' = At("write", 1)
    /\ UNCHANGED <<sinks, odd, pipes, store, opened, taken, flawless, cancelled>>

\* Pipeline.process, BaseSink.write: the item is buffered.
Write ==
    LET i == op.sink
        buf == Append(Pipe.buf[i], <<opened, taken[opened][i] + 1>>)
    IN  /\ op.at = "write"
        /\ pipes' = WithPipe([Pipe EXCEPT !.buf[i] = buf])
        /\ taken' = [taken EXCEPT ![opened][i] = @ + 1]
        /\ op' = IF Len(buf) >= BatchSize THEN At("full", i)
                 ELSE Following("write", i, At("loop", 0))
        /\ UNCHANGED <<sinks, odd, store, opened, yielded, flawless, cancelled>>

\* Mutant of WriteFull: the exception of one sink ends the loop over them.
WriteFullOrLeave ==
    /\ op.at = "full"
    /\ FlushInto(op.sink, Ways(op.sink))
    /\ op' = IF flawless'[op.sink] THEN Following("write", op.sink, At("loop", 0)) ELSE At("loop", 0)
    /\ UNCHANGED <<sinks, odd, opened, yielded, taken, cancelled>>

\* ... and written when the batch is full; an exception is logged.
WriteFull ==
    /\ op.at = "full"
    /\ FlushInto(op.sink, Ways(op.sink))
    /\ op' = Following("write", op.sink, At("loop", 0))
    /\ UNCHANGED <<sinks, odd, opened, yielded, taken, cancelled>>

\* The spider is drained, or the runner breaks off.
Drain ==
    /\ op.at = "loop"
    /\ op' = At("flush", 1)
    /\ UNCHANGED <<sinks, odd, pipes, store, opened, yielded, taken, flawless, cancelled>>

\* Pipeline.flush.
FlushSink ==
    /\ op.at = "flush"
    /\ FlushInto(op.sink, Ways(op.sink))
    /\ op' = Following("flush", op.sink, At("complete", 0))
    /\ UNCHANGED <<sinks, odd, opened, yielded, taken, cancelled>>

\* The task is recorded as completed.
Complete ==
    /\ op.at = "complete"
    /\ op' = At("close", 1)
    /\ UNCHANGED <<sinks, odd, pipes, store, opened, yielded, taken, flawless, cancelled>>

\* The spider raises, or a commit that records it as completed does: the runner
\* retries, with a new pipeline, or it does not.
Raise ==
    /\ op.at \in {"loop", "complete"}
    /\ \/ /\ opened < MaxAttempts
          /\ pipes' = Append(pipes, NewPipe) /\ opened' = opened + 1
          /\ op' = At("open", 1)
       \/ /\ op' = At("close", 1)
          /\ UNCHANGED <<pipes, opened>>
    /\ UNCHANGED <<sinks, odd, store, yielded, taken, flawless, cancelled>>

\* The pipeline is left: the attempt around it, if any, closes its own.
Left == IF Len(pipes) > 1 THEN At("close", 1) ELSE At("done", 0)

\* Mutant of CloseSink: close() does not flush.
CloseSinkOnly ==
    /\ op.at = "close"
    /\ op' = Following("close", op.sink, Left)
    /\ pipes' = IF op.sink < Len(sinks) THEN pipes ELSE Front(pipes)
    /\ UNCHANGED <<sinks, odd, store, opened, yielded, taken, flawless, cancelled>>

\* Pipeline.close: each sink flushes; the Excel sink then writes all its rows
\* over its file, which may fail.
CloseSink ==
    LET i == op.sink
        rows == Pipe.rows[i] \o Pipe.buf[i]
        last == i = Len(sinks)
    IN  /\ op.at = "close"
        /\ \E w \in Ways(i), saved \in BOOLEAN :
              /\ ~saved => sinks[i] = "excel" /\ rows # <<>>
              /\ store' = [store EXCEPT ![i] =
                     IF sinks[i] = "excel" THEN (IF saved /\ rows # <<>> THEN rows ELSE @)
                     ELSE @ \o SubSeq(Pipe.buf[i], 1, w.n)]
              /\ flawless' = [flawless EXCEPT ![i] =
                     @ /\ saved /\ (sinks[i] = "excel" \/ (w.n = Len(Pipe.buf[i]) /\ ~w.kept))]
              /\ pipes' = IF last THEN Front(pipes)
                          ELSE WithPipe([Pipe EXCEPT !.buf[i] = IF w.kept THEN @ ELSE <<>>])
        /\ op' = Following("close", i, Left)
        /\ UNCHANGED <<sinks, odd, opened, yielded, taken, cancelled>>

\* The task is cancelled while the runner awaits the next item, a commit, or a
\* sink the outside: part of the batch may be written, and it stays in the buffer.  The
\* pipeline is closed, unless it was being opened or closed.
Cancel ==
    /\ ~cancelled /\ cancelled' = TRUE
    /\ \/ /\ op.at \in {"loop", "complete"}
          /\ op' = At("close", 1) /\ UNCHANGED <<pipes, store, flawless>>
       \/ /\ op.at = "open" /\ sinks[op.sink] \in Awaiting
          /\ op' = Left /\ pipes' = Front(pipes) /\ UNCHANGED <<store, flawless>>
       \/ /\ op.at \in {"full", "flush", "close"} /\ sinks[op.sink] \in Awaiting
          /\ Pipe.buf[op.sink] # <<>>
          /\ \E w \in Ways(op.sink) :
                store' = [store EXCEPT ![op.sink] = @ \o SubSeq(Pipe.buf[op.sink], 1, w.n)]
          /\ flawless' = [flawless EXCEPT ![op.sink] = FALSE]
          /\ IF op.at = "close" THEN op' = Left /\ pipes' = Front(pipes)
             ELSE op' = At("close", 1) /\ UNCHANGED pipes
    /\ UNCHANGED <<sinks, odd, opened, yielded, taken>>

Init ==
    /\ sinks \in Configs
    /\ odd \in SUBSET Items /\ Cardinality(odd) <= 1
    /\ pipes = <<NewPipe>> /\ op = At("open", 1)
    /\ store \in [Positions -> {<<>>, <<Old>>}]
    /\ \A i \in Positions : sinks[i] \notin Rereading => store[i] = <<>>
    /\ opened = 1 /\ yielded = 0
    /\ taken = [a \in Attempts |-> [i \in Positions |-> 0]]
    /\ flawless = [i \in Positions |-> TRUE]
    /\ cancelled = FALSE

Next ==
    \/ OpenSink \/ Yield \/ Write \/ WriteFull \/ Drain \/ FlushSink \/ Complete \/ Raise \/ CloseSink
    \/ Cancel

Spec == Init /\ [][Next]_vars

-----------------------------------------------------------------------------
(* Properties.                                                             *)

\* Every variable has its type, and the pipeline works on sinks it has.
TypeOK ==
    /\ sinks \in Configs /\ odd \subseteq Items
    /\ pipes \in Seq([up : [Positions -> Ups], buf : [Positions -> Seq(Record)],
                      rows : [Positions -> Seq(Record)]])
    /\ Len(pipes) <= opened /\ opened \in Attempts
    /\ \/ op = At("done", 0) /\ pipes = <<>>
       \/ op \in {At("loop", 0), At("complete", 0)} /\ pipes # <<>>
       \/ /\ op \in [at : {"open", "write", "full", "flush", "close"}, sink : Positions]
          /\ pipes # <<>>
    /\ store \in [Positions -> Seq(Record)]
    /\ yielded \in 0..MaxItems /\ taken \in [Attempts -> [Positions -> 0..MaxItems]]
    /\ flawless \in [Positions -> BOOLEAN] /\ cancelled \in BOOLEAN

Distinct(s) == \A j, k \in DOMAIN s : s[j] = s[k] => j = k

\* When the last pipeline is left, a sink of which no call failed holds each
\* item it was given exactly once, whatever the other sinks met.  (Not so the
\* Excel sink of a spider that was retried.)
OnceUnlessFailed ==
    op.at = "done" =>
        \A i \in Positions :
            flawless[i] /\ ~cancelled /\ (sinks[i] = "excel" => opened = 1) =>
                /\ Distinct(store[i])
                /\ \A a \in Attempts : \A x \in 1..taken[a][i] : <<a, x>> \in ToSet(store[i])

\* No sink misses an item that another was given, though writes may fail.
GivenToAll ==
    op.at \in {"loop", "done"} /\ ~cancelled =>
        \A a \in Attempts : \A i, j \in Positions : taken[a][i] = taken[a][j]

\* The sinks that lose no batch to a failed call.
Keeping == {"json", "csv", "kafka", "database"}

\* What the sink at a position was given, and what its target holds, if it is
\* one of them.
Keeps(i) == i \in Positions /\ sinks[i] \in Keeping

Given(i) == [a \in Attempts |-> IF Keeps(i) THEN taken[a][i] ELSE 0]

Arrived(i) == IF Keeps(i) THEN store[i] ELSE <<>>

First == INSTANCE ItemLog WITH taken <- Given(1), log <- Arrived(1)

Second == INSTANCE ItemLog WITH taken <- Given(2), log <- Arrived(2)

\* A sink keeps its promise, in each attempt: whatever write fails, is
\* cancelled or is made again, the target has no gap.
ImplementsLog == First!Spec /\ Second!Spec
=============================================================================
