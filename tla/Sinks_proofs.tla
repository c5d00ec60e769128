---------------------------- MODULE Sinks_proofs ----------------------------
(***************************************************************************)
(* Theorems about Sinks for every pipeline, batch size and number of items *)
(* and attempts.                                                           *)
(***************************************************************************)
EXTENDS Sinks, TLAPS, SequenceTheorems, WellFoundedInduction

-----------------------------------------------------------------------------
(* Invariants.                                                             *)

\* The sinks that the item of the running loop has yet to reach, and the items
\* a sink has been given when it has reached them.
Waits(a, i) ==
    /\ a = opened
    /\ \/ op.at = "write" /\ i >= op.sink
       \/ op.at = "full" /\ i > op.sink

Due(a, i) == taken[a][i] + (IF Waits(a, i) THEN 1 ELSE 0)

\* Only the newest attempt takes items, and it takes none before its sinks are
\* open; an attempt that is not begun has none.
TakenInv ==
    /\ op.at \in {"open", "loop", "write", "full", "flush", "complete"} => Len(pipes) = opened
    /\ \A a \in Attempts, i \in Positions :
          a > opened \/ (a = opened /\ op.at = "open") => taken[a][i] = 0
    /\ \A a \in Attempts, i \in Positions : Due(a, i) <= yielded

\* All sinks are given the same items.
GivenInv == ~cancelled => \A a \in Attempts : \A i, j \in Positions : Due(a, i) = Due(a, j)

\* The items of an attempt that a sink holds back, and those it let go.
Waiting(a, i) == IF a \in DOMAIN pipes THEN Len(pipes[a].buf[i]) ELSE 0

Flushed(a, i) == taken[a][i] - Waiting(a, i)

\* A buffer holds the last items of its attempt.
BufInv ==
    \A a \in Attempts, i \in Positions : a \in DOMAIN pipes =>
        /\ Waiting(a, i) <= taken[a][i]
        /\ \A j \in 1..Waiting(a, i) : pipes[a].buf[i][j] = <<a, Flushed(a, i) + j>>

\* A Kafka sink without its library drops what it is given.
Useless(a, i) == sinks[i] = "kafka" /\ pipes[a].up[i] = "absent"

\* Any other keeping sink has let go of nothing that is not in its target.
KeptInv ==
    \A i \in Positions : sinks[i] \in Keeping =>
        \A a \in Attempts : a \in DOMAIN pipes /\ ~Useless(a, i) =>
            \A x \in 1..Flushed(a, i) : <<a, x>> \in ToSet(store[i])

\* The Excel sink has its rows in memory from its open to its close.
Loaded(i) ==
    \/ op.at \in {"loop", "write", "full", "flush", "complete"}
    \/ op.at = "open" /\ i < op.sink
    \/ op.at = "close" /\ i >= op.sink

\* What the target of a sink holds, or the rows that will replace it.
Content(i) == IF sinks[i] = "excel" /\ Loaded(i) THEN pipes[1].rows[i] ELSE store[i]

\* The items that a sink let go, of all attempts.
Done(i) == {r \in Attempts \X Items : r[2] <= Flushed(r[1], i)}

\* A list has the records of D once each, and perhaps what was there before.
Holds(s, D) == Distinct(s) /\ ToSet(s) \subseteq {Old} \cup D /\ D \subseteq ToSet(s)

OnceAt(i) ==
    /\ Holds(Content(i), Done(i))
    /\ op.at = "close" /\ i < op.sink => Pipe.buf[i] = <<>>
    /\ sinks[i] = "excel" /\ (Loaded(i) \/ op.at = "open") => store[i] \in {<<>>, <<Old>>}

\* The promise of OnceUnlessFailed in every state: of what was let go by then.
OnceInv ==
    ~cancelled =>
        \A i \in Positions : flawless[i] /\ (sinks[i] = "excel" => opened = 1) => OnceAt(i)

-----------------------------------------------------------------------------
(* Sequences.                                                              *)

\* A list of records grows at its end by the first part of a batch.
LEMMA AppendPart ==
    ASSUME NEW s \in Seq(Record), NEW b \in Seq(Record), NEW n \in 0..Len(b),
           NEW t, t = s \o SubSeq(b, 1, n)
    PROVE  /\ t \in Seq(Record) /\ Len(t) = Len(s) + n
           /\ \A j \in 1..Len(s) : t[j] = s[j]
           /\ \A j \in 1..n : t[Len(s) + j] = b[j]
           /\ DOMAIN t = 1..(Len(s) + n) /\ DOMAIN s = 1..Len(s)
           /\ SubSeq(b, 1, n) \in Seq(Record) /\ Len(SubSeq(b, 1, n)) = n
           /\ \A j \in 1..n : SubSeq(b, 1, n)[j] = b[j]
  <1> DEFINE p == SubSeq(b, 1, n)
  <1>1. p \in Seq(Record) /\ Len(p) = n /\ \A j \in 1..n : p[j] = b[j]
    <2>1. \A j \in 1..n : b[j] \in Record
      BY ElementOfSeq
    <2> QED BY <2>1, SubSeqProperties
  <1>2. t = s \o p
    OBVIOUS
  <1>3. /\ t \in Seq(Record) /\ Len(t) = Len(s) + Len(p)
        /\ \A j \in 1..Len(s) + Len(p) : t[j] = IF j <= Len(s) THEN s[j] ELSE p[j - Len(s)]
    <2> HIDE DEF p
    <2> QED BY <1>1, <1>2, ConcatProperties
  <1>4. DOMAIN t = 1..Len(t) /\ DOMAIN s = 1..Len(s) /\ Len(s) \in Nat
    BY <1>3, LenProperties
  <1> HIDE DEF p
  <1>5. /\ \A j \in 1..Len(s) : t[j] = s[j]
        /\ \A j \in 1..n : t[Len(s) + j] = b[j]
    BY <1>1, <1>3, <1>4
  <1> QED BY <1>1, <1>3, <1>4, <1>5 DEF p

\* What is in a list of records.
LEMMA ToSetIs ==
    ASSUME NEW s \in Seq(Record), NEW r
    PROVE  r \in ToSet(s) <=> \E j \in 1..Len(s) : s[j] = r
  <1>1. DOMAIN s = 1..Len(s)
    BY LenProperties
  <1> QED BY <1>1 DEF ToSet

\* A nonempty set of positions has a first one.
LEMMA FirstPosition ==
    ASSUME NEW n \in Nat, NEW S \in SUBSET (1..n), S # {}
    PROVE  Min(S) \in S
  <1> DEFINE R == OpToRel(<, Nat)
  <1>1. IsWellFoundedOn(R, Nat)
    BY NatLessThanWellFounded
  <1>2. S \subseteq Nat
    OBVIOUS
  <1>3. \E x \in S : \A y \in S : <<y, x>> \notin R
    <2> HIDE DEF R
    <2> QED BY <1>1, <1>2, WFMin
  <1>4. PICK x \in S : \A y \in S : <<y, x>> \notin R
    BY <1>3
  <1>5. \A y \in S : x <= y
    <2> SUFFICES ASSUME NEW y \in S, ~(x <= y) PROVE FALSE
      OBVIOUS
    <2>1. y < x /\ x \in Nat /\ y \in Nat
      BY <1>2
    <2>2. <<y, x>> \in R
      BY <2>1 DEF OpToRel
    <2> QED BY <2>2, <1>4
  <1> QED BY <1>5 DEF Min

-----------------------------------------------------------------------------
(* Pipelines.                                                              *)

PipeOf(I) == [up : [I -> Ups], buf : [I -> Seq(Record)], rows : [I -> Seq(Record)]]

\* The innermost pipeline changes.
LEMMA PipeSet ==
    ASSUME NEW I, NEW s \in Seq(PipeOf(I)), s # <<>>, NEW p \in PipeOf(I)
    PROVE  LET t == [s EXCEPT ![Len(s)] = p] IN
           /\ t \in Seq(PipeOf(I)) /\ Len(t) = Len(s)
           /\ \A k \in 1..Len(s) : t[k] = IF k = Len(s) THEN p ELSE s[k]
  <1> HIDE DEF PipeOf
  <1>1. Len(s) \in 1..Len(s)
    BY EmptySeq
  <1> QED BY <1>1, ExceptSeq

\* The innermost pipeline is left.
LEMMA FrontOf ==
    ASSUME NEW I, NEW s \in Seq(PipeOf(I)), s # <<>>, NEW t, t = Front(s)
    PROVE  /\ t \in Seq(PipeOf(I)) /\ Len(t) = Len(s) - 1
           /\ \A k \in 1..(Len(s) - 1) : t[k] = s[k]
           /\ Len(s) = 1 => t = <<>>
  <1> HIDE DEF PipeOf
  <1>1. Len(s) \in Nat \ {0}
    BY EmptySeq, LenProperties
  <1>2. \A k \in 1..(Len(s) - 1) : s[k] \in PipeOf(I)
    BY <1>1, ElementOfSeq
  <1>3. t = SubSeq(s, 1, Len(s) - 1)
    BY DEF Front
  <1>4. /\ t \in Seq(PipeOf(I)) /\ Len(t) = Len(s) - 1
        /\ \A k \in 1..(Len(s) - 1) : t[k] = s[k]
    <2> DEFINE m == Len(s) - 1
    <2>0. m \in Nat
      BY <1>1
    <2>1. m \in Int /\ 1 \in Int /\ (IF 1 <= m THEN m - 1 + 1 ELSE 0) = m /\ m - 1 + 1 = m
      <3> HIDE DEF m
      <3> QED BY <2>0
    <2>2. \A k \in 1..m : k + 1 - 1 = k /\ 1 + k - 1 = k
      BY <2>1
    <2>3. t = SubSeq(s, 1, m) /\ \A k \in 1..m : s[k] \in PipeOf(I)
      BY <1>2, <1>3
    <2> HIDE DEF m
    <2>4. /\ SubSeq(s, 1, m) \in Seq(PipeOf(I))
          /\ Len(SubSeq(s, 1, m)) = IF 1 <= m THEN m - 1 + 1 ELSE 0
          /\ \A k \in 1 .. m - 1 + 1 : SubSeq(s, 1, m)[k] = s[1 + k - 1]
      BY <2>1, <2>3, SubSeqProperties
    <2>5. t \in Seq(PipeOf(I)) /\ Len(t) = m /\ \A k \in 1..m : t[k] = s[k]
      BY <2>1, <2>2, <2>3, <2>4
    <2> QED BY <2>5 DEF m
  <1> QED BY <1>1, <1>4, EmptySeq

\* What the types say of the parts.
LEMMA Setup ==
    ASSUME TypeOK
    PROVE  /\ Len(sinks) \in Nat \ {0} /\ \A i \in Positions : sinks[i] \in Kinds
           /\ pipes \in Seq(PipeOf(Positions)) /\ Len(pipes) \in Nat
           /\ DOMAIN pipes = 1..Len(pipes)
           /\ pipes # <<>> => Len(pipes) \in 1..Len(pipes)
           /\ \A k \in 1..Len(pipes) : \A i \in Positions :
                 /\ pipes[k].up[i] \in Ups
                 /\ pipes[k].buf[i] \in Seq(Record) /\ Len(pipes[k].buf[i]) \in Nat
                 /\ pipes[k].rows[i] \in Seq(Record)
           /\ MaxItems \in Nat /\ MaxAttempts \in Nat \ {0} /\ BatchSize \in Nat \ {0}
           /\ opened \in Nat /\ yielded \in Nat
           /\ \A a \in Attempts : \A i \in Positions : taken[a][i] \in Nat
  <1>1. sinks \in Seq(Kinds) /\ sinks # <<>>
    BY SinksAssumption DEF TypeOK
  <1>2. Len(sinks) \in Nat \ {0} /\ \A i \in Positions : sinks[i] \in Kinds
    BY <1>1, ElementOfSeq, EmptySeq DEF Positions
  <1>3. pipes \in Seq(PipeOf(Positions))
    BY DEF TypeOK, PipeOf
  <1>4. Len(pipes) \in Nat /\ DOMAIN pipes = 1..Len(pipes) /\ (pipes # <<>> => Len(pipes) # 0)
    BY <1>3, LenProperties, EmptySeq
  <1>5. \A k \in 1..Len(pipes) : \A i \in Positions :
                 /\ pipes[k].up[i] \in Ups
                 /\ pipes[k].buf[i] \in Seq(Record) /\ Len(pipes[k].buf[i]) \in Nat
                 /\ pipes[k].rows[i] \in Seq(Record)
    <2> SUFFICES ASSUME NEW k \in 1..Len(pipes), NEW i \in Positions
                 PROVE  /\ pipes[k].up[i] \in Ups
                        /\ pipes[k].buf[i] \in Seq(Record) /\ Len(pipes[k].buf[i]) \in Nat
                        /\ pipes[k].rows[i] \in Seq(Record)
      OBVIOUS
    <2>1. pipes[k] \in PipeOf(Positions)
      BY <1>3, ElementOfSeq
    <2>2. /\ pipes[k].up[i] \in Ups
          /\ pipes[k].buf[i] \in Seq(Record)
          /\ pipes[k].rows[i] \in Seq(Record)
      BY <2>1 DEF PipeOf
    <2> QED BY <2>2, LenProperties
  <1>6. /\ MaxItems \in Nat /\ MaxAttempts \in Nat \ {0} /\ BatchSize \in Nat \ {0}
        /\ opened \in Nat /\ yielded \in Nat
        /\ \A a \in Attempts : \A i \in Positions : taken[a][i] \in Nat
    <2>1. /\ MaxItems \in Nat /\ MaxAttempts \in Nat \ {0} /\ BatchSize \in Nat \ {0}
          /\ taken \in [Attempts -> [Positions -> 0..MaxItems]]
          /\ opened \in Attempts /\ yielded \in 0..MaxItems
      BY SinksAssumption DEF TypeOK
    <2> QED BY <2>1 DEF Attempts
  <1> QED BY <1>2, <1>3, <1>4, <1>5, <1>6

\* How much of a batch a write lets go.
LEMMA WaysAre ==
    ASSUME TypeOK, pipes # <<>>, NEW i \in Positions, NEW w \in Ways(i)
    PROVE  /\ w.n \in 0..Len(Pipe.buf[i])
           /\ Pipe.buf[i] \in Seq(Record) /\ Len(Pipe.buf[i]) \in Nat
           /\ sinks[i] = "excel" => w.n = 0 /\ ~w.kept
           /\ sinks[i] \in Keeping /\ ~(sinks[i] = "kafka" /\ Pipe.up[i] = "absent") =>
                 w.kept \/ w.n = Len(Pipe.buf[i])
           /\ sinks[i] = "kafka" /\ Pipe.up[i] = "absent" => w.n = 0
           /\ Pipe.buf[i] = <<>> => w.n = 0 /\ ~w.kept
  <1> DEFINE batch == Pipe.buf[i]
             up == Pipe.up[i]
             refused == {j \in DOMAIN batch : batch[j][2] \in odd}
  <1>1. /\ batch \in Seq(Record) /\ Len(batch) \in Nat /\ up \in Ups /\ sinks[i] \in Kinds
        /\ DOMAIN batch = 1..Len(batch)
    BY Setup, LenProperties DEF Pipe
  <1>2. refused = {} \/ Min(refused) \in 1..Len(batch)
    <2>1. refused \in SUBSET (1..Len(batch))
      BY <1>1
    <2> HIDE DEF refused, batch
    <2> QED BY <1>1, <2>1, FirstPosition
  <1>3. CASE batch = <<>>
    <2>1. w = [n |-> 0, kept |-> FALSE]
      BY <1>3 DEF Ways, All
    <2> QED BY <2>1, <1>1, <1>3
  <1>4. CASE batch # <<>>
    <2>1. Len(batch) # 0
      BY <1>1, <1>4, EmptySeq
    <2>2. ASSUME sinks[i] = "json"
          PROVE  w \in {Until(refused, batch), Raised}
      BY <2>2, <1>4 DEF Ways, JsonWays
    <2>3. ASSUME sinks[i] = "csv"
          PROVE  w \in {Until(refused, batch), Raised, All(batch)}
      BY <2>3, <1>4 DEF Ways, CsvWays
    <2>4. ASSUME sinks[i] = "kafka"
          PROVE  \/ up = "absent" /\ w = Dropped
                 \/ up # "absent" /\ w \in {Raised, All(batch)} \cup Broken(batch)
      BY <2>4, <1>1, <1>4 DEF Ways, KafkaWays, Ups
    <2>5. ASSUME sinks[i] = "database" PROVE w \in {All(batch)} \cup Broken(batch)
      BY <2>5, <1>4 DEF Ways, DatabaseWays
    <2>6. ASSUME sinks[i] = "doris" PROVE w \in {All(batch), Dropped}
      BY <2>6, <1>4 DEF Ways, DorisWays
    <2>7. ASSUME sinks[i] = "parquet" PROVE w \in {All(batch), Dropped, Raised}
      BY <2>7, <1>4 DEF Ways, ParquetWays
    <2>8. ASSUME sinks[i] = "excel" PROVE w = Dropped
      BY <2>8, <1>4 DEF Ways, ExcelWays
    <2>9. /\ Until(refused, batch).n \in 0..Len(batch)
          /\ Until(refused, batch).kept \/ Until(refused, batch).n = Len(batch)
      <3> HIDE DEF refused, batch
      <3> QED BY <1>1, <1>2 DEF Until, All
    <2>10. All(batch).n = Len(batch) /\ All(batch).kept = FALSE
      BY DEF All
    <2>11. Dropped.n = 0 /\ Dropped.kept = FALSE /\ Raised.n = 0 /\ Raised.kept = TRUE
      BY DEF Dropped, Raised
    <2>12. \A x \in Broken(batch) : x.n \in 0..Len(batch) /\ x.kept = TRUE
      BY DEF Broken
    <2>13. sinks[i] \in {"json", "csv", "excel", "parquet", "kafka", "doris", "database"}
      BY <1>1 DEF Kinds
    <2>14. w.n \in 0..Len(batch)
      <3> HIDE DEF batch, refused, up
      <3>1. w \in {Until(refused, batch), All(batch), Dropped, Raised} \cup Broken(batch)
        BY <2>2, <2>3, <2>4, <2>5, <2>6, <2>7, <2>8, <2>13
      <3>2. CASE w \in {Until(refused, batch), All(batch), Dropped, Raised}
        <4>1. w.n \in {Until(refused, batch).n, Len(batch), 0}
          BY <2>10, <2>11, <3>2
        <4> QED BY <1>1, <2>9, <4>1
      <3>3. CASE w \in Broken(batch)
        BY <2>12, <3>3
      <3> QED BY <3>1, <3>2, <3>3
    <2>15. /\ sinks[i] = "excel" => w.n = 0 /\ ~w.kept
           /\ sinks[i] = "kafka" /\ up = "absent" => w.n = 0
      <3> HIDE DEF batch, refused, up
      <3> QED BY <2>4, <2>8, <2>11
    <2>16. sinks[i] \in Keeping /\ ~(sinks[i] = "kafka" /\ up = "absent") =>
              w.kept \/ w.n = Len(batch)
      <3> HIDE DEF batch, refused, up
      <3> QED BY <2>2, <2>3, <2>4, <2>5, <2>9, <2>10, <2>11, <2>12 DEF Keeping
    <2> QED BY <1>1, <1>4, <2>14, <2>15, <2>16
  <1> QED BY <1>3, <1>4

\* The innermost pipeline becomes p.
LEMMA WithPipeIs ==
    ASSUME TypeOK, pipes # <<>>, NEW p \in PipeOf(Positions)
    PROVE  /\ WithPipe(p) \in Seq(PipeOf(Positions)) /\ Len(WithPipe(p)) = Len(pipes)
           /\ \A k \in 1..Len(pipes) : WithPipe(p)[k] = IF k = Len(pipes) THEN p ELSE pipes[k]
  BY Setup, PipeSet DEF WithPipe

\* A sink writes its buffer, as often as the loops of the pipeline do.
LEMMA FlushFacts ==
    ASSUME TypeOK, pipes # <<>>, NEW i \in Positions, FlushInto(i, Ways(i))
    PROVE  \E w \in Ways(i) :
             LET batch == Pipe.buf[i] IN
             /\ store' = [store EXCEPT ![i] = store[i] \o SubSeq(batch, 1, w.n)]
             /\ flawless' = [flawless EXCEPT ![i] =
                    flawless[i] /\ (sinks[i] = "excel" \/ (w.n = Len(batch) /\ ~w.kept))]
             /\ pipes' \in Seq(PipeOf(Positions)) /\ Len(pipes') = Len(pipes)
             /\ \A k \in 1..Len(pipes) : \A j \in Positions :
                   /\ pipes'[k].up[j] = pipes[k].up[j]
                   /\ pipes'[k].buf[j] = IF k = Len(pipes) /\ j = i /\ ~w.kept THEN <<>>
                                         ELSE pipes[k].buf[j]
                   /\ pipes'[k].rows[j] = IF k = Len(pipes) /\ j = i /\ sinks[i] = "excel"
                                          THEN pipes[k].rows[j] \o batch
                                          ELSE pipes[k].rows[j]
  <1> DEFINE batch == Pipe.buf[i]
             old == Pipe.rows[i]
             n == Len(pipes)
             rows == IF sinks[i] = "excel" THEN old \o batch ELSE old
  <1>1. PICK w \in Ways(i) :
          /\ store' = [store EXCEPT ![i] = @ \o SubSeq(batch, 1, w.n)]
          /\ pipes' = WithPipe([Pipe EXCEPT
                 !.buf[i] = IF w.kept THEN @ ELSE <<>>,
                 !.rows[i] = IF sinks[i] = "excel" THEN @ \o batch ELSE @])
          /\ flawless' = [flawless EXCEPT ![i] =
                             @ /\ (sinks[i] = "excel" \/ (w.n = Len(batch) /\ ~w.kept))]
    BY DEF FlushInto
  <1> DEFINE buf == IF w.kept THEN batch ELSE <<>>
             pipe == Pipe
             p == [pipe EXCEPT !.buf[i] = buf, !.rows[i] = rows]
  <1>2. /\ n \in 1..n /\ pipe \in PipeOf(Positions)
        /\ batch \in Seq(Record) /\ old \in Seq(Record)
    BY Setup, ElementOfSeq DEF Pipe
  <1>3. /\ buf \in Seq(Record) /\ rows \in Seq(Record)
    BY <1>2, ConcatProperties, EmptySeq
  <1>4. pipes' = WithPipe(p)
    <2>1. [pipe EXCEPT !.buf[i] = IF w.kept THEN @ ELSE <<>>,
                       !.rows[i] = IF sinks[i] = "excel" THEN @ \o batch ELSE @] = p
      <3>1. batch = pipe.buf[i] /\ old = pipe.rows[i]
        OBVIOUS
      <3> HIDE DEF pipe, batch, old
      <3> QED BY <3>1
    <2> QED BY <1>1, <2>1
  <1>5. /\ p \in PipeOf(Positions)
        /\ \A j \in Positions :
              /\ p.up[j] = pipe.up[j]
              /\ p.buf[j] = IF j = i THEN buf ELSE pipe.buf[j]
              /\ p.rows[j] = IF j = i THEN rows ELSE pipe.rows[j]
    <2> HIDE DEF pipe, buf, rows
    <2> QED BY <1>2, <1>3 DEF PipeOf
  <1>6. /\ pipes' \in Seq(PipeOf(Positions)) /\ Len(pipes') = Len(pipes)
        /\ \A k \in 1..Len(pipes) : pipes'[k] = IF k = Len(pipes) THEN p ELSE pipes[k]
    <2> HIDE DEF p
    <2> QED BY <1>4, <1>5, WithPipeIs
  <1>7. \A k \in 1..Len(pipes) : \A j \in Positions :
          /\ pipes'[k].up[j] = pipes[k].up[j]
          /\ pipes'[k].buf[j] = IF k = n /\ j = i /\ ~w.kept THEN <<>> ELSE pipes[k].buf[j]
          /\ pipes'[k].rows[j] = IF k = n /\ j = i /\ sinks[i] = "excel"
                                 THEN pipes[k].rows[j] \o batch ELSE pipes[k].rows[j]
    <2> HIDE DEF p
    <2> QED BY <1>5, <1>6 DEF Pipe
  <1>8. /\ store' = [store EXCEPT ![i] = store[i] \o SubSeq(batch, 1, w.n)]
        /\ flawless' = [flawless EXCEPT ![i] =
               flawless[i] /\ (sinks[i] = "excel" \/ (w.n = Len(batch) /\ ~w.kept))]
    BY <1>1
  <1> QED BY <1>6, <1>7, <1>8

\* A loop of the pipeline works on one of its sinks.
LEMMA OpIs ==
    ASSUME TypeOK
    PROVE  /\ op.at \in {"open", "write", "full", "flush", "close"} =>
                 op.sink \in Positions /\ pipes # <<>>
           /\ op.at \in {"loop", "complete"} => pipes # <<>>
           /\ op.at \in {"open", "loop", "write", "full", "flush", "complete", "close", "done"}
           /\ op.at = "done" => pipes = <<>>
  BY DEF TypeOK, At

\* Where a loop of the pipeline goes from a sink.
LEMMA FollowingIs ==
    ASSUME TypeOK, NEW name, NEW i \in Positions, NEW done
    PROVE  /\ i < Len(sinks) =>
                 /\ i + 1 \in Positions
                 /\ Following(name, i, done) = [at |-> name, sink |-> i + 1]
           /\ ~(i < Len(sinks)) => i = Len(sinks) /\ Following(name, i, done) = done
           /\ i \in Nat /\ 1 \in Positions
  BY Setup DEF Following, At, Positions

OpOK ==
    \/ op = At("done", 0) /\ pipes = <<>>
    \/ op \in {At("loop", 0), At("complete", 0)} /\ pipes # <<>>
    \/ /\ op \in [at : {"open", "write", "full", "flush", "close"}, sink : Positions]
       /\ pipes # <<>>

LEMMA NewPipeIs ==
    /\ NewPipe \in PipeOf(Positions)
    /\ \A i \in Positions :
          NewPipe.up[i] = "down" /\ NewPipe.buf[i] = <<>> /\ NewPipe.rows[i] = <<>>
  BY EmptySeq DEF NewPipe, PipeOf, Ups

\* A sink is opened.
LEMMA OpenFacts ==
    ASSUME TypeOK, OpenSink
    PROVE  LET i == op.sink IN
           /\ i \in Positions /\ pipes # <<>>
           /\ \E up \in Opens[sinks[i]], rows \in Seq(Record) :
                /\ up \in Ups /\ rows \in Loads(i, up)
                /\ flawless' = [flawless EXCEPT ![i] =
                       flawless[i] /\ up = "up" /\ (sinks[i] = "excel" => rows = store[i])]
                /\ pipes' \in Seq(PipeOf(Positions)) /\ Len(pipes') = Len(pipes)
                /\ \A k \in 1..Len(pipes) : \A j \in Positions :
                      /\ pipes'[k].up[j] = IF k = Len(pipes) /\ j = i THEN up
                                           ELSE pipes[k].up[j]
                      /\ pipes'[k].buf[j] = pipes[k].buf[j]
                      /\ pipes'[k].rows[j] = IF k = Len(pipes) /\ j = i THEN rows
                                             ELSE pipes[k].rows[j]
  <1> DEFINE i == op.sink
             pipe == Pipe
  <1>1. i \in Positions /\ pipes # <<>> /\ sinks[i] \in Kinds
    BY OpIs, Setup DEF OpenSink
  <1>2. PICK up \in Opens[sinks[i]] : \E rows \in Loads(i, up) :
          /\ pipes' = WithPipe([Pipe EXCEPT !.up[i] = up, !.rows[i] = rows])
          /\ flawless' = [flawless EXCEPT ![i] =
                             @ /\ up = "up" /\ (sinks[i] = "excel" => rows = store[i])]
    BY DEF OpenSink
  <1>3. PICK rows \in Loads(i, up) :
          /\ pipes' = WithPipe([Pipe EXCEPT !.up[i] = up, !.rows[i] = rows])
          /\ flawless' = [flawless EXCEPT ![i] =
                             @ /\ up = "up" /\ (sinks[i] = "excel" => rows = store[i])]
    BY <1>2
  <1> DEFINE p == [pipe EXCEPT !.up[i] = up, !.rows[i] = rows]
  <1>4. up \in Ups
    <2>1. sinks[i] \in {"json", "csv", "excel", "parquet", "kafka", "doris", "database"}
      BY <1>1 DEF Kinds
    <2>2. Opens[sinks[i]] \subseteq Ups
      BY <2>1 DEF Opens, FileOpens, LibraryOpens, KafkaOpens, DorisOpens, DatabaseOpens, Ups
    <2> QED BY <1>2, <2>2
  <1>5. rows \in Seq(Record)
    <2>1. store[i] \in Seq(Record) /\ Len(store[i]) \in Nat
      BY <1>1, LenProperties DEF TypeOK
    <2>2. PICK n \in 0..Len(store[i]) : rows = SubSeq(store[i], 1, n)
      BY <1>3, <2>1 DEF Loads
    <2>3. \A j \in 1..n : store[i][j] \in Record
      BY <2>1, ElementOfSeq
    <2> QED BY <2>1, <2>2, <2>3, SubSeqProperties
  <1>6. pipe \in PipeOf(Positions)
    BY <1>1, Setup, ElementOfSeq DEF Pipe
  <1>7. /\ p \in PipeOf(Positions)
        /\ \A j \in Positions :
              /\ p.up[j] = IF j = i THEN up ELSE pipe.up[j]
              /\ p.buf[j] = pipe.buf[j]
              /\ p.rows[j] = IF j = i THEN rows ELSE pipe.rows[j]
    <2> HIDE DEF pipe, i
    <2> QED BY <1>1, <1>4, <1>5, <1>6 DEF PipeOf
  <1>8. /\ pipes' \in Seq(PipeOf(Positions)) /\ Len(pipes') = Len(pipes)
        /\ \A k \in 1..Len(pipes) : pipes'[k] = IF k = Len(pipes) THEN p ELSE pipes[k]
    <2>1. pipes' = WithPipe(p)
      BY <1>3
    <2> HIDE DEF p
    <2> QED BY <1>1, <1>7, <2>1, WithPipeIs
  <1>9. \A k \in 1..Len(pipes) : \A j \in Positions :
          /\ pipes'[k].up[j] = IF k = Len(pipes) /\ j = i THEN up ELSE pipes[k].up[j]
          /\ pipes'[k].buf[j] = pipes[k].buf[j]
          /\ pipes'[k].rows[j] = IF k = Len(pipes) /\ j = i THEN rows ELSE pipes[k].rows[j]
    <2> HIDE DEF p, i
    <2> QED BY <1>7, <1>8 DEF Pipe
  <1>10. flawless' = [flawless EXCEPT ![i] =
             flawless[i] /\ up = "up" /\ (sinks[i] = "excel" => rows = store[i])]
    BY <1>3
  <1> QED BY <1>1, <1>4, <1>5, <1>8, <1>9, <1>10

\* An item is buffered.
LEMMA WriteFacts ==
    ASSUME TypeOK, TakenInv, Write
    PROVE  LET i == op.sink
               n == Len(pipes)
               r == <<opened, taken[opened][i] + 1>>
           IN  /\ i \in Positions /\ pipes # <<>> /\ n = opened /\ r \in Record
               /\ taken[opened][i] + 1 \in Items
               /\ \A a \in Attempts : \A j \in Positions :
                     taken'[a][j] = IF a = opened /\ j = i THEN taken[a][j] + 1 ELSE taken[a][j]
               /\ pipes' \in Seq(PipeOf(Positions)) /\ Len(pipes') = Len(pipes)
               /\ \A k \in 1..Len(pipes) : \A j \in Positions :
                     /\ pipes'[k].up[j] = pipes[k].up[j]
                     /\ pipes'[k].buf[j] = IF k = n /\ j = i THEN Append(pipes[k].buf[j], r)
                                           ELSE pipes[k].buf[j]
                     /\ pipes'[k].rows[j] = pipes[k].rows[j]
  <1> DEFINE i == op.sink
             n == Len(pipes)
             pipe == Pipe
             r == <<opened, taken[opened][i] + 1>>
             buf == Append(pipe.buf[i], r)
             p == [pipe EXCEPT !.buf[i] = buf]
  <1>1. i \in Positions /\ pipes # <<>> /\ n = opened /\ opened \in Attempts
    BY OpIs DEF Write, TakenInv, TypeOK
  <1>2. taken[opened][i] + 1 \in Items
    <2>1. taken[opened][i] \in Nat /\ i \in Nat
      BY <1>1, Setup DEF Positions
    <2>2. Waits(opened, i)
      BY <2>1 DEF Waits, Write
    <2>3. taken[opened][i] + 1 <= yielded
      BY <1>1, <2>2 DEF TakenInv, Due
    <2>4. yielded <= MaxItems /\ yielded \in Nat /\ MaxItems \in Nat
      BY Setup DEF TypeOK
    <2> QED BY <2>1, <2>3, <2>4 DEF Items
  <1>3. r \in Record
    BY <1>1, <1>2 DEF Record
  <1>4. pipe \in PipeOf(Positions)
    BY <1>1, Setup, ElementOfSeq DEF Pipe
  <1>5. buf \in Seq(Record)
    <2>1. pipe.buf[i] \in Seq(Record)
      BY <1>1, <1>4 DEF PipeOf
    <2> QED BY <1>3, <2>1, AppendProperties
  <1>6. /\ p \in PipeOf(Positions)
        /\ \A j \in Positions :
              /\ p.up[j] = pipe.up[j]
              /\ p.buf[j] = IF j = i THEN buf ELSE pipe.buf[j]
              /\ p.rows[j] = pipe.rows[j]
    <2> HIDE DEF pipe, i, buf
    <2> QED BY <1>1, <1>4, <1>5 DEF PipeOf
  <1>7. /\ pipes' \in Seq(PipeOf(Positions)) /\ Len(pipes') = Len(pipes)
        /\ \A k \in 1..Len(pipes) : pipes'[k] = IF k = Len(pipes) THEN p ELSE pipes[k]
    <2>1. pipes' = WithPipe(p)
      BY DEF Write
    <2> HIDE DEF p
    <2> QED BY <1>1, <1>6, <2>1, WithPipeIs
  <1>8. \A k \in 1..Len(pipes) : \A j \in Positions :
          /\ pipes'[k].up[j] = pipes[k].up[j]
          /\ pipes'[k].buf[j] = IF k = n /\ j = i THEN Append(pipes[k].buf[j], r)
                                ELSE pipes[k].buf[j]
          /\ pipes'[k].rows[j] = pipes[k].rows[j]
    <2> HIDE DEF p, i
    <2> QED BY <1>6, <1>7 DEF Pipe
  <1>9. \A a \in Attempts : \A j \in Positions :
           taken'[a][j] = IF a = opened /\ j = i THEN taken[a][j] + 1 ELSE taken[a][j]
    <2>1. taken' = [taken EXCEPT ![opened][i] = @ + 1]
      BY DEF Write
    <2>2. taken \in [Attempts -> [Positions -> 0..MaxItems]]
      BY DEF TypeOK
    <2> HIDE DEF i
    <2> QED BY <1>1, <2>1, <2>2
  <1> QED BY <1>1, <1>2, <1>3, <1>7, <1>8, <1>9

\* The spider raises and the runner tries again.
LEMMA RaiseFacts ==
    ASSUME TypeOK, pipes' = Append(pipes, NewPipe)
    PROVE  /\ pipes' \in Seq(PipeOf(Positions)) /\ Len(pipes') = Len(pipes) + 1
           /\ pipes' # <<>>
           /\ \A k \in 1..Len(pipes) : pipes'[k] = pipes[k]
           /\ pipes'[Len(pipes) + 1] = NewPipe
  <1>1. pipes \in Seq(PipeOf(Positions)) /\ NewPipe \in PipeOf(Positions) /\ Len(pipes) \in Nat
    BY Setup, NewPipeIs
  <1> DEFINE p == NewPipe
  <1>2. p \in PipeOf(Positions) /\ pipes' = Append(pipes, p)
    BY <1>1
  <1> HIDE DEF p
  <1>3. /\ pipes' \in Seq(PipeOf(Positions)) /\ Len(pipes') = Len(pipes) + 1
        /\ \A k \in 1..Len(pipes) : pipes'[k] = pipes[k]
        /\ pipes'[Len(pipes) + 1] = p
    BY <1>1, <1>2, AppendProperties
  <1> QED BY <1>1, <1>3, EmptySeq DEF p

\* A pipeline is left.
LEMMA LeftFacts ==
    ASSUME TypeOK, pipes # <<>>, pipes' = Front(pipes), op' = Left, UNCHANGED sinks
    PROVE  /\ pipes' \in Seq(PipeOf(Positions)) /\ Len(pipes') = Len(pipes) - 1
           /\ \A k \in 1..Len(pipes') : k \in 1..Len(pipes) /\ pipes'[k] = pipes[k]
           /\ OpOK'
           /\ op'.at \in {"close", "done"} /\ (op'.at = "close" => op'.sink = 1)
  <1>1. pipes \in Seq(PipeOf(Positions)) /\ Len(pipes) \in Nat \ {0} /\ 1 \in Positions
    BY Setup, EmptySeq DEF Positions
  <1>2. /\ pipes' \in Seq(PipeOf(Positions)) /\ Len(pipes') = Len(pipes) - 1
        /\ \A k \in 1..(Len(pipes) - 1) : pipes'[k] = pipes[k]
        /\ Len(pipes) = 1 => pipes' = <<>>
    BY <1>1, FrontOf
  <1>3. Positions' = Positions
    BY DEF Positions
  <1>4. CASE Len(pipes) > 1
    <2>1. op' = [at |-> "close", sink |-> 1]
      BY <1>4 DEF Left, At
    <2>2. pipes' # <<>>
      BY <1>1, <1>2, <1>4, EmptySeq
    <2> QED BY <1>1, <1>2, <1>3, <2>1, <2>2 DEF OpOK
  <1>5. CASE ~(Len(pipes) > 1)
    <2>1. op' = At("done", 0) /\ pipes' = <<>> /\ op'.at = "done"
      BY <1>1, <1>2, <1>5 DEF Left, At
    <2> QED BY <1>1, <1>2, <2>1 DEF OpOK, At
  <1> QED BY <1>4, <1>5

\* A sink of a pipeline is closed.
LEMMA CloseFacts ==
    ASSUME TypeOK, CloseSink
    PROVE  LET i == op.sink
               batch == Pipe.buf[i]
               rows == Pipe.rows[i] \o batch
           IN  /\ i \in Positions /\ pipes # <<>> /\ rows \in Seq(Record)
               /\ Pipe.rows[i] \in Seq(Record) /\ batch \in Seq(Record)
               /\ OpOK'
               /\ \/ op'.at = "close" /\ op'.sink = i + 1 /\ i < Len(sinks)
                  \/ op'.at \in {"close", "done"} /\ i = Len(sinks)
                        /\ (op'.at = "close" => op'.sink = 1)
               /\ \E w \in Ways(i), saved \in BOOLEAN :
                    /\ ~saved => sinks[i] = "excel" /\ rows # <<>>
                    /\ store' = [store EXCEPT ![i] =
                           IF sinks[i] = "excel"
                           THEN (IF saved /\ rows # <<>> THEN rows ELSE store[i])
                           ELSE store[i] \o SubSeq(batch, 1, w.n)]
                    /\ flawless' = [flawless EXCEPT ![i] =
                           flawless[i] /\ saved
                              /\ (sinks[i] = "excel" \/ (w.n = Len(batch) /\ ~w.kept))]
                    /\ pipes' \in Seq(PipeOf(Positions))
                    /\ Len(pipes') = IF i < Len(sinks) THEN Len(pipes) ELSE Len(pipes) - 1
                    /\ \A k \in 1..Len(pipes') : \A j \in Positions :
                          /\ k \in 1..Len(pipes)
                          /\ pipes'[k].up[j] = pipes[k].up[j]
                          /\ pipes'[k].buf[j] = IF k = Len(pipes) /\ j = i /\ ~w.kept THEN <<>>
                                                ELSE pipes[k].buf[j]
                          /\ pipes'[k].rows[j] = pipes[k].rows[j]
  <1> DEFINE i == op.sink
             pipe == Pipe
             batch == Pipe.buf[i]
             rows == Pipe.rows[i] \o batch
  <1>1. i \in Positions /\ pipes # <<>> /\ sinks' = sinks
    BY OpIs DEF CloseSink
  <1>2. /\ pipe \in PipeOf(Positions) /\ Len(pipes) \in Nat \ {0}
        /\ pipes \in Seq(PipeOf(Positions))
    BY <1>1, Setup, ElementOfSeq, EmptySeq DEF Pipe
  <1>3. pipe.rows[i] \in Seq(Record) /\ pipe.buf[i] \in Seq(Record)
    BY <1>1, <1>2 DEF PipeOf
  <1>4. rows \in Seq(Record)
    BY <1>3, ConcatProperties
  <1>5. PICK w \in Ways(i) : \E saved \in BOOLEAN :
          /\ ~saved => sinks[i] = "excel" /\ rows # <<>>
          /\ store' = [store EXCEPT ![i] =
                 IF sinks[i] = "excel" THEN (IF saved /\ rows # <<>> THEN rows ELSE @)
                 ELSE @ \o SubSeq(Pipe.buf[i], 1, w.n)]
          /\ flawless' = [flawless EXCEPT ![i] =
                 @ /\ saved /\ (sinks[i] = "excel" \/ (w.n = Len(Pipe.buf[i]) /\ ~w.kept))]
          /\ pipes' = IF i = Len(sinks) THEN Front(pipes)
                      ELSE WithPipe([Pipe EXCEPT !.buf[i] = IF w.kept THEN @ ELSE <<>>])
    BY DEF CloseSink
  <1>6. PICK saved \in BOOLEAN :
          /\ ~saved => sinks[i] = "excel" /\ rows # <<>>
          /\ store' = [store EXCEPT ![i] =
                 IF sinks[i] = "excel" THEN (IF saved /\ rows # <<>> THEN rows ELSE @)
                 ELSE @ \o SubSeq(Pipe.buf[i], 1, w.n)]
          /\ flawless' = [flawless EXCEPT ![i] =
                 @ /\ saved /\ (sinks[i] = "excel" \/ (w.n = Len(Pipe.buf[i]) /\ ~w.kept))]
          /\ pipes' = IF i = Len(sinks) THEN Front(pipes)
                      ELSE WithPipe([Pipe EXCEPT !.buf[i] = IF w.kept THEN @ ELSE <<>>])
    BY <1>5
  <1>7. op' = Following("close", i, Left)
    BY DEF CloseSink
  <1>8. CASE i < Len(sinks)
    <2> DEFINE buf == IF w.kept THEN batch ELSE <<>>
               p == [pipe EXCEPT !.buf[i] = buf]
    <2>1. i + 1 \in Positions /\ op' = [at |-> "close", sink |-> i + 1]
      BY <1>1, <1>7, <1>8, FollowingIs
    <2>2. buf \in Seq(Record)
      BY <1>3, EmptySeq
    <2>3. pipes' = WithPipe(p)
      <3>1. [pipe EXCEPT !.buf[i] = IF w.kept THEN @ ELSE <<>>] = p
        <4>1. batch = pipe.buf[i]
          OBVIOUS
        <4> HIDE DEF pipe, batch
        <4> QED BY <4>1
      <3>2. i # Len(sinks)
        BY <1>8, <1>1, Setup DEF Positions
      <3> QED BY <1>6, <3>1, <3>2
    <2>4. /\ p \in PipeOf(Positions)
          /\ \A j \in Positions :
                /\ p.up[j] = pipe.up[j]
                /\ p.buf[j] = IF j = i THEN buf ELSE pipe.buf[j]
                /\ p.rows[j] = pipe.rows[j]
      <3> HIDE DEF pipe, i, buf
      <3> QED BY <1>1, <1>2, <2>2 DEF PipeOf
    <2>5. /\ pipes' \in Seq(PipeOf(Positions)) /\ Len(pipes') = Len(pipes)
          /\ \A k \in 1..Len(pipes) : pipes'[k] = IF k = Len(pipes) THEN p ELSE pipes[k]
      <3> HIDE DEF p
      <3> QED BY <1>1, <2>3, <2>4, WithPipeIs
    <2>6. \A k \in 1..Len(pipes') : \A j \in Positions :
            /\ k \in 1..Len(pipes)
            /\ pipes'[k].up[j] = pipes[k].up[j]
            /\ pipes'[k].buf[j] = IF k = Len(pipes) /\ j = i /\ ~w.kept THEN <<>>
                                  ELSE pipes[k].buf[j]
            /\ pipes'[k].rows[j] = pipes[k].rows[j]
      <3> HIDE DEF p, i
      <3> QED BY <2>4, <2>5 DEF Pipe
    <2>7. OpOK'
      <3>1. Positions' = Positions /\ pipes' # <<>>
        BY <1>1, <1>2, <2>5, EmptySeq DEF Positions
      <3> QED BY <2>1, <3>1 DEF OpOK
    <2>8. op'.at = "close" /\ op'.sink = i + 1
      BY <2>1
    <2> HIDE DEF i, rows, batch, buf, p, pipe
    <2> QED
      BY <1>1, <1>3, <1>4, <1>6, <1>8, <2>5, <2>6, <2>7, <2>8, ZenonT(30) DEF i, rows, batch, pipe
  <1>9. CASE ~(i < Len(sinks))
    <2>1. i = Len(sinks) /\ op' = Left
      BY <1>1, <1>7, <1>9, FollowingIs
    <2>2. pipes' = Front(pipes)
      BY <1>6, <2>1
    <2>3. /\ pipes' \in Seq(PipeOf(Positions)) /\ Len(pipes') = Len(pipes) - 1
          /\ \A k \in 1..Len(pipes') : k \in 1..Len(pipes) /\ pipes'[k] = pipes[k]
          /\ OpOK'
          /\ op'.at \in {"close", "done"} /\ (op'.at = "close" => op'.sink = 1)
      BY <1>1, <2>1, <2>2, LeftFacts
    <2>4. \A k \in 1..Len(pipes') : k # Len(pipes)
      BY <1>2, <2>3
    <2> HIDE DEF i, rows, batch, pipe
    <2> QED BY <1>1, <1>3, <1>4, <1>6, <1>9, <2>1, <2>3, <2>4 DEF i, rows, batch, pipe
  <1> QED BY <1>8, <1>9

-----------------------------------------------------------------------------
(* Types.                                                                  *)

LEMMA OpFollows ==
    ASSUME TypeOK, pipes # <<>>, NEW i \in Positions, UNCHANGED sinks,
           pipes' \in Seq(PipeOf(Positions)), Len(pipes') = Len(pipes),
           NEW name \in {"open", "write", "full", "flush", "close"},
           NEW done \in {At("loop", 0), At("complete", 0), At("close", 1)},
           op' = Following(name, i, done)
    PROVE  /\ OpOK'
           /\ \/ i < Len(sinks) /\ op'.at = name /\ op'.sink = i + 1
              \/ i = Len(sinks) /\ op' = done
  <1>1. Positions' = Positions /\ pipes' # <<>>
    <2>1. Len(pipes') # 0
      BY Setup
    <2> QED BY <2>1, EmptySeq DEF Positions
  <1>2. /\ i < Len(sinks) =>
               i + 1 \in Positions /\ op' = [at |-> name, sink |-> i + 1]
        /\ ~(i < Len(sinks)) => i = Len(sinks) /\ op' = done
        /\ 1 \in Positions
    BY FollowingIs
  <1> QED BY <1>1, <1>2 DEF OpOK, At

\* A part of a batch comes to the target of a sink.
LEMMA StoreGrows ==
    ASSUME TypeOK, pipes # <<>>, NEW i \in Positions, NEW w \in Ways(i),
           store' = [store EXCEPT ![i] = store[i] \o SubSeq(Pipe.buf[i], 1, w.n)]
    PROVE  /\ store' \in [Positions -> Seq(Record)]
           /\ \A j \in Positions : j # i => store'[j] = store[j]
           /\ Len(store[i]) \in Nat /\ w.n \in Nat
           /\ Len(store'[i]) = Len(store[i]) + w.n
           /\ \A x \in 1..Len(store[i]) : store'[i][x] = store[i][x]
           /\ \A x \in 1..w.n : store'[i][Len(store[i]) + x] = Pipe.buf[i][x]
           /\ store'[i] = store[i] \o SubSeq(Pipe.buf[i], 1, w.n)
           /\ SubSeq(Pipe.buf[i], 1, w.n) \in Seq(Record)
           /\ Len(SubSeq(Pipe.buf[i], 1, w.n)) = w.n
           /\ \A x \in 1..w.n : SubSeq(Pipe.buf[i], 1, w.n)[x] = Pipe.buf[i][x]
  <1> DEFINE s == store[i]
             b == Pipe.buf[i]
             n == w.n
             t == s \o SubSeq(b, 1, n)
  <1>1. s \in Seq(Record) /\ b \in Seq(Record) /\ n \in 0..Len(b) /\ Len(b) \in Nat
    BY WaysAre DEF TypeOK
  <1>2. /\ t \in Seq(Record) /\ Len(t) = Len(s) + n
        /\ \A j \in 1..Len(s) : t[j] = s[j]
        /\ \A j \in 1..n : t[Len(s) + j] = b[j]
        /\ SubSeq(b, 1, n) \in Seq(Record) /\ Len(SubSeq(b, 1, n)) = n
        /\ \A j \in 1..n : SubSeq(b, 1, n)[j] = b[j]
    <2> HIDE DEF s, b, n
    <2> QED BY <1>1, AppendPart
  <1>3. store \in [Positions -> Seq(Record)] /\ store' = [store EXCEPT ![i] = t]
    BY DEF TypeOK
  <1>4. Len(s) \in Nat /\ n \in Nat
    BY <1>1, LenProperties
  <1>5. /\ store' \in [Positions -> Seq(Record)]
        /\ \A j \in Positions : j # i => store'[j] = store[j]
        /\ store'[i] = t
    <2> HIDE DEF t
    <2> QED BY <1>2, <1>3
  <1> QED BY <1>2, <1>4, <1>5

LEMMA TypeParts ==
    ASSUME TypeOK, UNCHANGED <<sinks, odd>>, pipes' \in Seq(PipeOf(Positions)),
           Len(pipes') <= opened', opened' \in Attempts, OpOK',
           store' \in [Positions -> Seq(Record)], yielded' \in 0..MaxItems,
           taken' \in [Attempts -> [Positions -> 0..MaxItems]],
           flawless' \in [Positions -> BOOLEAN], cancelled' \in BOOLEAN
    PROVE  TypeOK'
  <1>1. Positions' = Positions
    BY DEF Positions
  <1> QED BY <1>1 DEF TypeOK, OpOK, PipeOf

\* A sink remembers that one of its calls failed.
LEMMA FlawlessType ==
    ASSUME TypeOK, NEW i \in Positions, NEW fine, flawless' = [flawless EXCEPT ![i] = flawless[i] /\ fine]
    PROVE  /\ flawless' \in [Positions -> BOOLEAN]
           /\ \A j \in Positions : flawless'[j] => flawless[j]
           /\ flawless'[i] => fine
  <1>1. flawless \in [Positions -> BOOLEAN]
    BY DEF TypeOK
  <1> DEFINE x == flawless[i] /\ fine
  <1>2. x \in BOOLEAN
    OBVIOUS
  <1>3. flawless' = [flawless EXCEPT ![i] = x]
    OBVIOUS
  <1> HIDE DEF x
  <1>4. /\ flawless' \in [Positions -> BOOLEAN]
        /\ \A j \in Positions : j # i => flawless'[j] = flawless[j]
        /\ flawless'[i] = x
    BY <1>1, <1>2, <1>3
  <1>5. x => flawless[i] /\ fine
    BY DEF x
  <1>6. \A j \in Positions : flawless'[j] => flawless[j]
    <2> TAKE j \in Positions
    <2>1. CASE j = i
      BY <1>4, <1>5, <2>1
    <2>2. CASE j # i
      BY <1>4, <2>2
    <2> QED BY <2>1, <2>2
  <1> QED BY <1>4, <1>5, <1>6

\* What a task that is cancelled does to its sinks.
LEMMA CancelFacts ==
    ASSUME TypeOK, Cancel
    PROVE  /\ UNCHANGED <<sinks, odd, opened, yielded, taken>> /\ cancelled' = TRUE
           /\ pipes # <<>> /\ pipes' \in Seq(PipeOf(Positions)) /\ OpOK'
           /\ op'.at \in {"close", "done"}
           /\ pipes' = pipes \/ Len(pipes') = Len(pipes) - 1
           /\ \A k \in 1..Len(pipes') : k \in 1..Len(pipes) /\ pipes'[k] = pipes[k]
           /\ \/ UNCHANGED <<store, flawless>>
              \/ LET i == op.sink IN
                 /\ i \in Positions
                 /\ flawless' = [flawless EXCEPT ![i] = FALSE]
                 /\ op.at \in {"full", "flush", "close"}
                 /\ \E w \in Ways(i) :
                       store' = [store EXCEPT ![i] = store[i] \o SubSeq(Pipe.buf[i], 1, w.n)]
  <1> DEFINE i == op.sink
             Kept == /\ UNCHANGED <<sinks, odd, opened, yielded, taken>> /\ cancelled' = TRUE
  <1>1. Kept /\ UNCHANGED sinks
    BY DEF Cancel
  <1>2. Positions' = Positions /\ 1 \in Positions /\ pipes \in Seq(PipeOf(Positions))
        /\ Len(pipes) \in Nat
    BY <1>1, Setup DEF Positions
  <1>3. CASE op.at \in {"loop", "complete"} /\ op' = At("close", 1) /\ UNCHANGED <<pipes, store, flawless>>
    <2>1. pipes # <<>> /\ op' = [at |-> "close", sink |-> 1]
      BY <1>3, OpIs DEF At
    <2>2. OpOK' /\ op'.at = "close"
      BY <1>2, <1>3, <2>1 DEF OpOK
    <2> QED BY <1>1, <1>2, <1>3, <2>1, <2>2
  <1>4. CASE /\ op.at = "open" /\ op' = Left /\ pipes' = Front(pipes)
             /\ UNCHANGED <<store, flawless>>
    <2>1. pipes # <<>>
      BY <1>4, OpIs
    <2>2. /\ pipes' \in Seq(PipeOf(Positions)) /\ Len(pipes') = Len(pipes) - 1
          /\ \A k \in 1..Len(pipes') : k \in 1..Len(pipes) /\ pipes'[k] = pipes[k]
          /\ OpOK' /\ op'.at \in {"close", "done"}
      BY <1>1, <1>4, <2>1, LeftFacts
    <2> QED BY <1>1, <1>4, <2>1, <2>2
  <1>5. CASE /\ op.at \in {"full", "flush", "close"}
             /\ \E w \in Ways(op.sink) :
                   store' = [store EXCEPT ![op.sink] = @ \o SubSeq(Pipe.buf[op.sink], 1, w.n)]
             /\ flawless' = [flawless EXCEPT ![op.sink] = FALSE]
             /\ IF op.at = "close" THEN op' = Left /\ pipes' = Front(pipes)
                ELSE op' = At("close", 1) /\ UNCHANGED pipes
    <2>1. pipes # <<>> /\ i \in Positions
      BY <1>5, OpIs
    <2>2. \E w \in Ways(i) :
             store' = [store EXCEPT ![i] = store[i] \o SubSeq(Pipe.buf[i], 1, w.n)]
      BY <1>5
    <2>3. CASE op.at = "close"
      <3>1. /\ pipes' \in Seq(PipeOf(Positions)) /\ Len(pipes') = Len(pipes) - 1
            /\ \A k \in 1..Len(pipes') : k \in 1..Len(pipes) /\ pipes'[k] = pipes[k]
            /\ OpOK' /\ op'.at \in {"close", "done"}
        BY <1>1, <1>5, <2>1, <2>3, LeftFacts
      <3> QED BY <1>1, <1>5, <2>1, <2>2, <3>1
    <2>4. CASE op.at # "close"
      <3>1. op' = [at |-> "close", sink |-> 1] /\ pipes' = pipes
        BY <1>5, <2>4 DEF At
      <3>2. OpOK' /\ op'.at = "close"
        BY <1>2, <2>1, <3>1 DEF OpOK
      <3> QED BY <1>1, <1>2, <1>5, <2>1, <2>2, <3>1, <3>2
    <2> QED BY <2>3, <2>4
  <1> QED BY <1>3, <1>4, <1>5 DEF Cancel

LEMMA TypeInit == Init => TypeOK
  <1> SUFFICES ASSUME Init PROVE TypeOK
    OBVIOUS
  <1>1. sinks \in Configs /\ sinks \in Seq(Kinds) /\ sinks # <<>>
    BY SinksAssumption DEF Init
  <1>2. 1 \in Positions
    BY <1>1, EmptySeq DEF Positions
  <1> DEFINE p == NewPipe
  <1>3. p \in PipeOf(Positions) /\ pipes = <<p>>
    BY NewPipeIs DEF Init
  <1>4. pipes \in Seq(PipeOf(Positions)) /\ Len(pipes) = 1 /\ pipes # <<>>
    <2> HIDE DEF p
    <2> QED BY <1>3
  <1>5. op = [at |-> "open", sink |-> 1]
    BY DEF Init, At
  <1>6. store \in [Positions -> Seq(Record)]
    <2>1. <<>> \in Seq(Record) /\ <<Old>> \in Seq(Record)
      <3>1. Old \in Record
        BY DEF Record
      <3> QED BY <3>1
    <2>2. store \in [Positions -> {<<>>, <<Old>>}]
      BY DEF Init
    <2> QED BY <2>1, <2>2
  <1>7. /\ 1 \in Attempts /\ 0 \in 0..MaxItems
    BY SinksAssumption DEF Attempts
  <1>8. opened \in Attempts /\ opened = 1 /\ yielded \in 0..MaxItems
    BY <1>7 DEF Init
  <1>9. taken \in [Attempts -> [Positions -> 0..MaxItems]]
    BY <1>7 DEF Init
  <1>10. flawless \in [Positions -> BOOLEAN] /\ cancelled \in BOOLEAN /\ odd \subseteq Items
    BY DEF Init
  <1> QED BY <1>1, <1>2, <1>4, <1>5, <1>6, <1>8, <1>9, <1>10 DEF TypeOK, PipeOf

LEMMA TypeStep ==
    ASSUME TypeOK, TakenInv, [Next]_vars
    PROVE  TypeOK'
  <1>1. /\ pipes \in Seq(PipeOf(Positions)) /\ Len(pipes) \in Nat /\ MaxItems \in Nat
        /\ opened \in Nat /\ yielded \in Nat /\ MaxAttempts \in Nat
    BY Setup
  <1>2. /\ store \in [Positions -> Seq(Record)] /\ flawless \in [Positions -> BOOLEAN]
        /\ taken \in [Attempts -> [Positions -> 0..MaxItems]] /\ cancelled \in BOOLEAN
        /\ Len(pipes) <= opened /\ opened \in Attempts /\ yielded \in 0..MaxItems
        /\ OpOK
    BY DEF TypeOK, OpOK
  <1>3. CASE OpenSink
    <2> DEFINE i == op.sink
    <2>1. PICK up \in Opens[sinks[i]], rows \in Seq(Record) :
            /\ flawless' = [flawless EXCEPT ![i] =
                   flawless[i] /\ up = "up" /\ (sinks[i] = "excel" => rows = store[i])]
            /\ pipes' \in Seq(PipeOf(Positions)) /\ Len(pipes') = Len(pipes)
      BY <1>3, OpenFacts
    <2>2. i \in Positions /\ pipes # <<>>
      BY <1>3, OpenFacts
    <2>3. flawless' \in [Positions -> BOOLEAN]
      <3> DEFINE fine == up = "up" /\ (sinks[i] = "excel" => rows = store[i])
      <3>1. flawless' = [flawless EXCEPT ![i] = flawless[i] /\ fine]
        BY <2>1
      <3> HIDE DEF fine, i
      <3> QED BY <2>2, <3>1, FlawlessType
    <2>4. /\ UNCHANGED <<sinks, odd, store, opened, yielded, taken, cancelled>>
          /\ op' = Following("open", i, At("loop", 0))
      BY <1>3 DEF OpenSink
    <2>5. OpOK'
      BY <2>1, <2>2, <2>4, OpFollows
    <2> QED BY <1>2, <2>1, <2>3, <2>4, <2>5, TypeParts
  <1>4. CASE Yield
    <2>1. /\ UNCHANGED <<sinks, odd, pipes, store, opened, taken, flawless, cancelled>>
          /\ yielded' \in 0..MaxItems
      BY <1>1, <1>4 DEF Yield
    <2>2. OpOK'
      <3>1. pipes # <<>> /\ 1 \in Positions /\ Positions' = Positions
        BY <1>4, <2>1, Setup, OpIs DEF Positions, Yield
      <3> QED BY <1>4, <2>1, <3>1 DEF Yield, OpOK, At
    <2> QED BY <1>1, <1>2, <2>1, <2>2, TypeParts
  <1>5. CASE Write
    <2> DEFINE i == op.sink
    <2>1. /\ UNCHANGED <<sinks, odd, store, opened, yielded, flawless, cancelled>>
          /\ taken' = [taken EXCEPT ![opened][i] = @ + 1]
          /\ op' = At("full", i) \/ op' = Following("write", i, At("loop", 0))
      BY <1>5 DEF Write
    <2>2. /\ i \in Positions /\ pipes # <<>> /\ taken[opened][i] + 1 \in Items
          /\ pipes' \in Seq(PipeOf(Positions)) /\ Len(pipes') = Len(pipes)
      BY <1>5, WriteFacts
    <2>3. taken' \in [Attempts -> [Positions -> 0..MaxItems]]
      <3>1. taken[opened][i] + 1 \in 0..MaxItems
        BY <1>1, <2>2 DEF Items
      <3> HIDE DEF i
      <3> QED BY <1>2, <2>1, <2>2, <3>1
    <2>4. OpOK'
      <3>1. CASE op' = At("full", i)
        <4>1. Positions' = Positions /\ pipes' # <<>>
          <5>1. Len(pipes') # 0
            BY <2>2, Setup
          <5> QED BY <2>1, <5>1, EmptySeq DEF Positions
        <4> QED BY <2>2, <3>1, <4>1 DEF OpOK, At
      <3>2. CASE op' = Following("write", i, At("loop", 0))
        BY <2>1, <2>2, <3>2, OpFollows
      <3> QED BY <2>1, <3>1, <3>2
    <2> QED BY <1>2, <2>1, <2>2, <2>3, <2>4, TypeParts
  <1>6. ASSUME NEW i \in Positions, i = op.sink, pipes # <<>>, FlushInto(i, Ways(i)),
               NEW name \in {"write", "flush"}, NEW done \in {At("loop", 0), At("complete", 0)},
               op' = Following(name, i, done),
               UNCHANGED <<sinks, odd, opened, yielded, taken, cancelled>>
        PROVE  TypeOK'
    <2>1. PICK w \in Ways(i) :
            /\ store' = [store EXCEPT ![i] = store[i] \o SubSeq(Pipe.buf[i], 1, w.n)]
            /\ flawless' = [flawless EXCEPT ![i] =
                   flawless[i] /\ (sinks[i] = "excel" \/ (w.n = Len(Pipe.buf[i]) /\ ~w.kept))]
            /\ pipes' \in Seq(PipeOf(Positions)) /\ Len(pipes') = Len(pipes)
      BY <1>6, FlushFacts
    <2>2. store' \in [Positions -> Seq(Record)]
      BY <1>6, <2>1, StoreGrows
    <2>3. flawless' \in [Positions -> BOOLEAN]
      BY <2>1, FlawlessType
    <2>4. OpOK'
      BY <1>6, <2>1, OpFollows
    <2> QED BY <1>2, <1>6, <2>1, <2>2, <2>3, <2>4, TypeParts
  <1>7. CASE WriteFull
    <2>1. /\ op.sink \in Positions /\ pipes # <<>> /\ FlushInto(op.sink, Ways(op.sink))
          /\ op' = Following("write", op.sink, At("loop", 0))
          /\ UNCHANGED <<sinks, odd, opened, yielded, taken, cancelled>>
      BY <1>7, OpIs DEF WriteFull
    <2> QED BY <1>6, <2>1
  <1>8. CASE FlushSink
    <2>1. /\ op.sink \in Positions /\ pipes # <<>> /\ FlushInto(op.sink, Ways(op.sink))
          /\ op' = Following("flush", op.sink, At("complete", 0))
          /\ UNCHANGED <<sinks, odd, opened, yielded, taken, cancelled>>
      BY <1>8, OpIs DEF FlushSink
    <2> QED BY <1>6, <2>1
  <1>9. CASE Drain \/ Complete
    <2>1. UNCHANGED <<sinks, odd, pipes, store, opened, yielded, taken, flawless, cancelled>>
      BY <1>9 DEF Drain, Complete
    <2>2. OpOK'
      <3>1. pipes # <<>> /\ 1 \in Positions /\ Positions' = Positions
        BY <1>9, <2>1, Setup, OpIs DEF Positions, Drain, Complete
      <3> QED BY <1>9, <2>1, <3>1 DEF Drain, Complete, OpOK, At
    <2> QED BY <1>1, <1>2, <2>1, <2>2, TypeParts
  <1>10. CASE Raise
    <2>1. UNCHANGED <<sinks, odd, store, yielded, taken, flawless, cancelled>>
      BY <1>10 DEF Raise
    <2>2. pipes # <<>> /\ 1 \in Positions /\ Positions' = Positions
      BY <1>10, <2>1, Setup, OpIs DEF Positions, Raise
    <2>3. CASE /\ opened < MaxAttempts
               /\ pipes' = Append(pipes, NewPipe) /\ opened' = opened + 1
               /\ op' = At("open", 1)
      <3>1. /\ pipes' \in Seq(PipeOf(Positions)) /\ Len(pipes') = Len(pipes) + 1
            /\ pipes' # <<>>
        BY <2>3, RaiseFacts
      <3>2. opened' \in Attempts /\ Len(pipes') <= opened'
        BY <1>1, <1>2, <2>3, <3>1 DEF Attempts
      <3>3. OpOK'
        BY <2>2, <2>3, <3>1 DEF OpOK, At
      <3> QED BY <1>2, <2>1, <3>1, <3>2, <3>3, TypeParts
    <2>4. CASE op' = At("close", 1) /\ UNCHANGED <<pipes, opened>>
      <3>1. OpOK'
        BY <2>2, <2>4 DEF OpOK, At
      <3> QED BY <1>1, <1>2, <2>1, <2>4, <3>1, TypeParts
    <2> QED BY <1>10, <2>3, <2>4 DEF Raise
  <1>11. CASE CloseSink
    <2> DEFINE i == op.sink
               batch == Pipe.buf[i]
               rows == Pipe.rows[i] \o batch
    <2>1. i \in Positions /\ pipes # <<>> /\ rows \in Seq(Record) /\ OpOK'
      BY <1>11, CloseFacts
    <2>2. PICK w \in Ways(i), saved \in BOOLEAN :
            /\ store' = [store EXCEPT ![i] =
                   IF sinks[i] = "excel"
                   THEN (IF saved /\ rows # <<>> THEN rows ELSE store[i])
                   ELSE store[i] \o SubSeq(batch, 1, w.n)]
            /\ flawless' = [flawless EXCEPT ![i] =
                   flawless[i] /\ saved
                      /\ (sinks[i] = "excel" \/ (w.n = Len(batch) /\ ~w.kept))]
            /\ pipes' \in Seq(PipeOf(Positions))
            /\ Len(pipes') = IF i < Len(sinks) THEN Len(pipes) ELSE Len(pipes) - 1
      BY <1>11, CloseFacts
    <2>3. UNCHANGED <<sinks, odd, opened, yielded, taken, cancelled>>
      BY <1>11 DEF CloseSink
    <2>4. store' \in [Positions -> Seq(Record)]
      <3>1. CASE sinks[i] = "excel"
        <4>1. PICK s \in Seq(Record) : store' = [store EXCEPT ![i] = s]
          <5>1. store[i] \in Seq(Record)
            BY <1>2, <2>1
          <5> HIDE DEF i, rows, batch
          <5> QED BY <2>1, <2>2, <3>1, <5>1
        <4> QED BY <1>2, <4>1
      <3>2. CASE sinks[i] # "excel"
        <4>1. store' = [store EXCEPT ![i] = store[i] \o SubSeq(Pipe.buf[i], 1, w.n)]
          BY <2>2, <3>2
        <4> HIDE DEF i, rows, batch
        <4> QED BY <2>1, <4>1, StoreGrows
      <3> QED BY <3>1, <3>2
    <2>5. flawless' \in [Positions -> BOOLEAN]
      <3> DEFINE fine == saved /\ (sinks[i] = "excel" \/ (w.n = Len(batch) /\ ~w.kept))
      <3>1. flawless' = [flawless EXCEPT ![i] = flawless[i] /\ fine]
        BY <2>2
      <3> HIDE DEF fine, i
      <3> QED BY <2>1, <3>1, FlawlessType
    <2>6. Len(pipes') <= opened'
      BY <1>1, <1>2, <2>2, <2>3
    <2> QED BY <1>2, <2>1, <2>2, <2>3, <2>4, <2>5, <2>6, TypeParts
  <1>12. CASE Cancel
    <2>1. /\ UNCHANGED <<sinks, odd, opened, yielded, taken>> /\ cancelled' = TRUE
          /\ pipes # <<>> /\ pipes' \in Seq(PipeOf(Positions)) /\ OpOK'
          /\ Len(pipes') \in {Len(pipes), Len(pipes) - 1}
      BY <1>12, CancelFacts
    <2>2. store' \in [Positions -> Seq(Record)] /\ flawless' \in [Positions -> BOOLEAN]
      <3> DEFINE i == op.sink
      <3>1. CASE UNCHANGED <<store, flawless>>
        BY <1>2, <3>1
      <3>2. CASE /\ i \in Positions
                 /\ flawless' = [flawless EXCEPT ![i] = FALSE]
                 /\ \E w \in Ways(i) :
                       store' = [store EXCEPT ![i] = store[i] \o SubSeq(Pipe.buf[i], 1, w.n)]
        <4> HIDE DEF i
        <4>1. store' \in [Positions -> Seq(Record)]
          BY <2>1, <3>2, StoreGrows
        <4> QED BY <1>2, <3>2, <4>1
      <3> QED BY <1>12, <3>1, <3>2, CancelFacts
    <2>3. Len(pipes') <= opened'
      BY <1>1, <1>2, <2>1
    <2> QED BY <1>2, <2>1, <2>2, <2>3, TypeParts
  <1>13. CASE UNCHANGED vars
    BY <1>13 DEF vars, TypeOK, Positions
  <1> QED BY <1>3, <1>4, <1>5, <1>7, <1>8, <1>9, <1>10, <1>11, <1>12, <1>13 DEF Next

-----------------------------------------------------------------------------
(* What the sinks are given.                                               *)

\* Of the items that a sink is or will be given in its turn of a loop, only
\* the spider makes more, and only a cancellation takes any back.
LEMMA DueStep ==
    ASSUME TypeOK, TakenInv, [Next]_vars, NEW a \in Attempts, NEW i \in Positions
    PROVE  /\ Yield => Due(a, i)' = Due(a, i) + (IF a = opened THEN 1 ELSE 0)
           /\ Cancel => Due(a, i)' <= Due(a, i)
           /\ ~Yield /\ ~Cancel => Due(a, i)' = Due(a, i)
  <1>1. /\ taken[a][i] \in Nat /\ i \in Nat /\ i <= Len(sinks) /\ i >= 1 /\ Len(sinks) \in Nat
        /\ opened \in Nat /\ a \in Nat
    BY Setup DEF Positions, Attempts
  <1> DEFINE s == op.sink
  <1>2. op.at \notin {"write", "full"} => ~Waits(a, i)
    BY DEF Waits
  <1>3. op'.at \notin {"write", "full"} => ~Waits(a, i)'
    BY DEF Waits
  <1>4. ASSUME op'.at \notin {"write", "full"}, taken' = taken
        PROVE  Due(a, i)' = taken[a][i]
    BY <1>1, <1>3, <1>4 DEF Due
  <1>5. ASSUME op.at \notin {"write", "full"} PROVE Due(a, i) = taken[a][i]
    BY <1>1, <1>2, <1>5 DEF Due
  <1>6. CASE Yield
    <2>1. op.at = "loop" /\ op' = [at |-> "write", sink |-> 1] /\ taken' = taken /\ opened' = opened
      BY <1>6 DEF Yield, At
    <2>2. Waits(a, i)' <=> a = opened
      BY <1>1, <2>1 DEF Waits
    <2>3. Due(a, i)' = taken[a][i] + (IF a = opened THEN 1 ELSE 0)
      BY <1>1, <2>1, <2>2 DEF Due
    <2>4. Due(a, i) = taken[a][i]
      BY <1>5, <2>1
    <2>5. ~Cancel
      BY <1>6 DEF Yield, Cancel, At
    <2> QED BY <1>6, <2>3, <2>4, <2>5
  <1>7. CASE Cancel
    <2>1. op'.at \in {"close", "done"} /\ taken' = taken
      BY <1>7, CancelFacts
    <2>2. Due(a, i)' = taken[a][i]
      BY <1>4, <2>1
    <2>3. taken[a][i] <= Due(a, i)
      BY <1>1 DEF Due
    <2>4. ~Yield
      BY <1>7 DEF Yield, Cancel, At
    <2> QED BY <1>7, <2>2, <2>3, <2>4
  <1>8. CASE OpenSink
    <2>1. op' = Following("open", s, At("loop", 0)) /\ taken' = taken /\ op.at = "open"
      BY <1>8 DEF OpenSink
    <2>2. op'.at \in {"open", "loop"}
      BY <2>1 DEF Following, At
    <2>3. Due(a, i)' = Due(a, i)
      BY <1>4, <1>5, <2>1, <2>2
    <2>4. ~Yield
      BY <2>1 DEF Yield
    <2> QED BY <1>7, <2>3, <2>4
  <1>9. CASE Write
    <2>1. /\ s \in Positions /\ \A b \in Attempts : \A j \in Positions :
             taken'[b][j] = IF b = opened /\ j = s THEN taken[b][j] + 1 ELSE taken[b][j]
      BY <1>9, WriteFacts
    <2>2. /\ op.at = "write" /\ opened' = opened
          /\ \/ op' = [at |-> "full", sink |-> s]
             \/ op' = Following("write", s, At("loop", 0))
      BY <1>9 DEF Write, At
    <2>3. s \in Nat /\ s <= Len(sinks)
      BY <1>1, <2>1 DEF Positions
    <2>4. Waits(a, i) <=> a = opened /\ i >= s
      BY <2>2 DEF Waits
    <2>5. Waits(a, i)' <=> a = opened /\ i > s
      <3>1. CASE op' = [at |-> "full", sink |-> s]
        BY <2>2, <3>1 DEF Waits
      <3>2. CASE op' = Following("write", s, At("loop", 0))
        <4>1. CASE s < Len(sinks)
          <5>1. op' = [at |-> "write", sink |-> s + 1]
            BY <3>2, <4>1 DEF Following, At
          <5>2. i >= s + 1 <=> i > s
            BY <1>1, <2>3
          <5> QED BY <2>2, <5>1, <5>2 DEF Waits
        <4>2. CASE ~(s < Len(sinks))
          <5>1. op'.at = "loop"
            BY <3>2, <4>2 DEF Following, At
          <5>2. ~(i > s)
            BY <1>1, <2>3, <4>2
          <5> QED BY <1>3, <5>1, <5>2
        <4> QED BY <4>1, <4>2
      <3> QED BY <2>2, <3>1, <3>2
    <2>6. Due(a, i)' = taken'[a][i] + (IF a = opened /\ i > s THEN 1 ELSE 0)
      BY <2>5 DEF Due
    <2>7. Due(a, i) = taken[a][i] + (IF a = opened /\ i >= s THEN 1 ELSE 0)
      BY <2>4 DEF Due
    <2>8. taken'[a][i] = IF a = opened /\ i = s THEN taken[a][i] + 1 ELSE taken[a][i]
      BY <2>1
    <2>9. Due(a, i)' = Due(a, i)
      <3> HIDE DEF s
      <3> QED BY <1>1, <2>3, <2>6, <2>7, <2>8
    <2>10. ~Yield
      BY <2>2 DEF Yield
    <2> QED BY <1>7, <2>9, <2>10
  <1>10. CASE WriteFull
    <2>1. s \in Positions
      BY <1>10, OpIs DEF WriteFull
    <2>2. /\ op.at = "full" /\ opened' = opened /\ taken' = taken
          /\ op' = Following("write", s, At("loop", 0))
      BY <1>10 DEF WriteFull
    <2>3. s \in Nat /\ s <= Len(sinks)
      BY <1>1, <2>1 DEF Positions
    <2>4. Waits(a, i) <=> a = opened /\ i > s
      BY <2>2 DEF Waits
    <2>5. Waits(a, i)' <=> a = opened /\ i > s
      <3>1. CASE s < Len(sinks)
        <4>1. op' = [at |-> "write", sink |-> s + 1]
          BY <2>2, <3>1 DEF Following, At
        <4>2. i >= s + 1 <=> i > s
          BY <1>1, <2>3
        <4> QED BY <2>2, <4>1, <4>2 DEF Waits
      <3>2. CASE ~(s < Len(sinks))
        <4>1. op'.at = "loop"
          BY <2>2, <3>2 DEF Following, At
        <4>2. ~(i > s)
          BY <1>1, <2>3, <3>2
        <4> QED BY <1>3, <4>1, <4>2
      <3> QED BY <3>1, <3>2
    <2>6. Due(a, i)' = Due(a, i)
      BY <2>2, <2>4, <2>5 DEF Due
    <2>7. ~Yield
      BY <2>2 DEF Yield
    <2> QED BY <1>7, <2>6, <2>7
  <1>11. CASE Drain \/ Complete \/ FlushSink \/ Raise \/ CloseSink
    <2>1. /\ op.at \in {"loop", "flush", "complete", "close"} /\ taken' = taken
          /\ op'.at \in {"flush", "complete", "close", "open", "done"}
      BY <1>11 DEF Drain, Complete, FlushSink, Raise, CloseSink, Following, Left, At
    <2>2. Due(a, i)' = Due(a, i)
      BY <1>4, <1>5, <2>1
    <2>3. ~Yield
      BY <2>1 DEF Yield, At
    <2> QED BY <1>7, <2>2, <2>3
  <1>12. CASE UNCHANGED vars
    <2>1. Due(a, i)' = Due(a, i) /\ op' = op
      BY <1>12 DEF vars, Due, Waits
    <2>2. ~Yield
      BY <2>1 DEF Yield, At
    <2> QED BY <1>7, <2>1, <2>2
  <1> QED BY <1>6, <1>7, <1>8, <1>9, <1>10, <1>11, <1>12 DEF Next

LEMMA TakenInit == Init => TakenInv /\ GivenInv
  <1> SUFFICES ASSUME Init PROVE TakenInv /\ GivenInv
    OBVIOUS
  <1>1. /\ op = [at |-> "open", sink |-> 1] /\ opened = 1 /\ yielded = 0
        /\ taken = [a \in Attempts |-> [i \in Positions |-> 0]]
        /\ Len(pipes) = 1
    <2> DEFINE p == NewPipe
    <2>1. pipes = <<p>>
      BY DEF Init
    <2> HIDE DEF p
    <2>2. Len(pipes) = 1
      BY <2>1
    <2> QED BY <2>2 DEF Init, At
  <1>2. \A a \in Attempts, i \in Positions : taken[a][i] = 0 /\ Due(a, i) = 0
    BY <1>1 DEF Due, Waits
  <1> QED BY <1>1, <1>2 DEF TakenInv, GivenInv

LEMMA TakenStep ==
    ASSUME TypeOK, TakenInv, [Next]_vars
    PROVE  TakenInv'
  <1>1. Positions' = Positions /\ sinks' = sinks
    BY DEF Next, vars, OpenSink, Yield, Write, WriteFull, Drain, Complete, FlushSink, Raise, CloseSink,
           Cancel, Positions
  <1>2. ASSUME op'.at \in {"open", "loop", "write", "full", "flush", "complete"}
        PROVE  Len(pipes') = opened'
    <2>1. CASE OpenSink
      <3>1. Len(pipes') = Len(pipes) /\ op.at = "open" /\ opened' = opened
        BY <2>1, OpenFacts DEF OpenSink
      <3> QED BY <3>1 DEF TakenInv
    <2>2. CASE Yield \/ Drain \/ Complete
      BY <2>2 DEF Yield, Drain, Complete, TakenInv
    <2>3. CASE Write
      <3>1. Len(pipes') = Len(pipes) /\ op.at = "write" /\ opened' = opened
        BY <2>3, WriteFacts DEF Write
      <3> QED BY <3>1 DEF TakenInv
    <2>4. CASE WriteFull \/ FlushSink
      <3>1. op.at \in {"full", "flush"} /\ opened' = opened /\ FlushInto(op.sink, Ways(op.sink))
        BY <2>4 DEF WriteFull, FlushSink
      <3>2. op.sink \in Positions /\ pipes # <<>>
        BY <3>1, OpIs
      <3>3. Len(pipes') = Len(pipes)
        BY <3>1, <3>2, FlushFacts
      <3> QED BY <3>1, <3>3 DEF TakenInv
    <2>5. CASE Raise
      <3>1. op.at \in {"loop", "complete"} /\ op'.at # "close"
        BY <1>2, <2>5 DEF Raise
      <3>2. pipes' = Append(pipes, NewPipe) /\ opened' = opened + 1
        BY <2>5, <3>1 DEF Raise, At
      <3>3. Len(pipes') = Len(pipes) + 1
        BY <3>2, RaiseFacts
      <3> QED BY <3>1, <3>2, <3>3 DEF TakenInv
    <2>6. CASE CloseSink
      BY <1>2, <2>6, CloseFacts
    <2>7. CASE Cancel
      BY <1>2, <2>7, CancelFacts
    <2>8. CASE UNCHANGED vars
      BY <1>2, <2>8 DEF vars, TakenInv
    <2> QED BY <2>1, <2>2, <2>3, <2>4, <2>5, <2>6, <2>7, <2>8 DEF Next
  <1>3. ASSUME NEW a \in Attempts, NEW i \in Positions,
               a > opened' \/ (a = opened' /\ op'.at = "open")
        PROVE  taken'[a][i] = 0
    <2>1. a \in Nat /\ opened \in Nat
      BY Setup DEF Attempts
    <2>2. CASE Write
      <3>1. /\ taken'[a][i] = IF a = opened /\ i = op.sink THEN taken[a][i] + 1 ELSE taken[a][i]
            /\ op'.at \in {"full", "write", "loop"} /\ opened' = opened
        <4>1. /\ op'.at \in {"full", "write", "loop"} /\ opened' = opened
          BY <2>2 DEF Write, Following, At
        <4>2. taken'[a][i] = IF a = opened /\ i = op.sink THEN taken[a][i] + 1 ELSE taken[a][i]
          BY <2>2, WriteFacts
        <4> QED BY <4>1, <4>2
      <3> QED BY <1>3, <2>1, <3>1 DEF TakenInv
    <2>3. CASE ~Write
      <3>1. taken' = taken
        BY <2>3 DEF Next, vars, OpenSink, Yield, WriteFull, Drain, Complete, FlushSink, Raise, CloseSink,
                    Cancel
      <3>2. \/ opened' = opened /\ (op'.at = "open" => op.at = "open")
            \/ opened' = opened + 1
        <4>1. CASE Cancel
          BY <4>1, CancelFacts
        <4>2. CASE Raise
          BY <4>2 DEF Raise, At
        <4>3. CASE OpenSink
          BY <4>3 DEF OpenSink
        <4>4. CASE Yield \/ Drain \/ Complete
          BY <4>4 DEF Yield, Drain, Complete, At
        <4>5. CASE WriteFull
          BY <4>5 DEF WriteFull, Following, At
        <4>6. CASE FlushSink
          BY <4>6 DEF FlushSink, Following, At
        <4>7. CASE CloseSink
          BY <4>7 DEF CloseSink, Following, Left, At
        <4>8. CASE UNCHANGED vars
          BY <4>8 DEF vars
        <4> QED BY <2>3, <4>1, <4>2, <4>3, <4>4, <4>5, <4>6, <4>7, <4>8 DEF Next
      <3>3. a > opened \/ (a = opened /\ op.at = "open")
        BY <1>3, <2>1, <3>2
      <3> QED BY <3>1, <3>3 DEF TakenInv
    <2> QED BY <2>2, <2>3
  <1>4. ASSUME NEW a \in Attempts, NEW i \in Positions
        PROVE  Due(a, i)' <= yielded'
    <2>1. /\ Due(a, i) <= yielded /\ Due(a, i) \in Nat /\ yielded \in Nat
      BY Setup DEF TakenInv, Due
    <2>2. CASE Yield
      <3>1. Due(a, i)' = Due(a, i) + (IF a = opened THEN 1 ELSE 0) /\ yielded' = yielded + 1
        BY <2>2, DueStep DEF Yield
      <3> QED BY <2>1, <3>1
    <2>3. CASE ~Yield
      <3>1. yielded' = yielded
        BY <2>3 DEF Next, vars, OpenSink, Write, WriteFull, Drain, Complete, FlushSink, Raise, CloseSink,
                    Cancel
      <3>2. Due(a, i)' <= Due(a, i) /\ Due(a, i)' \in Int
        <4>1. Due(a, i)' = Due(a, i) \/ Due(a, i)' <= Due(a, i)
          BY <2>3, DueStep
        <4>2. TypeOK'
          BY TypeStep
        <4>3. taken'[a][i] \in 0..MaxItems
          BY <1>1, <4>2 DEF TypeOK
        <4>4. Due(a, i)' \in Int
          BY <4>3, Setup DEF Due
        <4> QED BY <2>1, <4>1, <4>4
      <3> QED BY <2>1, <3>1, <3>2
    <2> QED BY <2>2, <2>3
  <1> QED BY <1>1, <1>2, <1>3, <1>4 DEF TakenInv

LEMMA GivenStep ==
    ASSUME TypeOK, TakenInv, GivenInv, [Next]_vars
    PROVE  GivenInv'
  <1> SUFFICES ASSUME ~cancelled', NEW a \in Attempts, NEW i \in Positions', NEW j \in Positions'
               PROVE  Due(a, i)' = Due(a, j)'
    BY DEF GivenInv
  <1>1. i \in Positions /\ j \in Positions
    BY DEF Next, vars, OpenSink, Yield, Write, WriteFull, Drain, Complete, FlushSink, Raise, CloseSink,
           Cancel, Positions
  <1>2. ~Cancel /\ ~cancelled
    <2>1. ~Cancel
      BY DEF Cancel
    <2>2. cancelled' = cancelled
      BY <2>1 DEF Next, vars, OpenSink, Yield, Write, WriteFull, Drain, Complete, FlushSink, Raise,
                  CloseSink
    <2> QED BY <2>1, <2>2
  <1>3. Due(a, i) = Due(a, j)
    BY <1>1, <1>2 DEF GivenInv
  <1> QED BY <1>1, <1>2, <1>3, DueStep

\* When a pipeline is not giving an item to its sinks, all of them have those
\* it was given before.
LEMMA GivenNow == TypeOK /\ GivenInv => GivenToAll
  <1> SUFFICES ASSUME TypeOK, GivenInv, op.at \in {"loop", "done"}, ~cancelled,
                      NEW a \in Attempts, NEW i \in Positions, NEW j \in Positions
               PROVE  taken[a][i] = taken[a][j]
    BY DEF GivenToAll
  <1>1. Due(a, i) = Due(a, j) /\ taken[a][i] \in Nat /\ taken[a][j] \in Nat
    BY Setup DEF GivenInv
  <1>2. ~Waits(a, i) /\ ~Waits(a, j)
    BY DEF Waits
  <1> QED BY <1>1, <1>2 DEF Due

-----------------------------------------------------------------------------
(* Every variable has its type in every reachable state: the pipeline only *)
(* works on sinks it has, and gives no sink more than the spider yielded.  *)
THEOREM SinksTypeCorrect == Spec => []TypeOK
  <1>1. Init => TypeOK /\ TakenInv
    BY TypeInit, TakenInit
  <1>2. TypeOK /\ TakenInv /\ [Next]_vars => (TypeOK /\ TakenInv)'
    BY TypeStep, TakenStep
  <1> QED BY <1>1, <1>2, PTL DEF Spec

\* Pipeline.process gives each item to every sink, though the writes of some
\* fail: between two items no sink misses one that another was given.
THEOREM GivenCorrect == Spec => []GivenToAll
  <1>1. Init => TypeOK /\ TakenInv /\ GivenInv
    BY TypeInit, TakenInit
  <1>2. TypeOK /\ TakenInv /\ GivenInv /\ [Next]_vars => (TypeOK /\ TakenInv /\ GivenInv)'
    BY TypeStep, TakenStep, GivenStep
  <1> QED BY <1>1, <1>2, GivenNow, PTL DEF Spec

-----------------------------------------------------------------------------
(* Buffers and targets.                                                    *)

\* What the steps do to the buffers and the targets.
Quiet ==
    /\ UNCHANGED <<taken, store>>
    /\ \A k \in 1..Len(pipes') : k \in 1..Len(pipes) /\ pipes'[k] = pipes[k]

Readied ==
    /\ op.at = "open" /\ pipes # <<>> /\ UNCHANGED <<taken, store>>
    /\ Len(pipes') = Len(pipes) /\ op.sink \in Positions
    /\ \A k \in 1..Len(pipes) : \A j \in Positions :
          /\ pipes'[k].buf[j] = pipes[k].buf[j]
          /\ ~(k = Len(pipes) /\ j = op.sink) => pipes'[k].up[j] = pipes[k].up[j]

Renewed ==
    /\ UNCHANGED <<taken, store>> /\ Len(pipes) = opened
    /\ Len(pipes') = Len(pipes) + 1
    /\ \A k \in 1..Len(pipes) : pipes'[k] = pipes[k]
    /\ pipes'[Len(pipes) + 1] = NewPipe

Flushing(s, w, emptied) ==
    /\ pipes # <<>> /\ UNCHANGED taken /\ (emptied => ~w.kept)
    /\ \A j \in Positions : j # s => store'[j] = store[j]
    /\ sinks[s] # "excel" =>
          store' = [store EXCEPT ![s] = store[s] \o SubSeq(Pipe.buf[s], 1, w.n)]
    /\ \A k \in 1..Len(pipes') : k \in 1..Len(pipes) /\ \A j \in Positions :
          /\ pipes'[k].up[j] = pipes[k].up[j]
          /\ pipes'[k].buf[j] = IF k = Len(pipes) /\ j = s /\ emptied THEN <<>>
                                ELSE pipes[k].buf[j]

LEMMA StepKinds ==
    ASSUME TypeOK, TakenInv, [Next]_vars
    PROVE  /\ sinks' = sinks /\ Positions' = Positions
           /\ \/ Quiet \/ Readied \/ Renewed \/ Write
              \/ \E s \in Positions : \E w \in Ways(s) : \E emptied \in BOOLEAN :
                    Flushing(s, w, emptied)
  <1>1. Positions' = Positions /\ sinks' = sinks
    BY DEF Next, vars, OpenSink, Yield, Write, WriteFull, Drain, Complete, FlushSink, Raise, CloseSink,
           Cancel, Positions
  <1>2. store \in [Positions -> Seq(Record)]
    BY DEF TypeOK
  <1>3. CASE OpenSink
    <2>1. UNCHANGED <<taken, store>> /\ op.at = "open"
      BY <1>3 DEF OpenSink
    <2>2. /\ op.sink \in Positions /\ pipes # <<>> /\ Len(pipes') = Len(pipes)
          /\ \A k \in 1..Len(pipes) : \A j \in Positions :
                /\ pipes'[k].buf[j] = pipes[k].buf[j]
                /\ ~(k = Len(pipes) /\ j = op.sink) => pipes'[k].up[j] = pipes[k].up[j]
      BY <1>3, OpenFacts
    <2> QED BY <1>1, <2>1, <2>2 DEF Readied
  <1>4. CASE Yield \/ Drain \/ Complete \/ UNCHANGED vars
    BY <1>1, <1>4 DEF Yield, Drain, Complete, vars, Quiet
  <1>5. ASSUME NEW s \in Positions, pipes # <<>>, FlushInto(s, Ways(s)), taken' = taken
        PROVE  \E w \in Ways(s) : \E emptied \in BOOLEAN : Flushing(s, w, emptied)
    <2>1. PICK w \in Ways(s) :
            LET batch == Pipe.buf[s] IN
             /\ store' = [store EXCEPT ![s] = store[s] \o SubSeq(batch, 1, w.n)]
             /\ flawless' = [flawless EXCEPT ![s] =
                    flawless[s] /\ (sinks[s] = "excel" \/ (w.n = Len(batch) /\ ~w.kept))]
             /\ pipes' \in Seq(PipeOf(Positions)) /\ Len(pipes') = Len(pipes)
             /\ \A k \in 1..Len(pipes) : \A j \in Positions :
                   /\ pipes'[k].up[j] = pipes[k].up[j]
                   /\ pipes'[k].buf[j] = IF k = Len(pipes) /\ j = s /\ ~w.kept THEN <<>>
                                         ELSE pipes[k].buf[j]
                   /\ pipes'[k].rows[j] = IF k = Len(pipes) /\ j = s /\ sinks[s] = "excel"
                                          THEN pipes[k].rows[j] \o batch
                                          ELSE pipes[k].rows[j]
      BY <1>5, FlushFacts
    <2>2. \A j \in Positions : j # s => store'[j] = store[j]
      BY <1>2, <2>1
    <2> DEFINE emptied == ~w.kept
    <2>3. emptied \in BOOLEAN /\ Flushing(s, w, emptied)
      BY <1>5, <2>1, <2>2 DEF Flushing
    <2> QED BY <2>3
  <1>6. CASE WriteFull \/ FlushSink
    <2>1. op.sink \in Positions /\ pipes # <<>> /\ FlushInto(op.sink, Ways(op.sink))
          /\ taken' = taken
      BY <1>6, OpIs DEF WriteFull, FlushSink
    <2> QED BY <1>1, <1>5, <2>1
  <1>7. CASE Raise
    <2>1. UNCHANGED <<taken, store>> /\ Len(pipes) = opened
      BY <1>7 DEF Raise, TakenInv
    <2>2. CASE pipes' = Append(pipes, NewPipe)
      BY <1>1, <2>1, <2>2, RaiseFacts DEF Renewed
    <2>3. CASE pipes' = pipes
      BY <1>1, <2>1, <2>3 DEF Quiet
    <2> QED BY <1>7, <2>2, <2>3 DEF Raise
  <1>8. CASE CloseSink
    <2> DEFINE s == op.sink
    <2>1. s \in Positions /\ pipes # <<>> /\ taken' = taken
      BY <1>8, CloseFacts DEF CloseSink
    <2>2. PICK w \in Ways(s), saved \in BOOLEAN :
            /\ store' = [store EXCEPT ![s] =
                   IF sinks[s] = "excel"
                   THEN (IF saved /\ Pipe.rows[s] \o Pipe.buf[s] # <<>>
                         THEN Pipe.rows[s] \o Pipe.buf[s] ELSE store[s])
                   ELSE store[s] \o SubSeq(Pipe.buf[s], 1, w.n)]
            /\ \A k \in 1..Len(pipes') : \A j \in Positions :
                  /\ k \in 1..Len(pipes)
                  /\ pipes'[k].up[j] = pipes[k].up[j]
                  /\ pipes'[k].buf[j] = IF k = Len(pipes) /\ j = s /\ ~w.kept THEN <<>>
                                        ELSE pipes[k].buf[j]
      BY <1>8, CloseFacts
    <2> DEFINE emptied == ~w.kept
    <2>3. \A j \in Positions : j # s => store'[j] = store[j]
      <3> DEFINE x == IF sinks[s] = "excel"
                      THEN (IF saved /\ Pipe.rows[s] \o Pipe.buf[s] # <<>>
                            THEN Pipe.rows[s] \o Pipe.buf[s] ELSE store[s])
                      ELSE store[s] \o SubSeq(Pipe.buf[s], 1, w.n)
      <3>1. store' = [store EXCEPT ![s] = x]
        BY <2>2
      <3> HIDE DEF x, s
      <3> QED BY <1>2, <3>1
    <2>4. sinks[s] # "excel" =>
            store' = [store EXCEPT ![s] = store[s] \o SubSeq(Pipe.buf[s], 1, w.n)]
      BY <2>2
    <2> HIDE DEF s
    <2>5. \A k \in 1..Len(pipes') : k \in 1..Len(pipes) /\ \A j \in Positions :
            /\ pipes'[k].up[j] = pipes[k].up[j]
            /\ pipes'[k].buf[j] = IF k = Len(pipes) /\ j = s /\ emptied THEN <<>>
                                  ELSE pipes[k].buf[j]
      BY <2>1, <2>2
    <2>6. emptied \in BOOLEAN /\ Flushing(s, w, emptied)
      BY <2>1, <2>3, <2>4, <2>5 DEF Flushing
    <2> QED BY <1>1, <2>1, <2>6
  <1>9. CASE Cancel
    <2> DEFINE s == op.sink
    <2>1. /\ pipes # <<>> /\ taken' = taken
          /\ \A k \in 1..Len(pipes') : k \in 1..Len(pipes) /\ pipes'[k] = pipes[k]
      BY <1>9, CancelFacts
    <2>2. CASE store' = store
      BY <1>1, <2>1, <2>2 DEF Quiet
    <2>3. CASE /\ s \in Positions
               /\ \E w \in Ways(s) :
                     store' = [store EXCEPT ![s] = store[s] \o SubSeq(Pipe.buf[s], 1, w.n)]
      <3> HIDE DEF s
      <3>1. PICK w \in Ways(s) :
               store' = [store EXCEPT ![s] = store[s] \o SubSeq(Pipe.buf[s], 1, w.n)]
        BY <2>3
      <3>2. \A j \in Positions : j # s => store'[j] = store[j]
        BY <1>2, <3>1
      <3>3. Flushing(s, w, FALSE)
        BY <2>1, <3>1, <3>2 DEF Flushing
      <3> QED BY <1>1, <2>3, <3>3
    <2> QED BY <1>9, <2>2, <2>3, CancelFacts
  <1>10. CASE Write
    BY <1>1, <1>10
  <1> QED BY <1>3, <1>4, <1>6, <1>7, <1>8, <1>9, <1>10 DEF Next

\* Which items a sink let go, before and after a step.
LEMMA BufInit == Init => BufInv /\ KeptInv
  <1> SUFFICES ASSUME Init PROVE BufInv /\ KeptInv
    OBVIOUS
  <1> DEFINE p == NewPipe
  <1>1. pipes = <<p>> /\ \A i \in Positions : p.buf[i] = <<>>
    BY NewPipeIs DEF Init
  <1> HIDE DEF p
  <1>2. DOMAIN pipes = {1} /\ \A i \in Positions : Len(pipes[1].buf[i]) = 0
    BY <1>1
  <1>3. \A a \in Attempts, i \in Positions : taken[a][i] = 0 /\ Waiting(a, i) = 0 /\ Flushed(a, i) = 0
    BY <1>2 DEF Init, Waiting, Flushed
  <1> QED BY <1>3 DEF BufInv, KeptInv

LEMMA WaitingIs ==
    ASSUME TypeOK, BufInv, NEW a \in Attempts, NEW i \in Positions
    PROVE  /\ a \in Nat /\ a >= 1
           /\ taken[a][i] \in Nat /\ Waiting(a, i) \in Nat /\ Waiting(a, i) <= taken[a][i]
           /\ Flushed(a, i) \in Nat /\ Flushed(a, i) <= taken[a][i]
           /\ a \in DOMAIN pipes <=> a <= Len(pipes)
           /\ a \in DOMAIN pipes => a \in 1..Len(pipes)
           /\ a \in DOMAIN pipes => Waiting(a, i) = Len(pipes[a].buf[i])
           /\ a \notin DOMAIN pipes => Waiting(a, i) = 0 /\ Flushed(a, i) = taken[a][i]
  <1>1. a \in Nat /\ a >= 1 /\ taken[a][i] \in Nat /\ Len(pipes) \in Nat
        /\ DOMAIN pipes = 1..Len(pipes)
    BY Setup DEF Attempts
  <1>2. CASE a \in DOMAIN pipes
    <2>1. Waiting(a, i) = Len(pipes[a].buf[i]) /\ Waiting(a, i) \in Nat
      BY <1>1, <1>2, Setup DEF Waiting
    <2>2. Waiting(a, i) <= taken[a][i]
      BY <1>2 DEF BufInv
    <2> QED BY <1>1, <1>2, <2>1, <2>2 DEF Flushed
  <1>3. CASE a \notin DOMAIN pipes
    <2>1. Waiting(a, i) = 0
      BY <1>3 DEF Waiting
    <2> QED BY <1>1, <1>3, <2>1 DEF Flushed
  <1> QED BY <1>2, <1>3

\* Where the buffers of the open pipelines stay or are emptied.
LEMMA BufFrame ==
    ASSUME TypeOK, TypeOK', BufInv, UNCHANGED <<taken, sinks>>,
           NEW a \in Attempts, NEW i \in Positions, a \in DOMAIN pipes',
           \/ a \in 1..Len(pipes) /\ pipes'[a].buf[i] = pipes[a].buf[i]
           \/ pipes'[a].buf[i] = <<>>
    PROVE  /\ Waiting(a, i)' <= taken'[a][i]
           /\ \A j \in 1..Waiting(a, i)' : pipes'[a].buf[i][j] = <<a, Flushed(a, i)' + j>>
           /\ pipes'[a].buf[i] = <<>> => Flushed(a, i)' = taken[a][i]
           /\ a \in DOMAIN pipes /\ pipes'[a].buf[i] = pipes[a].buf[i] =>
                 Flushed(a, i)' = Flushed(a, i)
  <1>1. taken[a][i] \in Nat /\ DOMAIN pipes = 1..Len(pipes)
    BY Setup
  <1>2. CASE pipes'[a].buf[i] = <<>>
    <2>1. Waiting(a, i)' = 0
      BY <1>2 DEF Waiting
    <2>2. a \in DOMAIN pipes /\ pipes'[a].buf[i] = pipes[a].buf[i] => Waiting(a, i) = 0
      BY <1>2 DEF Waiting
    <2> QED BY <1>1, <1>2, <2>1, <2>2 DEF Flushed
  <1>3. CASE a \in 1..Len(pipes) /\ pipes'[a].buf[i] = pipes[a].buf[i]
    <2>1. Waiting(a, i)' = Waiting(a, i) /\ Flushed(a, i)' = Flushed(a, i)
      BY <1>1, <1>3 DEF Waiting, Flushed
    <2>2. pipes'[a].buf[i] = <<>> => Flushed(a, i)' = taken[a][i]
      BY <1>1, <1>3, <2>1 DEF Waiting, Flushed
    <2> QED BY <1>1, <1>3, <2>1, <2>2 DEF BufInv
  <1> QED BY <1>2, <1>3

\* An item that is buffered waits there.
LEMMA WriteWaits ==
    ASSUME TypeOK, TypeOK', TakenInv, BufInv, Write,
           NEW a \in Attempts, NEW i \in Positions, a \in DOMAIN pipes'
    PROVE  /\ Waiting(a, i)' <= taken'[a][i]
           /\ \A j \in 1..Waiting(a, i)' : pipes'[a].buf[i][j] = <<a, Flushed(a, i)' + j>>
           /\ Flushed(a, i)' = Flushed(a, i) /\ a \in DOMAIN pipes
           /\ pipes'[a].up[i] = pipes[a].up[i]
  <1> DEFINE s == op.sink
             n == Len(pipes)
             r == <<opened, taken[opened][s] + 1>>
  <1>1. /\ s \in Positions /\ n = opened /\ Len(pipes') = Len(pipes) /\ r \in Record
        /\ taken'[a][i] = IF a = opened /\ i = s THEN taken[a][i] + 1 ELSE taken[a][i]
        /\ \A k \in 1..Len(pipes) : \A j \in Positions :
              /\ pipes'[k].up[j] = pipes[k].up[j]
              /\ pipes'[k].buf[j] = IF k = n /\ j = s THEN Append(pipes[k].buf[j], r)
                                    ELSE pipes[k].buf[j]
    BY WriteFacts, SMTT(30)
  <1>2. /\ sinks' = sinks /\ Positions' = Positions
    BY DEF Write, Positions
  <1>3. DOMAIN pipes' = DOMAIN pipes /\ a \in 1..Len(pipes) /\ DOMAIN pipes = 1..Len(pipes)
    <2>1. DOMAIN pipes' = 1..Len(pipes')
      BY LenProperties DEF TypeOK
    <2> QED BY <1>1, <2>1, Setup
  <1>4. /\ taken[a][i] \in Nat /\ Waiting(a, i) = Len(pipes[a].buf[i]) /\ Waiting(a, i) \in Nat
        /\ Waiting(a, i) <= taken[a][i] /\ pipes[a].buf[i] \in Seq(Record)
        /\ \A j \in 1..Waiting(a, i) : pipes[a].buf[i][j] = <<a, Flushed(a, i) + j>>
    BY <1>3, Setup, WaitingIs DEF BufInv
  <1> HIDE DEF s
  <1>5. CASE a = n /\ i = s
    <2> DEFINE b == pipes[a].buf[i]
    <2>1. pipes'[a].buf[i] = Append(b, r) /\ taken'[a][i] = taken[a][i] + 1
      BY <1>1, <1>3, <1>5
    <2>2. /\ Len(Append(b, r)) = Len(b) + 1
          /\ \A j \in 1..Len(b) : Append(b, r)[j] = b[j]
          /\ Append(b, r)[Len(b) + 1] = r
      <3> HIDE DEF b, r
      <3> QED BY <1>1, <1>4, AppendProperties DEF b
    <2>3. Waiting(a, i)' = Waiting(a, i) + 1 /\ Flushed(a, i)' = Flushed(a, i)
      <3>1. Waiting(a, i)' = Waiting(a, i) + 1
        BY <1>3, <1>4, <2>1, <2>2 DEF Waiting
      <3>2. Flushed(a, i)' = taken'[a][i] - Waiting(a, i)'
        BY DEF Flushed
      <3>3. Flushed(a, i) = taken[a][i] - Waiting(a, i)
        BY DEF Flushed
      <3>4. taken[a][i] \in Nat /\ Waiting(a, i) \in Nat /\ taken'[a][i] = taken[a][i] + 1
        BY <1>4, <2>1
      <3>5. \A t, u \in Nat : (t + 1) - (u + 1) = t - u
        OBVIOUS
      <3>6. Flushed(a, i)' = (taken[a][i] + 1) - (Waiting(a, i) + 1)
        BY <3>1, <3>2, <3>4
      <3> QED BY <3>1, <3>3, <3>4, <3>5, <3>6
    <2>4. r = <<a, Flushed(a, i) + Waiting(a, i) + 1>>
      BY <1>1, <1>4, <1>5 DEF Flushed
    <2>5. \A j \in 1..Waiting(a, i)' : pipes'[a].buf[i][j] = <<a, Flushed(a, i)' + j>>
      <3> SUFFICES ASSUME NEW j \in 1..Waiting(a, i) + 1
                   PROVE  Append(b, r)[j] = <<a, Flushed(a, i) + j>>
        BY <2>1, <2>3
      <3>1. CASE j \in 1..Waiting(a, i)
        BY <1>4, <2>2, <3>1
      <3>2. CASE j = Waiting(a, i) + 1
        <4>1. Flushed(a, i) + Waiting(a, i) + 1 = Flushed(a, i) + j
          BY <1>4, <3>2 DEF Flushed
        <4> QED BY <1>4, <2>2, <2>4, <3>2, <4>1
      <3> QED BY <1>4, <3>1, <3>2
    <2>6. Waiting(a, i)' <= taken'[a][i]
      <3> HIDE DEF b, r
      <3> QED BY <1>4, <2>1, <2>3
    <2> QED BY <1>1, <1>3, <2>3, <2>5, <2>6
  <1>6. CASE ~(a = n /\ i = s)
    <2>1. pipes'[a].buf[i] = pipes[a].buf[i] /\ taken'[a][i] = taken[a][i]
      BY <1>1, <1>3, <1>6
    <2>2. Waiting(a, i)' = Waiting(a, i) /\ Flushed(a, i)' = Flushed(a, i)
      BY <1>3, <2>1 DEF Waiting, Flushed
    <2> QED BY <1>1, <1>3, <1>4, <2>1, <2>2
  <1> QED BY <1>5, <1>6

LEMMA BufStep ==
    ASSUME TypeOK, TypeOK', TakenInv, BufInv, [Next]_vars
    PROVE  BufInv'
  <1>1. sinks' = sinks /\ Positions' = Positions /\ DOMAIN pipes' = 1..Len(pipes')
        /\ Len(pipes) \in Nat
    <2>1. DOMAIN pipes' = 1..Len(pipes')
      BY LenProperties DEF TypeOK
    <2> QED BY <2>1, StepKinds, Setup
  <1> SUFFICES ASSUME NEW a \in Attempts, NEW i \in Positions, a \in DOMAIN pipes'
               PROVE  /\ Waiting(a, i)' <= taken'[a][i]
                      /\ \A j \in 1..Waiting(a, i)' :
                            pipes'[a].buf[i][j] = <<a, Flushed(a, i)' + j>>
    BY <1>1 DEF BufInv
  <1>2. CASE Write
    BY <1>2, WriteWaits
  <1>3. ASSUME taken' = taken,
               \/ a \in 1..Len(pipes) /\ pipes'[a].buf[i] = pipes[a].buf[i]
               \/ pipes'[a].buf[i] = <<>>
        PROVE  /\ Waiting(a, i)' <= taken'[a][i]
               /\ \A j \in 1..Waiting(a, i)' :
                     pipes'[a].buf[i][j] = <<a, Flushed(a, i)' + j>>
    BY <1>1, <1>3, BufFrame
  <1>4. CASE Quiet
    BY <1>1, <1>3, <1>4 DEF Quiet
  <1>5. CASE Readied
    BY <1>1, <1>3, <1>5 DEF Readied
  <1>6. CASE Renewed
    <2>1. a \in 1..Len(pipes) \/ a = Len(pipes) + 1
      BY <1>1, <1>6 DEF Renewed
    <2>2. NewPipe.buf[i] = <<>>
      BY NewPipeIs
    <2> QED BY <1>3, <1>6, <2>1, <2>2 DEF Renewed
  <1>7. ASSUME NEW s \in Positions, NEW w \in Ways(s), NEW emptied \in BOOLEAN,
               Flushing(s, w, emptied)
        PROVE  /\ Waiting(a, i)' <= taken'[a][i]
               /\ \A j \in 1..Waiting(a, i)' :
                     pipes'[a].buf[i][j] = <<a, Flushed(a, i)' + j>>
    <2>1. /\ a \in 1..Len(pipes) /\ taken' = taken
          /\ pipes'[a].buf[i] = IF a = Len(pipes) /\ i = s /\ emptied THEN <<>>
                                ELSE pipes[a].buf[i]
      BY <1>1, <1>7 DEF Flushing
    <2> QED BY <1>3, <2>1
  <1> QED BY <1>2, <1>4, <1>5, <1>6, <1>7, StepKinds

\* A target loses nothing to a write, and gets the part of the batch written.
LEMMA FlushKeeps ==
    ASSUME TypeOK, NEW s \in Positions, NEW w \in Ways(s), NEW emptied \in BOOLEAN,
           Flushing(s, w, emptied), NEW i \in Positions, sinks[i] # "excel"
    PROVE  /\ ToSet(store[i]) \subseteq ToSet(store'[i])
           /\ i = s => \A j \in 1..w.n : Pipe.buf[i][j] \in ToSet(store'[i])
  <1>1. store[i] \in Seq(Record) /\ pipes # <<>>
    BY DEF TypeOK, Flushing
  <1>2. CASE i # s
    <2>1. store'[i] = store[i]
      BY <1>2 DEF Flushing
    <2> QED BY <1>2, <2>1
  <1>3. CASE i = s
    <2>1. store' = [store EXCEPT ![i] = store[i] \o SubSeq(Pipe.buf[i], 1, w.n)]
      BY <1>3 DEF Flushing
    <2>2. /\ store' \in [Positions -> Seq(Record)]
          /\ Len(store[i]) \in Nat /\ w.n \in Nat
          /\ Len(store'[i]) = Len(store[i]) + w.n
          /\ \A x \in 1..Len(store[i]) : store'[i][x] = store[i][x]
          /\ \A x \in 1..w.n : store'[i][Len(store[i]) + x] = Pipe.buf[i][x]
      BY <1>1, <1>3, <2>1, StoreGrows, ZenonT(30)
    <2>3. store'[i] \in Seq(Record)
      BY <2>2
    <2>4. \A r \in ToSet(store[i]) : r \in ToSet(store'[i])
      <3> TAKE r \in ToSet(store[i])
      <3>1. PICK j \in 1..Len(store[i]) : store[i][j] = r
        BY <1>1, ToSetIs
      <3>2. j \in 1..Len(store'[i]) /\ store'[i][j] = r
        BY <2>2, <3>1
      <3> QED BY <2>3, <3>2, ToSetIs
    <2>5. \A j \in 1..w.n : Pipe.buf[i][j] \in ToSet(store'[i])
      <3> TAKE j \in 1..w.n
      <3>1. Len(store[i]) + j \in 1..Len(store'[i])
        BY <2>2
      <3>2. store'[i][Len(store[i]) + j] = Pipe.buf[i][j]
        BY <2>2
      <3> QED BY <2>3, <3>1, <3>2, ToSetIs
    <2> QED BY <2>4, <2>5
  <1> QED BY <1>2, <1>3

LEMMA KeptStep ==
    ASSUME TypeOK, TypeOK', TakenInv, BufInv, KeptInv, [Next]_vars
    PROVE  KeptInv'
  <1>1. sinks' = sinks /\ Positions' = Positions /\ DOMAIN pipes' = 1..Len(pipes')
        /\ Len(pipes) \in Nat /\ DOMAIN pipes = 1..Len(pipes) /\ opened \in Nat
    <2>1. DOMAIN pipes' = 1..Len(pipes')
      BY LenProperties DEF TypeOK
    <2> QED BY <2>1, StepKinds, Setup
  <1> SUFFICES ASSUME NEW i \in Positions, sinks[i] \in Keeping, NEW a \in Attempts,
                      a \in DOMAIN pipes', ~Useless(a, i)', NEW x \in 1..Flushed(a, i)'
               PROVE  <<a, x>> \in ToSet(store'[i])
    BY <1>1 DEF KeptInv
  <1>2. sinks[i] # "excel" /\ a \in Nat /\ taken[a][i] \in Nat
    BY Setup DEF Keeping, Attempts
  <1>3. ASSUME a \in DOMAIN pipes, Flushed(a, i)' = Flushed(a, i),
               ToSet(store[i]) \subseteq ToSet(store'[i]), pipes'[a].up[i] = pipes[a].up[i]
        PROVE  <<a, x>> \in ToSet(store'[i])
    <2>1. ~Useless(a, i)
      BY <1>1, <1>3 DEF Useless
    <2>2. <<a, x>> \in ToSet(store[i])
      BY <1>3, <2>1 DEF KeptInv
    <2> QED BY <1>3, <2>2
  <1>4. CASE Quiet
    <2>1. a \in DOMAIN pipes /\ pipes'[a] = pipes[a] /\ store' = store /\ taken' = taken
      BY <1>1, <1>4 DEF Quiet
    <2>2. Flushed(a, i)' = Flushed(a, i)
      BY <1>1, <2>1, BufFrame
    <2> QED BY <1>3, <2>1, <2>2
  <1>5. CASE Readied
    <2>1. /\ a \in DOMAIN pipes /\ pipes'[a].buf[i] = pipes[a].buf[i] /\ store' = store
          /\ taken' = taken /\ op.at = "open" /\ Len(pipes) = opened
          /\ ~(a = Len(pipes) /\ i = op.sink) => pipes'[a].up[i] = pipes[a].up[i]
      BY <1>1, <1>5 DEF Readied, TakenInv
    <2>2. Flushed(a, i)' = Flushed(a, i)
      BY <1>1, <2>1, BufFrame
    <2>3. CASE a = Len(pipes)
      <3>1. taken[a][i] = 0
        BY <2>1, <2>3 DEF TakenInv
      <3>2. Flushed(a, i) = 0
        BY <3>1, WaitingIs
      <3> QED BY <2>2, <3>2
    <2>4. CASE a # Len(pipes)
      BY <1>3, <2>1, <2>2, <2>4
    <2> QED BY <2>3, <2>4
  <1>6. CASE Renewed
    <2>1. CASE a = Len(pipes) + 1
      <3>1. pipes'[a].buf[i] = <<>> /\ taken' = taken /\ a > opened
        BY <1>1, <1>6, <2>1, NewPipeIs DEF Renewed
      <3>2. Flushed(a, i)' = taken[a][i]
        BY <1>1, <3>1, BufFrame
      <3>3. taken[a][i] = 0
        BY <3>1 DEF TakenInv
      <3> QED BY <3>2, <3>3
    <2>2. CASE a # Len(pipes) + 1
      <3>1. a \in DOMAIN pipes /\ pipes'[a] = pipes[a] /\ store' = store /\ taken' = taken
        BY <1>1, <1>6, <2>2 DEF Renewed
      <3>2. Flushed(a, i)' = Flushed(a, i)
        BY <1>1, <3>1, BufFrame
      <3> QED BY <1>3, <3>1, <3>2
    <2> QED BY <2>1, <2>2
  <1>7. CASE Write
    <2>1. store' = store
      BY <1>7 DEF Write
    <2>2. /\ Flushed(a, i)' = Flushed(a, i) /\ a \in DOMAIN pipes
          /\ pipes'[a].up[i] = pipes[a].up[i]
      BY <1>7, WriteWaits
    <2> QED BY <1>3, <2>1, <2>2
  <1>8. ASSUME NEW s \in Positions, NEW w \in Ways(s), NEW emptied \in BOOLEAN,
               Flushing(s, w, emptied)
        PROVE  <<a, x>> \in ToSet(store'[i])
    <2>1. /\ a \in 1..Len(pipes) /\ taken' = taken /\ pipes # <<>> /\ (emptied => ~w.kept)
          /\ pipes'[a].buf[i] = IF a = Len(pipes) /\ i = s /\ emptied THEN <<>>
                                ELSE pipes[a].buf[i]
          /\ pipes'[a].up[i] = pipes[a].up[i]
      BY <1>1, <1>8 DEF Flushing
    <2>2. /\ ToSet(store[i]) \subseteq ToSet(store'[i])
          /\ i = s => \A j \in 1..w.n : Pipe.buf[i][j] \in ToSet(store'[i])
      BY <1>2, <1>8, FlushKeeps
    <2>3. CASE a = Len(pipes) /\ i = s /\ emptied
      <3>1. ~Useless(a, i) /\ Pipe = pipes[a]
        BY <1>1, <2>1, <2>3 DEF Useless, Pipe
      <3>2. w.n = Len(Pipe.buf[i])
        BY <2>1, <2>3, <3>1, WaysAre DEF Useless
      <3>3. Flushed(a, i)' = taken[a][i]
        BY <1>1, <2>1, <2>3, BufFrame
      <3>4. /\ Waiting(a, i) = Len(pipes[a].buf[i]) /\ Waiting(a, i) \in Nat
            /\ Flushed(a, i) \in Nat /\ Flushed(a, i) = taken[a][i] - Waiting(a, i)
            /\ \A j \in 1..Waiting(a, i) : pipes[a].buf[i][j] = <<a, Flushed(a, i) + j>>
        BY <1>1, <2>1, WaitingIs DEF BufInv, Flushed
      <3>5. CASE x <= Flushed(a, i)
        <4>1. <<a, x>> \in ToSet(store[i])
          BY <1>1, <2>1, <3>1, <3>4, <3>5 DEF KeptInv
        <4> QED BY <2>2, <4>1
      <3>6. CASE ~(x <= Flushed(a, i))
        <4> DEFINE j == x - Flushed(a, i)
        <4>1. j \in 1..Waiting(a, i) /\ Flushed(a, i) + j = x
          <5> DEFINE f == Flushed(a, i)
                     m == Waiting(a, i)
                     g == taken[a][i]
          <5>1. x \in 1..g /\ ~(x <= f)
            BY <3>3, <3>6
          <5>2. f \in Nat /\ m \in Nat /\ f = g - m
            BY <3>4
          <5>3. g \in Nat
            BY <1>2
          <5>4. j = x - f
            OBVIOUS
          <5> HIDE DEF f, m, g, j
          <5>5. x \in Nat /\ x <= f + m
            BY <5>1, <5>2, <5>3
          <5>6. j \in 1..m /\ f + j = x
            BY <5>1, <5>2, <5>4, <5>5
          <5> QED BY <5>6 DEF f, m
        <4>2. Pipe.buf[i][j] = <<a, x>> /\ j \in 1..w.n
          BY <3>1, <3>2, <3>4, <4>1
        <4> QED BY <2>2, <2>3, <4>2
      <3> QED BY <3>5, <3>6
    <2>4. CASE ~(a = Len(pipes) /\ i = s /\ emptied)
      <3>1. pipes'[a].buf[i] = pipes[a].buf[i] /\ a \in DOMAIN pipes
        BY <1>1, <2>1, <2>4
      <3>2. Flushed(a, i)' = Flushed(a, i)
        BY <1>1, <2>1, <3>1, BufFrame
      <3> QED BY <1>3, <2>1, <2>2, <3>1, <3>2
    <2> QED BY <2>3, <2>4
  <1> QED BY <1>4, <1>5, <1>6, <1>7, <1>8, StepKinds

-----------------------------------------------------------------------------
(* The log of what arrives.                                                *)

\* The steps of ItemLog, for the sink at any position.
LogTake(i) ==
    \E a \in Attempts : Given(i)' = [Given(i) EXCEPT ![a] = @ + 1] /\ UNCHANGED Arrived(i)

LogStore(i) ==
    \E a \in Attempts : \E first \in 1..Given(i)[a] : \E final \in first..Given(i)[a] :
        /\ first = 1 \/ <<a, first - 1>> \in ToSet(Arrived(i))
        /\ Arrived(i)' = Arrived(i) \o [j \in 1..(final - first + 1) |-> <<a, first + j - 1>>]
        /\ UNCHANGED Given(i)

LogStep(i) == LogTake(i) \/ LogStore(i) \/ UNCHANGED <<Given(i), Arrived(i)>>

LEMMA LogInit ==
    ASSUME Init, NEW i
    PROVE  Given(i) = [a \in Attempts |-> 0] /\ Arrived(i) = <<>>
  <1>1. CASE Keeps(i)
    <2>1. i \in Positions /\ sinks[i] \notin Rereading
      BY <1>1 DEF Keeps, Keeping, Rereading
    <2>2. store[i] = <<>> /\ \A a \in Attempts : taken[a][i] = 0
      BY <2>1 DEF Init
    <2> QED BY <1>1, <2>2 DEF Given, Arrived
  <1>2. CASE ~Keeps(i)
    BY <1>2 DEF Given, Arrived
  <1> QED BY <1>1, <1>2

\* A write puts a run of items in the target that leaves none out.
LEMMA LogFlush ==
    ASSUME TypeOK, TypeOK', TakenInv, BufInv, KeptInv,
           NEW s \in Positions, NEW w \in Ways(s), NEW emptied \in BOOLEAN,
           Flushing(s, w, emptied), sinks[s] \in Keeping, UNCHANGED sinks
    PROVE  LogStep(s)
  <1> DEFINE a == Len(pipes)
             n == w.n
             f == Flushed(a, s)
  <1>1. /\ pipes # <<>> /\ taken' = taken /\ sinks[s] # "excel"
        /\ store' = [store EXCEPT ![s] = store[s] \o SubSeq(Pipe.buf[s], 1, n)]
    BY DEF Flushing, Keeping
  <1>2. Keeps(s) /\ Keeps(s)'
    BY DEF Keeps, Positions
  <1>3. Given(s) = [b \in Attempts |-> taken[b][s]] /\ Given(s)' = Given(s)
    BY <1>1, <1>2 DEF Given
  <1>4. Arrived(s) = store[s] /\ Arrived(s)' = store'[s]
    BY <1>2 DEF Arrived
  <1>5. /\ store'[s] = store[s] \o SubSeq(Pipe.buf[s], 1, n)
        /\ SubSeq(Pipe.buf[s], 1, n) \in Seq(Record)
        /\ Len(SubSeq(Pipe.buf[s], 1, n)) = n
        /\ \A x \in 1..n : SubSeq(Pipe.buf[s], 1, n)[x] = Pipe.buf[s][x]
        /\ store[s] \in Seq(Record)
    <2>1. store[s] \in Seq(Record)
      BY DEF TypeOK
    <2>2. /\ store'[s] = store[s] \o SubSeq(Pipe.buf[s], 1, w.n)
          /\ SubSeq(Pipe.buf[s], 1, w.n) \in Seq(Record)
          /\ Len(SubSeq(Pipe.buf[s], 1, w.n)) = w.n
          /\ \A x \in 1..w.n : SubSeq(Pipe.buf[s], 1, w.n)[x] = Pipe.buf[s][x]
      BY <1>1, StoreGrows
    <2> QED BY <2>1, <2>2
  <1>6. n \in 0..Len(Pipe.buf[s]) /\ Len(Pipe.buf[s]) \in Nat
        /\ (sinks[s] = "kafka" /\ Pipe.up[s] = "absent" => n = 0)
    BY <1>1, WaysAre
  <1>7. CASE n = 0
    <2>1. SubSeq(Pipe.buf[s], 1, n) = <<>>
      BY <1>5, <1>7, EmptySeq
    <2>2. store'[s] = store[s]
      BY <1>5, <2>1, ConcatEmptySeq
    <2> QED BY <1>3, <1>4, <2>2 DEF LogStep
  <1>8. CASE n # 0
    <2>1. a \in Attempts /\ a \in DOMAIN pipes
      <3>1. a \in 1..a /\ a <= opened /\ opened \in Attempts /\ MaxAttempts \in Nat
            /\ DOMAIN pipes = 1..a /\ a \in Nat
        BY <1>1, Setup DEF TypeOK
      <3> QED BY <3>1 DEF Attempts
    <2>2. /\ Waiting(a, s) = Len(Pipe.buf[s]) /\ f \in Nat /\ f + Waiting(a, s) = taken[a][s]
          /\ taken[a][s] \in Nat
          /\ \A j \in 1..Waiting(a, s) : Pipe.buf[s][j] = <<a, f + j>>
      <3>1. /\ Waiting(a, s) = Len(pipes[a].buf[s]) /\ f \in Nat /\ Waiting(a, s) \in Nat
            /\ taken[a][s] \in Nat /\ f = taken[a][s] - Waiting(a, s)
            /\ \A j \in 1..Waiting(a, s) : pipes[a].buf[s][j] = <<a, f + j>>
        BY <2>1, WaitingIs DEF BufInv, Flushed
      <3>2. Pipe = pipes[a]
        BY DEF Pipe
      <3> HIDE DEF f, a
      <3>3. f + Waiting(a, s) = taken[a][s]
        BY <3>1
      <3> QED BY <3>1, <3>2, <3>3
    <2> DEFINE first == f + 1
               final == f + n
               run == [j \in 1..(final - first + 1) |-> <<a, first + j - 1>>]
    <2>3. first \in 1..Given(s)[a] /\ final \in first..Given(s)[a]
      <3>1. Given(s)[a] = taken[a][s] /\ f + Len(Pipe.buf[s]) = taken[a][s]
        BY <1>3, <2>1, <2>2
      <3> DEFINE m == Len(Pipe.buf[s])
      <3>2. f \in Nat /\ n \in Nat /\ m \in Nat /\ n <= m /\ 1 <= n /\ Given(s)[a] = f + m
        BY <1>6, <1>8, <2>2, <3>1
      <3> HIDE DEF f, m, n
      <3>3. f + 1 \in 1..(f + m) /\ f + n \in (f + 1)..(f + m)
        BY <3>2
      <3> QED BY <3>2, <3>3
    <2>4. first = 1 \/ <<a, first - 1>> \in ToSet(Arrived(s))
      <3>1. CASE f = 0
        BY <3>1
      <3>2. CASE f # 0
        <4>1. first - 1 = f /\ f \in 1..f
          BY <2>2, <3>2
        <4>2. ~Useless(a, s)
          BY <1>6, <1>8 DEF Useless, Pipe
        <4>3. <<a, f>> \in ToSet(store[s])
          BY <2>1, <4>1, <4>2 DEF KeptInv
        <4> QED BY <1>4, <4>1, <4>3
      <3> QED BY <3>1, <3>2
    <2>5. run = SubSeq(Pipe.buf[s], 1, n)
      <3>0. n \in Nat /\ f \in Nat
        BY <1>6, <2>2
      <3> HIDE DEF f, n, a
      <3>1. final - first + 1 = n /\ \A j \in 1..n : first + j - 1 = f + j
        BY <3>0
      <3>2. run = [j \in 1..n |-> <<a, f + j>>]
        BY <3>1
      <3> DEFINE q == SubSeq(Pipe.buf[s], 1, n)
      <3>3. \A j \in 1..n : q[j] = <<a, f + j>>
        <4>1. \A j \in 1..n : j \in 1..Len(Pipe.buf[s])
          BY <1>6 DEF n
        <4> QED BY <1>5, <2>2, <4>1 DEF n, f
      <3>4. q \in [1..n -> Record]
        <4>1. q \in [1..Len(q) -> Record]
          BY <1>5, LenProperties DEF n
        <4> QED BY <1>5, <4>1 DEF n
      <3> HIDE DEF q, run
      <3>5. run = q
        BY <3>2, <3>3, <3>4
      <3> QED BY <3>5 DEF q, n
    <2>6. Arrived(s)' = Arrived(s) \o run
      BY <1>4, <1>5, <2>5
    <2>7. LogStore(s)
      BY <1>3, <2>1, <2>3, <2>4, <2>6 DEF LogStore
    <2> QED BY <2>7 DEF LogStep
  <1> QED BY <1>7, <1>8

LEMMA EveryLogStep ==
    ASSUME TypeOK, TypeOK', TakenInv, BufInv, KeptInv, [Next]_vars, NEW i
    PROVE  LogStep(i)
  <1>1. sinks' = sinks /\ Positions' = Positions
    BY StepKinds
  <1>2. Keeps(i)' <=> Keeps(i)
    BY <1>1 DEF Keeps
  <1>3. CASE ~Keeps(i)
    <2>1. Given(i)' = Given(i) /\ Arrived(i)' = Arrived(i)
      BY <1>2, <1>3 DEF Given, Arrived
    <2> QED BY <2>1 DEF LogStep
  <1>4. CASE Keeps(i)
    <2>1. i \in Positions /\ sinks[i] \in Keeping
      BY <1>4 DEF Keeps
    <2>2. /\ Given(i) = [b \in Attempts |-> taken[b][i]]
          /\ Given(i)' = [b \in Attempts |-> taken'[b][i]]
          /\ Arrived(i) = store[i] /\ Arrived(i)' = store'[i]
      BY <1>2, <1>4 DEF Given, Arrived
    <2>3. CASE Quiet \/ Readied \/ Renewed
      BY <2>2, <2>3 DEF Quiet, Readied, Renewed, LogStep
    <2>4. CASE Write
      <3>1. store' = store /\ opened \in Attempts
        BY <2>4 DEF Write, TypeOK
      <3>2. \A b \in Attempts : \A j \in Positions :
               taken'[b][j] = IF b = opened /\ j = op.sink THEN taken[b][j] + 1 ELSE taken[b][j]
        BY <2>4, WriteFacts
      <3>3. CASE i = op.sink
        <4>1. Given(i)' = [Given(i) EXCEPT ![opened] = @ + 1]
          BY <2>1, <2>2, <3>1, <3>2, <3>3
        <4> QED BY <2>2, <3>1, <4>1 DEF LogStep, LogTake
      <3>4. CASE i # op.sink
        <4>1. Given(i)' = Given(i)
          BY <2>1, <2>2, <3>2, <3>4
        <4> QED BY <2>2, <3>1, <4>1 DEF LogStep
      <3> QED BY <3>3, <3>4
    <2>5. ASSUME NEW s \in Positions, NEW w \in Ways(s), NEW emptied \in BOOLEAN,
                 Flushing(s, w, emptied)
          PROVE  LogStep(i)
      <3>1. CASE s = i
        BY <1>1, <2>1, <2>5, <3>1, LogFlush
      <3>2. CASE s # i
        <4>1. store'[i] = store[i] /\ taken' = taken
          BY <2>1, <2>5, <3>2 DEF Flushing
        <4> QED BY <2>2, <4>1 DEF LogStep
      <3> QED BY <3>1, <3>2
    <2> QED BY <2>3, <2>4, <2>5, StepKinds
  <1> QED BY <1>3, <1>4

\* A sink that keeps a batch until it is written (BaseSink) implements ItemLog
\* in each attempt: a write that fails or is cancelled leaves no gap in what
\* its target holds.  Stated for the first two sinks, proved for any.
THEOREM SinksKeepTheirPromise == Spec => ImplementsLog
  <1> DEFINE LInv == TypeOK /\ TakenInv /\ BufInv /\ KeptInv
  <1>1. Init => LInv
    BY TypeInit, TakenInit, BufInit
  <1>2. LInv /\ [Next]_vars => LInv'
    <2> SUFFICES ASSUME LInv, [Next]_vars PROVE LInv'
      OBVIOUS
    <2>1. TypeOK' /\ TakenInv'
      BY TypeStep, TakenStep
    <2> QED BY <2>1, BufStep, KeptStep
  <1>3. LInv /\ [Next]_vars => LogStep(1) /\ LogStep(2)
    BY TypeStep, EveryLogStep
  <1>4. Init => First!Init /\ Second!Init
    BY LogInit DEF First!Init, Second!Init
  <1>5. LogStep(1) => [First!Next]_(First!logVars)
    BY DEF LogStep, LogTake, LogStore, First!Next, First!Take, First!Store, First!logVars,
           First!ToSet, ToSet
  <1>6. LogStep(2) => [Second!Next]_(Second!logVars)
    BY DEF LogStep, LogTake, LogStore, Second!Next, Second!Take, Second!Store, Second!logVars,
           Second!ToSet, ToSet
  <1> QED BY <1>1, <1>2, <1>3, <1>4, <1>5, <1>6, PTL DEF Spec, ImplementsLog, First!Spec, Second!Spec

-----------------------------------------------------------------------------
(* Each item once, where no call failed.                                   *)

LEMMA DistinctIs ==
    ASSUME NEW s \in Seq(Record)
    PROVE  Distinct(s) <=> \A j, k \in 1..Len(s) : s[j] = s[k] => j = k
  <1>1. DOMAIN s = 1..Len(s)
    BY LenProperties
  <1> QED BY <1>1 DEF Distinct

\* The last items of an attempt come to a list that has its earlier ones.
LEMMA HoldsMore ==
    ASSUME NEW s \in Seq(Record), NEW b \in Seq(Record), NEW a \in Attempts, NEW f \in Nat,
           \A j \in 1..Len(b) : b[j] = <<a, f + j>>,
           NEW D \in SUBSET (Attempts \X Items), NEW E \in SUBSET (Attempts \X Items),
           \A r \in D : r[1] = a => r[2] <= f,
           \A r \in Attempts \X Items :
              r \in E <=> r \in D \/ (r[1] = a /\ f < r[2] /\ r[2] <= f + Len(b)),
           Holds(s, D)
    PROVE  s \o b \in Seq(Record) /\ Holds(s \o b, E)
  <1> DEFINE t == s \o b
             m == Len(s)
             n == Len(b)
  <1>1. /\ t \in Seq(Record) /\ Len(t) = m + n /\ m \in Nat /\ n \in Nat
        /\ \A j \in 1..m : t[j] = s[j]
        /\ \A j \in 1..n : t[m + j] = b[j]
    <2>1. m \in Nat /\ n \in Nat
      BY LenProperties
    <2>2. /\ t \in Seq(Record) /\ Len(t) = m + n
          /\ \A j \in 1..m + n : t[j] = IF j <= m THEN s[j] ELSE b[j - m]
      BY ConcatProperties
    <2>3. \A j \in 1..m : t[j] = s[j]
      <3> HIDE DEF m, n, t
      <3> QED BY <2>1, <2>2
    <2>4. \A j \in 1..n : t[m + j] = b[j]
      <3> HIDE DEF m, n, t
      <3> TAKE j \in 1..n
      <3>1. m + j \in 1..m + n /\ ~(m + j <= m) /\ (m + j) - m = j
        BY <2>1
      <3> QED BY <2>2, <3>1
    <2> QED BY <2>1, <2>2, <2>3, <2>4
  <1> HIDE DEF t
  <1>2. a \in Nat /\ a >= 1 /\ a # 0
    BY SinksAssumption DEF Attempts
  <1>3. \A j \in 1..m : s[j] \in {Old} \cup D
    <2> TAKE j \in 1..m
    <2>1. s[j] \in ToSet(s)
      BY ToSetIs
    <2> QED BY <2>1 DEF Holds
  <1>4. \A j \in 1..n : b[j] \in Attempts \X Items
    <2> TAKE j \in 1..n
    <2>1. b[j] \in Record /\ b[j] = <<a, f + j>>
      BY ElementOfSeq
    <2>2. b[j] # Old
      BY <1>2, <2>1 DEF Old
    <2> QED BY <2>1, <2>2 DEF Record
  <1>5. \A j \in 1..n : b[j] \in E /\ b[j] \notin D /\ b[j] # Old
    <2> TAKE j \in 1..n
    <2>1. b[j] = <<a, f + j>> /\ b[j] \in Attempts \X Items
      BY <1>4
    <2>2. f < f + j /\ f + j <= f + n /\ ~(f + j <= f)
      BY <1>1
    <2>3. b[j][1] = a /\ b[j][2] = f + j
      BY <2>1
    <2>4. b[j] # Old
      BY <1>2, <2>1 DEF Old
    <2> QED BY <2>1, <2>2, <2>3, <2>4
  <1>6. Distinct(t)
    <2>1. \A j, k \in 1..m : s[j] = s[k] => j = k
      BY DistinctIs DEF Holds
    <2>2. \A j, k \in 1..n : b[j] = b[k] => j = k
      <3> SUFFICES ASSUME NEW j \in 1..n, NEW k \in 1..n, b[j] = b[k] PROVE j = k
        OBVIOUS
      <3>1. f + j = f + k
        BY DEF n
      <3> QED BY <1>1, <3>1
    <2> SUFFICES ASSUME NEW j \in 1..(m + n), NEW k \in 1..(m + n), t[j] = t[k] PROVE j = k
      BY <1>1, DistinctIs
    <2>3. ASSUME NEW x \in 1..(m + n)
          PROVE  \/ x \in 1..m /\ t[x] = s[x] /\ t[x] \in {Old} \cup D
                 \/ x - m \in 1..n /\ t[x] = b[x - m] /\ t[x] \notin {Old} \cup D
      <3>1. CASE x <= m
        <4>1. x \in 1..m
          BY <1>1, <3>1
        <4> QED BY <1>1, <1>3, <4>1
      <3>2. CASE ~(x <= m)
        <4>1. x - m \in 1..n /\ m + (x - m) = x
          BY <1>1, <3>2
        <4>2. t[m + (x - m)] = b[x - m]
          BY <1>1, <4>1
        <4> QED BY <1>5, <4>1, <4>2
      <3> QED BY <3>1, <3>2
    <2>4. CASE j \in 1..m /\ k \in 1..m /\ t[j] = s[j] /\ t[k] = s[k]
      BY <2>1, <2>4
    <2>5. CASE j - m \in 1..n /\ k - m \in 1..n /\ t[j] = b[j - m] /\ t[k] = b[k - m]
      <3>1. j - m = k - m
        BY <2>2, <2>5
      <3> QED BY <1>1, <3>1
    <2> QED BY <2>3, <2>4, <2>5
  <1>7. ToSet(t) \subseteq {Old} \cup E
    <2> SUFFICES ASSUME NEW r \in ToSet(t) PROVE r \in {Old} \cup E
      OBVIOUS
    <2>0. \E x \in 1..Len(t) : t[x] = r
      BY <1>1, ToSetIs
    <2>1. PICK x \in 1..(m + n) : t[x] = r
      BY <1>1, <2>0
    <2>2. CASE x <= m
      <3>1. x \in 1..m
        BY <1>1, <2>2
      <3>2. r \in {Old} \cup D
        BY <1>1, <1>3, <2>1, <3>1
      <3> QED BY <3>2
    <2>3. CASE ~(x <= m)
      <3>1. x - m \in 1..n /\ m + (x - m) = x
        BY <1>1, <2>3
      <3>2. r = b[x - m]
        BY <1>1, <2>1, <3>1
      <3> QED BY <1>5, <3>1, <3>2
    <2> QED BY <2>2, <2>3
  <1>8. E \subseteq ToSet(t)
    <2> SUFFICES ASSUME NEW r \in E PROVE r \in ToSet(t)
      OBVIOUS
    <2>1. CASE r \in D
      <3>1. r \in ToSet(s)
        BY <2>1 DEF Holds
      <3>2. PICK x \in 1..m : s[x] = r
        BY <3>1, ToSetIs
      <3>3. x \in 1..Len(t) /\ t[x] = r
        BY <1>1, <3>2
      <3> QED BY <1>1, <3>3, ToSetIs
    <2>2. CASE r \notin D
      <3>1. r[1] = a /\ f < r[2] /\ r[2] <= f + n /\ r[2] \in Items /\ r = <<r[1], r[2]>>
        BY <2>2
      <3> DEFINE j == r[2] - f
      <3>2. j \in 1..n /\ f + j = r[2]
        BY <1>1, <3>1 DEF Items
      <3>3. b[j] = r
        BY <3>1, <3>2
      <3>4. m + j \in 1..Len(t) /\ t[m + j] = r
        BY <1>1, <3>2, <3>3
      <3> QED BY <1>1, <3>4, ToSetIs
    <2> QED BY <2>1, <2>2
  <1> QED BY <1>1, <1>6, <1>7, <1>8 DEF Holds, t

\* What a sink let go of changes only while it writes.
LEMMA FlushedSame ==
    ASSUME TypeOK, UNCHANGED <<taken, sinks>>, NEW b \in Attempts, NEW i \in Positions,
           b \in DOMAIN pipes' <=> b \in DOMAIN pipes,
           b \in DOMAIN pipes => pipes'[b].buf[i] = pipes[b].buf[i]
    PROVE  Flushed(b, i)' = Flushed(b, i)
  <1>1. Waiting(b, i)' = Waiting(b, i)
    BY DEF Waiting
  <1> QED BY <1>1 DEF Flushed

LEMMA FlushedStep ==
    ASSUME TypeOK, TypeOK', TakenInv, BufInv, [Next]_vars, ~cancelled',
           NEW b \in Attempts, NEW i \in Positions,
           ~((WriteFull \/ FlushSink \/ CloseSink) /\ i = op.sink),
           op.at = "close" /\ i < op.sink => Pipe.buf[i] = <<>>
    PROVE  Flushed(b, i)' = Flushed(b, i)
  <1>1. /\ sinks' = sinks /\ Positions' = Positions /\ DOMAIN pipes' = 1..Len(pipes')
        /\ Len(pipes) \in Nat /\ DOMAIN pipes = 1..Len(pipes) /\ opened \in Nat
        /\ b \in Nat /\ b >= 1 /\ taken[b][i] \in Nat
    <2>1. DOMAIN pipes' = 1..Len(pipes')
      BY LenProperties DEF TypeOK
    <2> QED BY <2>1, StepKinds, Setup DEF Attempts
  <1>2. CASE Yield \/ Drain \/ Complete \/ UNCHANGED vars
    BY <1>2 DEF Yield, Drain, Complete, vars, Flushed, Waiting
  <1>3. CASE OpenSink
    <2>1. /\ Len(pipes') = Len(pipes) /\ taken' = taken
          /\ \A k \in 1..Len(pipes) : pipes'[k].buf[i] = pipes[k].buf[i]
      BY <1>3, OpenFacts DEF OpenSink
    <2> QED BY <1>1, <2>1, FlushedSame
  <1>4. CASE Write
    <2>1. Len(pipes') = Len(pipes)
      BY <1>4, WriteFacts
    <2>2. CASE b \in DOMAIN pipes'
      BY <1>4, <2>2, WriteWaits
    <2>3. CASE b \notin DOMAIN pipes'
      <3>1. /\ taken'[b][i] = IF b = opened /\ i = op.sink THEN taken[b][i] + 1 ELSE taken[b][i]
            /\ Len(pipes) = opened
        BY <1>4, WriteFacts
      <3>2. b \notin DOMAIN pipes /\ taken'[b][i] = taken[b][i]
        BY <1>1, <2>1, <2>3, <3>1
      <3>3. Waiting(b, i)' = 0 /\ Waiting(b, i) = 0
        BY <2>3, <3>2 DEF Waiting
      <3> QED BY <3>2, <3>3 DEF Flushed
    <2> QED BY <2>2, <2>3
  <1>5. CASE WriteFull \/ FlushSink
    <2>1. /\ op.sink \in Positions /\ pipes # <<>> /\ FlushInto(op.sink, Ways(op.sink))
          /\ taken' = taken /\ i # op.sink
      BY <1>5, OpIs DEF WriteFull, FlushSink
    <2>2. /\ Len(pipes') = Len(pipes)
          /\ \A k \in 1..Len(pipes) : pipes'[k].buf[i] = pipes[k].buf[i]
      BY <2>1, FlushFacts
    <2> QED BY <1>1, <2>1, <2>2, FlushedSame
  <1>6. CASE Raise
    <2>1. taken' = taken /\ Len(pipes) = opened
      BY <1>6 DEF Raise, TakenInv
    <2>2. CASE pipes' = pipes
      BY <1>1, <2>1, <2>2, FlushedSame
    <2>3. CASE pipes' = Append(pipes, NewPipe)
      <3>1. /\ Len(pipes') = Len(pipes) + 1
            /\ \A k \in 1..Len(pipes) : pipes'[k] = pipes[k]
            /\ pipes'[Len(pipes) + 1] = NewPipe
        BY <2>3, RaiseFacts
      <3>2. CASE b = Len(pipes) + 1
        <4>1. pipes'[b].buf[i] = <<>> /\ b > opened /\ b \in DOMAIN pipes'
          BY <1>1, <2>1, <3>1, <3>2, NewPipeIs
        <4>2. Flushed(b, i)' = taken[b][i]
          BY <1>1, <2>1, <4>1, BufFrame
        <4>3. taken[b][i] = 0
          BY <4>1 DEF TakenInv
        <4>4. Flushed(b, i) = 0
          BY <4>3, WaitingIs
        <4> QED BY <4>2, <4>3, <4>4
      <3>3. CASE b # Len(pipes) + 1
        <4>1. b \in DOMAIN pipes' <=> b \in DOMAIN pipes
          BY <1>1, <3>1, <3>3
        <4>2. b \in DOMAIN pipes => pipes'[b].buf[i] = pipes[b].buf[i]
          BY <1>1, <3>1
        <4> QED BY <1>1, <2>1, <4>1, <4>2, FlushedSame
      <3> QED BY <3>2, <3>3
    <2> QED BY <1>6, <2>2, <2>3 DEF Raise
  <1>7. CASE CloseSink
    <2>1. /\ op.sink \in Positions /\ pipes # <<>> /\ taken' = taken /\ i # op.sink
          /\ op.at = "close"
      BY <1>7, OpIs DEF CloseSink
    <2>2. /\ Len(pipes') = IF op.sink < Len(sinks) THEN Len(pipes) ELSE Len(pipes) - 1
          /\ \A k \in 1..Len(pipes') : pipes'[k].buf[i] = pipes[k].buf[i]
      BY <1>7, <2>1, CloseFacts
    <2>3. CASE op.sink < Len(sinks) \/ b # Len(pipes)
      <3>1. b \in DOMAIN pipes' <=> b \in DOMAIN pipes
        <4>1. CASE op.sink < Len(sinks)
          BY <1>1, <2>2, <4>1
        <4>2. CASE ~(op.sink < Len(sinks))
          <5>1. Len(pipes') = Len(pipes) - 1 /\ b # Len(pipes)
            BY <2>2, <2>3, <4>2
          <5> DEFINE n == Len(pipes)
                     m == Len(pipes')
          <5>2. m = n - 1 /\ b # n /\ n \in Nat /\ b \in Nat /\ b >= 1
            BY <1>1, <5>1
          <5> HIDE DEF n, m
          <5>3. b \in 1..m <=> b \in 1..n
            BY <5>2
          <5> QED BY <1>1, <5>3 DEF n, m
        <4> QED BY <4>1, <4>2
      <3>2. b \in DOMAIN pipes => pipes'[b].buf[i] = pipes[b].buf[i]
        BY <1>1, <2>2, <3>1
      <3> QED BY <1>1, <2>1, <3>1, <3>2, FlushedSame
    <2>4. CASE ~(op.sink < Len(sinks)) /\ b = Len(pipes)
      <3>1. i < op.sink
        BY <2>1, <2>4, Setup DEF Positions
      <3>2. pipes[b].buf[i] = <<>>
        BY <2>1, <2>4, <3>1 DEF Pipe
      <3>3. b \notin DOMAIN pipes'
        BY <1>1, <2>2, <2>4
      <3>4. Waiting(b, i)' = 0 /\ Waiting(b, i) = 0
        BY <3>2, <3>3 DEF Waiting
      <3> QED BY <2>1, <3>4 DEF Flushed
    <2> QED BY <2>3, <2>4
  <1>8. CASE Cancel
    BY <1>8 DEF Cancel
  <1> QED BY <1>2, <1>3, <1>4, <1>5, <1>6, <1>7, <1>8 DEF Next

\* The Excel sink of a single attempt has its rows from its open to its close.
LEMMA LoadedStep ==
    ASSUME TypeOK, TakenInv, [Next]_vars, ~cancelled', opened' = 1, NEW i \in Positions
    PROVE  /\ opened = 1
           /\ Loaded(i)' \/ op'.at = "open" => Loaded(i) \/ op.at = "open"
           /\ ~(OpenSink /\ i = op.sink) /\ ~(CloseSink /\ i = op.sink) =>
                 (Loaded(i)' <=> Loaded(i))
           /\ OpenSink /\ i = op.sink => ~Loaded(i)
           /\ CloseSink /\ i = op.sink => Loaded(i) /\ ~Loaded(i)' /\ op'.at # "open"
           /\ WriteFull \/ FlushSink => Loaded(i)
  <1>1. /\ i \in Nat /\ i >= 1 /\ i <= Len(sinks) /\ Len(sinks) \in Nat
        /\ opened \in Nat /\ opened >= 1 /\ Len(pipes) \in Nat /\ Len(pipes) <= opened
    BY Setup DEF Positions, TypeOK, Attempts
  <1> DEFINE s == op.sink
  <1>2. op.at \in {"open", "write", "full", "flush", "close"} =>
           s \in Nat /\ s >= 1 /\ s <= Len(sinks)
    BY <1>1, OpIs DEF Positions
  <1>3. ~(op.at = "open" /\ op.at = "close") /\ (WriteFull => op.at = "full")
        /\ (FlushSink => op.at = "flush") /\ (OpenSink => op.at = "open")
        /\ (CloseSink => op.at = "close")
    BY DEF WriteFull, FlushSink, OpenSink, CloseSink
  <1>4. CASE OpenSink
    <2>1. op.at = "open" /\ opened' = opened
      BY <1>4 DEF OpenSink
    <2>2. op' = IF s < Len(sinks) THEN [at |-> "open", sink |-> s + 1]
                ELSE [at |-> "loop", sink |-> 0]
      BY <1>4 DEF OpenSink, Following, At
    <2>3. Loaded(i) <=> i < s
      BY <2>1 DEF Loaded
    <2>4. Loaded(i)' <=> i < s + 1
      <3>1. CASE s < Len(sinks)
        BY <2>2, <3>1 DEF Loaded
      <3>2. CASE ~(s < Len(sinks))
        <4>1. op'.at = "loop"
          BY <2>2, <3>2
        <4>2. i < s + 1
          BY <1>1, <1>2, <2>1, <3>2
        <4> QED BY <4>1, <4>2 DEF Loaded
      <3> QED BY <3>1, <3>2
    <2>5. s \in Nat /\ (i = s => ~(i < s)) /\ (i # s => (i < s + 1 <=> i < s))
      BY <1>1, <1>2, <2>1
    <2>6. ~CloseSink /\ ~WriteFull /\ ~FlushSink
      BY <1>3, <2>1
    <2>7. i # s => (Loaded(i)' <=> Loaded(i))
      BY <2>3, <2>4, <2>5
    <2>8. i = s => ~Loaded(i)
      BY <2>3, <2>5
    <2>9. opened = 1
      BY <2>1
    <2> QED BY <1>4, <2>1, <2>6, <2>7, <2>8, <2>9
  <1>5. CASE Yield \/ Write \/ WriteFull \/ Drain \/ FlushSink \/ Complete
    <2>1. op.at \in {"loop", "write", "full", "flush", "complete"} /\ opened' = opened
      BY <1>5 DEF Yield, Write, WriteFull, Drain, Complete, FlushSink
    <2>2. \/ op'.at \in {"loop", "write", "full", "flush", "complete"}
          \/ op'.at = "close" /\ op'.sink = 1
      <3>1. CASE Yield \/ Drain \/ Complete
        BY <3>1 DEF Yield, Drain, Complete, At
      <3>2. CASE Write
        BY <3>2 DEF Write, Following, At
      <3>3. CASE WriteFull
        BY <3>3 DEF WriteFull, Following, At
      <3>4. CASE FlushSink
        BY <3>4 DEF FlushSink, Following, At
      <3> QED BY <1>5, <3>1, <3>2, <3>3, <3>4
    <2>3. Loaded(i) /\ Loaded(i)'
      BY <1>1, <2>1, <2>2 DEF Loaded
    <2> QED BY <1>3, <2>1, <2>3
  <1>6. CASE Raise
    <2>1. op.at \in {"loop", "complete"}
      BY <1>6 DEF Raise
    <2>2. op'.at = "close" /\ op'.sink = 1 /\ opened' = opened
      BY <1>1, <1>6 DEF Raise, At
    <2>3. Loaded(i) /\ Loaded(i)'
      BY <1>1, <2>1, <2>2 DEF Loaded
    <2> QED BY <1>3, <2>1, <2>2, <2>3
  <1>7. CASE CloseSink
    <2>1. op.at = "close" /\ opened' = opened
      BY <1>7 DEF CloseSink
    <2>2. op' = IF s < Len(sinks) THEN [at |-> "close", sink |-> s + 1]
                ELSE [at |-> "done", sink |-> 0]
      BY <1>1, <1>7, <2>1 DEF CloseSink, Following, Left, At
    <2>3. Loaded(i) <=> i >= s
      BY <2>1 DEF Loaded
    <2>4. Loaded(i)' <=> i >= s + 1
      <3>1. CASE s < Len(sinks)
        BY <2>2, <3>1 DEF Loaded
      <3>2. CASE ~(s < Len(sinks))
        <4>1. op'.at = "done"
          BY <2>2, <3>2
        <4>2. ~(i >= s + 1)
          BY <1>1, <1>2, <2>1, <3>2
        <4> QED BY <4>1, <4>2 DEF Loaded
      <3> QED BY <3>1, <3>2
    <2>5. op'.at # "open"
      BY <2>2
    <2>6. s \in Nat /\ (i = s => i >= s /\ ~(i >= s + 1)) /\ (i # s => (i >= s + 1 <=> i >= s))
      BY <1>1, <1>2, <2>1
    <2>7. ~OpenSink /\ ~WriteFull /\ ~FlushSink
      BY <1>3, <2>1
    <2>8. i # s => (Loaded(i)' <=> Loaded(i))
      BY <2>3, <2>4, <2>6
    <2>9. i = s => Loaded(i) /\ ~Loaded(i)'
      BY <2>3, <2>4, <2>6
    <2>10. Loaded(i)' => Loaded(i)
      BY <2>8, <2>9
    <2>11. opened = 1
      BY <2>1
    <2> QED BY <1>7, <2>5, <2>7, <2>8, <2>9, <2>10, <2>11
  <1>8. CASE Cancel
    BY <1>8 DEF Cancel
  <1>9. CASE UNCHANGED vars
    <2>1. op' = op /\ opened' = opened /\ (Loaded(i)' <=> Loaded(i))
      BY <1>9 DEF vars, Loaded
    <2>2. op.sink \in Nat => op.sink + 1 # op.sink
      OBVIOUS
    <2>3. ~OpenSink
      <3>1. OpenSink => op' = At("open", op.sink + 1) \/ op' = At("loop", 0)
        BY DEF OpenSink, Following
      <3> QED BY <1>2, <1>3, <2>1, <2>2, <3>1 DEF At
    <2>4. ~CloseSink
      <3>1. CloseSink => op' = At("close", op.sink + 1) \/ op' = At("close", 1) \/ op' = At("done", 0)
        BY DEF CloseSink, Following, Left
      <3>2. CloseSink => ~(op' = At("close", 1))
        <4> SUFFICES ASSUME CloseSink, op' = At("close", 1) PROVE FALSE
          OBVIOUS
        <4>1. op.sink = 1 /\ op.at = "close"
          BY <1>3, <2>1 DEF At
        <4>2. ~(op.sink < Len(sinks))
          BY <2>1, <2>2, <4>1 DEF CloseSink, Following, At
        <4>3. op' = Left
          BY <4>2 DEF CloseSink, Following
        <4>4. Len(pipes) > 1
          BY <4>3, <2>1, <4>1 DEF Left, At
        <4> QED BY <1>1, <2>1, <4>4
      <3> QED BY <1>2, <1>3, <2>1, <2>2, <3>1, <3>2 DEF At
    <2>5. ~WriteFull
      <3>1. WriteFull => op' = At("write", op.sink + 1) \/ op' = At("loop", 0)
        BY DEF WriteFull, Following
      <3> QED BY <1>3, <2>1, <3>1 DEF At
    <2>6. ~FlushSink
      <3>1. FlushSink => op' = At("flush", op.sink + 1) \/ op' = At("complete", 0)
        BY DEF FlushSink, Following
      <3> QED BY <1>2, <1>3, <2>1, <2>2, <3>1 DEF At
    <2> QED BY <2>1, <2>3, <2>4, <2>5, <2>6
  <1> QED BY <1>4, <1>5, <1>6, <1>7, <1>8, <1>9 DEF Next

LEMMA HoldsNone == \A s \in {<<>>, <<Old>>} : Holds(s, {})
  <1> SUFFICES ASSUME NEW s \in {<<>>, <<Old>>} PROVE Holds(s, {})
    OBVIOUS
  <1> DEFINE o == Old
  <1>1. o \in Record
    BY DEF Record
  <1> HIDE DEF o
  <1>2. CASE s = <<>>
    <2>1. s \in Seq(Record) /\ 1..Len(s) = {}
      BY <1>2, EmptySeq
    <2>2. ToSet(s) = {}
      BY <2>1, ToSetIs
    <2> QED BY <2>1, <2>2, DistinctIs DEF Holds
  <1>3. CASE s = <<o>>
    <2>1. s \in Seq(Record) /\ Len(s) = 1 /\ s[1] = o /\ 1..Len(s) = {1}
      BY <1>1, <1>3
    <2>2. ToSet(s) = {o}
      BY <2>1, ToSetIs
    <2>3. Distinct(s)
      BY <2>1, DistinctIs
    <2> QED BY <2>2, <2>3 DEF Holds, o
  <1> QED BY <1>2, <1>3 DEF o

LEMMA ContentType ==
    ASSUME TypeOK, NEW i \in Positions
    PROVE  Content(i) \in Seq(Record)
  <1>1. store[i] \in Seq(Record)
    BY DEF TypeOK
  <1>2. CASE Loaded(i)
    <2>1. pipes # <<>>
      BY <1>2, OpIs DEF Loaded
    <2>2. 1 \in 1..Len(pipes)
      BY <2>1, Setup
    <2>3. pipes[1].rows[i] \in Seq(Record)
      BY <2>2, Setup
    <2> QED BY <1>1, <2>3 DEF Content
  <1> QED BY <1>1, <1>2 DEF Content

LEMMA OnceInit == Init => OnceInv
  <1> SUFFICES ASSUME Init, NEW i \in Positions PROVE OnceAt(i)
    BY DEF OnceInv
  <1>1. TypeOK /\ BufInv
    BY TypeInit, BufInit
  <1>2. op.at = "open" /\ op.sink = 1 /\ ~Loaded(i)
    BY Setup, <1>1 DEF Init, At, Loaded, Positions
  <1>3. store[i] \in {<<>>, <<Old>>} /\ Content(i) = store[i]
    BY <1>2 DEF Init, Content
  <1>4. Done(i) = {}
    <2>1. \A a \in Attempts : Flushed(a, i) = 0
      <3> TAKE a \in Attempts
      <3>1. taken[a][i] = 0
        BY DEF Init
      <3> QED BY <1>1, <3>1, WaitingIs
    <2>2. \A x \in Items : ~(x <= 0)
      BY <1>1, Setup DEF Items
    <2> QED BY <2>1, <2>2 DEF Done
  <1> QED BY <1>2, <1>3, <1>4, HoldsNone DEF OnceAt

\* The one attempt is the innermost.
LEMMA Single ==
    ASSUME TypeOK, pipes # <<>>, opened = 1
    PROVE  Len(pipes) = 1 /\ 1 \in 1..Len(pipes)
  <1> DEFINE n == Len(pipes)
  <1>1. n \in Nat /\ n \in 1..n /\ n <= opened
    BY Setup DEF TypeOK
  <1>2. n = 1
    <2> HIDE DEF n
    <2> QED BY <1>1
  <1> QED BY <1>2

\* A sink that is flawless after a step was so before.
LEMMA StaysFlawless ==
    ASSUME TypeOK, [Next]_vars, ~cancelled', NEW i \in Positions, flawless'[i]
    PROVE  ~cancelled /\ flawless[i]
  <1>1. CASE Yield \/ Write \/ Drain \/ Complete \/ Raise \/ UNCHANGED vars
    BY <1>1 DEF Yield, Write, Drain, Complete, Raise, vars
  <1>2. CASE OpenSink
    <2>1. op.sink \in Positions
      BY <1>2, OpenFacts
    <2>2. PICK up \in Opens[sinks[op.sink]], rows \in Seq(Record) :
             flawless' = [flawless EXCEPT ![op.sink] =
                 flawless[op.sink] /\ up = "up" /\ (sinks[op.sink] = "excel" => rows = store[op.sink])]
      BY <1>2, OpenFacts
    <2> DEFINE fine == up = "up" /\ (sinks[op.sink] = "excel" => rows = store[op.sink])
    <2>3. flawless' = [flawless EXCEPT ![op.sink] = flawless[op.sink] /\ fine]
      BY <2>2
    <2> HIDE DEF fine
    <2>4. flawless[i]
      BY <2>1, <2>3, FlawlessType
    <2> QED BY <1>2, <2>4 DEF OpenSink
  <1>3. CASE WriteFull \/ FlushSink
    <2>1. op.sink \in Positions /\ pipes # <<>> /\ FlushInto(op.sink, Ways(op.sink))
          /\ cancelled' = cancelled
      BY <1>3, OpIs DEF WriteFull, FlushSink
    <2>2. PICK w \in Ways(op.sink) :
             flawless' = [flawless EXCEPT ![op.sink] =
                flawless[op.sink] /\
                   (sinks[op.sink] = "excel" \/ (w.n = Len(Pipe.buf[op.sink]) /\ ~w.kept))]
      BY <2>1, FlushFacts
    <2> DEFINE fine == sinks[op.sink] = "excel" \/ (w.n = Len(Pipe.buf[op.sink]) /\ ~w.kept)
    <2>3. flawless' = [flawless EXCEPT ![op.sink] = flawless[op.sink] /\ fine]
      BY <2>2
    <2> HIDE DEF fine
    <2>4. flawless[i]
      BY <2>1, <2>3, FlawlessType
    <2> QED BY <2>1, <2>4
  <1>4. CASE CloseSink
    <2>1. op.sink \in Positions /\ cancelled' = cancelled
      BY <1>4, CloseFacts DEF CloseSink
    <2>2. PICK w \in Ways(op.sink), saved \in BOOLEAN :
             flawless' = [flawless EXCEPT ![op.sink] =
                flawless[op.sink] /\ saved
                   /\ (sinks[op.sink] = "excel" \/ (w.n = Len(Pipe.buf[op.sink]) /\ ~w.kept))]
      BY <1>4, CloseFacts
    <2> DEFINE fine == saved
                   /\ (sinks[op.sink] = "excel" \/ (w.n = Len(Pipe.buf[op.sink]) /\ ~w.kept))
    <2>3. flawless' = [flawless EXCEPT ![op.sink] = flawless[op.sink] /\ fine]
      BY <2>2
    <2> HIDE DEF fine
    <2>4. flawless[i]
      BY <2>1, <2>3, FlawlessType
    <2> QED BY <2>1, <2>4
  <1>5. CASE Cancel
    BY <1>5 DEF Cancel
  <1> QED BY <1>1, <1>2, <1>3, <1>4, <1>5 DEF Next

\* A sink changes its target and its rows only while it writes, or is opened.
LEMMA Elsewhere ==
    ASSUME TypeOK, TypeOK', TakenInv, [Next]_vars, ~cancelled', NEW i \in Positions,
           ~((WriteFull \/ FlushSink \/ CloseSink) /\ i = op.sink)
    PROVE  /\ store'[i] = store[i]
           /\ \A k \in 1..Len(pipes) : k \in 1..Len(pipes') /\ ~(OpenSink /\ i = op.sink) =>
                 pipes'[k].rows[i] = pipes[k].rows[i]
  <1>1. CASE Yield \/ Drain \/ Complete \/ UNCHANGED vars
    BY <1>1 DEF Yield, Drain, Complete, vars
  <1>2. CASE OpenSink
    <2>1. \A k \in 1..Len(pipes) : i # op.sink => pipes'[k].rows[i] = pipes[k].rows[i]
      BY <1>2, OpenFacts
    <2> QED BY <1>2, <2>1 DEF OpenSink
  <1>3. CASE Write
    <2>1. \A k \in 1..Len(pipes) : pipes'[k].rows[i] = pipes[k].rows[i]
      BY <1>3, WriteFacts
    <2> QED BY <1>3, <2>1 DEF Write
  <1>4. CASE WriteFull \/ FlushSink
    <2>1. /\ op.sink \in Positions /\ pipes # <<>> /\ FlushInto(op.sink, Ways(op.sink))
          /\ i # op.sink
      BY <1>4, OpIs DEF WriteFull, FlushSink
    <2>2. PICK w \in Ways(op.sink) :
             store' = [store EXCEPT ![op.sink] =
                          store[op.sink] \o SubSeq(Pipe.buf[op.sink], 1, w.n)]
      BY <2>1, FlushFacts
    <2>3. \A k \in 1..Len(pipes) : pipes'[k].rows[i] = pipes[k].rows[i]
      BY <2>1, FlushFacts
    <2>4. store'[i] = store[i]
      BY <2>1, <2>2 DEF TypeOK
    <2> QED BY <2>3, <2>4
  <1>5. CASE Raise
    <2>1. store' = store /\ (pipes' = pipes \/ pipes' = Append(pipes, NewPipe))
      BY <1>5 DEF Raise
    <2>2. CASE pipes' = pipes
      BY <2>1, <2>2
    <2>3. CASE pipes' = Append(pipes, NewPipe)
      <3>1. \A k \in 1..Len(pipes) : pipes'[k] = pipes[k]
        BY <2>3, RaiseFacts
      <3> QED BY <2>1, <3>1
    <2> QED BY <2>1, <2>2, <2>3
  <1>6. CASE CloseSink
    <2>1. op.sink \in Positions /\ i # op.sink
      BY <1>6, CloseFacts
    <2>2. \A k \in 1..Len(pipes') : pipes'[k].rows[i] = pipes[k].rows[i]
      BY <1>6, <2>1, CloseFacts
    <2>3. \E x : store' = [store EXCEPT ![op.sink] = x]
      BY <1>6 DEF CloseSink
    <2>4. store'[i] = store[i]
      BY <2>1, <2>3 DEF TypeOK
    <2> QED BY <2>2, <2>4
  <1>7. CASE Cancel
    BY <1>7 DEF Cancel
  <1> QED BY <1>1, <1>2, <1>3, <1>4, <1>5, <1>6, <1>7 DEF Next

\* ... so what it holds, and has let go, stays.
LEMMA OnceElsewhere ==
    ASSUME TypeOK, TypeOK', TakenInv, BufInv, [Next]_vars, ~cancelled', NEW i \in Positions,
           flawless'[i], sinks[i] = "excel" => opened' = 1, OnceAt(i),
           ~((WriteFull \/ FlushSink \/ CloseSink) /\ i = op.sink)
    PROVE  Holds(Content(i)', Done(i)')
  <1>1. Done(i)' = Done(i)
    <2>1. \A b \in Attempts : Flushed(b, i)' = Flushed(b, i)
      BY FlushedStep DEF OnceAt
    <2>2. Done(i)' = {r \in Attempts \X Items : r[2] <= Flushed(r[1], i)'}
      BY DEF Done, Items, Attempts
    <2> QED BY <2>1, <2>2 DEF Done
  <1>2. sinks' = sinks /\ store'[i] = store[i]
    BY StepKinds, Elsewhere
  <1>3. Content(i)' = Content(i)
    <2>1. CASE sinks[i] # "excel"
      BY <1>2, <2>1 DEF Content
    <2>2. CASE sinks[i] = "excel"
      <3>1. /\ opened = 1 /\ Len(pipes) \in Nat /\ Len(pipes) <= opened
            /\ (~(OpenSink /\ i = op.sink) => (Loaded(i)' <=> Loaded(i)))
            /\ (OpenSink /\ i = op.sink => ~Loaded(i))
        BY <2>2, LoadedStep, Setup DEF TypeOK
      <3>2. CASE OpenSink /\ i = op.sink
        <4>1. PICK up \in Opens[sinks[i]], rows \in Seq(Record) :
                /\ flawless' = [flawless EXCEPT ![i] =
                       flawless[i] /\ up = "up" /\ (sinks[i] = "excel" => rows = store[i])]
                /\ Len(pipes') = Len(pipes)
                /\ \A k \in 1..Len(pipes) : \A j \in Positions :
                      pipes'[k].rows[j] = IF k = Len(pipes) /\ j = i THEN rows
                                          ELSE pipes[k].rows[j]
          BY <3>2, OpenFacts
        <4> DEFINE fine == up = "up" /\ (sinks[i] = "excel" => rows = store[i])
        <4>2. flawless' = [flawless EXCEPT ![i] = flawless[i] /\ fine]
          BY <4>1
        <4> HIDE DEF fine
        <4>3. fine
          BY <4>2, FlawlessType
        <4>4. rows = store[i]
          BY <2>2, <4>3 DEF fine
        <4>5. Len(pipes) = 1 /\ 1 \in 1..Len(pipes)
          <5>1. pipes # <<>>
            BY <3>2, OpenFacts
          <5> QED BY <3>1, <5>1, Single
        <4>6. pipes'[1].rows[i] = store[i]
          BY <4>1, <4>4, <4>5
        <4> QED BY <1>2, <3>1, <3>2, <4>6 DEF Content
      <3>3. CASE ~(OpenSink /\ i = op.sink)
        <4>1. CASE Loaded(i)
          <5>1. pipes # <<>> /\ pipes' # <<>>
            <6>1. op'.at # "done" /\ op.at # "done"
              BY <3>1, <3>3, <4>1 DEF Loaded
            <6> QED BY <6>1, OpIs DEF TypeOK, At
          <5>2. 1 \in 1..Len(pipes) /\ 1 \in 1..Len(pipes')
            <6>1. pipes \in Seq(PipeOf(Positions)) /\ pipes' \in Seq(PipeOf(Positions'))
              BY DEF TypeOK, PipeOf
            <6> QED BY <5>1, <6>1, LenProperties, EmptySeq
          <5>3. pipes'[1].rows[i] = pipes[1].rows[i]
            BY <3>3, <5>2, Elsewhere
          <5> QED BY <1>2, <2>2, <3>1, <3>3, <4>1, <5>3 DEF Content
        <4>2. CASE ~Loaded(i)
          BY <1>2, <3>1, <3>3, <4>2 DEF Content
        <4> QED BY <4>1, <4>2
      <3> QED BY <3>2, <3>3
    <2> QED BY <2>1, <2>2
  <1> QED BY <1>1, <1>3 DEF OnceAt

LEMMA WholeOf ==
    ASSUME NEW b \in Seq(Record)
    PROVE  SubSeq(b, 1, Len(b)) = b
  BY SubSeqFull

LEMMA NoneOf ==
    ASSUME NEW s \in Seq(Record), NEW b
    PROVE  s \o SubSeq(b, 1, 0) = s
  <1>1. SubSeq(b, 1, 0) = <<>>
    BY SubSeqEmpty
  <1> QED BY <1>1, ConcatEmptySeq

LEMMA Innermost ==
    ASSUME TypeOK, pipes # <<>>
    PROVE  \E a \in Attempts : a = Len(pipes)
  <1> DEFINE n == Len(pipes)
  <1>1. n \in Nat /\ n \in 1..n /\ n <= opened /\ opened \in Nat
        /\ opened <= MaxAttempts /\ MaxAttempts \in Nat
    BY Setup DEF TypeOK, Attempts
  <1>2. n \in 1..MaxAttempts
    <2> HIDE DEF n
    <2> QED BY <1>1
  <1> QED BY <1>2 DEF Attempts

\* What the innermost attempt held back comes to what the sink has.
LEMMA LetGo ==
    ASSUME TypeOK, TypeOK', BufInv, UNCHANGED <<taken, sinks>>, pipes # <<>>,
           NEW i \in Positions, NEW a \in Attempts, a = Len(pipes),
           \A k \in 1..Len(pipes') : k \in 1..Len(pipes)
              /\ pipes'[k].buf[i] = IF k = a THEN <<>> ELSE pipes[k].buf[i],
           Len(pipes') = a \/ Len(pipes') = a - 1,
           Holds(Content(i), Done(i))
    PROVE  Holds(Content(i) \o Pipe.buf[i], Done(i)')
  <1> DEFINE b == Pipe.buf[i]
             f == Flushed(a, i)
             D == Done(i)
             E == Done(i)'
  <1>1. /\ a \in Nat /\ a \in 1..Len(pipes) /\ DOMAIN pipes = 1..a
        /\ DOMAIN pipes' = 1..Len(pipes') /\ Positions' = Positions
    <2>1. DOMAIN pipes' = 1..Len(pipes')
      BY LenProperties DEF TypeOK
    <2>2. a \in Nat /\ a \in 1..Len(pipes) /\ DOMAIN pipes = 1..a
      BY Setup
    <2> QED BY <2>1, <2>2 DEF Positions
  <1>2. /\ b = pipes[a].buf[i] /\ b \in Seq(Record) /\ Len(b) \in Nat /\ f \in Nat
        /\ Waiting(a, i) = Len(b) /\ taken[a][i] \in Nat /\ taken[a][i] = f + Len(b)
        /\ \A j \in 1..Len(b) : b[j] = <<a, f + j>>
    <2>1. b = pipes[a].buf[i] /\ b \in Seq(Record) /\ Len(b) \in Nat
      BY <1>1, Setup DEF Pipe
    <2>2. /\ Waiting(a, i) = Len(b) /\ taken[a][i] \in Nat /\ f \in Nat
          /\ \A j \in 1..Len(b) : b[j] = <<a, f + j>>
      <3>1. a \in DOMAIN pipes
        BY <1>1
      <3>2. /\ Waiting(a, i) = Len(pipes[a].buf[i]) /\ taken[a][i] \in Nat
            /\ Flushed(a, i) \in Nat
        BY <3>1, WaitingIs
      <3>3. \A j \in 1..Waiting(a, i) : pipes[a].buf[i][j] = <<a, Flushed(a, i) + j>>
        BY <3>1 DEF BufInv
      <3> QED BY <2>1, <3>2, <3>3
    <2>3. f = taken[a][i] - Len(b)
      BY <2>2 DEF Flushed
    <2> HIDE DEF b, f
    <2>4. taken[a][i] = f + Len(b)
      BY <2>1, <2>2, <2>3
    <2> QED BY <2>1, <2>2, <2>4
  <1>3. Flushed(a, i)' = f + Len(b)
    <2>1. CASE a \in DOMAIN pipes'
      <3>1. pipes'[a].buf[i] = <<>>
        BY <1>1, <2>1
      <3> QED BY <1>1, <1>2, <2>1, <3>1, BufFrame
    <2>2. CASE a \notin DOMAIN pipes'
      <3>1. Waiting(a, i)' = 0
        BY <2>2 DEF Waiting
      <3> QED BY <1>2, <3>1 DEF Flushed
    <2> QED BY <2>1, <2>2
  <1>4. \A c \in Attempts : c # a => Flushed(c, i)' = Flushed(c, i)
    <2> SUFFICES ASSUME NEW c \in Attempts, c # a PROVE Flushed(c, i)' = Flushed(c, i)
      OBVIOUS
    <2>1. c \in Nat /\ c >= 1
      BY WaitingIs
    <2>2. c \in DOMAIN pipes' <=> c \in DOMAIN pipes
      <3> DEFINE m == Len(pipes')
      <3>1. (m = a \/ m = a - 1) /\ a \in Nat /\ c \in Nat /\ c >= 1 /\ c # a
        BY <1>1, <2>1
      <3>2. c \in 1..m <=> c \in 1..a
        <4> HIDE DEF m
        <4>1. CASE m = a
          BY <4>1
        <4>2. CASE m = a - 1
          BY <3>1, <4>2
        <4> QED BY <3>1, <4>1, <4>2
      <3> QED BY <1>1, <3>2
    <2>3. c \in DOMAIN pipes => pipes'[c].buf[i] = pipes[c].buf[i]
      BY <1>1, <2>2
    <2> QED BY <2>2, <2>3, FlushedSame
  <1>5. \A r \in D : r[1] = a => r[2] <= f
    BY DEF Done
  <1>6. E = {r \in Attempts \X Items : r[2] <= Flushed(r[1], i)'}
    BY DEF Done, Items, Attempts
  <1>7. D \in SUBSET (Attempts \X Items) /\ E \in SUBSET (Attempts \X Items)
    BY <1>6 DEF Done
  <1>8. ASSUME NEW r \in Attempts \X Items
        PROVE  r \in E <=> r \in D \/ (r[1] = a /\ f < r[2] /\ r[2] <= f + Len(b))
    <2>1. r[2] \in Nat
      <3>1. r[2] \in Items
        OBVIOUS
      <3> QED BY <3>1, Setup DEF Items
    <2>2. r \in E <=> r[2] <= Flushed(r[1], i)'
      BY <1>6
    <2>3. r \in D <=> r[2] <= Flushed(r[1], i)
      BY DEF Done
    <2>4. CASE r[1] = a
      <3>1. r \in E <=> r[2] <= f + Len(b)
        BY <1>3, <2>2, <2>4
      <3>2. r \in D <=> r[2] <= f
        BY <2>3, <2>4
      <3> HIDE DEF b, f, D, E
      <3> QED BY <1>2, <2>1, <2>4, <3>1, <3>2
    <2>5. CASE r[1] # a
      <3>1. r[1] \in Attempts
        OBVIOUS
      <3>2. Flushed(r[1], i)' = Flushed(r[1], i)
        BY <1>4, <2>5, <3>1
      <3> QED BY <2>2, <2>3, <2>5, <3>2
    <2> QED BY <2>4, <2>5
  <1> DEFINE s == Content(i)
  <1>9. s \in Seq(Record) /\ Holds(s, D)
    BY ContentType
  <1> HIDE DEF b, f, D, E, s
  <1>10. \A r \in Attempts \X Items :
            r \in E <=> r \in D \/ (r[1] = a /\ f < r[2] /\ r[2] <= f + Len(b))
    BY <1>8
  <1>11. b \in Seq(Record) /\ f \in Nat /\ \A j \in 1..Len(b) : b[j] = <<a, f + j>>
    BY <1>2
  <1>12. Holds(s \o b, E)
    BY <1>5, <1>7, <1>9, <1>10, <1>11, HoldsMore, ZenonT(30)
  <1> QED BY <1>12 DEF s, b, E

\* A sink that writes its buffer without failing.
LEMMA OnceFlush ==
    ASSUME TypeOK, TypeOK', TakenInv, BufInv, WriteFull \/ FlushSink, ~cancelled',
           NEW i \in Positions, i = op.sink, flawless'[i], sinks[i] = "excel" => opened' = 1,
           OnceAt(i)
    PROVE  /\ Holds(Content(i)', Done(i)')
           /\ sinks[i] = "excel" => store'[i] = store[i]
  <1>1. /\ pipes # <<>> /\ FlushInto(i, Ways(i)) /\ UNCHANGED <<taken, sinks>>
        /\ op.at \in {"full", "flush"} /\ Next
    BY OpIs DEF WriteFull, FlushSink, Next
  <1> DEFINE b == Pipe.buf[i]
             n == Len(pipes)
  <1>2. PICK w \in Ways(i) :
          /\ store' = [store EXCEPT ![i] = store[i] \o SubSeq(Pipe.buf[i], 1, w.n)]
          /\ flawless' = [flawless EXCEPT ![i] =
                 flawless[i] /\ (sinks[i] = "excel" \/ (w.n = Len(Pipe.buf[i]) /\ ~w.kept))]
          /\ pipes' \in Seq(PipeOf(Positions)) /\ Len(pipes') = Len(pipes)
          /\ \A k \in 1..Len(pipes) : \A j \in Positions :
                /\ pipes'[k].up[j] = pipes[k].up[j]
                /\ pipes'[k].buf[j] = IF k = Len(pipes) /\ j = i /\ ~w.kept THEN <<>>
                                      ELSE pipes[k].buf[j]
                /\ pipes'[k].rows[j] = IF k = Len(pipes) /\ j = i /\ sinks[i] = "excel"
                                       THEN pipes[k].rows[j] \o Pipe.buf[i]
                                       ELSE pipes[k].rows[j]
    BY <1>1, FlushFacts
  <1> DEFINE fine == sinks[i] = "excel" \/ (w.n = Len(b) /\ ~w.kept)
  <1>3. flawless' = [flawless EXCEPT ![i] = flawless[i] /\ fine]
    BY <1>2
  <1>4. fine
    <2> HIDE DEF fine
    <2> QED BY <1>3, FlawlessType
  <1>5. /\ ~w.kept /\ b \in Seq(Record) /\ Len(b) \in Nat
        /\ sinks[i] = "excel" => w.n = 0
        /\ sinks[i] # "excel" => w.n = Len(b)
    BY <1>1, <1>4, WaysAre
  <1>6. store[i] \in Seq(Record) /\ store'[i] = store[i] \o SubSeq(b, 1, w.n)
    BY <1>2 DEF TypeOK
  <1>7. Holds(Content(i) \o b, Done(i)')
    <2>1. PICK a \in Attempts : a = Len(pipes)
      BY <1>1, Innermost
    <2>2. \A k \in 1..Len(pipes') : k \in 1..Len(pipes)
             /\ pipes'[k].buf[i] = IF k = a THEN <<>> ELSE pipes[k].buf[i]
      BY <1>2, <1>5, <2>1
    <2>3. Holds(Content(i), Done(i)) /\ Len(pipes') = a
      BY <1>2, <2>1 DEF OnceAt
    <2> QED BY <1>1, <2>1, <2>2, <2>3, LetGo
  <1>8. CASE sinks[i] # "excel"
    <2>1. SubSeq(b, 1, w.n) = b
      BY <1>5, <1>8, WholeOf
    <2>2. Content(i)' = Content(i) \o b
      BY <1>1, <1>6, <1>8, <2>1 DEF Content
    <2> QED BY <1>7, <1>8, <2>2
  <1>9. CASE sinks[i] = "excel"
    <2>1. /\ opened = 1 /\ Loaded(i) /\ (Loaded(i)' <=> Loaded(i)) /\ n <= opened
          /\ ~OpenSink /\ ~CloseSink
      <3>1. ~OpenSink /\ ~CloseSink
        BY <1>1 DEF OpenSink, CloseSink
      <3> QED BY <1>1, <1>9, <3>1, LoadedStep DEF TypeOK
    <2>2. n = 1 /\ 1 \in 1..Len(pipes)
      BY <1>1, <2>1, Single
    <2>3. pipes'[1].rows[i] = pipes[1].rows[i] \o b
      BY <1>2, <1>9, <2>2
    <2>4. Content(i)' = Content(i) \o b
      BY <1>1, <1>9, <2>1, <2>3 DEF Content
    <2>5. store'[i] = store[i]
      BY <1>5, <1>6, <1>9, NoneOf
    <2> QED BY <1>7, <2>4, <2>5
  <1> QED BY <1>8, <1>9

\* A sink that is closed without failing.
LEMMA OnceClose ==
    ASSUME TypeOK, TypeOK', TakenInv, BufInv, CloseSink, ~cancelled',
           NEW i \in Positions, i = op.sink, flawless'[i], sinks[i] = "excel" => opened' = 1,
           OnceAt(i)
    PROVE  /\ Holds(Content(i)', Done(i)')
           /\ \A k \in 1..Len(pipes') : k = Len(pipes) => pipes'[k].buf[i] = <<>>
  <1>1. /\ pipes # <<>> /\ UNCHANGED <<taken, sinks>> /\ op.at = "close" /\ Next
    BY OpIs DEF CloseSink, Next
  <1> DEFINE b == Pipe.buf[i]
             n == Len(pipes)
             rows == Pipe.rows[i] \o b
  <1>2. PICK w \in Ways(i), saved \in BOOLEAN :
          /\ ~saved => sinks[i] = "excel" /\ rows # <<>>
          /\ store' = [store EXCEPT ![i] =
                 IF sinks[i] = "excel"
                 THEN (IF saved /\ rows # <<>> THEN rows ELSE store[i])
                 ELSE store[i] \o SubSeq(b, 1, w.n)]
          /\ flawless' = [flawless EXCEPT ![i] =
                 flawless[i] /\ saved
                    /\ (sinks[i] = "excel" \/ (w.n = Len(b) /\ ~w.kept))]
          /\ Len(pipes') = IF i < Len(sinks) THEN Len(pipes) ELSE Len(pipes) - 1
          /\ \A k \in 1..Len(pipes') : \A j \in Positions :
                /\ k \in 1..Len(pipes)
                /\ pipes'[k].buf[j] = IF k = Len(pipes) /\ j = i /\ ~w.kept THEN <<>>
                                      ELSE pipes[k].buf[j]
    BY CloseFacts, SMTT(30)
  <1> DEFINE fine == saved /\ (sinks[i] = "excel" \/ (w.n = Len(b) /\ ~w.kept))
  <1>3. flawless' = [flawless EXCEPT ![i] = flawless[i] /\ fine]
    BY <1>2
  <1>4. fine
    <2> HIDE DEF fine
    <2> QED BY <1>3, FlawlessType
  <1>5. /\ saved /\ ~w.kept /\ b \in Seq(Record) /\ Len(b) \in Nat
        /\ sinks[i] # "excel" => w.n = Len(b)
    BY <1>1, <1>4, WaysAre
  <1> HIDE DEF fine, rows
  <1>6. /\ store[i] \in Seq(Record)
        /\ sinks[i] = "excel" => store'[i] = IF rows # <<>> THEN rows ELSE store[i]
        /\ sinks[i] # "excel" => store'[i] = store[i] \o SubSeq(b, 1, w.n)
    BY <1>2, <1>5 DEF TypeOK
  <1>7. /\ Holds(Content(i) \o b, Done(i)')
        /\ \A k \in 1..Len(pipes') : k = Len(pipes) => pipes'[k].buf[i] = <<>>
    <2>1. PICK a \in Attempts : a = Len(pipes)
      BY <1>1, Innermost
    <2>2. \A k \in 1..Len(pipes') : k \in 1..Len(pipes)
             /\ pipes'[k].buf[i] = IF k = a THEN <<>> ELSE pipes[k].buf[i]
      BY <1>2, <1>5, <2>1
    <2>3. Len(pipes') = a \/ Len(pipes') = a - 1
      BY <1>2, <2>1
    <2>4. Holds(Content(i), Done(i))
      BY DEF OnceAt
    <2>5. Holds(Content(i) \o b, Done(i)')
      BY <1>1, <2>1, <2>2, <2>3, <2>4, LetGo
    <2> QED BY <2>1, <2>2, <2>5
  <1>8. CASE sinks[i] # "excel"
    <2>1. SubSeq(b, 1, w.n) = b
      BY <1>5, <1>8, WholeOf
    <2>2. Content(i)' = Content(i) \o b
      BY <1>1, <1>6, <1>8, <2>1 DEF Content
    <2> QED BY <1>7, <2>2
  <1>9. CASE sinks[i] = "excel"
    <2>1. opened = 1 /\ Loaded(i) /\ ~Loaded(i)' /\ n <= opened
      BY <1>1, <1>9, LoadedStep DEF TypeOK
    <2>2. n = 1
      BY <1>1, <2>1, Single
    <2>3. Content(i) = Pipe.rows[i] /\ Content(i) \o b = rows
      BY <1>9, <2>1, <2>2 DEF Content, Pipe, rows
    <2>4. Content(i)' = store'[i]
      BY <1>1, <1>9, <2>1 DEF Content
    <2>5. CASE rows # <<>>
      BY <1>6, <1>7, <1>9, <2>3, <2>4, <2>5
    <2>6. CASE rows = <<>>
      <3>1. Holds(<<>>, Done(i)')
        BY <1>7, <2>3, <2>6
      <3>2. Done(i)' = {}
        <4> DEFINE e == <<>>
                   E == Done(i)'
        <4>1. e \in Seq(Record) /\ 1..Len(e) = {}
          BY EmptySeq
        <4>2. Holds(e, E)
          BY <3>1
        <4> HIDE DEF e, E
        <4>3. ToSet(e) = {}
          BY <4>1, ToSetIs
        <4>4. E = {}
          BY <4>2, <4>3 DEF Holds
        <4> QED BY <4>4 DEF E
      <3>3. store[i] \in {<<>>, <<Old>>}
        BY <1>9, <2>1 DEF OnceAt
      <3>4. Content(i)' = store[i]
        BY <1>6, <1>9, <2>4, <2>6
      <3> QED BY <1>7, <3>2, <3>3, <3>4, HoldsNone
    <2> QED BY <1>7, <2>5, <2>6
  <1> QED BY <1>8, <1>9, <1>7

\* Only the loop that closes the sinks goes on to a sink that is not the first.
LEMMA ClosesInOrder ==
    ASSUME TypeOK, [Next]_vars, ~cancelled', op'.at = "close", op'.sink > 1
    PROVE  \/ UNCHANGED <<pipes, op>>
           \/ CloseSink /\ op.sink < Len(sinks) /\ op'.sink = op.sink + 1
  <1>1. CASE UNCHANGED vars
    BY <1>1 DEF vars
  <1>2. CASE OpenSink \/ Yield \/ Write \/ WriteFull \/ Drain \/ Complete
    <2>1. CASE OpenSink
      BY <2>1 DEF OpenSink, Following, At
    <2>2. CASE Yield \/ Drain \/ Complete
      BY <2>2 DEF Yield, Drain, Complete, At
    <2>3. CASE Write
      BY <2>3 DEF Write, Following, At
    <2>4. CASE WriteFull
      BY <2>4 DEF WriteFull, Following, At
    <2> QED BY <1>2, <2>1, <2>2, <2>3, <2>4
  <1>3. CASE FlushSink
    BY <1>3 DEF FlushSink, Following, At
  <1>4. CASE Raise
    BY <1>4 DEF Raise, At
  <1>5. CASE CloseSink
    <2>1. op' = Following("close", op.sink, Left)
      BY <1>5 DEF CloseSink
    <2>2. CASE op.sink < Len(sinks)
      BY <1>5, <2>1, <2>2 DEF Following, At
    <2>3. CASE ~(op.sink < Len(sinks))
      BY <2>1, <2>3 DEF Following, Left, At
    <2> QED BY <2>2, <2>3
  <1>6. CASE Cancel
    BY <1>6 DEF Cancel
  <1> QED BY <1>1, <1>2, <1>3, <1>4, <1>5, <1>6 DEF Next


LEMMA OnceStep ==
    ASSUME TypeOK, TypeOK', TakenInv, BufInv, OnceInv, [Next]_vars
    PROVE  OnceInv'
  <1>1. sinks' = sinks /\ Positions' = Positions
    BY StepKinds
  <1> SUFFICES ASSUME ~cancelled', NEW i \in Positions, flawless'[i],
                      sinks[i] = "excel" => opened' = 1
               PROVE  OnceAt(i)'
    BY <1>1 DEF OnceInv
  <1>2. OnceAt(i)
    <2>1. ~cancelled /\ flawless[i]
      BY StaysFlawless
    <2>2. sinks[i] = "excel" => opened = 1
      BY LoadedStep
    <2> QED BY <2>1, <2>2 DEF OnceInv
  <1>3. Holds(Content(i)', Done(i)')
    <2>1. CASE (WriteFull \/ FlushSink) /\ i = op.sink
      BY <1>2, <2>1, OnceFlush
    <2>2. CASE CloseSink /\ i = op.sink
      BY <1>2, <2>2, OnceClose
    <2>3. CASE ~((WriteFull \/ FlushSink \/ CloseSink) /\ i = op.sink)
      BY <1>2, <2>3, OnceElsewhere
    <2> QED BY <2>1, <2>2, <2>3
  <1>4. ASSUME op'.at = "close", i < op'.sink
        PROVE  Pipe'.buf[i] = <<>>
    <2>1. i \in Nat /\ i >= 1 /\ Len(sinks) \in Nat /\ op'.sink \in Nat
      <3>1. op'.sink \in Positions'
        BY <1>4 DEF TypeOK, At
      <3> QED BY <1>1, <3>1, Setup DEF Positions
    <2>2. \/ UNCHANGED <<pipes, op>>
          \/ CloseSink /\ op.sink < Len(sinks) /\ op'.sink = op.sink + 1
      <3>1. op'.sink > 1
        BY <1>4, <2>1
      <3> QED BY <1>4, <3>1, ClosesInOrder
    <2>3. CASE UNCHANGED <<pipes, op>>
      BY <1>2, <1>4, <2>3 DEF OnceAt, Pipe
    <2>4. CASE CloseSink /\ op.sink < Len(sinks) /\ op'.sink = op.sink + 1
      <3> DEFINE n == Len(pipes)
      <3>1. /\ op.sink \in Positions /\ pipes # <<>> /\ Len(pipes') = n /\ op.at = "close"
            /\ \A k \in 1..Len(pipes') : i # op.sink => pipes'[k].buf[i] = pipes[k].buf[i]
        <4>1. op.at = "close" /\ op.sink \in Positions /\ pipes # <<>>
          BY <2>4, OpIs DEF CloseSink
        <4>2. Len(pipes') = n
          BY <2>4, CloseFacts
        <4>3. \A k \in 1..Len(pipes') : i # op.sink => pipes'[k].buf[i] = pipes[k].buf[i]
          BY <2>4, CloseFacts
        <4> QED BY <4>1, <4>2, <4>3
      <3>2. n \in 1..n /\ Pipe = pipes[n] /\ Pipe' = pipes'[n]
        BY <3>1, Setup DEF Pipe
      <3>3. CASE i = op.sink
        <4>1. pipes'[n].buf[i] = <<>>
          BY <1>2, <2>4, <3>1, <3>2, <3>3, OnceClose
        <4> QED BY <3>2, <4>1
      <3>4. CASE i # op.sink
        <4>1. i < op.sink
          BY <1>4, <2>1, <2>4, <3>1, <3>4 DEF Positions
        <4>2. Pipe.buf[i] = <<>>
          BY <1>2, <3>1, <4>1 DEF OnceAt
        <4> QED BY <3>1, <3>2, <3>4, <4>2
      <3> QED BY <3>3, <3>4
    <2> QED BY <2>2, <2>3, <2>4
  <1>5. ASSUME sinks[i] = "excel", Loaded(i)' \/ op'.at = "open"
        PROVE  store'[i] \in {<<>>, <<Old>>}
    <2>1. /\ Loaded(i) \/ op.at = "open"
          /\ ~(CloseSink /\ i = op.sink)
      BY <1>5, LoadedStep
    <2>2. store[i] \in {<<>>, <<Old>>}
      BY <1>2, <1>5, <2>1 DEF OnceAt
    <2>3. store'[i] = store[i]
      <3>1. CASE (WriteFull \/ FlushSink) /\ i = op.sink
        BY <1>2, <1>5, <3>1, OnceFlush
      <3>2. CASE ~((WriteFull \/ FlushSink \/ CloseSink) /\ i = op.sink)
        BY <3>2, Elsewhere
      <3> QED BY <2>1, <3>1, <3>2
    <2> QED BY <2>2, <2>3
  <1> QED BY <1>1, <1>3, <1>4, <1>5 DEF OnceAt

LEMMA OnceNow == TypeOK /\ BufInv /\ OnceInv => OnceUnlessFailed
  <1> SUFFICES ASSUME TypeOK, BufInv, OnceInv, op.at = "done", NEW i \in Positions,
                      flawless[i], ~cancelled, sinks[i] = "excel" => opened = 1
               PROVE  /\ Distinct(store[i])
                      /\ \A a \in Attempts : \A x \in 1..taken[a][i] : <<a, x>> \in ToSet(store[i])
    BY DEF OnceUnlessFailed
  <1>1. Holds(store[i], Done(i))
    <2>1. ~Loaded(i)
      BY DEF Loaded
    <2> QED BY <2>1 DEF OnceInv, OnceAt, Content
  <1>2. ASSUME NEW a \in Attempts, NEW x \in 1..taken[a][i]
        PROVE  <<a, x>> \in ToSet(store[i])
    <2>1. a \notin DOMAIN pipes
      BY OpIs
    <2>2. Flushed(a, i) = taken[a][i] /\ taken[a][i] \in Nat
      BY <2>1, WaitingIs
    <2>3. taken[a][i] <= MaxItems /\ MaxItems \in Nat
      <3>1. taken \in [Attempts -> [Positions -> 0..MaxItems]]
        BY DEF TypeOK
      <3> QED BY <3>1, Setup
    <2>4. x \in Items /\ x <= Flushed(a, i)
      BY <2>2, <2>3 DEF Items
    <2>5. <<a, x>> \in Done(i)
      BY <2>4 DEF Done
    <2> QED BY <1>1, <2>5 DEF Holds
  <1> QED BY <1>1, <1>2 DEF Holds

\* A sink of which no call failed holds each item it was given exactly once.
\* What its target and its rows hold is compared at each moment with what it
\* let go of by then.
THEOREM OnceCorrect == Spec => []OnceUnlessFailed
  <1> DEFINE I == TypeOK /\ TakenInv /\ BufInv /\ OnceInv
  <1>1. Init => I
    BY TypeInit, TakenInit, BufInit, OnceInit
  <1>2. I /\ [Next]_vars => I'
    BY TypeStep, TakenStep, BufStep, OnceStep
  <1>3. I => OnceUnlessFailed
    BY OnceNow
  <1> QED BY <1>1, <1>2, <1>3, PTL DEF Spec
=============================================================================
