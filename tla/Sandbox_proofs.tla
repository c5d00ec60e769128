--------------------------- MODULE Sandbox_proofs ---------------------------
(***************************************************************************)
(* Theorems about Sandbox for every size of batches and of the queue,      *)
(* every deadline and any number of items.                                 *)
(***************************************************************************)
EXTENDS Sandbox, TLAPS, SequenceTheorems, FiniteSetTheorems, FunctionTheorems

-----------------------------------------------------------------------------
(* Invariants.                                                             *)

Message == Batch \cup Notice

IsBatch(m) == m.type = "items"

\* The messages on their way, the oldest first.
Queue == pipe \o buffer

InMessage(x, m) == IsBatch(m) /\ m.lo < x /\ x <= m.hi

\* Batches are never empty nor too long, come in the order of their items and
\* behind what the generator has in hand; a notice is the last message.
QueueInv ==
    /\ Len(Queue) <= QueueSize
    /\ \A k \in 1..Len(Queue) :
          LET m == Queue[k]
          IN  \/ /\ IsBatch(m)
                 /\ to <= m.lo /\ m.lo < m.hi /\ m.hi <= m.lo + BatchSize /\ m.hi <= batched
              \/ /\ ~IsBatch(m)
                 /\ k = Len(Queue) /\ child \in {"exit", "dead"}
                 /\ how = IF m.type = "done" THEN "ok" ELSE "raised"
    /\ \A i, j \in 1..Len(Queue) :
          i < j /\ IsBatch(Queue[j]) => Queue[i].hi <= Queue[j].lo

ChildInv ==
    /\ batched <= scraped /\ scraped <= produced /\ scraped <= batched + BatchSize
    /\ mode = "simple" => scraped = produced
    /\ child = "start" => mode = "scrapling"
    /\ child = "crawl" => scraped < batched + BatchSize
    /\ child \in {"put", "flush"} => batched < scraped
    /\ child \in {"absent", "load"} => produced = 0
    /\ child = "start" => scraped = 0
    /\ child \in {"absent", "dead"} => buffer = <<>>

GenInv ==
    /\ at <= to /\ to <= batched /\ to < at + BatchSize
    /\ gen \in {"new", "read"} => at = to
    /\ gen = "new" => child = "absent"
    /\ child = "absent" => gen \in {"new", "raised"}
    /\ gen \in Ended => child \in {"absent", "dead"}

\* Where an item the spider has produced is, before it is yielded.
InHand(x) == at < x /\ x <= to

InQueue(x) == \E k \in 1..Len(Queue) : InMessage(x, Queue[k])

\* In the batch, or held by the spider: flushed is the batch alone.
InChild(x) ==
    /\ batched < x
    /\ \/ child \in {"start", "crawl", "put"} /\ x <= produced
       \/ child = "flush" /\ x <= scraped

Waits(x) == InHand(x) \/ InQueue(x) \/ InChild(x)

\* A child that may still put messages, or has put its last.
Reports ==
    \/ child \notin {"exit", "dead"}
    \/ \E k \in 1..Len(Queue) : ~IsBatch(Queue[k])

\* The balance of the items: what is lost waits nowhere, and as long as a
\* notice may come, what is neither delivered nor lost waits somewhere.
ItemInv ==
    /\ delivered \subseteq 1..at
    /\ lost \subseteq 1..produced
    /\ \A x \in lost : x \notin delivered /\ ~Waits(x)
    /\ Reports => \A x \in 1..produced : x \in delivered \/ x \in lost \/ Waits(x)

\* In both modes it is what has gone through the item loop that counts.
Outstanding == 1..scraped \ (delivered \cup lost)

SandboxInv == TypeOK /\ QueueInv /\ ChildInv /\ GenInv /\ ItemInv

-----------------------------------------------------------------------------
(* The queue.                                                              *)

\* The elements of a concatenation, told apart by where they come from.
LEMMA ConcatElements ==
    ASSUME NEW S, NEW s \in Seq(S), NEW t \in Seq(S)
    PROVE  /\ s \o t \in Seq(S)
           /\ Len(s) \in Nat /\ Len(t) \in Nat /\ Len(s \o t) = Len(s) + Len(t)
           /\ \A k \in 1..Len(s) : (s \o t)[k] = s[k]
           /\ \A j \in 1..Len(t) : (s \o t)[Len(s) + j] = t[j]
<1>1. /\ s \o t \in Seq(S) /\ Len(s \o t) = Len(s) + Len(t)
      /\ \A i \in 1..(Len(s) + Len(t)) : (s \o t)[i] = IF i <= Len(s) THEN s[i] ELSE t[i - Len(s)]
  BY ConcatProperties
<1>2. Len(s) \in Nat /\ Len(t) \in Nat
  BY LenProperties
<1> DEFINE m == Len(s)
           n == Len(t)
           c == s \o t
<1>3. /\ m \in Nat /\ n \in Nat
      /\ \A i \in 1..(m + n) : c[i] = IF i <= m THEN s[i] ELSE t[i - m]
  BY <1>1, <1>2
<1> HIDE DEF m, n, c
<1>4. ASSUME NEW k \in 1..m
      PROVE  c[k] = s[k]
  BY <1>3
<1>5. ASSUME NEW j \in 1..n
      PROVE  c[m + j] = t[j]
  <2>1. m + j \in 1..(m + n) /\ ~(m + j <= m) /\ (m + j) - m = j
    BY <1>3
  <2> QED
    BY <1>3, <2>1
<1> QED
  BY <1>1, <1>2, <1>4, <1>5 DEF m, n, c

\* The messages of the queue are those of the pipe and those of the buffer.
LEMMA QueueType ==
    ASSUME pipe \in Seq(Message), buffer \in Seq(Message)
    PROVE  /\ Queue \in Seq(Message) /\ Len(Queue) \in Nat /\ Len(pipe) \in Nat /\ Len(buffer) \in Nat
           /\ Len(Queue) = Len(pipe) + Len(buffer)
           /\ \A k \in 1..Len(pipe) : Queue[k] = pipe[k]
           /\ \A j \in 1..Len(buffer) : Queue[Len(pipe) + j] = buffer[j]
           /\ \A k \in 1..Len(Queue) :
                 /\ Queue[k] \in Message
                 /\ \/ k \in 1..Len(pipe)
                    \/ \E j \in 1..Len(buffer) : k = Len(pipe) + j
<1>1. /\ Queue \in Seq(Message) /\ Len(pipe) \in Nat /\ Len(buffer) \in Nat
      /\ Len(Queue) = Len(pipe) + Len(buffer)
      /\ \A k \in 1..Len(pipe) : Queue[k] = pipe[k]
      /\ \A j \in 1..Len(buffer) : Queue[Len(pipe) + j] = buffer[j]
  BY ConcatElements DEF Queue
<1>2. ASSUME NEW k \in 1..Len(Queue)
      PROVE  /\ Queue[k] \in Message
             /\ k \in 1..Len(pipe) \/ \E j \in 1..Len(buffer) : k = Len(pipe) + j
  <2>1. Queue[k] \in Message
    BY <1>1, ElementOfSeq
  <2>2. k \notin 1..Len(pipe) => k - Len(pipe) \in 1..Len(buffer) /\ k = Len(pipe) + (k - Len(pipe))
    BY <1>1
  <2> QED
    BY <2>1, <2>2
<1> QED
  BY <1>1, <1>2

\* A message that is put comes last.
LEMMA QueueOfPut ==
    ASSUME pipe \in Seq(Message), buffer \in Seq(Message), NEW m \in Message,
           pipe' = pipe, buffer' = Append(buffer, m)
    PROVE  /\ buffer' \in Seq(Message) /\ Len(Queue) \in Nat /\ Len(Queue') = Len(Queue) + 1
           /\ \A k \in 1..Len(Queue) : Queue'[k] = Queue[k]
           /\ Queue'[Len(Queue) + 1] = m
<1>1. /\ buffer' \in Seq(Message) /\ Len(buffer') = Len(buffer) + 1
      /\ \A k \in 1..Len(buffer) : buffer'[k] = buffer[k]
      /\ buffer'[Len(buffer) + 1] = m
  BY AppendProperties
<1>2. /\ Len(Queue') = Len(pipe) + Len(buffer')
      /\ \A k \in 1..Len(pipe) : Queue'[k] = pipe[k]
      /\ \A j \in 1..Len(buffer') : Queue'[Len(pipe) + j] = buffer'[j]
  BY <1>1, ConcatElements DEF Queue
<1>3. Len(pipe) \in Nat /\ Len(buffer) \in Nat /\ Len(Queue) = Len(pipe) + Len(buffer)
  BY QueueType
<1>4. ASSUME NEW k \in 1..Len(Queue)
      PROVE  Queue'[k] = Queue[k]
  <2>1. CASE k \in 1..Len(pipe)
    BY <1>2, <2>1, QueueType
  <2>2. ASSUME NEW j \in 1..Len(buffer), k = Len(pipe) + j
        PROVE  Queue'[k] = Queue[k]
    <3>1. j \in 1..Len(buffer')
      BY <1>1, <1>3
    <3> QED
      BY <1>1, <1>2, <2>2, <3>1, QueueType
  <2> QED
    BY <2>1, <2>2, QueueType
<1>5. Queue'[Len(Queue) + 1] = m
  <2>1. Len(buffer) + 1 \in 1..Len(buffer') /\ Len(pipe) + (Len(buffer) + 1) = Len(Queue) + 1
    BY <1>1, <1>3
  <2>2. Queue'[Len(pipe) + (Len(buffer) + 1)] = buffer'[Len(buffer) + 1]
    BY <1>2, <2>1
  <2> QED
    BY <1>1, <2>1, <2>2
<1>6. Len(Queue) \in Nat /\ Len(Queue') = Len(Queue) + 1
  BY <1>1, <1>2, <1>3
<1> QED
  BY <1>1, <1>4, <1>5, <1>6

\* The feeder changes where a message is, not the queue.
LEMMA QueueOfFeed ==
    ASSUME pipe \in Seq(Message), buffer \in Seq(Message), buffer # <<>>,
           pipe' = Append(pipe, Head(buffer)), buffer' = Tail(buffer)
    PROVE  pipe' \in Seq(Message) /\ buffer' \in Seq(Message) /\ Queue' = Queue
<1>1. Head(buffer) \in Message /\ buffer' \in Seq(Message)
  BY HeadTailProperties
<1>2. pipe' \in Seq(Message) /\ pipe' = pipe \o <<Head(buffer)>>
  BY <1>1, AppendProperties, AppendIsConcat
<1>3. <<Head(buffer)>> \in Seq(Message)
  BY <1>1
<1>4. buffer = <<Head(buffer)>> \o Tail(buffer)
  <2> DEFINE h == <<Head(buffer)>>
             c == h \o Tail(buffer)
  <2>1. /\ c \in Seq(Message) /\ Len(h) = 1 /\ h[1] = Head(buffer) /\ Len(c) = 1 + Len(Tail(buffer))
        /\ \A k \in 1..1 : c[k] = h[k]
        /\ \A j \in 1..Len(Tail(buffer)) : c[1 + j] = Tail(buffer)[j]
    BY <1>1, <1>3, ConcatElements
  <2>2. /\ Len(buffer) \in Nat /\ Len(Tail(buffer)) = Len(buffer) - 1 /\ Head(buffer) = buffer[1]
        /\ \A i \in 1..Len(Tail(buffer)) : Tail(buffer)[i] = buffer[i + 1]
    BY HeadTailProperties, LenProperties
  <2> DEFINE n == Len(buffer)
  <2>3. ASSUME NEW i \in 1..n
        PROVE  buffer[i] = c[i]
    <3>1. CASE i = 1
      BY <2>1, <2>2, <3>1
    <3>2. CASE i # 1
      <4>1. i - 1 \in 1..Len(Tail(buffer)) /\ 1 + (i - 1) = i /\ (i - 1) + 1 = i
        BY <2>2, <3>2
      <4> HIDE DEF c, n, h
      <4> QED
        BY <2>1, <2>2, <4>1
    <3> QED
      BY <3>1, <3>2
  <2>4. Len(buffer) = Len(c)
    BY <2>1, <2>2
  <2> QED
    BY <2>1, <2>3, <2>4, SeqEqual
<1>5. Queue' = (pipe \o <<Head(buffer)>>) \o Tail(buffer)
  BY <1>2 DEF Queue
<1>6. (pipe \o <<Head(buffer)>>) \o Tail(buffer) = pipe \o (<<Head(buffer)>> \o Tail(buffer))
  BY <1>1, <1>3, ConcatAssociative
<1>7. Queue' = Queue
  BY <1>4, <1>5, <1>6, Zenon DEF Queue
<1> QED
  BY <1>1, <1>2, <1>7

\* Messages leave the queue, in front, in the middle or at the end; h tells
\* where those that stay have been.
Thinned(h) ==
    /\ Len(Queue') \in Nat /\ Len(Queue') <= Len(Queue)
    /\ h \in [1..Len(Queue') -> 1..Len(Queue)]
    /\ \A i, j \in 1..Len(Queue') : i < j => h[i] < h[j]
    /\ \A i \in 1..Len(Queue') : Queue'[i] = Queue[h[i]]

\* The buffer is lost with the process.
LEMMA QueueOfDeath ==
    ASSUME pipe \in Seq(Message), buffer \in Seq(Message), pipe' = pipe, buffer' = <<>>
    PROVE  Thinned([i \in 1..Len(pipe) |-> i]) /\ Len(Queue') = Len(pipe)
<1>1. Queue' = pipe
  BY ConcatEmptySeq DEF Queue
<1>2. Len(pipe) \in Nat /\ Len(pipe) <= Len(Queue)
  BY QueueType
<1> DEFINE h == [i \in 1..Len(pipe) |-> i]
<1>3. /\ h \in [1..Len(pipe) -> 1..Len(Queue)]
      /\ \A i \in 1..Len(pipe) : h[i] = i /\ pipe[i] = Queue[i]
  BY <1>2, QueueType
<1> HIDE DEF h
<1>4. Thinned(h)
  BY <1>1, <1>2, <1>3 DEF Thinned
<1> QED
  BY <1>1, <1>4 DEF h

\* The feeder drops the first message of the buffer.
LEMMA QueueOfDrop ==
    ASSUME pipe \in Seq(Message), buffer \in Seq(Message), buffer # <<>>,
           pipe' = pipe, buffer' = Tail(buffer)
    PROVE  /\ buffer' \in Seq(Message) /\ Len(Queue') = Len(Queue) - 1
           /\ Thinned([i \in 1..Len(Queue') |-> IF i <= Len(pipe) THEN i ELSE i + 1])
<1>1. /\ Len(buffer) \in Nat \ {0} /\ Len(pipe) \in Nat /\ Len(Queue) = Len(pipe) + Len(buffer)
      /\ buffer' \in Seq(Message) /\ Len(buffer') = Len(buffer) - 1
      /\ \A k \in 1..Len(buffer') : buffer'[k] = buffer[k + 1]
  BY HeadTailProperties, EmptySeq, QueueType
<1>2. /\ Len(Queue') = Len(pipe) + Len(buffer')
      /\ \A k \in 1..Len(pipe) : Queue'[k] = pipe[k]
      /\ \A j \in 1..Len(buffer') : Queue'[Len(pipe) + j] = buffer'[j]
  BY <1>1, ConcatElements DEF Queue
<1> DEFINE h == [i \in 1..Len(Queue') |-> IF i <= Len(pipe) THEN i ELSE i + 1]
<1>3. Len(Queue') \in Nat /\ Len(Queue') = Len(Queue) - 1
  BY <1>1, <1>2
<1>4. ASSUME NEW k \in 1..Len(Queue')
      PROVE  Queue'[k] = Queue[h[k]]
  <2>1. CASE k <= Len(pipe)
    <3>1. k \in 1..Len(pipe) /\ h[k] = k
      BY <1>1, <1>3, <2>1
    <3> QED
      BY <1>2, <3>1, QueueType
  <2>2. CASE ~(k <= Len(pipe))
    <3> DEFINE j == k - Len(pipe)
    <3>1. /\ j \in 1..Len(buffer') /\ k = Len(pipe) + j /\ h[k] = Len(pipe) + (j + 1)
          /\ j + 1 \in 1..Len(buffer)
      BY <1>1, <1>2, <1>3, <2>2
    <3> HIDE DEF j, h
    <3>2. Queue'[k] = buffer[j + 1]
      BY <1>1, <1>2, <3>1
    <3>3. Queue[Len(pipe) + (j + 1)] = buffer[j + 1]
      BY <3>1, QueueType
    <3> QED
      BY <3>1, <3>2, <3>3
  <2> QED
    BY <2>1, <2>2
<1>5. /\ h \in [1..Len(Queue') -> 1..Len(Queue)]
      /\ \A i, j \in 1..Len(Queue') : i < j => h[i] < h[j]
  BY <1>1, <1>3
<1> HIDE DEF h
<1>6. Thinned(h)
  BY <1>1, <1>3, <1>4, <1>5 DEF Thinned
<1> QED
  BY <1>1, <1>3, <1>6 DEF h

\* The generator takes the first message; the buffer may be lost with the child.
LEMMA QueueOfReceive ==
    ASSUME pipe \in Seq(Message), buffer \in Seq(Message), pipe # <<>>,
           pipe' = Tail(pipe), buffer' \in {buffer, <<>>}
    PROVE  /\ pipe' \in Seq(Message) /\ Head(pipe) = Queue[1] /\ Len(Queue) >= 1
           /\ buffer' = buffer => Len(Queue') = Len(Queue) - 1
           /\ Thinned([i \in 1..Len(Queue') |-> i + 1])
<1>1. /\ Len(pipe) \in Nat \ {0} /\ Len(buffer) \in Nat /\ Len(Queue) = Len(pipe) + Len(buffer)
      /\ pipe' \in Seq(Message) /\ Len(pipe') = Len(pipe) - 1 /\ Head(pipe) = pipe[1]
      /\ \A k \in 1..Len(pipe') : pipe'[k] = pipe[k + 1]
  BY HeadTailProperties, EmptySeq, QueueType
<1>2. /\ buffer' \in Seq(Message) /\ Len(buffer') \in Nat /\ Len(buffer') <= Len(buffer)
      /\ buffer' # buffer => Len(buffer') = 0
  <2>1. CASE buffer' = buffer
    BY <1>1, <2>1
  <2>2. CASE buffer' = <<>>
    BY <1>1, <2>2, EmptySeq
  <2> QED
    BY <2>1, <2>2
<1>3. /\ Len(Queue') = Len(pipe') + Len(buffer')
      /\ \A k \in 1..Len(pipe') : Queue'[k] = pipe'[k]
      /\ \A j \in 1..Len(buffer') : Queue'[Len(pipe') + j] = buffer'[j]
  BY <1>1, <1>2, ConcatElements DEF Queue
<1>4. Len(Queue') \in Nat /\ Len(Queue') <= Len(Queue) - 1
  BY <1>1, <1>2, <1>3
<1>5. ASSUME NEW k \in 1..Len(Queue')
      PROVE  Queue'[k] = Queue[k + 1]
  <2>1. CASE k <= Len(pipe')
    <3>1. k \in 1..Len(pipe') /\ k + 1 \in 1..Len(pipe)
      BY <1>1, <1>4, <2>1
    <3> QED
      BY <1>1, <1>3, <3>1, QueueType
  <2>2. CASE ~(k <= Len(pipe'))
    <3> DEFINE j == k - Len(pipe')
    <3>1. j \in 1..Len(buffer') /\ k = Len(pipe') + j /\ k + 1 = Len(pipe) + j
      BY <1>1, <1>2, <1>3, <2>2
    <3>2. buffer' = buffer
      BY <1>2, <3>1
    <3> HIDE DEF j
    <3>3. Queue'[k] = buffer[j] /\ Queue[Len(pipe) + j] = buffer[j]
      BY <1>3, <3>1, <3>2, QueueType
    <3> QED
      BY <3>1, <3>3
  <2> QED
    BY <2>1, <2>2
<1>6. Queue[1] = Head(pipe) /\ Len(Queue) >= 1
  BY <1>1, QueueType
<1>7. Thinned([i \in 1..Len(Queue') |-> i + 1])
  BY <1>1, <1>4, <1>5 DEF Thinned
<1>8. buffer' = buffer => Len(Queue') = Len(Queue) - 1
  BY <1>1, <1>3
<1> QED
  BY <1>1, <1>6, <1>7, <1>8

\* Whatever leaves the queue, the rest keeps its order.  What the generator
\* then has in hand must come before the first that stays.
LEMMA ThinnedKeepsQueueInv ==
    ASSUME TypeOK, QueueInv, NEW h, Thinned(h),
           batched' = batched, how' = how, child \in {"exit", "dead"} => child' \in {"exit", "dead"},
           to' = to \/ \E k \in 1..Len(Queue) :
                          to' = Queue[k].hi /\ \A i \in 1..Len(Queue') : k < h[i]
    PROVE  QueueInv'
<1>1. /\ Len(Queue) \in Nat /\ Len(Queue) <= QueueSize
      /\ Len(Queue') \in Nat /\ Len(Queue') <= QueueSize
  BY QueueType, SandboxAssumption DEF QueueInv, Thinned, TypeOK, Message, SandboxAssumption
<1>2. ASSUME NEW k \in 1..Len(Queue')
      PROVE  LET m == Queue'[k]
             IN  \/ /\ IsBatch(m)
                    /\ to' <= m.lo /\ m.lo < m.hi /\ m.hi <= m.lo + BatchSize /\ m.hi <= batched'
                 \/ /\ ~IsBatch(m)
                    /\ k = Len(Queue') /\ child' \in {"exit", "dead"}
                    /\ how' = IF m.type = "done" THEN "ok" ELSE "raised"
  <2>1. h[k] \in 1..Len(Queue) /\ Queue'[k] = Queue[h[k]]
    BY DEF Thinned
  <2>2. CASE IsBatch(Queue[h[k]])
    <3>1. to' <= Queue[h[k]].lo
      BY <2>1, <2>2 DEF QueueInv
    <3> QED
      BY <2>1, <2>2, <3>1 DEF QueueInv
  <2>3. CASE ~IsBatch(Queue[h[k]])
    <3>1. h[k] = Len(Queue)
      BY <2>1, <2>3 DEF QueueInv
    <3>2. k = Len(Queue')
      <4>1. k # Len(Queue') => k + 1 \in 1..Len(Queue') /\ k < k + 1
        BY <1>1
      <4>2. k + 1 \in 1..Len(Queue') => h[k] < h[k + 1] /\ h[k + 1] \in 1..Len(Queue)
        BY <1>1 DEF Thinned
      <4> QED
        BY <1>1, <3>1, <4>1, <4>2
    <3> QED
      BY <2>1, <2>3, <3>2 DEF QueueInv
  <2> QED
    BY <2>2, <2>3
<1>3. ASSUME NEW i \in 1..Len(Queue'), NEW j \in 1..Len(Queue'), i < j, IsBatch(Queue'[j])
      PROVE  Queue'[i].hi <= Queue'[j].lo
  BY <1>3 DEF Thinned, QueueInv
<1> QED
  BY <1>1, <1>2, <1>3 DEF QueueInv

\* What waits in a thinned queue has waited before.
LEMMA ThinnedWaits ==
    ASSUME NEW h, Thinned(h)
    PROVE  /\ \A x : InQueue(x)' => \E i \in 1..Len(Queue') : InMessage(x, Queue[h[i]])
           /\ \A x : InQueue(x)' => InQueue(x)
  BY DEF Thinned, InQueue

\* Something that is put is a batch of what has been scraped since the last
\* one, or the notice at the end.
LEMMA PutKeepsQueueInv ==
    ASSUME TypeOK, QueueInv, ChildInv, GenInv, NEW m \in Message, Put(m), pipe' = pipe, to' = to, how' = how,
           \/ /\ m = [type |-> "items", lo |-> batched, hi |-> scraped] /\ batched < scraped
              /\ batched' = scraped
           \/ /\ ~IsBatch(m) /\ batched' = batched /\ child' = "exit"
              /\ how = IF m.type = "done" THEN "ok" ELSE "raised",
           child \notin {"exit", "dead"}
    PROVE  QueueInv'
<1>0. pipe \in Seq(Message) /\ buffer \in Seq(Message) /\ batched \in Nat /\ scraped \in Nat
  BY DEF TypeOK, Message
<1> DEFINE n == Len(Queue)
<1>1. /\ n \in Nat /\ Len(Queue') = n + 1 /\ Queue'[n + 1] = m
      /\ \A k \in 1..n : Queue'[k] = Queue[k]
  BY <1>0, QueueOfPut DEF Put
<1>2. Len(Queue') <= QueueSize
  BY <1>0, <1>1, QueueType, SandboxAssumption DEF Put, Room, SandboxAssumption
<1>3. \A k \in 1..n : /\ IsBatch(Queue[k]) /\ Queue[k] \in Batch
                      /\ to <= Queue[k].lo /\ Queue[k].lo < Queue[k].hi
                      /\ Queue[k].hi <= Queue[k].lo + BatchSize /\ Queue[k].hi <= batched
  BY <1>0, QueueType DEF QueueInv, Message, Notice, IsBatch
<1>4. batched <= batched' /\ batched' \in Nat
  BY <1>0
<1>5. ASSUME NEW k \in 1..n
      PROVE  /\ IsBatch(Queue'[k]) /\ to' <= Queue'[k].lo /\ Queue'[k].lo < Queue'[k].hi
             /\ Queue'[k].hi <= Queue'[k].lo + BatchSize /\ Queue'[k].hi <= batched'
  <2>1. Queue[k].lo \in Nat /\ Queue[k].hi \in Nat /\ Queue'[k] = Queue[k]
    BY <1>1, <1>3 DEF Batch, Items
  <2>2. Queue[k].hi <= batched'
    BY <1>0, <1>3, <1>4, <2>1
  <2> QED
    BY <1>3, <2>1, <2>2
<1>6. \/ /\ IsBatch(m)
         /\ to' <= m.lo /\ m.lo < m.hi /\ m.hi <= m.lo + BatchSize /\ m.hi <= batched'
      \/ /\ ~IsBatch(m)
         /\ child' \in {"exit", "dead"}
         /\ how' = IF m.type = "done" THEN "ok" ELSE "raised"
  BY <1>0, SandboxAssumption DEF IsBatch, ChildInv, GenInv, SandboxAssumption
<1>7. ASSUME NEW i \in 1..Len(Queue'), NEW j \in 1..Len(Queue'), i < j, IsBatch(Queue'[j])
      PROVE  Queue'[i].hi <= Queue'[j].lo
  <2>1. i \in 1..n
    BY <1>1, <1>7
  <2>2. CASE j \in 1..n
    BY <1>1, <1>7, <2>1, <2>2 DEF QueueInv
  <2>3. CASE j = n + 1
    <3>1. m.lo = batched
      BY <1>1, <1>7, <2>3 DEF IsBatch
    <3> QED
      BY <1>1, <1>3, <2>1, <2>3, <3>1
  <2> QED
    BY <1>1, <2>2, <2>3
<1> HIDE DEF n
<1>8. \A k \in 1..Len(Queue') : k \in 1..n \/ k = n + 1
  BY <1>1
<1> QED
  BY <1>1, <1>2, <1>5, <1>6, <1>7, <1>8 DEF QueueInv

\* The first message of the pipe is a batch that follows what is in hand, or a
\* notice and the only message.
LEMMA HeadOfPipe ==
    ASSUME TypeOK, QueueInv, pipe # <<>>
    PROVE  /\ Head(pipe) = Queue[1] /\ Len(Queue) \in Nat /\ 1 \in 1..Len(Queue)
           /\ Head(pipe) \in Message /\ Tail(pipe) \in Seq(Message)
           /\ \/ /\ IsBatch(Head(pipe)) /\ Head(pipe) \in Batch
                 /\ Head(pipe).lo \in Nat /\ Head(pipe).hi \in Nat
                 /\ to <= Head(pipe).lo /\ Head(pipe).lo < Head(pipe).hi
                 /\ Head(pipe).hi <= Head(pipe).lo + BatchSize /\ Head(pipe).hi <= batched
              \/ /\ ~IsBatch(Head(pipe)) /\ Len(Queue) = 1 /\ child \in {"exit", "dead"}
                 /\ Head(pipe).type \in {"done", "error"}
                 /\ how = IF Head(pipe).type = "done" THEN "ok" ELSE "raised"
<1>1. pipe \in Seq(Message) /\ buffer \in Seq(Message)
  BY DEF TypeOK, Message
<1>2. Head(pipe) = pipe[1] /\ Tail(pipe) \in Seq(Message) /\ Len(pipe) \in Nat \ {0}
  BY <1>1, HeadTailProperties, EmptySeq, LenProperties
<1>3. Head(pipe) = Queue[1] /\ Len(Queue) \in Nat /\ 1 \in 1..Len(Queue) /\ Head(pipe) \in Message
  <2>1. 1 \in 1..Len(pipe) /\ Len(buffer) \in Nat /\ Len(Queue) = Len(pipe) + Len(buffer)
    BY <1>1, <1>2, QueueType
  <2>2. 1 \in 1..Len(Queue)
    BY <1>2, <2>1
  <2> QED
    BY <1>1, <1>2, <2>1, <2>2, QueueType
<1>4. CASE IsBatch(Queue[1])
  <2>1. Queue[1] \in Batch
    BY <1>3, <1>4 DEF Message, Notice, IsBatch
  <2>2. Queue[1].lo \in Nat /\ Queue[1].hi \in Nat
    BY <2>1 DEF Batch, Items
  <2> QED
    BY <1>2, <1>3, <1>4, <2>1, <2>2 DEF QueueInv
<1>5. CASE ~IsBatch(Queue[1])
  <2>1. Queue[1].type \in {"done", "error"}
    BY <1>3, <1>5 DEF Message, Notice, IsBatch, Batch
  <2> QED
    BY <1>2, <1>3, <1>5, <2>1 DEF QueueInv
<1> QED
  BY <1>4, <1>5

\* What PutBatch puts.
LEMMA BatchToPut ==
    ASSUME TypeOK, batched < scraped
    PROVE  /\ [type |-> "items", lo |-> batched, hi |-> scraped] \in Batch
           /\ [type |-> "items", lo |-> batched, hi |-> scraped] \in Message
<1>1. scraped \in Items /\ batched \in 0..MaxItems
  BY SandboxAssumption DEF TypeOK, Items, SandboxAssumption
<1> QED
  BY <1>1 DEF Batch, Message

-----------------------------------------------------------------------------
(* Types.                                                                  *)

USE DEF childVars, genVars

LEMMA TypeStep ==
    ASSUME TypeOK, QueueInv, ChildInv, GenInv, [Next]_vars
    PROVE  TypeOK'
<1>0. /\ MaxItems \in Nat /\ Deadline \in Nat
      /\ pipe \in Seq(Message) /\ buffer \in Seq(Message)
  BY SandboxAssumption DEF SandboxAssumption, TypeOK, Message
<1>1. <<>> \in Seq(Message)
  OBVIOUS
<1>2. ASSUME NEW m \in Message, Put(m)
      PROVE  buffer' \in Seq(Message)
  BY <1>0, <1>2, AppendProperties DEF Put
<1>3. ASSUME NEW final \in Ended, Leave(final), pipe' \in Seq(Message), UNCHANGED <<at, to, delivered, clock>>
      PROVE  TypeOK'
  BY <1>1, <1>3 DEF TypeOK, Leave, Kill, Child, Gen, Ended, Message
<1>4. ASSUME ChildStep
      PROVE  TypeOK'
  <2>1. CASE Load
    BY <2>1 DEF TypeOK, Load, Child
  <2>2. CASE Scrape
    <3>1. produced' \in 0..MaxItems /\ scraped' \in 0..MaxItems
      BY <1>0, <2>2 DEF TypeOK, Scrape, ChildInv
    <3> QED
      BY <2>2, <3>1 DEF TypeOK, Scrape, Child
  <2>12. CASE Crawl
    BY <1>0, <2>12 DEF TypeOK, Crawl
  <2>13. ASSUME NEW end \in {"ok", "raised", "fatal"}, CrawlEnds(end)
        PROVE  TypeOK'
    <3>1. 1..produced \subseteq Items
      BY <1>0 DEF TypeOK, Items
    <3>2. lost' \in SUBSET Items
      BY <2>13, <3>1 DEF TypeOK, CrawlEnds
    <3> QED
      BY <2>13, <3>2 DEF TypeOK, CrawlEnds, Child
  <2>3. ASSUME PutBatch, child \in {"put", "flush"}
        PROVE  buffer' \in Seq(Message) /\ batched' \in 0..MaxItems
    <3>1. batched < scraped
      BY <2>3 DEF ChildInv
    <3> QED
      BY <1>2, <2>3, <3>1, BatchToPut DEF PutBatch, TypeOK
  <2>4. CASE PutFull
    BY <2>3, <2>4 DEF TypeOK, PutFull, Child, Message
  <2>5. ASSUME NEW end \in {"ok", "raised", "fatal"}, FinishCrawl(end)
        PROVE  TypeOK'
    <3>1. (batched + 1)..produced \subseteq Items /\ (scraped + 1)..produced \subseteq Items
      BY <1>0 DEF TypeOK, Items
    <3>2. lost' \in SUBSET Items
      BY <2>5, <3>1 DEF TypeOK, FinishCrawl
    <3> QED
      BY <2>5, <3>2 DEF TypeOK, FinishCrawl, Child
  <2>6. CASE Flush
    BY <2>3, <2>6 DEF TypeOK, Flush, Child, Message
  <2>7. CASE Report
    <3>1. [type |-> "done"] \in Message /\ [type |-> "error"] \in Message
      BY DEF Message, Notice
    <3>2. buffer' \in Seq(Message)
      BY <1>0, <1>2, <2>7, <3>1 DEF Report
    <3> QED
      BY <2>7, <3>2 DEF TypeOK, Report, Child, Message
  <2>8. CASE ExitChild
    BY <2>8 DEF TypeOK, ExitChild, Child
  <2>9. CASE Die
    BY <1>1, <2>9 DEF TypeOK, Die, Child, Message
  <2>10. CASE Feed
    <3>1. pipe' \in Seq(Message) /\ buffer' \in Seq(Message)
      BY <1>0, <2>10, QueueOfFeed DEF Feed
    <3> QED
      BY <2>10, <3>1 DEF TypeOK, Feed, Message
  <2>11. CASE FeedFails
    <3>1. Head(buffer) \in Message /\ Tail(buffer) \in Seq(Message)
      BY <1>0, <2>11, HeadTailProperties DEF FeedFails
    <3>2. Head(buffer) \in Batch
      BY <2>11, <3>1 DEF FeedFails, Message, Notice
    <3>3. (Head(buffer).lo + 1)..Head(buffer).hi \subseteq Items
      <4> DEFINE lo == Head(buffer).lo
                 hi == Head(buffer).hi
      <4>1. lo \in 0..MaxItems /\ hi \in 1..MaxItems
        BY <3>2 DEF Batch, Items
      <4> HIDE DEF lo, hi
      <4>2. (lo + 1)..hi \subseteq Items
        BY <1>0, <4>1 DEF Items
      <4> QED
        BY <4>2 DEF lo, hi
    <3>4. lost' \in SUBSET Items
      BY <2>11, <3>3 DEF FeedFails, TypeOK
    <3>5. buffer' \in Seq(Message)
      BY <1>1, <2>11, <3>1 DEF FeedFails
    <3> QED
      BY <2>11, <3>4, <3>5 DEF TypeOK, FeedFails, Message
  <2> QED
    BY <1>4, <2>1, <2>2, <2>4, <2>5, <2>6, <2>7, <2>8, <2>9, <2>10, <2>11, <2>12, <2>13 DEF ChildStep
<1>5. CASE BeginFails
  BY <1>5 DEF TypeOK, BeginFails, Gen
<1>6. CASE Begin
  BY <1>6 DEF TypeOK, Begin, Gen, Child
<1>7. CASE Receive
  <2>1. pipe' \in Seq(Message)
    BY <1>7, HeadOfPipe DEF Receive
  <2>2. ASSUME Head(pipe).type = "items", YieldItem(Head(pipe).lo + 1), to' = Head(pipe).hi, UNCHANGED childVars
        PROVE  TypeOK'
    <3>1. Head(pipe) \in Batch /\ Head(pipe).lo < Head(pipe).hi
      BY <1>7, <2>2, HeadOfPipe DEF Receive, IsBatch
    <3>2. Head(pipe).lo + 1 \in Items /\ Head(pipe).hi \in Items
      BY <1>0, <3>1 DEF Batch, Items
    <3>3. at' \in Items /\ to' \in Items /\ delivered' \in SUBSET Items
      BY <2>2, <3>2 DEF YieldItem, TypeOK
    <3>4. at' \in 0..MaxItems /\ to' \in 0..MaxItems
      BY <1>0, <3>3 DEF Items
    <3> QED
      BY <1>7, <2>1, <2>2, <3>3, <3>4 DEF TypeOK, YieldItem, Gen, Message, Receive
  <2> QED
    BY <1>3, <1>7, <2>1, <2>2 DEF Receive, Ended
<1>8. CASE ReadTimesOut
  BY <1>0, <1>3, <1>8 DEF ReadTimesOut, Ended
<1>9. CASE Ask
  <2>1. ASSUME at < to, YieldItem(at + 1), UNCHANGED childVars
        PROVE  TypeOK'
    <3>1. at + 1 \in Items /\ at + 1 \in 0..MaxItems
      BY <1>0, <2>1 DEF TypeOK, Items
    <3> QED
      BY <1>9, <2>1, <3>1 DEF TypeOK, YieldItem, Gen, Ask
  <2>2. ASSUME ReadOn, UNCHANGED <<at, delivered>>
        PROVE  TypeOK'
    <3>1. CASE Leave("timedOut")
      BY <1>0, <1>3, <1>9, <2>2, <3>1 DEF Ask, Ended
    <3>2. CASE gen' = "read" /\ UNCHANGED childVars
      BY <1>9, <2>2, <3>2 DEF TypeOK, Gen, Ask
    <3> QED
      BY <2>2, <3>1, <3>2 DEF ReadOn
  <2> QED
    BY <1>9, <2>1, <2>2 DEF Ask
<1>10. CASE Drop
  BY <1>10 DEF TypeOK, Drop, Gen
<1>11. CASE Finalise
  BY <1>0, <1>3, <1>11 DEF Finalise, Ended
<1>12. CASE CancelRead
  BY <1>0, <1>3, <1>12 DEF CancelRead, Ended
<1>13. CASE Tick
  BY <1>0, <1>13 DEF TypeOK, Tick
<1>14. CASE UNCHANGED vars
  BY <1>14 DEF TypeOK, vars
<1> QED
  BY <1>4, <1>5, <1>6, <1>7, <1>8, <1>9, <1>10, <1>11, <1>12, <1>13, <1>14
  DEF Next, GenStep, RunnerStep

-----------------------------------------------------------------------------
(* The child and the generator by themselves.                              *)

LEMMA ChildStepKeeps ==
    ASSUME TypeOK, ChildInv, GenInv, [Next]_vars
    PROVE  ChildInv'
<1>0. /\ BatchSize \in Nat \ {0} /\ produced \in Nat /\ scraped \in Nat /\ batched \in Nat
      /\ mode \in {"simple", "scrapling"}
  BY SandboxAssumption DEF SandboxAssumption, TypeOK
<1>1. ASSUME NEW final, Leave(final)
      PROVE  ChildInv'
  BY <1>0, <1>1 DEF ChildInv, Leave, Kill
<1>2. CASE Load
  BY <1>0, <1>2 DEF ChildInv, Load
<1>3. CASE Scrape
  BY <1>0, <1>3 DEF ChildInv, Scrape
<1>4. CASE PutFull
  BY <1>0, <1>4 DEF ChildInv, PutFull, PutBatch
<1>15. CASE Crawl
  BY <1>0, <1>15 DEF ChildInv, Crawl
<1>16. ASSUME NEW end \in {"ok", "raised", "fatal"}, CrawlEnds(end)
       PROVE  ChildInv'
  BY <1>0, <1>16 DEF ChildInv, CrawlEnds
<1>5. ASSUME NEW end \in {"ok", "raised", "fatal"}, FinishCrawl(end)
      PROVE  ChildInv'
  <2>1. UNCHANGED <<mode, batched, scraped, produced>> /\ child' \in {"report", "flush"}
    BY <1>5 DEF FinishCrawl
  <2>2. child' = "flush" => batched < scraped
    BY <1>0, <1>5 DEF FinishCrawl, ChildInv
  <2> QED
    BY <1>0, <2>1, <2>2 DEF ChildInv
<1>6. CASE Flush
  BY <1>0, <1>6 DEF ChildInv, Flush, PutBatch
<1>7. CASE Report
  BY <1>0, <1>7 DEF ChildInv, Report
<1>8. CASE ExitChild
  BY <1>0, <1>8 DEF ChildInv, ExitChild
<1>9. CASE Die
  BY <1>0, <1>9 DEF ChildInv, Die
<1>10. CASE Feed
  BY <1>0, <1>10 DEF ChildInv, Feed
<1>11. CASE FeedFails
  BY <1>0, <1>11 DEF ChildInv, FeedFails
<1>12. CASE Begin
  BY <1>12 DEF ChildInv, Begin, GenInv
<1>13. ASSUME UNCHANGED childVars
       PROVE  ChildInv'
  BY <1>13 DEF ChildInv
<1>14. CASE GenStep \/ RunnerStep \/ Tick \/ UNCHANGED vars
  BY <1>1, <1>12, <1>13, <1>14
  DEF GenStep, RunnerStep, BeginFails, Receive, ReadTimesOut, Finalise, Ask, ReadOn, Drop,
      CancelRead, Tick, vars
<1> QED
  BY <1>2, <1>3, <1>4, <1>5, <1>6, <1>7, <1>8, <1>9, <1>10, <1>11, <1>14, <1>15, <1>16 DEF Next, ChildStep

LEMMA GenStepKeeps ==
    ASSUME TypeOK, QueueInv, ChildInv, GenInv, [Next]_vars
    PROVE  GenInv'
<1>0. /\ BatchSize \in Nat \ {0} /\ produced \in Nat /\ scraped \in Nat /\ batched \in Nat
      /\ at \in Nat /\ to \in Nat
  BY SandboxAssumption DEF SandboxAssumption, TypeOK
<1>1. ASSUME NEW final \in Ended, Leave(final), UNCHANGED <<at, to>>
      PROVE  GenInv'
  BY <1>0, <1>1 DEF GenInv, Leave, Kill, Ended
<1>2. CASE ChildStep
  <2>1. UNCHANGED <<gen, at, to>> /\ batched' \in Nat /\ batched <= batched'
    BY <1>0, <1>2
    DEF ChildStep, Load, Crawl, CrawlEnds, Scrape, PutFull, FinishCrawl, Flush, Report, ExitChild, Die, Feed,
        FeedFails, PutBatch, ChildInv
  <2>2. child \notin {"absent", "dead"} \/ UNCHANGED child
    BY <1>2
    DEF ChildStep, Load, Crawl, CrawlEnds, Scrape, PutFull, FinishCrawl, Flush, Report, ExitChild, Die, Feed, FeedFails
  <2>3. child \notin {"absent", "dead"} => child' # "absent"
    BY <1>2
    DEF ChildStep, Load, Crawl, CrawlEnds, Scrape, PutFull, FinishCrawl, Flush, Report, ExitChild, Die, Feed, FeedFails
  <2> QED
    BY <1>0, <2>1, <2>2, <2>3 DEF GenInv
<1>3. CASE BeginFails
  BY <1>3 DEF GenInv, BeginFails, Ended
<1>4. CASE Begin
  BY <1>4 DEF GenInv, Begin, Ended
<1>5. CASE Receive
  <2>1. ASSUME Head(pipe).type = "items", YieldItem(Head(pipe).lo + 1), to' = Head(pipe).hi, UNCHANGED childVars
        PROVE  GenInv'
    <3>1. /\ Head(pipe).lo \in Nat /\ Head(pipe).hi \in Nat /\ Head(pipe).lo < Head(pipe).hi
          /\ Head(pipe).hi <= Head(pipe).lo + BatchSize /\ Head(pipe).hi <= batched
      BY <1>5, <2>1, HeadOfPipe DEF Receive, IsBatch
    <3>2. at' = Head(pipe).lo + 1
      BY <2>1 DEF YieldItem
    <3> DEFINE lo == Head(pipe).lo
               hi == Head(pipe).hi
    <3> HIDE DEF lo, hi
    <3>3. lo \in Nat /\ hi \in Nat /\ lo < hi /\ hi <= lo + BatchSize /\ hi <= batched /\ at' = lo + 1 /\ to' = hi
      BY <2>1, <3>1, <3>2 DEF lo, hi
    <3>4. at' <= to' /\ to' <= batched /\ to' < at' + BatchSize
      BY <1>0, <3>3
    <3> QED
      BY <1>5, <2>1, <3>4 DEF GenInv, YieldItem, Receive, Ended
  <2> QED
    BY <1>1, <1>5, <2>1 DEF Receive, Ended
<1>6. CASE Ask
  <2>1. CASE at < to /\ YieldItem(at + 1) /\ UNCHANGED childVars
    BY <1>0, <1>6, <2>1 DEF GenInv, YieldItem, Ask, Ended
  <2>2. CASE at = to /\ ReadOn /\ UNCHANGED <<at, delivered>>
    BY <1>0, <1>1, <1>6, <2>2 DEF GenInv, ReadOn, Ask, Ended
  <2> QED
    BY <1>6, <2>1, <2>2 DEF Ask
<1>7. CASE Drop
  BY <1>7 DEF GenInv, Drop, Ended
<1>8. CASE ReadTimesOut \/ Finalise \/ CancelRead
  BY <1>1, <1>8 DEF ReadTimesOut, Finalise, CancelRead, Ended
<1>9. CASE Tick \/ UNCHANGED vars
  BY <1>9 DEF GenInv, Tick, vars
<1> QED
  BY <1>2, <1>3, <1>4, <1>5, <1>6, <1>7, <1>8, <1>9 DEF Next, GenStep, RunnerStep

-----------------------------------------------------------------------------
(* The order of the queue.                                                 *)

\* A step that moves no message.
LEMMA SameQueue ==
    ASSUME TypeOK, QueueInv, UNCHANGED <<batched, how, to>>, Queue' = Queue,
           child \in {"exit", "dead"} => child' \in {"exit", "dead"}
    PROVE  QueueInv'
  BY DEF QueueInv

LEMMA QueueStep ==
    ASSUME TypeOK, QueueInv, ChildInv, GenInv, [Next]_vars
    PROVE  QueueInv'
<1>0. pipe \in Seq(Message) /\ buffer \in Seq(Message)
  BY DEF TypeOK, Message
<1>1. ASSUME UNCHANGED <<pipe, buffer>>
      PROVE  Queue' = Queue
  BY <1>1 DEF Queue
<1>2. ASSUME UNCHANGED <<pipe, batched, how, to>>, buffer' = <<>>,
             child \in {"exit", "dead"} => child' \in {"exit", "dead"}
      PROVE  QueueInv'
  BY <1>0, <1>2, QueueOfDeath, ThinnedKeepsQueueInv
<1>3. ASSUME NEW final, Leave(final), UNCHANGED <<pipe, to>>
      PROVE  QueueInv'
  BY <1>2, <1>3 DEF Leave, Kill
<1>4. CASE Crawl \/ Scrape \/ ExitChild
  BY <1>1, <1>4, SameQueue DEF Crawl, Scrape, ExitChild
\* The child has put no notice, so none tells how it ended.
<1>5. ASSUME Load \/ \E end \in {"ok", "raised", "fatal"} : CrawlEnds(end) \/ FinishCrawl(end)
      PROVE  QueueInv'
  BY <1>1, <1>5 DEF Load, CrawlEnds, FinishCrawl, QueueInv
<1>6. CASE PutFull \/ Flush
  <2>1. PutBatch /\ child \in {"put", "flush"} /\ UNCHANGED <<pipe, to, how, scraped>>
    BY <1>6 DEF PutFull, Flush
  <2>2. batched < scraped
    BY <2>1 DEF ChildInv
  <2> QED
    BY <2>1, <2>2, BatchToPut, PutKeepsQueueInv DEF PutBatch
<1>7. CASE Report
  <2>1. [type |-> "done"] \in Message /\ [type |-> "error"] \in Message
    BY DEF Message, Notice
  <2>2. CASE UNCHANGED buffer
    BY <1>1, <1>7, <2>2, SameQueue DEF Report
  <2>3. CASE how = "ok" /\ Put([type |-> "done"])
    BY <1>7, <2>1, <2>3, PutKeepsQueueInv DEF Report, IsBatch
  <2>4. CASE how = "raised" /\ Put([type |-> "error"])
    BY <1>7, <2>1, <2>4, PutKeepsQueueInv DEF Report, IsBatch
  <2> QED
    BY <1>7, <2>2, <2>3, <2>4 DEF Report
<1>8. CASE Die
  BY <1>2, <1>8 DEF Die
<1>9. CASE Feed
  BY <1>0, <1>9, QueueOfFeed, SameQueue DEF Feed
<1>10. CASE FeedFails
  <2>1. CASE buffer' = <<>>
    BY <1>2, <1>10, <2>1 DEF FeedFails
  <2>2. CASE buffer' = Tail(buffer)
    BY <1>0, <1>10, <2>2, QueueOfDrop, ThinnedKeepsQueueInv DEF FeedFails
  <2> QED
    BY <1>10, <2>1, <2>2 DEF FeedFails
<1>11. CASE BeginFails \/ Drop \/ Tick \/ UNCHANGED vars
  BY <1>1, <1>11, SameQueue DEF BeginFails, Drop, Tick, vars
<1>12. CASE Begin
  BY <1>1, <1>12, SameQueue DEF Begin, GenInv
<1>13. CASE Receive
  <2>1. buffer' \in {buffer, <<>>} /\ UNCHANGED <<batched, how>> /\ child' \in {child, "dead"}
    BY <1>13 DEF Receive, Leave, Kill
  <2> DEFINE h == [i \in 1..Len(Queue') |-> i + 1]
  <2>2. Thinned(h) /\ Head(pipe) = Queue[1]
    BY <1>0, <1>13, <2>1, QueueOfReceive DEF Receive
  <2>3. to' = to \/ to' = Queue[1].hi
    BY <1>13, <2>2 DEF Receive
  <2>4. 1 \in 1..Len(Queue) /\ \A i \in 1..Len(Queue') : 1 < h[i]
    BY <1>13, <2>2, HeadOfPipe DEF Receive
  <2> HIDE DEF h
  <2> QED
    BY <2>1, <2>2, <2>3, <2>4, ThinnedKeepsQueueInv
<1>14. CASE Ask
  <2>1. CASE UNCHANGED childVars
    BY <1>1, <1>14, <2>1, SameQueue DEF Ask
  <2>2. CASE Leave("timedOut")
    BY <1>3, <1>14, <2>2 DEF Ask
  <2> QED
    BY <1>14, <2>1, <2>2 DEF Ask, ReadOn
<1>15. CASE ReadTimesOut \/ Finalise \/ CancelRead
  BY <1>3, <1>15 DEF ReadTimesOut, Finalise, CancelRead
<1> QED
  BY <1>4, <1>5, <1>6, <1>7, <1>8, <1>9, <1>10, <1>11, <1>12, <1>13, <1>14, <1>15
  DEF Next, ChildStep, GenStep, RunnerStep

-----------------------------------------------------------------------------
(* The balance of the items.                                               *)

\* No item is yielded, lost or produced, and those that wait go on waiting as
\* long as a notice may come.
LEMMA ItemsKept ==
    ASSUME ItemInv, UNCHANGED <<delivered, lost, produced, at>>,
           \A x : Waits(x)' => Waits(x),
           Reports' => Reports /\ \A x : Waits(x) => Waits(x)'
    PROVE  ItemInv'
  BY DEF ItemInv

\* The same for a step that leaves the queue as it is.
LEMMA ItemsKeptWithQueue ==
    ASSUME ItemInv, UNCHANGED <<delivered, lost, produced, at, to>>, Queue' = Queue,
           \A x : InChild(x)' <=> InChild(x),
           Reports' => Reports
    PROVE  ItemInv'
<1>1. \A x : InQueue(x)' <=> InQueue(x)
  BY DEF InQueue
<1>2. \A x : InHand(x)' <=> InHand(x)
  BY DEF InHand
<1> QED
  BY <1>1, <1>2, ItemsKept DEF Waits

\* When the child dies, a notice that is in the pipe has nothing behind it.
LEMMA ItemsOfDeath ==
    ASSUME TypeOK, QueueInv, ItemInv, UNCHANGED <<delivered, lost, produced, at, to, pipe>>,
           buffer' = <<>>, child' = "dead"
    PROVE  ItemInv'
<1>0. pipe \in Seq(Message) /\ buffer \in Seq(Message)
  BY DEF TypeOK, Message
<1>1. \A x : InQueue(x)' => InQueue(x)
  BY <1>0, QueueOfDeath, ThinnedWaits
<1>2. \A x : InHand(x)' <=> InHand(x)
  BY DEF InHand
<1>3. \A x : ~InChild(x)'
  BY DEF InChild
<1>4. ASSUME Reports'
      PROVE  Queue' = Queue /\ child \in {"exit", "dead"}
  <2>1. Queue' = pipe /\ Len(pipe) \in Nat /\ Len(buffer) \in Nat
    BY <1>0, ConcatEmptySeq, LenProperties DEF Queue
  <2>2. PICK k \in 1..Len(pipe) : ~IsBatch(pipe[k])
    BY <1>4, <2>1 DEF Reports
  <2>3. Len(Queue) = Len(pipe) + Len(buffer) /\ Queue[k] = pipe[k]
    BY <1>0, QueueType
  <2>4. k \in 1..Len(Queue)
    BY <2>1, <2>3
  <2>5. k = Len(Queue) /\ child \in {"exit", "dead"}
    BY <2>2, <2>3, <2>4 DEF QueueInv
  <2>6. Len(buffer) = 0
    BY <2>1, <2>3, <2>5
  <2>7. buffer = <<>>
    BY <1>0, <2>6, EmptySeq
  <2> QED
    BY <2>5, <2>7 DEF Queue
<1>5. Reports' => Reports /\ \A x : Waits(x) => Waits(x)'
  BY <1>2, <1>4 DEF Reports, Waits, InQueue, InChild
<1> QED
  BY <1>1, <1>2, <1>3, <1>5, ItemsKept DEF Waits

\* A batch goes from the child to the end of the queue.
LEMMA ItemsOfPut ==
    ASSUME TypeOK, QueueInv, ChildInv, ItemInv, PutBatch,
           \/ child = "put" /\ child' = "crawl"
           \/ child = "flush" /\ child' = "report",
           UNCHANGED <<delivered, lost, produced, scraped, at, to, pipe>>
    PROVE  ItemInv'
<1>0. /\ pipe \in Seq(Message) /\ buffer \in Seq(Message)
      /\ batched \in Nat /\ scraped \in Nat /\ produced \in Nat
      /\ batched < scraped /\ scraped <= produced
  BY DEF TypeOK, Message, ChildInv
<1> DEFINE n == Len(Queue)
           m == [type |-> "items", lo |-> batched, hi |-> scraped]
<1>1. /\ n \in Nat /\ Len(Queue') = n + 1 /\ Queue'[n + 1] = m
      /\ \A k \in 1..n : Queue'[k] = Queue[k]
  BY <1>0, BatchToPut, QueueOfPut DEF PutBatch, Put
<1>2. \A x \in 1..produced : InChild(x) <=> InMessage(x, m) \/ InChild(x)'
  BY <1>0 DEF InChild, InMessage, IsBatch, PutBatch
<1> HIDE DEF m, n
<1>3. 1..Len(Queue') = (1..n) \cup {n + 1}
  BY <1>1
<1>4. \A x : InQueue(x)' <=> InQueue(x) \/ InMessage(x, m)
  BY <1>1, <1>3 DEF InQueue, n
<1>5. \A x : InHand(x)' <=> InHand(x)
  BY DEF InHand
<1>6. \A x \in 1..produced : Waits(x)' <=> Waits(x)
  BY <1>2, <1>4, <1>5 DEF Waits
<1>7. Reports
  BY DEF Reports
<1> QED
  BY <1>6, <1>7 DEF ItemInv

\* The feeder drops a batch: its items can be nowhere else.
LEMMA ItemsOfFeedFails ==
    ASSUME TypeOK, QueueInv, ChildInv, GenInv, ItemInv, FeedFails
    PROVE  ItemInv'
<1>0. /\ pipe \in Seq(Message) /\ buffer \in Seq(Message) /\ buffer # <<>>
      /\ batched \in Nat /\ scraped \in Nat /\ produced \in Nat /\ at \in Nat /\ to \in Nat
      /\ Len(pipe) \in Nat /\ Len(Queue) \in Nat
  BY QueueType DEF TypeOK, Message, FeedFails
<1> DEFINE d == Len(pipe) + 1
           m == Head(buffer)
           Dropped == (m.lo + 1)..m.hi
<1>1. d \in 1..Len(Queue) /\ Queue[d] = m /\ d = Len(pipe) + 1
  <2>1. Len(buffer) \in Nat \ {0} /\ Head(buffer) = buffer[1]
    BY <1>0, EmptySeq, LenProperties, HeadTailProperties
  <2>2. 1 \in 1..Len(buffer)
    BY <2>1
  <2>3. Queue[d] = m /\ Len(Queue) = Len(pipe) + Len(buffer)
    BY <1>0, <2>1, <2>2, QueueType
  <2> QED
    BY <1>0, <2>1, <2>3
<1>2. IsBatch(m) /\ lost' = lost \cup Dropped /\ UNCHANGED <<delivered, produced, scraped, batched, at, to, child>>
  BY DEF FeedFails, IsBatch
<1>3. m \in Batch
  <2>1. Queue[d] \in Message
    BY <1>0, <1>1, QueueType
  <2> QED
    BY <1>1, <1>2, <2>1 DEF Message, Notice, IsBatch
<1>4. m.lo \in Nat /\ m.hi \in Nat /\ to <= m.lo /\ m.lo < m.hi /\ m.hi <= batched
  BY <1>1, <1>2, <1>3 DEF QueueInv, Batch, Items
<1> DEFINE h == [i \in 1..Len(Queue') |-> IF buffer' = <<>> \/ i < d THEN i ELSE i + 1]
<1>5. Thinned(h) /\ \A i \in 1..Len(Queue') : h[i] # d
  <2>1. CASE buffer' = <<>>
    <3>1. Thinned([i \in 1..Len(pipe) |-> i]) /\ Len(Queue') = Len(pipe)
      BY <1>0, <2>1, QueueOfDeath DEF FeedFails
    <3>2. h = [i \in 1..Len(pipe) |-> i]
      BY <2>1, <3>1
    <3>3. \A i \in 1..Len(Queue') : h[i] # d
      BY <1>0, <2>1, <3>1
    <3> HIDE DEF h
    <3> QED
      BY <3>1, <3>2, <3>3
  <2>2. CASE buffer' # <<>>
    <3>1. Thinned([i \in 1..Len(Queue') |-> IF i <= Len(pipe) THEN i ELSE i + 1]) /\ Len(Queue') \in Nat
      BY <1>0, <2>2, QueueOfDrop DEF FeedFails, Thinned
    <3>2. \A i \in 1..Len(Queue') : i < d <=> i <= Len(pipe)
      BY <1>0, <3>1
    <3>3. h = [i \in 1..Len(Queue') |-> IF i <= Len(pipe) THEN i ELSE i + 1]
      BY <2>2, <3>2
    <3>4. \A i \in 1..Len(Queue') : h[i] # d
      BY <1>0, <2>2, <3>1
    <3> HIDE DEF h
    <3> QED
      BY <3>1, <3>3, <3>4
  <2> QED
    BY <2>1, <2>2
<1> HIDE DEF m, h, d
<1>6. ASSUME NEW x \in Dropped
      PROVE  /\ x \in Nat /\ m.lo < x /\ x <= m.hi /\ x \in 1..produced
             /\ InQueue(x) /\ x \notin delivered /\ ~InHand(x) /\ ~InChild(x)
  <2>1. x \in Nat /\ m.lo < x /\ x <= m.hi
    BY <1>4
  <2>2. x \in 1..produced /\ ~(x <= at) /\ ~(x <= to) /\ ~(batched < x)
    BY <1>0, <1>4, <2>1 DEF ChildInv, GenInv
  <2>3. InQueue(x)
    BY <1>1, <1>2, <2>1 DEF InQueue, InMessage
  <2> QED
    BY <2>1, <2>2, <2>3 DEF ItemInv, InHand, InChild
<1>7. ASSUME NEW x \in Dropped, NEW k \in 1..Len(Queue), k # d, InMessage(x, Queue[k])
      PROVE  FALSE
  <2>1. IsBatch(Queue[k]) /\ Queue[k].lo < x /\ x <= Queue[k].hi
    BY <1>7 DEF InMessage
  <2>2. Queue[k] \in Message
    BY <1>0, QueueType
  <2>3. Queue[k] \in Batch
    BY <2>1, <2>2 DEF Message, Notice, IsBatch
  <2>4. Queue[k].lo \in Nat /\ Queue[k].hi \in Nat
    BY <2>3 DEF Batch, Items
  <2>5. CASE k < d
    <3>1. Queue[k].hi <= m.lo
      BY <1>1, <1>2, <2>5 DEF QueueInv
    <3> QED
      BY <1>4, <1>6, <2>1, <2>4, <3>1
  <2>6. CASE d < k
    <3>1. m.hi <= Queue[k].lo
      BY <1>1, <1>2, <2>1, <2>6 DEF QueueInv
    <3> QED
      BY <1>4, <1>6, <2>1, <2>4, <3>1
  <2> QED
    BY <1>0, <1>1, <1>7, <2>5, <2>6
<1>8. \A x : InQueue(x)' => InQueue(x)
  BY <1>5, ThinnedWaits
<1>9. \A x \in Dropped : ~InQueue(x)'
  <2> SUFFICES ASSUME NEW x \in Dropped, InQueue(x)'
               PROVE  FALSE
    OBVIOUS
  <2>1. PICK i \in 1..Len(Queue') : InMessage(x, Queue[h[i]])
    BY <1>5, ThinnedWaits
  <2>2. h[i] \in 1..Len(Queue) /\ h[i] # d
    BY <1>5 DEF Thinned
  <2> QED
    BY <1>7, <2>1, <2>2
<1>10. \A x : (InHand(x)' <=> InHand(x)) /\ (InChild(x)' <=> InChild(x))
  BY <1>2 DEF InHand, InChild
<1>11. \A x \in lost' : x \notin delivered' /\ ~Waits(x)'
  BY <1>2, <1>6, <1>8, <1>9, <1>10 DEF ItemInv, Waits
\* A notice would have to be the last message, behind the batch.
<1>12. Reports' => child \notin {"exit", "dead"}
  <2> SUFFICES ASSUME Reports', child \in {"exit", "dead"}
               PROVE  FALSE
    OBVIOUS
  <2>1. child = "exit" /\ buffer' = <<>> /\ pipe' = pipe
    BY DEF FeedFails
  <2>2. Queue' = pipe
    BY <1>0, <2>1, ConcatEmptySeq DEF Queue
  <2>3. PICK k \in 1..Len(pipe) : ~IsBatch(pipe[k])
    BY <1>2, <2>1, <2>2 DEF Reports
  <2>4. Queue[k] = pipe[k] /\ k \in 1..Len(Queue) /\ k < d
    BY <1>0, <1>1, QueueType
  <2>5. k = Len(Queue)
    BY <2>3, <2>4 DEF QueueInv
  <2> QED
    BY <1>0, <1>1, <2>4, <2>5
<1>13. ASSUME Reports', NEW x \in 1..produced, InQueue(x), x \notin Dropped
       PROVE  InQueue(x)'
  <2>1. PICK k \in 1..Len(Queue) : InMessage(x, Queue[k])
    BY <1>13 DEF InQueue
  <2>2. k # d
    BY <1>1, <1>4, <1>13, <2>1 DEF InMessage, m
  <2>3. buffer' = Tail(buffer) /\ pipe' = pipe
    BY <1>12, <1>13 DEF FeedFails
  <2> DEFINE g == [i \in 1..Len(Queue') |-> IF i <= Len(pipe) THEN i ELSE i + 1]
  <2>4. Thinned(g) /\ Len(Queue') = Len(Queue) - 1
    BY <1>0, <2>3, QueueOfDrop
  <2> DEFINE i == IF k < d THEN k ELSE k - 1
  <2>5. i \in 1..Len(Queue') /\ g[i] = k
    BY <1>0, <1>1, <2>2, <2>4
  <2> HIDE DEF g, i
  <2>6. Queue'[i] = Queue[k]
    BY <2>4, <2>5 DEF Thinned
  <2> QED
    BY <2>1, <2>5, <2>6 DEF InQueue
<1> QED
  <2>1. ASSUME Reports', NEW x \in 1..produced
        PROVE  x \in delivered \/ x \in lost' \/ Waits(x)'
    <3>1. Reports
      BY <1>12, <2>1 DEF Reports
    <3> QED
      BY <1>2, <1>10, <1>13, <2>1, <3>1 DEF ItemInv, Waits
  <2>2. lost' \subseteq 1..produced'
    BY <1>2, <1>6 DEF ItemInv
  <2> QED
    BY <1>2, <1>11, <2>1, <2>2 DEF ItemInv

\* An item that is yielded is the next of those in hand or in the first batch.
LEMMA ItemsOfYield ==
    ASSUME TypeOK, GenInv, ItemInv, NEW n \in 1..produced, YieldItem(n), Waits(n), at < n,
           UNCHANGED <<lost, produced>>, Reports' => Reports,
           \A x \in 1..produced : Waits(x)' => Waits(x) /\ n < x,
           \A x \in 1..produced : Waits(x) => x = n \/ Waits(x)'
    PROVE  ItemInv'
<1>1. at \in Nat /\ produced \in Nat /\ at' = n /\ delivered' = delivered \cup {n}
  BY DEF TypeOK, YieldItem
<1>2. delivered' \subseteq 1..at'
  BY <1>1 DEF ItemInv
<1>3. \A x \in lost' : x \notin delivered' /\ ~Waits(x)'
  BY <1>1 DEF ItemInv
<1> QED
  BY <1>1, <1>2, <1>3 DEF ItemInv

LEMMA ItemsOfReceive ==
    ASSUME TypeOK, QueueInv, ChildInv, GenInv, ItemInv, Receive
    PROVE  /\ ItemInv'
           /\ gen' \in Ended => delivered = 1..produced \ lost
<1>0. /\ pipe \in Seq(Message) /\ buffer \in Seq(Message) /\ pipe # <<>> /\ pipe' = Tail(pipe)
      /\ batched \in Nat /\ scraped \in Nat /\ produced \in Nat /\ at \in Nat /\ to \in Nat
      /\ at = to /\ batched <= scraped /\ scraped <= produced
  BY DEF TypeOK, Message, Receive, GenInv, ChildInv
<1> DEFINE m == Head(pipe)
           h == [i \in 1..Len(Queue') |-> i + 1]
<1>1. m = Queue[1] /\ 1 \in 1..Len(Queue) /\ Len(Queue) \in Nat
  BY <1>0, HeadOfPipe
<1>2. buffer' \in {buffer, <<>>}
  BY DEF Receive, Leave, Kill
<1>3. Thinned(h) /\ (buffer' = buffer => Len(Queue') = Len(Queue) - 1)
  BY <1>0, <1>2, QueueOfReceive
<1>4. \A x : InQueue(x)' => InQueue(x)
  BY <1>3, ThinnedWaits
<1>5. CASE IsBatch(m)
  <2>1. /\ m.lo \in Nat /\ m.hi \in Nat /\ to <= m.lo /\ m.lo < m.hi /\ m.hi <= batched
    BY <1>0, <1>5, HeadOfPipe
  <2>2. YieldItem(m.lo + 1) /\ to' = m.hi /\ UNCHANGED childVars
    BY <1>5 DEF Receive, IsBatch
  <2> DEFINE n == m.lo + 1
  <2>3. n \in 1..produced /\ at < n /\ InMessage(n, m)
    BY <1>0, <1>5, <2>1 DEF InMessage
  <2>4. InQueue(n) /\ at' = n
    BY <1>1, <2>2, <2>3 DEF InQueue, YieldItem
  <2>5. \A x : InChild(x)' <=> InChild(x)
    BY <2>2 DEF InChild
  <2>6. \A x \in Int : InHand(x)' <=> InMessage(x, m) /\ n < x
    BY <1>5, <2>1, <2>2, <2>4 DEF InHand, InMessage
  <2> HIDE DEF m, h, n
  <2>7. \A x \in 1..produced : ~InHand(x)
    BY <1>0 DEF InHand
  <2>8. ASSUME NEW i \in 1..Len(Queue')
        PROVE  i + 1 \in 1..Len(Queue) /\ 1 < i + 1 /\ Queue'[i] = Queue[i + 1]
    BY <1>1, <1>3 DEF Thinned, h
  <2>9. ASSUME NEW x \in 1..produced, InQueue(x)'
        PROVE  n < x
    <3>1. PICK i \in 1..Len(Queue') : InMessage(x, Queue'[i])
      BY <2>9 DEF InQueue
    <3> DEFINE k == i + 1
    <3>2. k \in 1..Len(Queue) /\ 1 < k /\ Queue'[i] = Queue[k]
      BY <2>8
    <3> HIDE DEF k
    <3>3. m.hi <= Queue[k].lo /\ Queue[k].lo < x /\ IsBatch(Queue[k])
      BY <1>1, <3>1, <3>2 DEF QueueInv, InMessage
    <3>4. Queue[k] \in Batch
      BY <1>0, <3>2, <3>3, QueueType DEF Message, Notice, IsBatch
    <3>5. Queue[k].lo \in Nat
      BY <3>4 DEF Batch
    <3> QED
      BY <2>1, <3>3, <3>5 DEF n
  <2>10. ASSUME NEW x \in 1..produced, InQueue(x)
         PROVE  x = n \/ InHand(x)' \/ InQueue(x)'
    <3>1. PICK k \in 1..Len(Queue) : InMessage(x, Queue[k])
      BY <2>10 DEF InQueue
    <3>2. CASE k = 1
      BY <1>1, <2>1, <2>6, <3>1, <3>2 DEF InMessage, n
    <3>3. CASE k # 1
      <4>1. k - 1 \in 1..Len(Queue') /\ (k - 1) + 1 = k
        BY <1>1, <1>3, <2>2, <3>3
      <4>2. Queue'[k - 1] = Queue[k]
        BY <2>8, <4>1
      <4> QED
        BY <3>1, <4>1, <4>2 DEF InQueue
    <3> QED
      BY <3>2, <3>3
  <2>11. Reports' => Reports
    BY <2>2, <2>8 DEF Reports
  <2>12. \A x \in 1..produced : Waits(x)' => Waits(x) /\ n < x
    <3> SUFFICES ASSUME NEW x \in 1..produced, Waits(x)'
                 PROVE  Waits(x) /\ n < x
      OBVIOUS
    <3>1. CASE InHand(x)'
      BY <1>1, <2>6, <3>1 DEF Waits, InQueue
    <3>2. CASE InQueue(x)'
      BY <1>4, <2>9, <3>2 DEF Waits
    <3>3. CASE InChild(x)'
      BY <1>0, <2>1, <2>5, <3>3 DEF Waits, InChild, n
    <3> QED
      BY <3>1, <3>2, <3>3 DEF Waits
  <2>13. \A x \in 1..produced : Waits(x) => x = n \/ Waits(x)'
    BY <2>5, <2>7, <2>10 DEF Waits
  <2>14. UNCHANGED <<lost, produced>> /\ YieldItem(n) /\ n \in 1..produced /\ at < n /\ Waits(n)
    BY <2>2, <2>3, <2>4 DEF n, Waits
  <2>15. ItemInv'
    BY <2>11, <2>12, <2>13, <2>14, ItemsOfYield
  <2>16. gen' \notin Ended
    BY <2>2 DEF YieldItem, Ended
  <2> QED
    BY <2>15, <2>16
<1>6. CASE ~IsBatch(m)
  <2>1. Len(Queue) = 1 /\ child \in {"exit", "dead"}
    BY <1>0, <1>6, HeadOfPipe
  <2>2. /\ child' = "dead" /\ buffer' = <<>> /\ UNCHANGED <<produced, lost, delivered, at, to>>
    BY <1>6 DEF Receive, Leave, Kill, IsBatch
  <2>3. Queue[1] = m /\ \A k \in 1..Len(Queue) : k = 1
    BY <1>1, <2>1
  <2>4. \A x : ~InQueue(x)
    BY <1>6, <2>3 DEF InQueue, InMessage
  <2>5. \A x \in 1..produced : ~InHand(x) /\ ~InHand(x)' /\ ~InChild(x) /\ ~InChild(x)'
    BY <1>0, <2>1, <2>2 DEF InHand, InChild
  <2>6. \A x \in 1..produced : ~Waits(x) /\ ~Waits(x)'
    BY <1>4, <2>4, <2>5 DEF Waits
  <2>7. Reports
    BY <1>1, <1>6 DEF Reports
  <2>8. \A x \in 1..produced : x \in delivered \/ x \in lost
    BY <2>6, <2>7 DEF ItemInv
  <2>9. ItemInv'
    BY <2>2, <2>6, <2>8 DEF ItemInv
  <2>10. delivered = 1..produced \ lost
    <3>1. delivered \subseteq 1..produced
      BY <1>0 DEF ItemInv, GenInv
    <3> QED
      BY <2>8, <3>1 DEF ItemInv
  <2> QED
    BY <2>9, <2>10
<1> QED
  BY <1>5, <1>6

LEMMA ItemStep ==
    ASSUME TypeOK, QueueInv, ChildInv, GenInv, ItemInv, [Next]_vars
    PROVE  ItemInv'
<1>0. /\ pipe \in Seq(Message) /\ buffer \in Seq(Message)
      /\ batched \in Nat /\ scraped \in Nat /\ produced \in Nat /\ at \in Nat /\ to \in Nat
      /\ batched <= scraped /\ scraped <= produced /\ at <= to /\ to <= batched
  BY DEF TypeOK, Message, ChildInv, GenInv
<1>1. ASSUME UNCHANGED <<pipe, buffer>>
      PROVE  Queue' = Queue /\ \A x : InQueue(x)' <=> InQueue(x)
  BY <1>1 DEF Queue, InQueue
<1>2. ASSUME NEW final, Leave(final), UNCHANGED <<pipe, at, to, delivered>>
      PROVE  ItemInv'
  BY <1>2, ItemsOfDeath DEF Leave, Kill
<1>3. CASE Load
  <2>1. produced = 0 /\ UNCHANGED <<produced, lost, delivered, at>> /\ child \notin {"exit", "dead"}
    BY <1>3 DEF Load, ChildInv
  <2>2. 1..produced = {}
    BY <2>1
  <2> QED
    BY <2>1, <2>2 DEF ItemInv
\* What is new is held by the child.
<1>4. ASSUME UNCHANGED <<lost, delivered, at, to, batched, pipe, buffer>>, child' \in {"start", "crawl", "put"},
             child \in {"start", "crawl"}, produced' \in {produced, produced + 1}
      PROVE  ItemInv'
  <2>1. \A x \in 1..produced' : InChild(x)' <=> InChild(x) \/ x \notin 1..produced
    BY <1>0, <1>4 DEF InChild
  <2>2. \A x \in 1..produced' : Waits(x)' <=> Waits(x) \/ x \notin 1..produced
    BY <1>1, <1>4, <2>1 DEF Waits, InHand
  <2>3. lost \subseteq 1..produced'
    BY <1>0, <1>4 DEF ItemInv
  <2>4. Reports
    BY <1>4 DEF Reports
  <2> QED
    BY <1>4, <2>2, <2>3, <2>4 DEF ItemInv
<1>18. CASE Crawl \/ Scrape
  BY <1>4, <1>18 DEF Crawl, Scrape
<1>5. CASE PutFull \/ Flush
  BY <1>5, ItemsOfPut DEF PutFull, Flush
\* What is lost has been held by the child.
<1>19. ASSUME NEW n, n = batched \/ n = scraped, lost' = lost \cup (n + 1)..produced,
              UNCHANGED <<produced, scraped, batched, delivered, at, to, pipe, buffer>>,
              child \in {"start", "crawl"},
              \A x \in 1..produced : InChild(x)' <=> InChild(x) /\ x \notin (n + 1)..produced
       PROVE  ItemInv'
  <2>1. \A x \in 1..produced : (InHand(x)' <=> InHand(x)) /\ (InQueue(x)' <=> InQueue(x))
    BY <1>1, <1>19 DEF InHand
  <2>2. ASSUME NEW x \in (n + 1)..produced
        PROVE  /\ x \in 1..produced /\ x \notin delivered
               /\ InChild(x) /\ ~InHand(x) /\ ~InQueue(x)
    <3>1. n \in Nat /\ batched <= n
      BY <1>0, <1>19
    <3>2. x \in 1..produced /\ x \notin 1..at /\ ~(x <= to) /\ ~(x <= batched) /\ x <= produced
      BY <1>0, <3>1
    <3>3. ASSUME NEW k \in 1..Len(Queue), InMessage(x, Queue[k])
          PROVE  FALSE
      <4>1. IsBatch(Queue[k]) /\ x <= Queue[k].hi /\ Queue[k].hi <= batched
        BY <3>3 DEF InMessage, QueueInv
      <4>2. Queue[k] \in Batch
        BY <1>0, <4>1, QueueType DEF Message, Notice, IsBatch
      <4>3. Queue[k].hi \in Nat
        BY <4>2 DEF Batch, Items
      <4> QED
        BY <1>0, <3>2, <4>1, <4>3
    <3>4. InChild(x)
      BY <1>0, <1>19, <3>2 DEF InChild
    <3> QED
      BY <3>2, <3>3, <3>4 DEF ItemInv, InHand, InQueue
  <2>3. \A x \in lost' : x \in 1..produced /\ x \notin delivered /\ ~Waits(x)'
    BY <1>19, <2>1, <2>2 DEF ItemInv, Waits
  <2>4. \A x \in 1..produced : x \in delivered \/ x \in lost' \/ Waits(x)'
    <3>1. Reports
      BY <1>19 DEF Reports
    <3> QED
      BY <1>19, <2>1, <3>1 DEF ItemInv, Waits
  <2> QED
    BY <1>19, <2>3, <2>4 DEF ItemInv
<1>20. ASSUME NEW end \in {"ok", "raised", "fatal"}, CrawlEnds(end)
       PROVE  ItemInv'
  <2>1. /\ UNCHANGED <<produced, scraped, batched, delivered, at, to, pipe, buffer>>
        /\ child = "start" /\ scraped = 0 /\ child' \in {"crawl", "report"}
    BY <1>20 DEF CrawlEnds, ChildInv
  <2>2. CASE end = "ok"
    BY <1>4, <1>20, <2>1, <2>2 DEF CrawlEnds
  <2>3. CASE end # "ok"
    <3>1. child' = "report" /\ lost' = lost \cup (scraped + 1)..produced
      BY <1>20, <2>1, <2>3 DEF CrawlEnds
    <3>2. \A x \in 1..produced : InChild(x)' <=> InChild(x) /\ x \notin (scraped + 1)..produced
      BY <1>0, <2>1, <3>1 DEF InChild
    <3> QED
      BY <1>19, <2>1, <3>1, <3>2
  <2> QED
    BY <2>2, <2>3
<1>6. ASSUME NEW end \in {"ok", "raised", "fatal"}, FinishCrawl(end)
      PROVE  ItemInv'
  <2> DEFINE n == IF child' = "flush" THEN scraped ELSE batched
  <2>1. /\ UNCHANGED <<produced, scraped, batched, delivered, at, to, pipe, buffer>>
        /\ child = "crawl" /\ child' \in {"report", "flush"}
        /\ lost' = lost \cup (n + 1)..produced
    BY <1>6 DEF FinishCrawl
  <2>2. \A x \in 1..produced : InChild(x)' <=> InChild(x) /\ x \notin (n + 1)..produced
    BY <1>0, <2>1 DEF InChild
  <2> QED
    BY <1>19, <2>1, <2>2
<1>7. CASE Report
  <2>1. /\ UNCHANGED <<produced, scraped, batched, delivered, lost, at, to, pipe>>
        /\ child = "report" /\ child' = "exit"
    BY <1>7 DEF Report
  <2>2. Reports /\ \A x : ~InChild(x) /\ ~InChild(x)' /\ (InHand(x)' <=> InHand(x))
    BY <2>1 DEF Reports, InChild, InHand
  <2>3. CASE UNCHANGED buffer
    BY <1>1, <2>1, <2>2, <2>3, ItemsKept DEF Waits
  <2>4. ASSUME NEW m \in Message, ~IsBatch(m), Put(m)
        PROVE  ItemInv'
    <3> DEFINE n == Len(Queue)
    <3>1. /\ n \in Nat /\ Len(Queue') = n + 1 /\ Queue'[n + 1] = m
          /\ \A k \in 1..n : Queue'[k] = Queue[k]
      BY <1>0, <2>1, <2>4, QueueOfPut DEF Put
    <3>2. 1..Len(Queue') = 1..n \cup {n + 1}
      BY <3>1
    <3>3. \A x : ~InMessage(x, m)
      BY <2>4 DEF InMessage
    <3> HIDE DEF n
    <3>4. \A x : InQueue(x)' <=> InQueue(x)
      BY <3>1, <3>2, <3>3 DEF InQueue, n
    <3> QED
      BY <2>1, <2>2, <3>4, ItemsKept DEF Waits
  <2>5. /\ [type |-> "done"] \in Message /\ [type |-> "error"] \in Message
        /\ ~IsBatch([type |-> "done"]) /\ ~IsBatch([type |-> "error"])
    BY DEF Message, Notice, IsBatch
  <2> QED
    BY <1>7, <2>3, <2>4, <2>5 DEF Report
<1>8. CASE ExitChild
  <2>1. /\ UNCHANGED <<produced, scraped, batched, delivered, lost, at, to, pipe, buffer>>
        /\ child = "exit" /\ child' = "dead"
    BY <1>8 DEF ExitChild
  <2>2. \A x : InChild(x)' <=> InChild(x)
    BY <2>1 DEF InChild
  <2>3. Reports' => Reports
    BY <1>1, <2>1 DEF Reports
  <2> QED
    BY <1>1, <2>1, <2>2, <2>3, ItemsKeptWithQueue
<1>9. CASE Die
  BY <1>9, ItemsOfDeath DEF Die
<1>10. CASE Feed
  <2>1. Queue' = Queue /\ UNCHANGED <<child, produced, scraped, batched, delivered, lost, at, to>>
    BY <1>0, <1>10, QueueOfFeed DEF Feed
  <2>2. (\A x : InChild(x)' <=> InChild(x)) /\ (Reports' => Reports)
    BY <2>1 DEF InChild, Reports
  <2> QED
    BY <2>1, <2>2, ItemsKeptWithQueue
<1>11. CASE FeedFails
  BY <1>11, ItemsOfFeedFails
<1>12. CASE Begin
  <2>1. UNCHANGED <<produced, scraped, batched, delivered, lost, at, to, pipe, buffer>> /\ child = "absent" /\ child' = "load"
    BY <1>12 DEF Begin, GenInv
  <2>2. (\A x : InChild(x)' <=> InChild(x)) /\ Reports
    BY <2>1 DEF InChild, Reports
  <2> QED
    BY <1>1, <2>1, <2>2, ItemsKeptWithQueue
<1>13. ASSUME UNCHANGED <<childVars, pipe, at, to, delivered>>
       PROVE  ItemInv'
  <2>1. (\A x : InChild(x)' <=> InChild(x)) /\ (Reports' => Reports)
    BY <1>1, <1>13 DEF InChild, Reports
  <2> QED
    BY <1>1, <1>13, <2>1, ItemsKeptWithQueue
<1>14. CASE BeginFails \/ Drop \/ Tick \/ UNCHANGED vars
  BY <1>13, <1>14 DEF BeginFails, Drop, Tick, vars
<1>15. CASE Receive
  BY <1>15, ItemsOfReceive
<1>16. CASE Ask
  <2>1. CASE at < to /\ YieldItem(at + 1) /\ UNCHANGED childVars
    <3> DEFINE n == at + 1
    <3>1. UNCHANGED <<childVars, pipe, to>> /\ at' = n
      BY <1>16, <2>1 DEF Ask, YieldItem
    <3>2. (\A x : InChild(x)' <=> InChild(x)) /\ (Reports' => Reports)
      BY <1>1, <3>1 DEF InChild, Reports
    <3>3. \A x \in 1..produced : InHand(x)' <=> InHand(x) /\ n < x
      BY <1>0, <3>1 DEF InHand
    <3>4. n \in 1..produced /\ at < n /\ Waits(n)
      BY <1>0, <2>1 DEF Waits, InHand
    <3>5. ASSUME NEW x \in 1..produced, InQueue(x) \/ InChild(x)
          PROVE  n < x
      <4>1. CASE InChild(x)
        BY <1>0, <2>1, <4>1 DEF InChild
      <4>2. CASE InQueue(x)
        <5>1. PICK k \in 1..Len(Queue) : InMessage(x, Queue[k])
          BY <4>2 DEF InQueue
        <5>2. IsBatch(Queue[k]) /\ Queue[k].lo < x /\ to <= Queue[k].lo
          BY <5>1 DEF InMessage, QueueInv
        <5>3. Queue[k] \in Batch
          BY <1>0, <5>2, QueueType DEF Message, Notice, IsBatch
        <5>4. Queue[k].lo \in Nat
          BY <5>3 DEF Batch
        <5> QED
          BY <1>0, <2>1, <5>2, <5>4
      <4> QED
        BY <3>5, <4>1, <4>2
    <3>6. \A x \in 1..produced : Waits(x)' => Waits(x) /\ n < x
      BY <1>1, <3>1, <3>2, <3>3, <3>5 DEF Waits
    <3>7. \A x \in 1..produced : InHand(x) => x = n \/ n < x
      BY <1>0 DEF InHand
    <3>8. \A x \in 1..produced : Waits(x) => x = n \/ Waits(x)'
      BY <1>1, <3>1, <3>2, <3>3, <3>7 DEF Waits
    <3> HIDE DEF n
    <3>9. YieldItem(n)
      BY <2>1 DEF n
    <3> QED
      BY <3>1, <3>2, <3>4, <3>6, <3>8, <3>9, ItemsOfYield
  <2>2. CASE at = to /\ ReadOn /\ UNCHANGED <<at, delivered>>
    BY <1>2, <1>13, <1>16, <2>2 DEF Ask, ReadOn
  <2> QED
    BY <1>16, <2>1, <2>2 DEF Ask
<1>17. CASE ReadTimesOut \/ Finalise \/ CancelRead
  BY <1>2, <1>17 DEF ReadTimesOut, Finalise, CancelRead
<1> QED
  BY <1>3, <1>5, <1>6, <1>7, <1>8, <1>9, <1>10, <1>11, <1>12, <1>14, <1>15, <1>16, <1>17, <1>18, <1>20
  DEF Next, ChildStep, GenStep, RunnerStep

-----------------------------------------------------------------------------
(* Theorems.                                                               *)

LEMMA SandboxInit == Init => SandboxInv /\ DrainedIsComplete /\ ErrorComesLast
<1> SUFFICES ASSUME Init
             PROVE  SandboxInv /\ DrainedIsComplete /\ ErrorComesLast
  OBVIOUS
<1>0. BatchSize \in Nat \ {0} /\ QueueSize \in Nat \ {0} /\ Deadline \in Nat /\ MaxItems \in Nat
  BY SandboxAssumption DEF SandboxAssumption
<1>1. Queue = <<>> /\ Len(Queue) = 0
  BY ConcatEmptySeq DEF Init, Queue
<1>2. TypeOK
  <2>1. buffer \in Seq(Batch \cup Notice) /\ pipe \in Seq(Batch \cup Notice)
    BY DEF Init
  <2>2. {produced, scraped, batched, at, to} \subseteq 0..MaxItems /\ clock \in 0..Deadline
    BY <1>0 DEF Init
  <2> QED
    BY <2>1, <2>2 DEF Init, TypeOK, Child, Gen
<1>3. 1..0 = {}
  OBVIOUS
<1>4. QueueInv
  BY <1>0, <1>1, <1>3 DEF Init, QueueInv
<1>5. ChildInv /\ GenInv
  BY <1>0 DEF Init, ChildInv, GenInv, Ended
<1>6. ItemInv
  BY <1>1, <1>3 DEF Init, ItemInv
<1> QED
  BY <1>2, <1>4, <1>5, <1>6 DEF Init, SandboxInv, DrainedIsComplete, ErrorComesLast

LEMMA SandboxStep == SandboxInv /\ [Next]_vars => SandboxInv'
  BY TypeStep, QueueStep, ChildStepKeeps, GenStepKeeps, ItemStep DEF SandboxInv

LEMMA SandboxInvariant == Spec => []SandboxInv
<1>1. Init => SandboxInv
  BY SandboxInit
<1> QED
  BY <1>1, SandboxStep, PTL DEF Spec

\* What the two ends of the stream promise stays true: the generator ended with
\* its child, so nothing is produced, lost or delivered any more.
LEMMA EndStep ==
    ASSUME SandboxInv, DrainedIsComplete, ErrorComesLast, [Next]_vars
    PROVE  DrainedIsComplete' /\ ErrorComesLast'
<1>1. ASSUME gen \in Ended
      PROVE  UNCHANGED <<gen, how, delivered, produced, lost>> /\ (child' = "absent" <=> child = "absent")
  <2>1. child \in {"absent", "dead"} /\ buffer = <<>>
    BY <1>1 DEF SandboxInv, GenInv, ChildInv
  <2>2. CASE ChildStep
    BY <2>1, <2>2
    DEF ChildStep, Load, Crawl, CrawlEnds, Scrape, PutFull, FinishCrawl, Flush, Report, ExitChild, Die, Feed, FeedFails
  <2>3. CASE GenStep \/ RunnerStep \/ Tick
    BY <1>1, <2>3
    DEF GenStep, RunnerStep, BeginFails, Begin, Receive, ReadTimesOut, Finalise, Ask, Drop, CancelRead, Tick, Ended
  <2>4. CASE UNCHANGED vars
    BY <2>4 DEF vars
  <2> QED
    BY <2>2, <2>3, <2>4 DEF Next
<1>2. ASSUME gen \notin Ended, gen' \in {"ended", "raised"}, child' # "absent"
      PROVE  /\ gen' = "ended" => how' = "ok"
             /\ gen' = "raised" => how' = "raised"
             /\ delivered' = 1..produced' \ lost'
  <2>1. Receive
    <3>1. ~ChildStep
      BY <1>2
      DEF ChildStep, Load, Crawl, CrawlEnds, Scrape, PutFull, FinishCrawl, Flush, Report, ExitChild, Die, Feed,
          FeedFails, Ended
    <3>2. ~BeginFails
      BY <1>2 DEF BeginFails, SandboxInv, GenInv
    <3> QED
      BY <1>2, <3>1, <3>2
      DEF Next, GenStep, RunnerStep, Begin, ReadTimesOut, Finalise, Ask, ReadOn, YieldItem, Drop, CancelRead,
          Tick, Leave, vars, Ended
  <2>2. delivered = 1..produced \ lost
    BY <1>2, <2>1, ItemsOfReceive DEF SandboxInv, Ended
  <2>3. Leave(gen') /\ ~IsBatch(Head(pipe)) /\ UNCHANGED <<at, to, delivered>>
    BY <1>2, <2>1 DEF Receive, YieldItem, IsBatch, Leave
  <2>4. Head(pipe).type = IF gen' = "ended" THEN "done" ELSE "error"
    BY <1>2, <2>1 DEF Receive, YieldItem, Leave
  <2>5. how = IF Head(pipe).type = "done" THEN "ok" ELSE "raised"
    BY <2>1, <2>3, HeadOfPipe DEF Receive, SandboxInv
  <2> QED
    BY <1>2, <2>2, <2>3, <2>4, <2>5 DEF Leave, Kill
<1>3. CASE gen \in Ended
  BY <1>1, <1>3 DEF DrainedIsComplete, ErrorComesLast
<1>4. CASE gen \notin Ended /\ gen' \in {"ended", "raised"} /\ child' # "absent"
  BY <1>2, <1>4 DEF DrainedIsComplete, ErrorComesLast
<1>5. CASE gen' = "ended" /\ child' = "absent"
  BY <1>5, GenStepKeeps DEF SandboxInv, GenInv
<1>6. CASE gen' \notin {"ended", "raised"} \/ (gen' = "raised" /\ child' = "absent")
  BY <1>6 DEF DrainedIsComplete, ErrorComesLast
<1> QED
  BY <1>3, <1>4, <1>5, <1>6

\* Every variable of a sandbox always has its type: the bounds of a batch are
\* those of items, and the queue holds batches and notices only.
THEOREM SandboxTypeCorrect == Spec => []TypeOK
  BY SandboxInvariant, PTL DEF SandboxInv

\* A run that ends as drained (the generator saw "done") has yielded every item
\* the spider produced, but those the child lost, whatever the sizes of batches
\* and queue are.
THEOREM DrainedComplete == Spec => []DrainedIsComplete
<1>1. Init => SandboxInv /\ DrainedIsComplete /\ ErrorComesLast
  BY SandboxInit
<1>2. SandboxInv /\ DrainedIsComplete /\ ErrorComesLast /\ [Next]_vars
        => (SandboxInv /\ DrainedIsComplete /\ ErrorComesLast)'
  BY SandboxStep, EndStep
<1> QED
  BY <1>1, <1>2, PTL DEF Spec

\* The exception of a spider is raised to the runner after all the items the
\* spider produced before it, but those the child lost.
THEOREM ErrorLast == Spec => []ErrorComesLast
<1>1. Init => SandboxInv /\ DrainedIsComplete /\ ErrorComesLast
  BY SandboxInit
<1>2. SandboxInv /\ DrainedIsComplete /\ ErrorComesLast /\ [Next]_vars
        => (SandboxInv /\ DrainedIsComplete /\ ErrorComesLast)'
  BY SandboxStep, EndStep
<1> QED
  BY <1>1, <1>2, PTL DEF Spec

\* A step of the run is a step of the stream it promises, or none.
LEMMA StreamStep ==
    ASSUME SandboxInv, [Next]_vars
    PROVE  [Stream!Next]_(Stream!streamVars)
<1>0. MaxItems \in Nat /\ at \in Nat /\ to \in 0..MaxItems /\ produced \in 0..MaxItems
  BY SandboxAssumption DEF SandboxAssumption, SandboxInv, TypeOK
<1> USE DEF Stream!Next, Stream!Yield, Stream!Close, Stream!streamVars
<1>1. ASSUME UNCHANGED <<gen, at>>
      PROVE  [Stream!Next]_(Stream!streamVars)
  BY <1>1
<1>2. ASSUME NEW final \in Ended, Leave(final), gen \notin Ended, UNCHANGED at
      PROVE  [Stream!Next]_(Stream!streamVars)
  BY <1>2 DEF Leave
<1>3. ASSUME NEW n \in Nat, YieldItem(n), at < n, n <= MaxItems, gen \notin Ended
      PROVE  [Stream!Next]_(Stream!streamVars)
  BY <1>0, <1>3 DEF YieldItem, Ended
<1>4. CASE ChildStep
  BY <1>1, <1>4
  DEF ChildStep, Load, Crawl, CrawlEnds, Scrape, PutFull, FinishCrawl, Flush, Report, ExitChild, Die, Feed, FeedFails
<1>5. CASE BeginFails \/ Begin \/ Drop
  BY <1>5 DEF BeginFails, Begin, Drop, Ended
<1>6. CASE Receive
  <2>1. CASE Head(pipe).type = "items" /\ YieldItem(Head(pipe).lo + 1)
    <3>1. /\ Head(pipe).lo \in Nat /\ Head(pipe).hi \in Nat /\ to <= Head(pipe).lo
          /\ Head(pipe).lo < Head(pipe).hi /\ Head(pipe).hi <= batched
      BY <1>6, <2>1, HeadOfPipe DEF Receive, IsBatch, SandboxInv
    <3>2. batched \in Nat /\ batched <= MaxItems /\ at <= to
      BY <1>0 DEF SandboxInv, TypeOK, GenInv
    <3> DEFINE n == Head(pipe).lo + 1
    <3>3. n \in Nat /\ at < n /\ n <= MaxItems
      BY <1>0, <3>1, <3>2
    <3>4. gen \notin Ended
      BY <1>6 DEF Receive, Ended
    <3> QED
      BY <1>3, <2>1, <3>3, <3>4
  <2>2. CASE (Leave("ended") \/ Leave("raised")) /\ UNCHANGED at
    BY <1>2, <1>6, <2>2 DEF Receive, Ended
  <2> QED
    BY <1>6, <2>1, <2>2 DEF Receive
<1>7. CASE Ask
  <2>1. CASE at < to /\ YieldItem(at + 1)
    <3>1. at + 1 \in Nat /\ at < at + 1 /\ at + 1 <= MaxItems /\ gen \notin Ended
      BY <1>0, <1>7, <2>1 DEF Ask, Ended
    <3> QED
      BY <1>3, <2>1, <3>1
  <2>2. CASE ReadOn /\ UNCHANGED at
    BY <1>2, <1>7, <2>2 DEF Ask, ReadOn, Ended
  <2> QED
    BY <1>7, <2>1, <2>2 DEF Ask
<1>8. CASE ReadTimesOut \/ Finalise \/ CancelRead
  BY <1>2, <1>8 DEF ReadTimesOut, Finalise, CancelRead, Ended
<1>9. CASE Tick \/ UNCHANGED vars
  BY <1>1, <1>9 DEF Tick, vars
<1> QED
  BY <1>4, <1>5, <1>6, <1>7, <1>8, <1>9 DEF Next, GenStep, RunnerStep

\* run_sandboxed keeps the safety part of ItemStream: the items are yielded in
\* the order the spider produced them, none twice, and nothing after the end.
THEOREM KeepsStream == Spec => Stream!Safety
<1>1. Init => Stream!Init
  BY DEF Init, Stream!Init, Ended
<1>2. SandboxInv /\ [Next]_vars => [Stream!Next]_(Stream!streamVars)
  BY StreamStep
<1> QED
  BY <1>1, <1>2, SandboxInvariant, PTL DEF Spec, Stream!Safety

-----------------------------------------------------------------------------
(* Back pressure.                                                          *)

\* The places in which an item may wait: in hand, in a message of the queue, in
\* the batch.  The last place in hand is free, as an item of it was yielded.
Place ==
    ((0..(QueueSize + 1)) \X (0..(BatchSize - 1))) \ {<<0, BatchSize - 1>>}

\* What precedes the items of the k-th place.
Base(k) ==
    IF k = 0 THEN at ELSE IF k = QueueSize + 1 THEN batched ELSE Queue[k].lo

LEMMA PlacesCounted ==
    /\ IsFiniteSet(Place)
    /\ Cardinality(Place) < (QueueSize + 2) * BatchSize
<1>0. BatchSize \in Nat \ {0} /\ QueueSize \in Nat
  BY SandboxAssumption DEF SandboxAssumption
<1> DEFINE R == 0..(QueueSize + 1)
           C == 0..(BatchSize - 1)
<1>1. IsFiniteSet(R) /\ Cardinality(R) = QueueSize + 2
  <2>1. 0 \in Int /\ QueueSize + 1 \in Int /\ ~(0 > QueueSize + 1) /\ (QueueSize + 1) - 0 + 1 = QueueSize + 2
    BY <1>0
  <2> QED
    BY <2>1, FS_Interval
<1>2. IsFiniteSet(C) /\ Cardinality(C) = BatchSize
  <2>1. 0 \in Int /\ BatchSize - 1 \in Int /\ ~(0 > BatchSize - 1) /\ (BatchSize - 1) - 0 + 1 = BatchSize
    BY <1>0
  <2> QED
    BY <2>1, FS_Interval
<1>3. <<0, BatchSize - 1>> \in R \X C
  BY <1>0
<1> HIDE DEF R, C
<1>4. IsFiniteSet(R \X C) /\ Cardinality(R \X C) = (QueueSize + 2) * BatchSize
  BY <1>1, <1>2, FS_Product
<1>5. /\ IsFiniteSet(R \X C \ {<<0, BatchSize - 1>>})
      /\ Cardinality(R \X C \ {<<0, BatchSize - 1>>}) = Cardinality(R \X C) - 1
  BY <1>3, <1>4, FS_RemoveElement
<1>6. Cardinality(R \X C) \in Nat
  BY <1>4, FS_CardinalityType
<1> QED
  BY <1>4, <1>5, <1>6 DEF Place, R, C

\* Every item that waits has a place, and no place has two.
LEMMA WaitsInPlace ==
    ASSUME SandboxInv, NEW x \in 1..scraped, Waits(x)
    PROVE  \E p \in Place : x = Base(p[1]) + p[2] + 1
<1>0. /\ BatchSize \in Nat \ {0} /\ QueueSize \in Nat /\ at \in Nat /\ to \in Nat
      /\ batched \in Nat /\ scraped \in Nat
      /\ pipe \in Seq(Message) /\ buffer \in Seq(Message)
  BY SandboxAssumption DEF SandboxAssumption, SandboxInv, TypeOK, Message
<1>1. ASSUME NEW k \in 0..(QueueSize + 1), NEW o \in 0..(BatchSize - 1), k # 0 \/ o # BatchSize - 1,
             x = Base(k) + o + 1
      PROVE  \E p \in Place : x = Base(p[1]) + p[2] + 1
  <2>1. <<k, o>> \in Place
    BY <1>1 DEF Place
  <2> QED
    BY <1>1, <2>1
<1>2. CASE InHand(x)
  <2>1. /\ x - at - 1 \in 0..(BatchSize - 1) /\ x - at - 1 # BatchSize - 1
        /\ x = Base(0) + (x - at - 1) + 1
    BY <1>0, <1>2 DEF InHand, Base, SandboxInv, GenInv
  <2>2. 0 \in 0..(QueueSize + 1)
    BY <1>0
  <2> QED
    BY <1>1, <2>1, <2>2
<1>3. CASE InQueue(x)
  <2>1. PICK k \in 1..Len(Queue) : InMessage(x, Queue[k])
    BY <1>3 DEF InQueue
  <2>2. Len(Queue) \in Nat /\ Len(Queue) <= QueueSize
    BY <1>0, QueueType DEF SandboxInv, QueueInv
  <2>3. Queue[k] \in Batch
    BY <1>0, <2>1, QueueType DEF InMessage, Message, Notice, IsBatch
  <2> DEFINE lo == Queue[k].lo
             hi == Queue[k].hi
  <2>4. lo \in Nat /\ hi \in Nat /\ hi <= lo + BatchSize /\ lo < x /\ x <= hi
    BY <2>1, <2>3 DEF InMessage, SandboxInv, QueueInv, Batch, Items
  <2>5. k \in 0..(QueueSize + 1) /\ k # 0 /\ k # QueueSize + 1
    BY <1>0, <2>2
  <2>6. Base(k) = lo
    BY <2>5 DEF Base
  <2> HIDE DEF lo, hi
  <2>7. x - lo - 1 \in 0..(BatchSize - 1) /\ x = lo + (x - lo - 1) + 1
    BY <1>0, <2>4
  <2> QED
    BY <1>1, <2>5, <2>6, <2>7
<1>4. CASE InChild(x)
  <2>1. x - batched - 1 \in 0..(BatchSize - 1) /\ x = batched + (x - batched - 1) + 1
    BY <1>0, <1>4 DEF InChild, SandboxInv, ChildInv
  <2>2. QueueSize + 1 \in 0..(QueueSize + 1) /\ QueueSize + 1 # 0 /\ Base(QueueSize + 1) = batched
    BY <1>0 DEF Base
  <2> QED
    BY <1>1, <2>1, <2>2
<1> QED
  BY <1>2, <1>3, <1>4 DEF Waits

\* What _run_simple has gone through is what it has produced.
LEMMA PressureOfOutstanding ==
    ASSUME SandboxInv
    PROVE  BackPressure <=> Cardinality(Outstanding) < (QueueSize + 2) * BatchSize
<1>1. scraped = IF mode = "simple" THEN produced ELSE scraped
  BY DEF SandboxInv, ChildInv
<1> QED
  BY <1>1 DEF BackPressure, Outstanding

\* Whenever a notice may still come, everything outstanding waits, and so there
\* is no more of it than there are places.
LEMMA OutstandingFits ==
    ASSUME SandboxInv, Reports
    PROVE  BackPressure
<1>0. 1..scraped \subseteq 1..produced
  BY DEF SandboxInv, TypeOK, ChildInv
<1>1. \A x \in Outstanding : \E p \in Place : x = Base(p[1]) + p[2] + 1
  BY <1>0, WaitsInPlace DEF SandboxInv, ItemInv, Outstanding
<1> DEFINE f == [x \in Outstanding |-> CHOOSE p \in Place : x = Base(p[1]) + p[2] + 1]
<1>2. \A x \in Outstanding : f[x] \in Place /\ x = Base(f[x][1]) + f[x][2] + 1
  BY <1>1
<1>3. f \in [Outstanding -> Place]
  BY <1>2
<1> HIDE DEF f
<1>4. \A x, y \in Outstanding : f[x] = f[y] => x = y
  BY <1>2, Zenon
<1>5. f \in Injection(Outstanding, Place)
  BY <1>3, <1>4, Fun_IsInj
<1>6. IsFiniteSet(Outstanding) /\ Cardinality(Outstanding) <= Cardinality(Place)
  BY <1>5, PlacesCounted, FS_Injection
<1> DEFINE c == (QueueSize + 2) * BatchSize
           q == Cardinality(Outstanding)
           p == Cardinality(Place)
<1>7. q \in Nat /\ p \in Nat /\ q <= p /\ p < c
  BY <1>6, PlacesCounted, FS_CardinalityType
<1>8. c \in Int
  BY SandboxAssumption DEF SandboxAssumption
<1> HIDE DEF c, q, p
<1>9. q < c
  BY <1>7, <1>8
<1> QED
  BY <1>9, PressureOfOutstanding DEF c, q

\* Otherwise the child puts nothing any more, and nothing becomes outstanding.
LEMMA OutstandingShrinks ==
    ASSUME SandboxInv, [Next]_vars, ~Reports'
    PROVE  Outstanding' \subseteq Outstanding
<1>1. child' \in {"exit", "dead"}
  BY DEF Reports
<1>2. scraped' = scraped /\ delivered \subseteq delivered' /\ lost \subseteq lost'
  BY <1>1
  DEF Next, ChildStep, Load, Crawl, CrawlEnds, Scrape, PutFull, FinishCrawl, Flush, PutBatch, Report, ExitChild, Die, Feed,
      FeedFails, GenStep, RunnerStep, BeginFails, Begin, Receive, YieldItem, ReadTimesOut, Finalise, Ask,
      ReadOn, Drop, CancelRead, Tick, Leave, Kill, vars
<1> QED
  BY <1>2 DEF Outstanding

LEMMA BackPressureStep ==
    ASSUME SandboxInv, BackPressure, [Next]_vars
    PROVE  BackPressure'
<1>1. SandboxInv'
  BY SandboxStep
<1>2. CASE Reports'
  <2>1. (SandboxInv /\ Reports => BackPressure)'
    BY OutstandingFits, PTL
  <2> QED
    BY <1>1, <1>2, <2>1
<1>3. CASE ~Reports'
  <2>1. Outstanding' \subseteq Outstanding
    BY <1>3, OutstandingShrinks
  <2>2. IsFiniteSet(Outstanding)
    <3>1. scraped \in Int /\ IsFiniteSet(1..scraped)
      BY FS_Interval DEF SandboxInv, TypeOK
    <3> QED
      BY <3>1, FS_Subset DEF Outstanding
  <2> DEFINE c == (QueueSize + 2) * BatchSize
             q == Cardinality(Outstanding)
             r == Cardinality(Outstanding')
  <2>3. q \in Nat /\ r \in Nat /\ r <= q /\ q < c
    BY <2>1, <2>2, FS_Subset, FS_CardinalityType, PressureOfOutstanding
  <2>4. c \in Int
    BY SandboxAssumption DEF SandboxAssumption
  <2> HIDE DEF c, q, r
  <2>5. r < c
    BY <2>3, <2>4
  <2>6. (SandboxInv => (BackPressure <=> Cardinality(Outstanding) < (QueueSize + 2) * BatchSize))'
    BY PressureOfOutstanding, PTL
  <2> QED
    BY <1>1, <2>5, <2>6 DEF c, r
<1> QED
  BY <1>2, <1>3

\* A spider that outruns its runner is held back: in any reachable state what
\* the item loop of the child has gone through (with _run_simple all that the
\* spider has produced) and neither lost nor handed over fits into the queue and
\* one batch on each side of it.  What start() of a Scrapling spider holds before
\* the loop is bounded by nothing, and not counted.
THEOREM HeldBack == Spec => []BackPressure
<1>1. Init => SandboxInv /\ BackPressure
  <2> SUFFICES ASSUME Init
               PROVE  SandboxInv /\ BackPressure
    OBVIOUS
  <2>1. SandboxInv
    BY SandboxInit
  <2>2. Reports
    BY DEF Init, Reports
  <2> QED
    BY <2>1, <2>2, OutstandingFits
<1>2. SandboxInv /\ BackPressure /\ [Next]_vars => (SandboxInv /\ BackPressure)'
  BY SandboxStep, BackPressureStep
<1> QED
  BY <1>1, <1>2, PTL DEF Spec
=============================================================================
