------------------------ MODULE DockerSandbox_proofs ------------------------
(***************************************************************************)
(* Theorems about DockerSandbox for every deadline and any number of       *)
(* items.                                                                  *)
(***************************************************************************)
EXTENDS DockerSandbox, TLAPS, SequenceTheorems

-----------------------------------------------------------------------------
(* Invariants.                                                             *)

TypeInv ==
    /\ container \in {"absent", "created", "running", "exited", "removed"}
    /\ how \in {"none", "ok", "raised", "fatal"}
    /\ produced \in 0..MaxItems
    /\ log \in Seq(Line) /\ msgs \in Seq(Line)
    /\ reader \in {"absent", "reading", "done"}
    /\ gen \in {"new", "read", "yield", "dropped"} \cup Ended
    /\ pos \in Nat /\ clock \in 0..Deadline
    /\ at \in 0..MaxItems
    /\ delivered \in SUBSET Items /\ lost \in SUBSET Items
    /\ broken \in BOOLEAN

\* The items of a list of lines come in the order they were produced, and
\* nothing follows the error.
InOrder(lines) ==
    /\ \A i, j \in 1..Len(lines) :
          i < j /\ lines[i] \in Items /\ lines[j] \in Items => lines[i] < lines[j]
    /\ \A i \in 1..Len(lines) : lines[i] = Failure => i = Len(lines)

\* What the thread has decoded comes before what is still in the log.
LinesInv ==
    /\ InOrder(msgs) /\ InOrder(log)
    /\ \A i \in 1..Len(msgs), j \in 1..Len(log) :
          msgs[i] \in Items /\ log[j] \in Items => msgs[i] < log[j]
    /\ \A i \in 1..Len(msgs) : msgs[i] = Failure => log = <<>>
    /\ container = "running" =>
          /\ \A i \in 1..Len(msgs) : msgs[i] # Failure
          /\ \A j \in 1..Len(log) : log[j] # Failure

OnLine(x) ==
    \/ \E i \in 1..Len(msgs) : msgs[i] = x
    \/ \E j \in 1..Len(log) : log[j] = x

\* The items on lines and the lost ones are those that were produced.
BalanceInv ==
    /\ \A x \in Items : OnLine(x) \/ x \in lost => x <= produced
    /\ \A x \in Items : ~(OnLine(x) /\ x \in lost)
    /\ \A x \in 1..produced : OnLine(x) \/ x \in lost

\* The parts start and end together.
LifeInv ==
    /\ gen = "new" => reader = "absent" /\ container = "absent"
    /\ reader = "absent" => log = <<>> /\ msgs = <<>> /\ produced = 0 /\ pos = 0
    /\ container \in {"absent", "created"} <=> reader = "absent"
    /\ container = "removed" => gen \in Ended
    /\ gen \in {"new", "read"} => pos = 0
    /\ pos = 0 => at = 0
    /\ gen \in {"yield", "dropped", "ended"} => pos > 0
    /\ pos > 0 => reader = "done"
    /\ reader = "done" /\ ~broken /\ (gen \notin Ended \/ pos > 0) =>
          container \in {"exited", "removed"} /\ log = <<>>

\* The generator has gone through the messages before pos, and yielded them.
TakenInv ==
    /\ pos <= Len(msgs) + 1
    /\ gen \in {"yield", "dropped"} => pos <= Len(msgs)
    /\ gen = "ended" => pos = Len(msgs) + 1
    /\ delivered = {x \in Items : \E i \in 1..Len(msgs) : i <= pos /\ msgs[i] = x}
    /\ \A i \in 1..Len(msgs) : pos < i /\ msgs[i] \in Items => at < msgs[i]

DockerInv == TypeInv /\ LinesInv /\ BalanceInv /\ LifeInv /\ TakenInv

-----------------------------------------------------------------------------
(* Lists of lines.                                                         *)

LEMMA LineFacts ==
    /\ MaxItems \in Nat /\ Failure \in Line /\ Scalar \in Line
    /\ Items \subseteq Line /\ Failure \notin Items /\ Scalar \notin Items /\ Failure # Scalar
    /\ \A x \in Line : x \in Items \/ x = Failure \/ x = Scalar
    /\ \A x \in Items : x \in Nat /\ 0 < x /\ x <= MaxItems
    /\ \A x \in Nat : 0 < x /\ x <= MaxItems => x \in Items
  BY DockerAssumption DEF DockerAssumption, Line, Items, Failure, Scalar

\* A list with one more line.
LEMMA LineAppended ==
    ASSUME NEW s \in Seq(Line), NEW x \in Line
    PROVE  LET t == Append(s, x)
           IN  /\ t \in Seq(Line) /\ Len(s) \in Nat /\ Len(t) = Len(s) + 1
               /\ \A i \in 1..Len(s) : i \in 1..Len(t) /\ t[i] = s[i] /\ s[i] \in Line
               /\ Len(t) \in 1..Len(t) /\ t[Len(t)] = x
               /\ \A i \in 1..Len(t) : i \in 1..Len(s) \/ i = Len(t)
<1> DEFINE t == Append(s, x)
           n == Len(s)
<1>1. /\ t \in Seq(Line) /\ n \in Nat /\ Len(t) = n + 1
      /\ \A i \in 1..n : t[i] = s[i] /\ s[i] \in Line
      /\ t[n + 1] = x
  BY AppendProperties, LenProperties, ElementOfSeq
<1> HIDE DEF t, n
<1>2. /\ \A i \in 1..n : i \in 1..Len(t)
      /\ Len(t) \in 1..Len(t)
      /\ \A i \in 1..Len(t) : i \in 1..n \/ i = Len(t)
  BY <1>1
<1> QED
  BY <1>1, <1>2 DEF t, n

\* A list without its first line.
LEMMA LineTaken ==
    ASSUME NEW s \in Seq(Line), s # <<>>
    PROVE  LET t == Tail(s)
           IN  /\ t \in Seq(Line) /\ Len(t) \in Nat /\ Len(s) = Len(t) + 1
               /\ 1 \in 1..Len(s) /\ Head(s) = s[1] /\ Head(s) \in Line
               /\ \A i \in 1..Len(t) : i + 1 \in 1..Len(s) /\ 1 < i + 1 /\ t[i] = s[i + 1] /\ t[i] \in Line
               /\ \A i \in 1..Len(s) : i = 1 \/ \E j \in 1..Len(t) : i = j + 1
               /\ Len(t) = 0 <=> t = <<>>
<1> DEFINE t == Tail(s)
           n == Len(s)
<1>1. /\ t \in Seq(Line) /\ n \in Nat \ {0} /\ Len(t) = n - 1 /\ Head(s) = s[1]
      /\ \A i \in 1..Len(t) : t[i] = s[i + 1] /\ t[i] \in Line
      /\ \A i \in 1..n : s[i] \in Line
  BY HeadTailProperties, EmptySeq, LenProperties, ElementOfSeq
<1>2. Len(t) = 0 <=> t = <<>>
  BY <1>1, EmptySeq
<1> HIDE DEF t, n
<1>3. /\ Len(t) \in Nat /\ n = Len(t) + 1 /\ 1 \in 1..n
      /\ \A i \in 1..Len(t) : i + 1 \in 1..n /\ 1 < i + 1
      /\ \A i \in 1..n : i # 1 => i - 1 \in 1..Len(t) /\ i = (i - 1) + 1
  BY <1>1
<1> QED
  BY <1>1, <1>2, <1>3 DEF t, n

\* A list stays in order when its first line leaves it.
LEMMA InOrderTaken ==
    ASSUME NEW s \in Seq(Line), s # <<>>, InOrder(s)
    PROVE  /\ InOrder(Tail(s))
           /\ Head(s) \in Items => \A i \in 1..Len(Tail(s)) : Tail(s)[i] \in Items => Head(s) < Tail(s)[i]
           /\ Head(s) = Failure => Tail(s) = <<>>
<1> DEFINE t == Tail(s)
<1>1. /\ Len(t) \in Nat /\ Len(s) = Len(t) + 1 /\ 1 \in 1..Len(s) /\ Head(s) = s[1]
      /\ \A i \in 1..Len(t) : i + 1 \in 1..Len(s) /\ 1 < i + 1 /\ t[i] = s[i + 1]
      /\ Len(t) = 0 <=> t = <<>>
  BY LineTaken
<1> HIDE DEF t
<1>2. ASSUME NEW i \in 1..Len(t), NEW j \in 1..Len(t), i < j, t[i] \in Items, t[j] \in Items
      PROVE  t[i] < t[j]
  <2>1. i + 1 < j + 1
    BY <1>2
  <2> QED
    BY <1>1, <1>2, <2>1 DEF InOrder
<1>3. ASSUME NEW i \in 1..Len(t), t[i] = Failure
      PROVE  i = Len(t)
  <2>1. i + 1 = Len(s)
    BY <1>1, <1>3 DEF InOrder
  <2> QED
    BY <1>1, <2>1
<1>4. ASSUME Head(s) \in Items, NEW i \in 1..Len(t), t[i] \in Items
      PROVE  Head(s) < t[i]
  BY <1>1, <1>4 DEF InOrder
<1>5. Head(s) = Failure => t = <<>>
  BY <1>1 DEF InOrder
<1> QED
  BY <1>2, <1>3, <1>4, <1>5 DEF InOrder, t

\* A list stays in order when a line is added that belongs behind all others.
LEMMA InOrderAppended ==
    ASSUME NEW s \in Seq(Line), NEW x \in Line, InOrder(s),
           \A i \in 1..Len(s) : s[i] # Failure /\ (s[i] \in Items /\ x \in Items => s[i] < x)
    PROVE  InOrder(Append(s, x))
<1> DEFINE t == Append(s, x)
<1>1. /\ Len(s) \in Nat /\ Len(t) = Len(s) + 1
      /\ \A i \in 1..Len(s) : t[i] = s[i]
      /\ t[Len(t)] = x
      /\ \A i \in 1..Len(t) : i \in 1..Len(s) \/ i = Len(t)
  BY LineAppended
<1> HIDE DEF t
<1>2. ASSUME NEW i \in 1..Len(t), NEW j \in 1..Len(t), i < j, t[i] \in Items, t[j] \in Items
      PROVE  t[i] < t[j]
  <2>1. i \in 1..Len(s)
    BY <1>1, <1>2
  <2>2. CASE j \in 1..Len(s)
    BY <1>1, <1>2, <2>1, <2>2 DEF InOrder
  <2>3. CASE j = Len(t)
    BY <1>1, <1>2, <2>1, <2>3
  <2> QED
    BY <1>1, <2>2, <2>3
<1>3. ASSUME NEW i \in 1..Len(t), t[i] = Failure
      PROVE  i = Len(t)
  BY <1>1, <1>3
<1> QED
  BY <1>2, <1>3 DEF InOrder, t

-----------------------------------------------------------------------------
(* Types.                                                                  *)

USE DEF containerVars

LEMMA TypeStep ==
    ASSUME TypeInv, [Next]_vars
    PROVE  TypeInv'
<1>0. MaxItems \in Nat /\ Deadline \in Nat
  BY DockerAssumption DEF DockerAssumption
<1>1. ASSUME NEW final \in Ended, Leave(final)
      PROVE  gen' \in Ended /\ container' \in {"absent", "created", "running", "exited", "removed"}
  BY <1>1 DEF Leave, TypeInv
<1>2. ASSUME NEW i \in Nat, Consume(i), i = 0 \/ i - 1 \in Nat,
             UNCHANGED <<how, produced, log, reader, msgs, clock, lost, broken>>
      PROVE  TypeInv'
  <2>1. CASE i <= Len(msgs) /\ msgs[i] \in Items /\ gen' = "yield"
    <3>1. at' = msgs[i] /\ delivered' = delivered \cup {msgs[i]} /\ UNCHANGED container
      BY <1>2, <2>1 DEF Consume, Leave, Ended
    <3>2. at' \in 0..MaxItems
      BY <2>1, <3>1, LineFacts
    <3> QED
      BY <1>2, <2>1, <3>1, <3>2 DEF Consume, TypeInv
  <2>2. CASE (Leave("ended") \/ Leave("raised")) /\ UNCHANGED <<at, delivered>>
    BY <1>1, <1>2, <2>2 DEF Consume, TypeInv, Ended
  <2> QED
    BY <1>2, <2>1, <2>2 DEF Consume
<1>3. CASE PrintItem
  <2>1. produced' \in Items /\ produced' \in 0..MaxItems
    BY <1>0, <1>3, LineFacts DEF PrintItem, TypeInv
  <2>2. log' \in Seq(Line)
    BY <1>3, <2>1, LineFacts, LineAppended DEF PrintItem, TypeInv
  <2> QED
    BY <1>3, <2>1, <2>2 DEF PrintItem, TypeInv
<1>4. CASE PrintScalar
  <2>1. log' \in Seq(Line)
    BY <1>4, LineFacts, LineAppended DEF PrintScalar, TypeInv
  <2> QED
    BY <1>4, <2>1 DEF PrintScalar, TypeInv
<1>5. ASSUME NEW end \in {"ok", "raised", "fatal"}, Exit(end)
      PROVE  TypeInv'
  <2>1. log' \in Seq(Line)
    BY <1>5, LineFacts, LineAppended DEF Exit, TypeInv
  <2> QED
    BY <1>5, <2>1 DEF Exit, TypeInv
<1>6. CASE ReadLine
  <2>1. log' \in Seq(Line) /\ msgs' \in Seq(Line)
    BY <1>6, LineTaken, LineAppended DEF ReadLine, TypeInv
  <2> QED
    BY <1>6, <2>1 DEF ReadLine, TypeInv
<1>7. CASE SkipChunk
  <2>1. log' \in Seq(Line)
    BY <1>7, LineTaken DEF SkipChunk, TypeInv
  <2> QED
    BY <1>7, <2>1 DEF SkipChunk, TypeInv
<1>8. CASE LogEnds \/ LogBreaks
  BY <1>8 DEF LogEnds, LogBreaks, TypeInv
<1>9. CASE BeginFails \/ Begin \/ Drop
  BY <1>9 DEF BeginFails, Begin, Drop, TypeInv, Ended
<1>10. CASE Receive
  BY <1>2, <1>10 DEF Receive
<1>11. CASE Ask
  <2>1. pos + 1 \in Nat /\ (pos + 1) - 1 \in Nat
    BY DEF TypeInv
  <2> QED
    BY <1>2, <1>11, <2>1 DEF Ask
<1>12. CASE TimesOut \/ Finalise \/ CancelRead
  BY <1>1, <1>12 DEF TimesOut, Finalise, CancelRead, TypeInv, Ended
<1>13. CASE Tick
  BY <1>0, <1>13 DEF Tick, TypeInv
<1>14. CASE UNCHANGED vars
  BY <1>14 DEF vars, TypeInv
<1> QED
  BY <1>3, <1>4, <1>5, <1>6, <1>7, <1>8, <1>9, <1>10, <1>11, <1>12, <1>13, <1>14
  DEF Next, ContainerStep, ReaderStep, GenStep, RunnerStep

-----------------------------------------------------------------------------
(* The lines.                                                              *)

\* What the container prints comes behind all that was printed before.
LEMMA Printed ==
    ASSUME TypeInv, LinesInv, BalanceInv, container = "running", NEW x \in Line, log' = Append(log, x),
           UNCHANGED <<msgs, lost>>,
           x \in Items => x = produced + 1,
           produced' = IF x \in Items THEN produced + 1 ELSE produced,
           x = Failure => container' # "running"
    PROVE  LinesInv' /\ BalanceInv'
<1>0. log \in Seq(Line) /\ produced \in Nat
  BY DEF TypeInv
<1>1. /\ Len(log) \in Nat /\ Len(log') = Len(log) + 1
      /\ \A i \in 1..Len(log) : i \in 1..Len(log') /\ log'[i] = log[i] /\ log[i] \in Line
      /\ Len(log') \in 1..Len(log') /\ log'[Len(log')] = x
      /\ \A i \in 1..Len(log') : i \in 1..Len(log) \/ i = Len(log')
  BY <1>0, LineAppended
<1>2. \A y \in Items : OnLine(y) => y \in Nat /\ y <= produced
  BY LineFacts DEF BalanceInv
<1>3. /\ \A i \in 1..Len(log) : log[i] # Failure /\ (log[i] \in Items /\ x \in Items => log[i] < x)
      /\ \A i \in 1..Len(msgs) : msgs[i] # Failure /\ (msgs[i] \in Items /\ x \in Items => msgs[i] < x)
  BY <1>0, <1>2 DEF LinesInv, OnLine
<1>4. InOrder(log')
  BY <1>0, <1>3, InOrderAppended DEF LinesInv
<1>5. ASSUME NEW i \in 1..Len(msgs), NEW j \in 1..Len(log'), msgs[i] \in Items, log'[j] \in Items
      PROVE  msgs[i] < log'[j]
  <2>1. CASE j \in 1..Len(log)
    BY <1>1, <1>5, <2>1 DEF LinesInv
  <2>2. CASE j = Len(log')
    BY <1>1, <1>3, <1>5, <2>2
  <2> QED
    BY <1>1, <2>1, <2>2
<1>6. ASSUME container' = "running", NEW j \in 1..Len(log')
      PROVE  log'[j] # Failure
  BY <1>1, <1>3, <1>6
<1>7. LinesInv'
  BY <1>3, <1>4, <1>5, <1>6 DEF LinesInv
<1>8. \A y : OnLine(y)' <=> OnLine(y) \/ y = x
  BY <1>1 DEF OnLine
<1>9. ASSUME NEW y \in Items
      PROVE  y <= produced' <=> y <= produced \/ (x \in Items /\ y = x)
  BY <1>0, LineFacts
<1>10. x \in Items => x \notin lost
  BY <1>0 DEF BalanceInv
<1>11. /\ \A y \in Items : OnLine(y)' \/ y \in lost' => y <= produced'
       /\ \A y \in Items : ~(OnLine(y)' /\ y \in lost')
  BY <1>8, <1>9, <1>10 DEF BalanceInv
<1>12. ASSUME NEW y \in 1..produced'
       PROVE  OnLine(y)' \/ y \in lost'
  <2>1. y \in 1..produced \/ (x \in Items /\ y = x)
    BY <1>0
  <2> QED
    BY <1>8, <2>1 DEF BalanceInv
<1> QED
  BY <1>7, <1>11, <1>12 DEF BalanceInv

\* The thread takes the first line of the log and decodes it or not; either way
\* the item of the line is on one line, or lost.
LEMMA LineRead ==
    ASSUME TypeInv, LinesInv, BalanceInv, ReadLine \/ SkipChunk
    PROVE  LinesInv' /\ BalanceInv'
<1>0. log \in Seq(Line) /\ msgs \in Seq(Line) /\ log # <<>> /\ log' = Tail(log)
  BY DEF TypeInv, ReadLine, SkipChunk
<1>1. PICK x : x = Head(log)
  OBVIOUS
<1>2. /\ log' \in Seq(Line) /\ Len(log') \in Nat /\ Len(log) = Len(log') + 1
      /\ 1 \in 1..Len(log) /\ x = log[1] /\ x \in Line
      /\ \A i \in 1..Len(log') : i + 1 \in 1..Len(log) /\ log'[i] = log[i + 1] /\ log'[i] \in Line
      /\ \A i \in 1..Len(log) : i = 1 \/ \E j \in 1..Len(log') : i = j + 1
      /\ Len(log') = 0 <=> log' = <<>>
  BY <1>0, <1>1, LineTaken
<1>3. /\ InOrder(log')
      /\ x \in Items => \A i \in 1..Len(log') : log'[i] \in Items => x < log'[i]
      /\ x = Failure => log' = <<>>
  BY <1>0, <1>1, InOrderTaken DEF LinesInv
<1>4. /\ \A i \in 1..Len(msgs), j \in 1..Len(log') :
            msgs[i] \in Items /\ log'[j] \in Items => msgs[i] < log'[j]
      /\ \A i \in 1..Len(msgs) : msgs[i] # Failure /\ (msgs[i] \in Items /\ x \in Items => msgs[i] < x)
  BY <1>0, <1>2 DEF LinesInv
<1>5. container' = "running" =>
         /\ \A i \in 1..Len(msgs) : msgs[i] # Failure
         /\ \A j \in 1..Len(log') : log'[j] # Failure
         /\ x # Failure
  BY <1>2 DEF LinesInv, ReadLine, SkipChunk
<1>6. ASSUME NEW y, \E j \in 1..Len(log) : log[j] = y
      PROVE  y = x \/ \E j \in 1..Len(log') : log'[j] = y
  BY <1>2, <1>6
<1>7. ASSUME NEW y, \E j \in 1..Len(log') : log'[j] = y
      PROVE  \E j \in 1..Len(log) : log[j] = y
  BY <1>2, <1>7
<1>8. CASE ReadLine
  <2>0. msgs' = Append(msgs, x) /\ UNCHANGED <<container, lost, produced>>
    BY <1>8, <1>1 DEF ReadLine
  <2>1. /\ Len(msgs) \in Nat /\ Len(msgs') = Len(msgs) + 1
        /\ \A i \in 1..Len(msgs) : i \in 1..Len(msgs') /\ msgs'[i] = msgs[i]
        /\ Len(msgs') \in 1..Len(msgs') /\ msgs'[Len(msgs')] = x
        /\ \A i \in 1..Len(msgs') : i \in 1..Len(msgs) \/ i = Len(msgs')
    BY <1>0, <1>2, <2>0, LineAppended
  <2>2. InOrder(msgs')
    BY <1>0, <1>2, <1>4, <2>0, InOrderAppended DEF LinesInv
  <2>3. ASSUME NEW i \in 1..Len(msgs'), NEW j \in 1..Len(log'), msgs'[i] \in Items, log'[j] \in Items
        PROVE  msgs'[i] < log'[j]
    <3>1. CASE i \in 1..Len(msgs)
      BY <1>4, <2>1, <2>3, <3>1
    <3>2. CASE i = Len(msgs')
      BY <1>3, <2>1, <2>3, <3>2
    <3> QED
      BY <2>1, <3>1, <3>2
  <2>4. ASSUME NEW i \in 1..Len(msgs'), msgs'[i] = Failure
        PROVE  log' = <<>> /\ container' # "running"
    BY <1>3, <1>4, <1>5, <2>1, <2>4
  <2>5. LinesInv'
    BY <1>3, <1>5, <2>2, <2>3, <2>4 DEF LinesInv
  <2>6. ASSUME NEW y
        PROVE  OnLine(y)' <=> OnLine(y)
    <3>1. (\E i \in 1..Len(msgs') : msgs'[i] = y) <=> (\E i \in 1..Len(msgs) : msgs[i] = y) \/ y = x
      BY <2>1
    <3>2. (\E j \in 1..Len(log) : log[j] = y) <=> (\E j \in 1..Len(log') : log'[j] = y) \/ y = x
      BY <1>2, <1>6, <1>7
    <3> QED
      BY <3>1, <3>2 DEF OnLine
  <2> QED
    BY <2>0, <2>5, <2>6 DEF BalanceInv
<1>9. CASE SkipChunk
  <2>0. lost' = lost \cup ({x} \cap Items) /\ UNCHANGED <<container, msgs, produced>>
    BY <1>9, <1>1 DEF SkipChunk
  <2>1. LinesInv'
    BY <1>3, <1>4, <1>5, <2>0 DEF LinesInv
  <2>2. \A y : OnLine(y) => OnLine(y)' \/ y = x
    BY <1>6, <2>0 DEF OnLine
  <2>3. \A y : OnLine(y)' => OnLine(y)
    BY <1>7, <2>0 DEF OnLine
  <2>4. OnLine(x)
    BY <1>2 DEF OnLine
  <2>5. ASSUME x \in Items, OnLine(x)'
        PROVE  FALSE
    <3>1. x \in Nat
      BY <2>5, LineFacts
    <3>2. ~(\E i \in 1..Len(msgs) : msgs[i] = x)
      BY <1>4, <2>5, <3>1
    <3>3. ~(\E j \in 1..Len(log') : log'[j] = x)
      BY <1>3, <2>5, <3>1
    <3> QED
      BY <2>0, <2>5, <3>2, <3>3 DEF OnLine
  <2>6. produced \in Nat /\ \A y \in 1..produced : y \in Items
    BY LineFacts DEF TypeInv
  <2> QED
    BY <2>0, <2>1, <2>2, <2>3, <2>4, <2>5, <2>6 DEF BalanceInv
<1> QED
  BY <1>8, <1>9

LEMMA LinesStep ==
    ASSUME TypeInv, LinesInv, BalanceInv, LifeInv, [Next]_vars
    PROVE  LinesInv' /\ BalanceInv'
<1>1. ASSUME UNCHANGED <<log, msgs, produced, lost>>, container' = "running" => container = "running"
      PROVE  LinesInv' /\ BalanceInv'
  BY <1>1 DEF LinesInv, BalanceInv, OnLine
<1>2. CASE PrintItem
  <2>1. produced + 1 \in Items
    BY <1>2, LineFacts DEF PrintItem, TypeInv
  <2> QED
    BY <1>2, <2>1, LineFacts, Printed DEF PrintItem
<1>3. CASE PrintScalar
  BY <1>3, LineFacts, Printed DEF PrintScalar
<1>4. ASSUME NEW end \in {"ok", "raised", "fatal"}, Exit(end)
      PROVE  LinesInv' /\ BalanceInv'
  <2>1. CASE end = "raised"
    BY <1>4, <2>1, LineFacts, Printed DEF Exit
  <2>2. CASE end # "raised"
    BY <1>1, <1>4, <2>2 DEF Exit
  <2> QED
    BY <2>1, <2>2
<1>5. CASE ReadLine \/ SkipChunk
  BY <1>5, LineRead
<1>6. CASE Begin
  <2>1. log = <<>> /\ msgs = <<>> /\ UNCHANGED <<log, msgs, produced, lost>>
    BY <1>6 DEF Begin, LifeInv
  <2>2. Len(log) = 0 /\ Len(msgs) = 0
    BY <2>1, EmptySeq
  <2> QED
    BY <2>1, <2>2 DEF LinesInv, BalanceInv, OnLine
<1>7. CASE LogEnds \/ LogBreaks \/ BeginFails \/ Drop \/ Tick \/ UNCHANGED vars
  BY <1>1, <1>7 DEF LogEnds, LogBreaks, BeginFails, Drop, Tick, vars
<1>8. ASSUME NEW final, Leave(final)
      PROVE  container' = "running" => container = "running"
  BY <1>8 DEF Leave
<1>9. CASE Receive \/ Ask \/ TimesOut \/ Finalise \/ CancelRead
  BY <1>1, <1>8, <1>9 DEF Receive, Ask, Consume, TimesOut, Finalise, CancelRead
<1> QED
  BY <1>2, <1>3, <1>4, <1>5, <1>6, <1>7, <1>9
  DEF Next, ContainerStep, ReaderStep, GenStep, RunnerStep

-----------------------------------------------------------------------------
(* The life of the parts, and what the generator has taken.                *)

\* One turn of the loop over the messages: the item after the last one, or the
\* end of the generator.
LEMMA Consumed ==
    ASSUME TypeInv, LinesInv, LifeInv, TakenInv, Consume(pos + 1), UNCHANGED msgs, reader = "done",
           pos <= Len(msgs)
    PROVE  /\ TakenInv' /\ pos' > 0 /\ pos' \in Nat
           /\ \/ gen' = "yield" /\ at < at' /\ at' \in Items /\ UNCHANGED container
              \/ gen' \in {"ended", "raised"} /\ Leave(gen') /\ UNCHANGED at
<1>0. pos \in Nat /\ Len(msgs) \in Nat /\ pos' = pos + 1 /\ at \in Nat
  BY LenProperties, LineFacts DEF TypeInv, Consume
<1> DEFINE n == pos + 1
<1>1. ASSUME n <= Len(msgs), msgs[n] \in Items, gen' = "yield", at' = msgs[n], delivered' = delivered \cup {msgs[n]}
      PROVE  TakenInv' /\ at < at'
  <2>1. n \in 1..Len(msgs) /\ pos < n
    BY <1>0, <1>1
  <2>2. at < at'
    BY <1>1, <2>1 DEF TakenInv
  <2>3. \A i \in 1..Len(msgs) : i <= n <=> i <= pos \/ i = n
    BY <1>0
  <2> HIDE DEF n
  <2>4. delivered' = {x \in Items : \E i \in 1..Len(msgs) : i <= n /\ msgs[i] = x}
    BY <1>1, <2>1, <2>3 DEF TakenInv
  <2>5. \A i \in 1..Len(msgs) : n < i /\ msgs[i] \in Items => at' < msgs[i]
    BY <1>1, <2>1 DEF LinesInv, InOrder
  <2>6. pos' = n
    BY <1>0 DEF n
  <2>7. pos' <= Len(msgs) /\ pos' <= Len(msgs) + 1
    BY <1>0, <1>1, <2>6
  <2> QED
    BY <1>1, <2>2, <2>4, <2>5, <2>6, <2>7 DEF TakenInv
<1>2. ASSUME gen' \in {"ended", "raised"}, UNCHANGED <<at, delivered>>, gen' = "ended" => n > Len(msgs),
             n <= Len(msgs) => msgs[n] \notin Items
      PROVE  TakenInv'
  <2>1. pos' <= Len(msgs) + 1 /\ (gen' = "ended" => pos' = Len(msgs) + 1)
    BY <1>0, <1>2
  <2>2. \A i \in 1..Len(msgs) : i <= pos' <=> i <= pos \/ i = n
    BY <1>0
  <2>3. \A i \in 1..Len(msgs) : pos' < i => pos < i
    BY <1>0
  <2>4. \A i \in 1..Len(msgs) : i = n => msgs[i] \notin Items
    BY <1>2
  <2> HIDE DEF n
  <2>5. delivered' = {x \in Items : \E i \in 1..Len(msgs) : i <= pos' /\ msgs[i] = x}
    BY <1>2, <2>2, <2>4 DEF TakenInv
  <2> QED
    BY <1>2, <2>1, <2>3, <2>5 DEF TakenInv
<1>3. pos' > 0 /\ pos' \in Nat
  BY <1>0
<1>4. CASE n <= Len(msgs) /\ msgs[n] \in Items /\ gen' = "yield"
  <2>1. at' = msgs[n] /\ delivered' = delivered \cup {msgs[n]} /\ UNCHANGED container
    BY <1>0, <1>4, LineFacts DEF Consume, Leave
  <2> QED
    BY <1>1, <1>3, <1>4, <2>1
<1>5. CASE n > Len(msgs) /\ Leave("ended") /\ UNCHANGED <<at, delivered>>
  <2>1. gen' = "ended" /\ ~(n <= Len(msgs))
    BY <1>0, <1>5 DEF Leave
  <2> QED
    BY <1>2, <1>3, <1>5, <2>1
<1>6. CASE n <= Len(msgs) /\ msgs[n] \in {Failure, Scalar} /\ Leave("raised") /\ UNCHANGED <<at, delivered>>
  <2>1. gen' = "raised" /\ msgs[n] \notin Items
    BY <1>6, LineFacts DEF Leave
  <2> QED
    BY <1>2, <1>3, <1>6, <2>1
<1> QED
  BY <1>4, <1>5, <1>6 DEF Consume

LEMMA LifeStep ==
    ASSUME TypeInv, LinesInv, LifeInv, TakenInv, [Next]_vars
    PROVE  LifeInv' /\ TakenInv'
<1>0. pos \in Nat /\ Len(msgs) \in Nat
  BY LenProperties DEF TypeInv
<1>1. ASSUME UNCHANGED <<msgs, pos, at, delivered>>, gen' = gen \/ gen' \in Ended \ {"ended"} \/ gen' = "read"
                                                    \/ (gen = "yield" /\ gen' = "dropped")
      PROVE  TakenInv'
  BY <1>1 DEF TakenInv, Ended
<1>2. ASSUME NEW final \in Ended, Leave(final), gen # "new",
             UNCHANGED <<log, msgs, produced, reader, broken>>
      PROVE  (gen \in {"read", "yield", "dropped"} /\ UNCHANGED <<pos, at>> /\ final # "ended") => LifeInv'
  BY <1>2 DEF Leave, LifeInv, Ended
<1>3. CASE PrintItem \/ PrintScalar
  BY <1>1, <1>3 DEF PrintItem, PrintScalar, LifeInv
<1>4. ASSUME NEW end \in {"ok", "raised", "fatal"}, Exit(end)
      PROVE  LifeInv' /\ TakenInv'
  <2>1. LifeInv'
    BY <1>4 DEF Exit, LifeInv
  <2> QED
    BY <1>1, <1>4, <2>1 DEF Exit
<1>5. CASE ReadLine
  <2>0. reader = "reading" /\ pos = 0 /\ log # <<>> /\ log \in Seq(Line) /\ msgs \in Seq(Line)
    BY <1>0, <1>5 DEF ReadLine, LifeInv, TypeInv
  <2>1. LifeInv'
    BY <1>5, <2>0 DEF ReadLine, LifeInv
  <2>2. /\ Len(msgs') \in Nat /\ Head(log) \in Line /\ Len(msgs') = Len(msgs) + 1
        /\ \A i \in 1..Len(msgs') : i \in 1..Len(msgs) \/ i = Len(msgs')
        /\ \A i \in 1..Len(msgs) : msgs'[i] = msgs[i]
    BY <1>5, <2>0, LineTaken, LineAppended DEF ReadLine
  <2>3. /\ \A i \in 1..Len(msgs) : ~(i <= pos)
        /\ \A i \in 1..Len(msgs') : ~(i <= pos)
    BY <2>0
  <2>4. delivered = {} /\ at = 0
    BY <2>0, <2>3 DEF TakenInv, LifeInv
  <2>5. delivered' = {x \in Items : \E i \in 1..Len(msgs') : i <= pos' /\ msgs'[i] = x}
    BY <1>5, <2>3, <2>4 DEF ReadLine
  <2>6. \A x \in Items : at' < x
    BY <1>5, <2>4, LineFacts DEF ReadLine
  <2>7. gen' \notin {"yield", "dropped", "ended"}
    BY <1>0, <1>5, <2>0 DEF ReadLine, LifeInv
  <2>8. pos' <= Len(msgs') + 1
    BY <1>5, <2>0, <2>2 DEF ReadLine
  <2> QED
    BY <2>1, <2>5, <2>6, <2>7, <2>8 DEF TakenInv
<1>6. CASE SkipChunk
  <2>1. pos = 0 /\ log # <<>>
    BY <1>0, <1>6 DEF SkipChunk, LifeInv
  <2>2. LifeInv'
    BY <1>6, <2>1 DEF SkipChunk, LifeInv
  <2> QED
    BY <1>1, <1>6, <2>2 DEF SkipChunk
<1>7. CASE LogEnds \/ LogBreaks
  <2>1. pos = 0 /\ (container = "removed" => gen \in Ended)
    BY <1>0, <1>7 DEF LogEnds, LogBreaks, LifeInv
  <2>2. LifeInv'
    BY <1>7, <2>1 DEF LogEnds, LogBreaks, LifeInv
  <2> QED
    BY <1>1, <1>7, <2>2 DEF LogEnds, LogBreaks
<1>8. CASE BeginFails
  <2>1. LifeInv'
    BY <1>8 DEF BeginFails, LifeInv, Ended
  <2> QED
    BY <1>1, <1>8, <2>1 DEF BeginFails, Ended
<1>9. CASE Begin
  <2>1. LifeInv'
    BY <1>9 DEF Begin, LifeInv, Ended
  <2> QED
    BY <1>1, <1>9, <2>1 DEF Begin
<1>10. ASSUME Consume(pos + 1), reader = "done", pos <= Len(msgs), gen \in {"read", "yield"},
              UNCHANGED <<produced, log, reader, msgs, broken>>
       PROVE  LifeInv' /\ TakenInv'
  <2>1. /\ TakenInv' /\ pos' > 0 /\ pos' \in Nat
        /\ \/ gen' = "yield" /\ UNCHANGED container
           \/ gen' \in {"ended", "raised"} /\ Leave(gen')
    BY <1>10, Consumed
  <2>2. pos' # 0
    BY <2>1
  <2>3. gen \notin Ended /\ (~broken => container \in {"exited", "removed"} /\ log = <<>>)
        /\ container \notin {"absent", "created"} /\ container # "removed"
    BY <1>10 DEF LifeInv, Ended
  <2>4. container' \in {container, "removed"} /\ (container' = "removed" => gen' \in Ended)
    BY <2>1, <2>3 DEF Leave, Ended
  <2>5. LifeInv'
    BY <1>10, <2>1, <2>2, <2>3, <2>4 DEF LifeInv
  <2> QED
    BY <2>1, <2>5
<1>11. CASE Receive
  <2>1. pos = 0 /\ pos + 1 = 1 /\ pos <= Len(msgs)
    BY <1>0, <1>11 DEF Receive, LifeInv
  <2> QED
    BY <1>10, <1>11, <2>1 DEF Receive
<1>12. CASE Ask
  <2>1. reader = "done" /\ pos <= Len(msgs)
    BY <1>12 DEF Ask, LifeInv, TakenInv
  <2> QED
    BY <1>10, <1>12, <2>1 DEF Ask
<1>13. CASE Drop
  <2>1. LifeInv'
    BY <1>13 DEF Drop, LifeInv, Ended
  <2> QED
    BY <1>1, <1>13, <2>1 DEF Drop
<1>14. CASE TimesOut \/ Finalise \/ CancelRead
  <2>1. LifeInv'
    BY <1>2, <1>14 DEF TimesOut, Finalise, CancelRead, Ended
  <2> QED
    BY <1>1, <1>14, <2>1 DEF TimesOut, Finalise, CancelRead, Leave, Ended
<1>15. CASE Tick \/ UNCHANGED vars
  <2>1. LifeInv'
    BY <1>15 DEF Tick, LifeInv, vars
  <2> QED
    BY <1>1, <1>15, <2>1 DEF Tick, vars
<1> QED
  BY <1>3, <1>4, <1>5, <1>6, <1>7, <1>8, <1>9, <1>11, <1>12, <1>13, <1>14, <1>15
  DEF Next, ContainerStep, ReaderStep, GenStep, RunnerStep

-----------------------------------------------------------------------------
(* Theorems.                                                               *)

LEMMA DockerInit == Init => DockerInv
<1> SUFFICES ASSUME Init
             PROVE  DockerInv
  OBVIOUS
<1>0. MaxItems \in Nat /\ Deadline \in Nat /\ log = <<>> /\ msgs = <<>> /\ Len(log) = 0 /\ Len(msgs) = 0
  BY DockerAssumption, EmptySeq DEF DockerAssumption, Init
<1>1. log \in Seq(Line) /\ msgs \in Seq(Line)
  BY <1>0
<1>2. TypeInv
  <2>1. {produced, at} \subseteq 0..MaxItems /\ clock \in 0..Deadline /\ pos \in Nat
    BY <1>0 DEF Init
  <2> QED
    BY <1>1, <2>1 DEF Init, TypeInv
<1>3. LinesInv
  BY <1>0 DEF Init, LinesInv, InOrder
<1>4. BalanceInv
  BY <1>0 DEF Init, BalanceInv, OnLine
<1>5. LifeInv
  BY <1>0 DEF Init, LifeInv, Ended
<1>6. TakenInv
  BY <1>0 DEF Init, TakenInv
<1> QED
  BY <1>2, <1>3, <1>4, <1>5, <1>6 DEF DockerInv

LEMMA DockerStep == DockerInv /\ [Next]_vars => DockerInv'
  BY TypeStep, LinesStep, LifeStep DEF DockerInv

LEMMA DockerInvariant == Spec => []DockerInv
<1>1. Init => DockerInv
  BY DockerInit
<1> QED
  BY <1>1, DockerStep, PTL DEF Spec

\* A run in a container that ends as drained, or with the error of its spider,
\* has yielded all that was produced and could be decoded, unless the connection
\* broke: the log was read to its end, and nothing comes behind the error.
THEOREM EndComesLast == Spec => []EndsAfterItems
<1>1. DockerInv => EndsAfterItems
  <2> SUFFICES ASSUME DockerInv, ~broken,
                      gen = "ended" \/ (gen = "raised" /\ pos > 0 /\ msgs[pos] = Failure)
               PROVE  delivered = 1..produced \ lost
    BY DEF EndsAfterItems
  <2>0. /\ pos \in Nat /\ pos > 0 /\ Len(msgs) \in Nat /\ produced \in Nat /\ produced <= MaxItems
        /\ MaxItems \in Nat
    BY LenProperties, LineFacts DEF DockerInv, TypeInv, LifeInv
  <2>1. log = <<>>
    BY <2>0 DEF DockerInv, LifeInv
  <2>2. pos >= Len(msgs)
    <3>1. CASE gen = "ended"
      BY <2>0, <3>1 DEF DockerInv, TakenInv
    <3>2. CASE gen = "raised" /\ msgs[pos] = Failure
      <4>1. pos \in 1..Len(msgs) => pos = Len(msgs)
        BY <3>2 DEF DockerInv, LinesInv, InOrder
      <4> QED
        BY <2>0, <4>1
    <3> QED
      BY <3>1, <3>2
  <2>3. \A i \in 1..Len(msgs) : i <= pos
    BY <2>0, <2>2
  <2>4. \A x : OnLine(x) <=> \E i \in 1..Len(msgs) : msgs[i] = x
    BY <2>1, EmptySeq DEF OnLine
  <2>5. \A x \in Items : x \in delivered <=> OnLine(x)
    BY <2>3, <2>4 DEF DockerInv, TakenInv
  <2>6. delivered \subseteq Items
    BY DEF DockerInv, TypeInv
  <2>7. \A x : x \in 1..produced <=> x \in Items /\ x <= produced
    BY <2>0 DEF Items
  <2> QED
    BY <2>5, <2>6, <2>7 DEF DockerInv, BalanceInv
<1> QED
  BY <1>1, DockerInvariant, PTL

\* A step of the run is a step of the stream it promises, or none.
LEMMA StreamStep ==
    ASSUME DockerInv, [Next]_vars
    PROVE  [Stream!Next]_(Stream!streamVars)
<1> USE DEF Stream!Next, Stream!Yield, Stream!Close, Stream!streamVars
<1>1. ASSUME UNCHANGED <<gen, at>>
      PROVE  [Stream!Next]_(Stream!streamVars)
  BY <1>1
<1>2. ASSUME gen' \in Ended, gen \notin Ended, UNCHANGED at
      PROVE  [Stream!Next]_(Stream!streamVars)
  BY <1>2
<1>3. ASSUME Consume(pos + 1), gen \in {"read", "yield"}, reader = "done", UNCHANGED msgs, pos <= Len(msgs)
      PROVE  [Stream!Next]_(Stream!streamVars)
  <2>1. CASE gen' = "yield" /\ at < at' /\ at' \in Items
    <3>1. at' \in (at + 1)..MaxItems
      BY <2>1, LineFacts DEF DockerInv, TypeInv
    <3> QED
      BY <1>3, <2>1, <3>1 DEF Ended
  <2>2. CASE gen' \in {"ended", "raised"} /\ UNCHANGED at
    BY <1>2, <1>3, <2>2 DEF Ended
  <2> QED
    BY <1>3, <2>1, <2>2, Consumed DEF DockerInv
<1>4. CASE ContainerStep \/ ReaderStep \/ LogBreaks \/ Tick \/ UNCHANGED vars
  BY <1>1, <1>4
  DEF ContainerStep, PrintItem, PrintScalar, Exit, ReaderStep, ReadLine, SkipChunk, LogEnds, LogBreaks,
      Tick, vars
<1>5. CASE BeginFails \/ Begin \/ Drop
  BY <1>5 DEF BeginFails, Begin, Drop, Ended
<1>6. CASE Receive
  <2>1. pos = 0 /\ Len(msgs) \in Nat /\ pos + 1 = 1 /\ pos <= Len(msgs)
    BY <1>6, LenProperties DEF Receive, DockerInv, LifeInv, TypeInv
  <2> QED
    BY <1>3, <1>6, <2>1 DEF Receive
<1>7. CASE Ask
  <2>1. reader = "done" /\ pos <= Len(msgs)
    BY <1>7 DEF Ask, DockerInv, LifeInv, TakenInv
  <2> QED
    BY <1>3, <1>7, <2>1 DEF Ask
<1>8. CASE TimesOut \/ Finalise \/ CancelRead
  BY <1>2, <1>8 DEF TimesOut, Finalise, CancelRead, Leave, Ended
<1> QED
  BY <1>4, <1>5, <1>6, <1>7, <1>8 DEF Next, GenStep, RunnerStep

\* run_sandboxed over a container keeps the safety part of ItemStream: the items
\* are yielded in the order the spider produced them, none twice, and nothing
\* after the end.
THEOREM KeepsStream == Spec => Stream!Safety
<1>1. Init => Stream!Init
  BY DEF Init, Stream!Init, Ended
<1>2. DockerInv /\ [Next]_vars => [Stream!Next]_(Stream!streamVars)
  BY StreamStep
<1> QED
  BY <1>1, <1>2, DockerInvariant, PTL DEF Spec, Stream!Safety
=============================================================================
