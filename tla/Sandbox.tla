------------------------------ MODULE Sandbox ------------------------------
(***************************************************************************)
(* One run of a spider in the subprocess sandbox: the generator            *)
(* run_sandboxed (core/sandbox_runner.py) that SpiderRunner drains, the    *)
(* child process that runs the spider (core/spider_loader.py), and the     *)
(* multiprocessing.Queue between them.                                     *)
(*                                                                         *)
(* Items are numbered in the order the spider produces them, so a batch is *)
(* an interval lo+1..hi and an items message carries its two bounds.  A    *)
(* queue is a buffer in the child, which a feeder thread pickles into a    *)
(* pipe; a semaphore bounds the two together.  SIGTERM and SIGKILL of      *)
(* _kill_process, which blocks the event loop, are one step.               *)
(***************************************************************************)
EXTENDS Integers, Sequences, FiniteSets

CONSTANTS
    BatchSize,    \* SandboxConfig.batch_size
    QueueSize,    \* maxsize of the queue
    Deadline,     \* SandboxConfig.timeout_seconds, in ticks
    MaxItems      \* bound: items the spider produces

ASSUME SandboxAssumption ==
    /\ BatchSize \in Nat \ {0}
    /\ QueueSize \in Nat \ {0}
    /\ Deadline \in Nat \ {0}
    /\ MaxItems \in Nat

VARIABLES
    \* The child process.
    mode,         \* how the spider is run: _run_simple or _run_with_scrapling
    child,        \* where the child is
    how,          \* how the spider code ended
    produced,     \* items the spider has produced
    scraped,      \* ... of which on_item_scraped has seen
    batched,      \* ... of which are in messages; the rest is the batch
    buffer, pipe, \* the queue
    stopEvent,    \* stop_event is set
    \* The generator.
    gen,          \* where the generator is
    at, to,       \* the items at+1..to of the message in hand are still to yield
    clock,        \* time since the start, up to the deadline
    \* History.
    delivered,    \* items yielded to the runner
    lost          \* items that can reach no pipe any more

childVars == <<mode, child, how, produced, scraped, batched, buffer, stopEvent, lost>>

genVars == <<gen, at, to, clock, delivered>>

vars == <<mode, child, how, produced, scraped, batched, buffer, pipe, stopEvent,
          gen, at, to, clock, delivered, lost>>

Items == 1..MaxItems

Batch == [type: {"items"}, lo: 0..MaxItems, hi: Items]

Notice == [type: {"done", "error"}]

Child == {"absent", "load", "start", "crawl", "put", "flush", "report", "exit", "dead"}

Gen == {"new", "read", "yield", "dropped", "ended", "raised", "timedOut", "closed"}

Ended == {"ended", "raised", "timedOut", "closed"}

Room == Len(buffer) + Len(pipe) < QueueSize

Put(msg) == Room /\ buffer' = Append(buffer, msg)

\* queue.put of the batch, which starts anew.
PutBatch ==
    /\ Put([type |-> "items", lo |-> batched, hi |-> scraped])
    /\ batched' = scraped

-----------------------------------------------------------------------------
(* The child: _child_entry and run_spider_in_subprocess.                   *)

\* The spider is loaded and its session made, or that raises.
Load ==
    /\ child = "load"
    /\ \/ child' = (IF mode = "simple" THEN "crawl" ELSE "start") /\ UNCHANGED how
       \/ child' = "report" /\ how' = "raised"
    /\ UNCHANGED <<mode, produced, scraped, batched, buffer, pipe, stopEvent, genVars, lost>>

\* start() of the Scrapling spider, in a thread, crawls to the end before an
\* item is looked at.
Crawl ==
    /\ child = "start" /\ produced < MaxItems
    /\ produced' = produced + 1
    /\ UNCHANGED <<mode, child, how, scraped, batched, buffer, pipe, stopEvent, genVars, lost>>

\* It returns, or raises and takes all that was crawled with it.
CrawlEnds(end) ==
    /\ child = "start"
    /\ \/ end = "ok" /\ child' = "crawl" /\ UNCHANGED <<how, lost>>
       \/ end # "ok" /\ child' = "report" /\ how' = end /\ lost' = lost \cup 1..produced
    /\ UNCHANGED <<mode, produced, scraped, batched, buffer, pipe, stopEvent, genVars>>

\* The loop over the items: run() yields the next one, or there is one more of
\* those that start() returned.  It joins the batch; a full batch is put.
Scrape ==
    /\ child = "crawl" /\ ~stopEvent
    /\ \/ mode = "simple" /\ produced < MaxItems /\ produced' = produced + 1
       \/ mode = "scrapling" /\ scraped < produced /\ UNCHANGED produced
    /\ scraped' = scraped + 1
    /\ child' = IF scraped' - batched >= BatchSize THEN "put" ELSE "crawl"
    /\ UNCHANGED <<mode, how, batched, buffer, pipe, stopEvent, genVars, lost>>

\* Mutant of PutFull: the queue has no bound.
PutUnbounded ==
    /\ child = "put"
    /\ buffer' = Append(buffer, [type |-> "items", lo |-> batched, hi |-> scraped])
    /\ batched' = scraped
    /\ child' = "crawl"
    /\ UNCHANGED <<mode, how, produced, scraped, pipe, stopEvent, genVars, lost>>

\* Mutant of PutFull: the batch that was put is not begun anew.
PutFullAgain ==
    /\ child = "put"
    /\ Put([type |-> "items", lo |-> batched, hi |-> scraped])
    /\ child' = "crawl"
    /\ UNCHANGED <<mode, how, produced, scraped, batched, pipe, stopEvent, genVars, lost>>

\* A full batch is put, which waits for room in the queue.
PutFull ==
    /\ child = "put"
    /\ PutBatch
    /\ child' = "crawl"
    /\ UNCHANGED <<mode, how, produced, scraped, pipe, stopEvent, genVars, lost>>

\* Mutant of FinishCrawl: an empty batch is flushed, too.
FinishCrawlUnchecked(end) ==
    /\ child = "crawl" /\ (mode = "scrapling" /\ end = "ok" => scraped = produced \/ stopEvent)
    /\ how' = end
    /\ child' = IF mode = "simple" \/ end = "ok" THEN "flush" ELSE "report"
    /\ lost' = lost \cup (IF child' = "flush" THEN scraped + 1 ELSE batched + 1)..produced
    /\ UNCHANGED <<mode, produced, scraped, batched, buffer, pipe, stopEvent, genVars>>

\* The loop ends: it is exhausted or sees the stop event, raises an Exception,
\* or leaves with an exception nothing catches (SystemExit).  _run_simple
\* flushes the batch in all cases, _run_with_scrapling only when nothing was
\* raised; what is not looked at by then is gone.
FinishCrawl(end) ==
    LET flushes == scraped # batched /\ (mode = "simple" \/ end = "ok")
    IN  /\ child = "crawl" /\ (mode = "scrapling" /\ end = "ok" => scraped = produced \/ stopEvent)
        /\ how' = end
        /\ child' = IF flushes THEN "flush" ELSE "report"
        /\ lost' = lost \cup (IF flushes THEN scraped + 1 ELSE batched + 1)..produced
        /\ UNCHANGED <<mode, produced, scraped, batched, buffer, pipe, stopEvent, genVars>>

\* Mutant of Flush: the last, partial batch is forgotten.
FlushNothing ==
    /\ child = "flush"
    /\ child' = "report"
    /\ UNCHANGED <<mode, how, produced, scraped, batched, buffer, pipe, stopEvent, genVars, lost>>

Flush ==
    /\ child = "flush"
    /\ PutBatch
    /\ child' = "report"
    /\ UNCHANGED <<mode, how, produced, scraped, pipe, stopEvent, genVars, lost>>

\* done, error, or nothing: after a stop, or after a SystemExit.
Report ==
    /\ child = "report"
    /\ \/ how = "ok" /\ ~stopEvent /\ Put([type |-> "done"])
       \/ how = "raised" /\ Put([type |-> "error"])
       \/ how = "fatal" /\ UNCHANGED buffer
       \/ how = "ok" /\ stopEvent /\ UNCHANGED buffer
    /\ child' = "exit"
    /\ UNCHANGED <<mode, how, produced, scraped, batched, pipe, stopEvent, genVars, lost>>

\* The process exits once the feeder thread is done.
ExitChild ==
    /\ child = "exit" /\ buffer = <<>>
    /\ child' = "dead"
    /\ UNCHANGED <<mode, how, produced, scraped, batched, buffer, pipe, stopEvent, genVars, lost>>

\* The kernel kills the child: CPU limit, out of memory.
Die ==
    /\ child \notin {"absent", "dead"}
    /\ child' = "dead" /\ buffer' = <<>>
    /\ UNCHANGED <<mode, how, produced, scraped, batched, pipe, stopEvent, genVars, lost>>

\* The feeder thread moves a message into the pipe.
Feed ==
    /\ child # "dead" /\ buffer # <<>>
    /\ pipe' = Append(pipe, Head(buffer))
    /\ buffer' = Tail(buffer)
    /\ UNCHANGED <<mode, child, how, produced, scraped, batched, stopEvent, genVars, lost>>

\* A batch holds a value pickle rejects: the feeder drops the message, and
\* in a process that is exiting ends, with all that is behind it.
FeedFails ==
    /\ child # "dead" /\ buffer # <<>> /\ Head(buffer).type = "items"
    /\ lost' = lost \cup (Head(buffer).lo + 1)..Head(buffer).hi
    /\ buffer' = IF child = "exit" THEN <<>> ELSE Tail(buffer)
    /\ UNCHANGED <<mode, child, how, produced, scraped, batched, pipe, stopEvent, genVars>>

ChildStep ==
    \/ Load \/ Crawl \/ Scrape \/ PutFull
    \/ \E end \in {"ok", "raised", "fatal"} : CrawlEnds(end) \/ FinishCrawl(end)
    \/ Flush \/ Report \/ ExitChild \/ Die \/ Feed \/ FeedFails

-----------------------------------------------------------------------------
(* The generator: run_sandboxed over _run_subprocess.                      *)

\* finally: the stop event is set and the child killed.
Kill ==
    /\ stopEvent' = TRUE
    /\ child' = "dead"
    /\ buffer' = <<>>
    /\ UNCHANGED <<mode, how, produced, scraped, batched, lost>>

\* The generator leaves _run_subprocess.
Leave(final) == gen' = final /\ Kill

\* The head of the loop: the deadline is looked at before every read.
ReadOn ==
    IF clock >= Deadline THEN Leave("timedOut")
    ELSE gen' = "read" /\ UNCHANGED childVars

\* The next item is yielded.
YieldItem(n) ==
    /\ gen' = "yield"
    /\ at' = n
    /\ delivered' = delivered \cup {n}

\* The source cannot be read or fails the AST check, or the process cannot
\* be created: the first __anext__ raises.
BeginFails ==
    /\ gen = "new"
    /\ gen' = "raised"
    /\ UNCHANGED <<childVars, pipe, at, to, clock, delivered>>

Begin ==
    /\ gen = "new"
    /\ gen' = "read"
    /\ child' = "load"
    /\ UNCHANGED <<mode, how, produced, scraped, batched, buffer, pipe, stopEvent, lost,
                   at, to, clock, delivered>>

\* Mutant of Receive: an error message counts as done.
ReceiveErrorAsDone ==
    /\ gen = "read" /\ pipe # <<>>
    /\ pipe' = Tail(pipe)
    /\ LET msg == Head(pipe)
       IN  \/ /\ msg.type = "items"
              /\ YieldItem(msg.lo + 1) /\ to' = msg.hi
              /\ UNCHANGED childVars
           \/ msg.type # "items" /\ Leave("ended") /\ UNCHANGED <<at, to, delivered>>
    /\ UNCHANGED clock

\* queue.get returns a message.
Receive ==
    /\ gen = "read" /\ pipe # <<>>
    /\ pipe' = Tail(pipe)
    /\ LET msg == Head(pipe)
       IN  \/ /\ msg.type = "items"
              /\ YieldItem(msg.lo + 1) /\ to' = msg.hi
              /\ UNCHANGED childVars
           \/ msg.type = "done" /\ Leave("ended") /\ UNCHANGED <<at, to, delivered>>
           \/ msg.type = "error" /\ Leave("raised") /\ UNCHANGED <<at, to, delivered>>
    /\ UNCHANGED clock

\* Mutant of ReadTimesOut: a read waits without a limit.
ReadWithoutLimit == FALSE

\* The read ended without a message and the deadline has passed.  (Before
\* the deadline it is repeated.)  A read that waits for a thread of the
\* executor misses the messages that are there.
ReadTimesOut ==
    /\ gen = "read" /\ clock >= Deadline
    /\ Leave("timedOut")
    /\ UNCHANGED <<pipe, at, to, clock, delivered>>

\* The runner has saved the item and asks for the next one.
Ask ==
    /\ gen = "yield"
    /\ \/ at < to /\ YieldItem(at + 1) /\ UNCHANGED childVars
       \/ at = to /\ ReadOn /\ UNCHANGED <<at, delivered>>
    /\ UNCHANGED <<pipe, to, clock>>

\* The runner breaks off or stop() closes the generator.  Only the outer
\* generator is closed at once: _run_subprocess is left to the finaliser of
\* the event loop.
Drop ==
    /\ gen = "yield"
    /\ gen' = "dropped"
    /\ UNCHANGED <<childVars, pipe, at, to, clock, delivered>>

\* Mutant of Finalise: the child is told to stop and not killed.
FinaliseGently ==
    /\ gen = "dropped"
    /\ gen' = "closed" /\ stopEvent' = TRUE
    /\ UNCHANGED <<mode, child, how, produced, scraped, batched, buffer, lost, pipe, at, to, clock, delivered>>

Finalise ==
    /\ gen = "dropped"
    /\ Leave("closed")
    /\ UNCHANGED <<pipe, at, to, clock, delivered>>

\* The runner's task is cancelled while it awaits the read.
CancelRead ==
    /\ gen = "read"
    /\ Leave("closed")
    /\ UNCHANGED <<pipe, at, to, clock, delivered>>

Tick ==
    /\ gen \in {"read", "yield"} /\ clock < Deadline
    /\ clock' = clock + 1
    /\ UNCHANGED <<childVars, pipe, gen, at, to, delivered>>

GenStep == BeginFails \/ Begin \/ Receive \/ ReadTimesOut \/ Finalise

RunnerStep == Ask \/ Drop \/ CancelRead

Init ==
    /\ mode \in {"simple", "scrapling"}
    /\ child = "absent" /\ how = "none"
    /\ produced = 0 /\ scraped = 0 /\ batched = 0
    /\ buffer = <<>> /\ pipe = <<>> /\ stopEvent = FALSE
    /\ gen = "new" /\ at = 0 /\ to = 0 /\ clock = 0
    /\ delivered = {} /\ lost = {}

Next == ChildStep \/ GenStep \/ RunnerStep \/ Tick

Spec == Init /\ [][Next]_vars

\* Time passes, reads come back, the event loop finalises, and the runner
\* saves an item and asks on, or breaks off.  Nothing is assumed of the child.
Fairness == WF_vars(GenStep) /\ WF_vars(Ask \/ Drop) /\ WF_vars(Tick)

FairSpec == Spec /\ Fairness

-----------------------------------------------------------------------------
(* Properties.                                                             *)

\* Every variable has its type.
TypeOK ==
    /\ mode \in {"simple", "scrapling"}
    /\ child \in Child
    /\ how \in {"none", "ok", "raised", "fatal"}
    /\ produced \in 0..MaxItems /\ scraped \in 0..MaxItems /\ batched \in 0..MaxItems
    /\ buffer \in Seq(Batch \cup Notice) /\ pipe \in Seq(Batch \cup Notice)
    /\ stopEvent \in BOOLEAN
    /\ gen \in Gen
    /\ at \in 0..MaxItems /\ to \in 0..MaxItems
    /\ clock \in 0..Deadline
    /\ delivered \in SUBSET Items /\ lost \in SUBSET Items

\* A generator that ends as drained has yielded every item the spider
\* produced, but those the child itself lost, and the spider did end.
DrainedIsComplete ==
    gen = "ended" => how = "ok" /\ delivered = 1..produced \ lost

\* An error of the spider reaches the runner after all its items.
ErrorComesLast ==
    gen = "raised" /\ child # "absent" =>
        how = "raised" /\ delivered = 1..produced \ lost

\* A spider that outruns its runner is held back: what has left the item loop
\* and the runner has not taken is one batch on each side and a full queue.  In
\* _run_simple that is all the spider has produced; _run_with_scrapling holds
\* the whole crawl before the first put, and only what it has gone through counts.
BackPressure ==
    LET sent == IF mode = "simple" THEN produced ELSE scraped
    IN  Cardinality(1..sent \ (delivered \cup lost)) < (QueueSize + 2) * BatchSize

Stream == INSTANCE ItemStream WITH open <- gen \notin Ended, last <- at

\* The run keeps the promise of run_sandboxed: items come once and in the order
\* the spider produced them, and the stream ends, whatever its process does.
ImplementsStream == Stream!Spec

\* Nobody awaits a sandbox for ever, whatever the spider code does and
\* however its process ends.
ReadEnds == gen = "read" ~> gen # "read"

\* The generator ends, and takes its child with it.
SandboxEnds == gen # "new" ~> gen \in Ended /\ child \in {"absent", "dead"}
=============================================================================
