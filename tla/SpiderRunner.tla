---------------------------- MODULE SpiderRunner ----------------------------
(***************************************************************************)
(* One SpiderRunner (core/runner.py): the asyncio task that drains a       *)
(* sandboxed spider, keeps the task row and the spider row up to date, and *)
(* retries.  A runner is made for exactly one task row and is identified   *)
(* by the id of that row.                                                  *)
(*                                                                         *)
(* Granularity.  asyncio switches tasks only at an await that suspends, so *)
(* an action is the code from one such await to the next, and pc[t]        *)
(* names the await the runner is suspended in.  A database write is one    *)
(* action: its effect and the code after it up to the next await.  Log     *)
(* writes swallow their exceptions (_log) and change no modelled row, so   *)
(* a log write is merged into the await that follows it.  Counters,        *)
(* messages and timestamps of a row are not modelled.                      *)
(***************************************************************************)
EXTENDS Integers, FiniteSets

CONSTANTS
    Spiders,      \* names of registered spiders
    NoSpider,     \* the spider of a row that does not exist yet
    MaxTasks,     \* bound: task rows ever inserted
    MaxRetries,   \* SpiderRunner.max_retries
    MaxFaults     \* bound: database writes that fail in one life of the process

ASSUME ConstantsAssumption ==
    /\ NoSpider \notin Spiders
    /\ MaxTasks \in Nat \ {0}
    /\ MaxRetries \in Nat
    /\ MaxFaults \in Nat

VARIABLES
    \* The tasks table, by row id.
    owner,        \* spider_name
    status,       \* status
    crawldir,     \* crawldir is set
    \* The spiders table.
    spiderStatus, \* status
    \* The SpiderRunner object of each task.
    pc,           \* where its asyncio task is
    retryCount,   \* retry_count
    stopEvent,    \* _stop_event is set
    sandboxGen,   \* _sandbox_gen
    cut,          \* history: items were given up on a stop
    \* The database.
    faults        \* calls that failed since the process started

TaskIds == 1..MaxTasks

\* "none": the row does not exist.  PENDING is declared but never written.
TaskStatus == {"none", "running", "completed", "failed", "paused", "crashed"}

\* DISABLED is written only by the delete route, outside this model.
SpiderStatus == {"idle", "running", "paused", "failed"}

Finished == {"returned", "cancelled", "raised"}

Pc == {"none", "log", "next", "save",
       "complete", "completeSpider", "closeSession",
       "error", "retrying", "backoff",
       "fail", "failSpider", "pause", "pauseSpider",
       "returned", "cancelled", "raised"}

\* "none" is None, "open" a live generator, "closed" one that ended, raised
\* or was closed by aclose().
Gen == {"none", "open", "closed"}

rows == <<owner, status, crawldir, spiderStatus, faults>>

runnerVars == <<pc, retryCount, stopEvent, sandboxGen, cut>>

\* The asyncio task of the runner exists and is not done().
Live(t) == pc[t] \notin Finished \cup {"none"}

Goto(t, next) ==
    /\ pc' = [pc EXCEPT ![t] = next]
    /\ UNCHANGED <<retryCount, stopEvent, sandboxGen, cut>>

\* The same when the generator changes too.
GotoWithGen(t, next, gen) ==
    /\ pc' = [pc EXCEPT ![t] = next]
    /\ sandboxGen' = [sandboxGen EXCEPT ![t] = gen]
    /\ UNCHANGED <<retryCount, stopEvent, cut>>

\* The loop over the generator ends on a stop: it is abandoned.
GiveUpItems(t) ==
    /\ pc' = [pc EXCEPT ![t] = "complete"]
    /\ sandboxGen' = [sandboxGen EXCEPT ![t] = "none"]
    /\ cut' = [cut EXCEPT ![t] = TRUE]
    /\ UNCHANGED <<retryCount, stopEvent>>

\* A database call that fails costs one of the faults allowed.
Fault == faults < MaxFaults /\ faults' = faults + 1

-----------------------------------------------------------------------------
(* The two commits of _update_task_status, each of which may fail: the     *)
(* runner is at from; after the commit it goes on to next, and an          *)
(* exception takes it to handler.                                          *)
CommitTask(t, from, new, next, handler) ==
    /\ pc[t] = from
    /\ \/ /\ status' = [status EXCEPT ![t] = new]
          /\ Goto(t, next)
          /\ UNCHANGED faults
       \/ Fault /\ Goto(t, handler) /\ UNCHANGED status
    /\ UNCHANGED <<owner, crawldir, spiderStatus>>

CommitSpider(t, from, new, next, handler) ==
    /\ pc[t] = from
    /\ \/ /\ spiderStatus' = [spiderStatus EXCEPT ![owner[t]] = new]
          /\ Goto(t, next)
          /\ UNCHANGED faults
       \/ Fault /\ Goto(t, handler) /\ UNCHANGED spiderStatus
    /\ UNCHANGED <<owner, status, crawldir>>

-----------------------------------------------------------------------------
(* _run before and inside its try block.                                   *)

\* Mutant of Launch: a new attempt clears the stop event.
LaunchClearingStop(t) ==
    /\ pc[t] = "log"
    /\ pc' = [pc EXCEPT ![t] = "next"]
    /\ sandboxGen' = [sandboxGen EXCEPT ![t] = "open"]
    /\ stopEvent' = [stopEvent EXCEPT ![t] = FALSE]
    /\ UNCHANGED <<rows, retryCount, cut>>

\* The opening log write is over: a new sandbox generator is made and its
\* first item awaited.  The stop event is not looked at here.
Launch(t) == pc[t] = "log" /\ GotoWithGen(t, "next", "open") /\ UNCHANGED rows

\* Mutant of GetItem: the loop does not look at the stop event.
GetItemUnchecked(t) == pc[t] = "next" /\ Goto(t, "save") /\ UNCHANGED rows

\* The sandbox yields an item: it is saved, unless a stop was requested.
GetItem(t) ==
    /\ pc[t] = "next" /\ ~stopEvent[t]
    /\ Goto(t, "save")
    /\ UNCHANGED rows

\* break: the item is dropped and the generator abandoned.
DropItem(t) ==
    /\ pc[t] = "next" /\ stopEvent[t]
    /\ GiveUpItems(t)
    /\ UNCHANGED rows

\* The sandbox is drained.
EndOfItems(t) ==
    /\ pc[t] = "next"
    /\ GotoWithGen(t, "complete", "none")
    /\ UNCHANGED rows

\* _save_item is over, its exceptions swallowed.  The next __anext__ on a
\* generator that stop() closed meanwhile ends the loop as if drained.
SavedItem(t) ==
    /\ pc[t] = "save"
    /\ IF sandboxGen[t] = "open" THEN Goto(t, "next") ELSE GiveUpItems(t)
    /\ UNCHANGED rows

\* The spider code, the AST check or the child raised.
SandboxError(t) ==
    /\ pc[t] = "next"
    /\ GotoWithGen(t, "error", "closed")
    /\ UNCHANGED rows

\* The sandbox deadline passed: FAILED, without a retry.
SandboxTimeout(t) ==
    /\ pc[t] = "next"
    /\ GotoWithGen(t, "fail", "closed")
    /\ UNCHANGED rows

CompleteTask(t) == CommitTask(t, "complete", "completed", "completeSpider", "error")

CompleteSpider(t) == CommitSpider(t, "completeSpider", "idle", "closeSession", "error")

\* The last session of the try block is closed and _run returns.
CloseSession(t) == pc[t] = "closeSession" /\ Goto(t, "returned") /\ UNCHANGED rows

-----------------------------------------------------------------------------
(* The exception handlers of _run.  They stand outside the try block:      *)
(* what they raise, and a cancellation that reaches them, leaves _run.     *)

\* Mutant of HandleError: the retries are not limited.
HandleErrorUnlimited(t) ==
    /\ pc[t] = "error"
    /\ pc' = [pc EXCEPT ![t] = "retrying"]
    /\ retryCount' = [retryCount EXCEPT ![t] = @ + 1]
    /\ UNCHANGED <<rows, stopEvent, sandboxGen, cut>>

\* Mutant of HandleError: the retries are not counted.
HandleErrorUncounted(t) ==
    /\ pc[t] = "error"
    /\ Goto(t, IF retryCount[t] < MaxRetries THEN "retrying" ELSE "fail")
    /\ UNCHANGED rows

HandleError(t) ==
    /\ pc[t] = "error"
    /\ \/ /\ retryCount[t] < MaxRetries
          /\ pc' = [pc EXCEPT ![t] = "retrying"]
          /\ retryCount' = [retryCount EXCEPT ![t] = @ + 1]
          /\ UNCHANGED <<stopEvent, sandboxGen, cut>>
       \/ retryCount[t] >= MaxRetries /\ Goto(t, "fail")
    /\ UNCHANGED rows

RetryTask(t) == CommitTask(t, "retrying", "running", "backoff", "raised")

\* The back-off sleep is over.  _run calls itself; the inner call behaves as
\* another turn of a loop, since nothing follows the call but return.
EndBackoff(t) ==
    /\ pc[t] = "backoff"
    /\ Goto(t, IF stopEvent[t] THEN "returned" ELSE "log")
    /\ UNCHANGED rows

FailTask(t) == CommitTask(t, "fail", "failed", "failSpider", "raised")

FailSpider(t) == CommitSpider(t, "failSpider", "failed", "returned", "raised")

\* Mutant of PauseTask: PAUSED is missing from spider_status_map.
PauseTaskOnly(t) == CommitTask(t, "pause", "paused", "returned", "raised")

PauseTask(t) == CommitTask(t, "pause", "paused", "pauseSpider", "raised")

PauseSpider(t) == CommitSpider(t, "pauseSpider", "paused", "returned", "raised")

\* What the spider code does: it yields, ends, raises, or none of these.
SandboxStep(t) == GetItem(t) \/ DropItem(t) \/ EndOfItems(t) \/ SandboxError(t)

\* What the runner does on its own once its await completes.
OwnStep(t) ==
    \/ Launch(t) \/ SavedItem(t)
    \/ CompleteTask(t) \/ CompleteSpider(t) \/ CloseSession(t)
    \/ HandleError(t) \/ RetryTask(t) \/ EndBackoff(t)
    \/ FailTask(t) \/ FailSpider(t)
    \/ PauseTask(t) \/ PauseSpider(t)

RunnerStep(t) == SandboxStep(t) \/ SandboxTimeout(t) \/ OwnStep(t)

-----------------------------------------------------------------------------
(* What others do to a runner.                                             *)

InTryBlock == {"next", "save", "complete", "completeSpider", "closeSession"}

\* CancelledError is thrown at the await the runner is suspended in.  Inside
\* the try block its handler records PAUSED; elsewhere it ends the task.
CancelledPc(at) ==
    IF at \in InTryBlock THEN "pause"
    ELSE IF at \in Finished \cup {"none"} THEN at ELSE "cancelled"

\* A generator that is awaiting is unwound by it, one suspended at its yield
\* is left as it is.
CancelledGen(at, gen) == IF at = "next" THEN "closed" ELSE gen

CancelTask(t) ==
    /\ pc' = [pc EXCEPT ![t] = CancelledPc(@)]
    /\ sandboxGen' = [sandboxGen EXCEPT ![t] = CancelledGen(pc[t], @)]
    /\ UNCHANGED <<retryCount, stopEvent, cut>>

\* SpiderRunner.stop up to its wait: the event is set and the generator
\* closed, unless it is running (the runner awaits it), when aclose() raises
\* and the exception is swallowed.
SignalStop(t) ==
    /\ stopEvent' = [stopEvent EXCEPT ![t] = TRUE]
    /\ sandboxGen' = [sandboxGen EXCEPT
                         ![t] = IF @ = "open" /\ pc[t] # "next" THEN "closed" ELSE @]
    /\ UNCHANGED <<pc, retryCount, cut>>

\* SpiderRunner() and start(): the task is created and will log first.
NewRunner(t) ==
    /\ pc' = [pc EXCEPT ![t] = "log"]
    /\ retryCount' = [retryCount EXCEPT ![t] = 0]
    /\ stopEvent' = [stopEvent EXCEPT ![t] = FALSE]
    /\ sandboxGen' = [sandboxGen EXCEPT ![t] = "none"]
    /\ cut' = [cut EXCEPT ![t] = FALSE]

RunnerTypeOK ==
    /\ owner \in [TaskIds -> Spiders \cup {NoSpider}]
    /\ status \in [TaskIds -> TaskStatus]
    /\ crawldir \in [TaskIds -> BOOLEAN]
    /\ spiderStatus \in [Spiders -> SpiderStatus]
    /\ pc \in [TaskIds -> Pc]
    /\ retryCount \in [TaskIds -> 0..MaxRetries]
    /\ stopEvent \in [TaskIds -> BOOLEAN]
    /\ sandboxGen \in [TaskIds -> Gen]
    /\ cut \in [TaskIds -> BOOLEAN]
    /\ faults \in 0..MaxFaults

\* A process that has just started or has ended holds no runner.
ForgetRunners ==
    /\ pc' = [t \in TaskIds |-> "none"]
    /\ retryCount' = [t \in TaskIds |-> 0]
    /\ stopEvent' = [t \in TaskIds |-> FALSE]
    /\ sandboxGen' = [t \in TaskIds |-> "none"]
    /\ cut' = [t \in TaskIds |-> FALSE]

RunnerInit ==
    /\ owner = [t \in TaskIds |-> NoSpider]
    /\ status = [t \in TaskIds |-> "none"]
    /\ crawldir = [t \in TaskIds |-> FALSE]
    /\ spiderStatus = [s \in Spiders |-> "idle"]
    /\ faults = 0
    /\ pc = [t \in TaskIds |-> "none"]
    /\ retryCount = [t \in TaskIds |-> 0]
    /\ stopEvent = [t \in TaskIds |-> FALSE]
    /\ sandboxGen = [t \in TaskIds |-> "none"]
    /\ cut = [t \in TaskIds |-> FALSE]
=============================================================================
