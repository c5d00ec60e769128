---------------------------- MODULE SpiderEngine ----------------------------
(***************************************************************************)
(* The Engine (core/engine.py) over its runners: API requests and          *)
(* scheduler triggers that start, stop, pause and resume spiders           *)
(* concurrently, the life of the process (initialize, shutdown, a crash)   *)
(* and the crash recovery at start-up (core/recovery.py).                  *)
(*                                                                         *)
(* A call of the engine is suspended at the await call[c].pc; everything   *)
(* it does between two awaits is one action.  A call that is rejected      *)
(* (spider already running, nothing to stop, nothing to resume) changes    *)
(* no state and is a guard here.                                           *)
(***************************************************************************)
EXTENDS SpiderRunner

CONSTANTS
    Callers,      \* concurrent API requests and scheduler triggers
    Lifespan      \* the task that runs Engine.shutdown

ASSUME LifespanAssumption == Lifespan \notin Callers

VARIABLES
    runners,      \* Engine._runners: the task id of a spider's last runner, 0 if none
    call,         \* the engine call each actor is in
    phase,        \* the life of the process
    toStop,       \* spiders Engine.shutdown has still to stop
    raced         \* history: spiders whose start calls overlapped in this life

engineVars == <<runners, call, phase, toStop, raced>>

vars == <<owner, status, crawldir, spiderStatus, faults,
          pc, retryCount, stopEvent, sandboxGen, cut,
          runners, call, phase, toStop, raced>>

Actors == Callers \cup {Lifespan}

NoCall == [op |-> "none", pc |-> "idle", spider |-> NoSpider, task |-> 0]

Call == {NoCall} \cup
        [op: {"start", "resume", "stop", "pause"},
         pc: {"select", "insert", "mark", "wait", "cancelWait", "recordPause"},
         spider: Spiders,
         task: 0..MaxTasks]

Idle(c) == call[c].pc = "idle"

Return(c) == call' = [call EXCEPT ![c] = NoCall]

Await(c, next) == call' = [call EXCEPT ![c] = [@ EXCEPT !.pc = next]]

\* Mutant of IsRunning: a runner counts as running while its sandbox is open.
IsRunningSandbox(s) == runners[s] # 0 /\ sandboxGen[runners[s]] = "open"

\* name in self._runners and self._runners[name].is_running
IsRunning(s) == runners[s] # 0 /\ Live(runners[s])

\* start_spider has made its checks for s and not yet registered the runner.
Starting(c, s) == call[c].spider = s /\ call[c].pc \in {"insert", "mark"}

SomeStarting(s) == \E c \in Actors : Starting(c, s)

\* A failed database call of an engine call: the exception ends the call.
CallFails(c) == Fault /\ Return(c)

-----------------------------------------------------------------------------
(* start_spider and resume_spider.                                         *)

\* The checks of start_spider pass and its first database session opens.
EnterStart(c, op, s) ==
    /\ call' = [call EXCEPT ![c] = [op |-> op, pc |-> "insert", spider |-> s, task |-> 0]]
    /\ raced' = IF SomeStarting(s) THEN raced \cup {s} ELSE raced

Start(c, s) ==
    /\ phase = "up" /\ Idle(c)
    /\ ~IsRunning(s)
    /\ EnterStart(c, "start", s)
    /\ UNCHANGED <<rows, runnerVars, runners, phase, toStop>>

Resume(c, s) ==
    /\ phase = "up" /\ Idle(c)
    /\ ~IsRunning(s)
    /\ call' = [call EXCEPT ![c] = [op |-> "resume", pc |-> "select", spider |-> s, task |-> 0]]
    /\ UNCHANGED <<rows, runnerVars, runners, phase, toStop, raced>>

\* The newest PAUSED row of s has a crawldir.
Resumable(s) ==
    LET paused == {t \in TaskIds : owner[t] = s /\ status[t] = "paused"}
    IN  \E t \in paused : crawldir[t] /\ \A u \in paused : u <= t

\* The select is done, and start_spider makes its own checks again.  The
\* paused row stays PAUSED.
SelectPaused(c) ==
    /\ call[c].pc = "select"
    /\ LET s == call[c].spider
           admitted == Resumable(s) /\ ~IsRunning(s)
       IN  \/ admitted /\ EnterStart(c, "resume", s) /\ UNCHANGED faults
           \/ ~admitted /\ Return(c) /\ UNCHANGED <<faults, raced>>
           \/ CallFails(c) /\ UNCHANGED raced
    /\ UNCHANGED <<owner, status, crawldir, spiderStatus, runnerVars, runners, phase, toStop>>

\* The autoincremented id of the next row.
FreshId(t) == \A u \in TaskIds : u < t <=> status[u] # "none"

\* The task row is committed as RUNNING.
InsertTask(c) ==
    /\ call[c].pc = "insert"
    /\ \/ \E t \in TaskIds :
             /\ FreshId(t)
             /\ owner' = [owner EXCEPT ![t] = call[c].spider]
             /\ status' = [status EXCEPT ![t] = "running"]
             /\ call' = [call EXCEPT ![c] = [@ EXCEPT !.pc = "mark", !.task = t]]
             /\ UNCHANGED faults
       \/ CallFails(c) /\ UNCHANGED <<owner, status>>
    /\ UNCHANGED <<crawldir, spiderStatus, runnerVars, runners, phase, toStop, raced>>

\* The spider row is committed as RUNNING; without another await the runner
\* is made, registered over whatever runner was there, and started.
MarkRunning(c) ==
    /\ call[c].pc = "mark"
    /\ \/ /\ spiderStatus' = [spiderStatus EXCEPT ![call[c].spider] = "running"]
          /\ NewRunner(call[c].task)
          /\ runners' = [runners EXCEPT ![call[c].spider] = call[c].task]
          /\ Return(c)
          /\ UNCHANGED faults
       \/ CallFails(c) /\ UNCHANGED <<spiderStatus, runnerVars, runners>>
    /\ UNCHANGED <<owner, status, crawldir, phase, toStop, raced>>

-----------------------------------------------------------------------------
(* stop_spider and pause_spider.                                           *)

\* The registered runner is told to stop and waited for.
RequestStop(c, op, s) ==
    /\ IsRunning(s)
    /\ SignalStop(runners[s])
    /\ call' = [call EXCEPT ![c] = [op |-> op, pc |-> "wait", spider |-> s, task |-> runners[s]]]

Stop(c, s) ==
    /\ phase = "up" /\ Idle(c)
    /\ RequestStop(c, "stop", s)
    /\ UNCHANGED <<rows, runners, phase, toStop, raced>>

Pause(c, s) ==
    /\ phase = "up" /\ Idle(c)
    /\ RequestStop(c, "pause", s)
    /\ UNCHANGED <<rows, runners, phase, toStop, raced>>

\* Mutant of WaitTimeout: the task is awaited without a limit.
WaitWithoutLimit(c) == FALSE

\* wait_for gives up after its 30 seconds and cancels the runner's task.
WaitTimeout(c) ==
    /\ call[c].pc = "wait"
    /\ Live(call[c].task)
    /\ CancelTask(call[c].task)
    /\ Await(c, "cancelWait")
    /\ UNCHANGED <<rows, runners, phase, toStop, raced>>

\* Mutant of WaitReturn: a task that ended with an exception is waited for on.
WaitReturnUnlessRaised(c) ==
    /\ call[c].pc \in {"wait", "cancelWait"}
    /\ ~Live(call[c].task) /\ ~pc[call[c].task] = "raised"
    /\ IF call[c].op = "pause" THEN Await(c, "recordPause") ELSE Return(c)
    /\ UNCHANGED <<rows, runnerVars, runners, phase, toStop, raced>>

\* The runner's task is done.  An exception it ended with is raised again
\* in stop() and ends the call; a cancellation is swallowed.  In
\* Engine.shutdown the exception abandons the spiders not yet stopped.
WaitReturn(c) ==
    /\ call[c].pc \in {"wait", "cancelWait"}
    /\ ~Live(call[c].task)
    /\ LET raised == pc[call[c].task] = "raised"
       IN  /\ IF ~raised /\ call[c].op = "pause" THEN Await(c, "recordPause") ELSE Return(c)
           /\ toStop' = IF raised /\ c = Lifespan THEN {} ELSE toStop
    /\ UNCHANGED <<rows, runnerVars, runners, phase, raced>>

\* Mutant of RecordPause: only the crawldir is recorded.
RecordCrawldir(c) ==
    /\ call[c].pc = "recordPause"
    /\ \/ /\ crawldir' = [crawldir EXCEPT ![call[c].task] = TRUE]
          /\ Return(c)
          /\ UNCHANGED faults
       \/ CallFails(c) /\ UNCHANGED crawldir
    /\ UNCHANGED <<owner, status, spiderStatus, runnerVars, runners, phase, toStop, raced>>

\* pause_spider overwrites the status the runner left.
RecordPause(c) ==
    /\ call[c].pc = "recordPause"
    /\ \/ /\ status' = [status EXCEPT ![call[c].task] = "paused"]
          /\ crawldir' = [crawldir EXCEPT ![call[c].task] = TRUE]
          /\ Return(c)
          /\ UNCHANGED faults
       \/ CallFails(c) /\ UNCHANGED <<status, crawldir>>
    /\ UNCHANGED <<owner, spiderStatus, runnerVars, runners, phase, toStop, raced>>

-----------------------------------------------------------------------------
(* The life of the process.                                                *)

\* The lifespan of the server ends: scheduler.shutdown cancels the triggers
\* in flight, API requests have been drained, and the runners registered at
\* that moment are to be stopped.
Shutdown ==
    /\ phase = "up"
    /\ \A c \in Callers : call[c].op \in {"none", "start", "resume"}
    /\ phase' = "stopping"
    /\ toStop' = {s \in Spiders : runners[s] # 0}
    /\ call' = [c \in Actors |-> NoCall]
    /\ UNCHANGED <<rows, runnerVars, runners, raced>>

\* One turn of the loop of Engine.shutdown.
ShutdownStop(s) ==
    /\ phase = "stopping" /\ Idle(Lifespan) /\ s \in toStop
    /\ toStop' = toStop \ {s}
    /\ \/ RequestStop(Lifespan, "stop", s)
       \/ ~IsRunning(s) /\ UNCHANGED <<runnerVars, call>>
    /\ UNCHANGED <<rows, runners, phase, raced>>

\* The event loop closes and cancels every task still alive.
CancelAll ==
    /\ phase = "stopping" /\ Idle(Lifespan) /\ toStop = {}
    /\ phase' = "exiting"
    /\ pc' = [t \in TaskIds |-> CancelledPc(pc[t])]
    /\ sandboxGen' = [t \in TaskIds |-> CancelledGen(pc[t], sandboxGen[t])]
    /\ UNCHANGED <<rows, retryCount, stopEvent, cut, runners, call, toStop, raced>>

\* What is in memory is gone.
LoseMemory ==
    /\ phase' = "down"
    /\ ForgetRunners
    /\ runners' = [s \in Spiders |-> 0]
    /\ call' = [c \in Actors |-> NoCall]
    /\ toStop' = {}
    /\ raced' = {}
    /\ UNCHANGED rows

Exit ==
    /\ phase = "exiting"
    /\ \A t \in TaskIds : ~Live(t)
    /\ LoseMemory

Crash == phase # "down" /\ LoseMemory

\* Mutant of Boot: the recovery is left out.
BootWithoutRecovery ==
    /\ phase = "down"
    /\ phase' = "up"
    /\ faults' = 0
    /\ UNCHANGED <<owner, status, crawldir, spiderStatus, runnerVars,
                   runners, call, toStop, raced>>

\* Mutant of Boot: every row that is not COMPLETED counts as crashed.
BootCrashingAll ==
    /\ phase = "down"
    /\ status' = [t \in TaskIds |->
                    IF status[t] \in {"none", "completed"} THEN status[t] ELSE "crashed"]
    /\ phase' = "up"
    /\ faults' = 0
    /\ UNCHANGED <<owner, crawldir, spiderStatus, runnerVars, runners, call, toStop, raced>>

\* initialize: check_crashed_tasks is one transaction.
Boot ==
    /\ phase = "down"
    /\ LET lost == {t \in TaskIds : status[t] = "running"}
       IN  /\ status' = [t \in TaskIds |-> IF t \in lost THEN "crashed" ELSE status[t]]
           /\ spiderStatus' = [s \in Spiders |->
                 IF \E t \in lost : owner[t] = s THEN "failed" ELSE spiderStatus[s]]
    /\ phase' = "up"
    /\ faults' = 0
    /\ UNCHANGED <<owner, crawldir, runnerVars, runners, call, toStop, raced>>

-----------------------------------------------------------------------------
CallStep(c) ==
    \/ SelectPaused(c) \/ InsertTask(c) \/ MarkRunning(c)
    \/ WaitTimeout(c) \/ WaitReturn(c) \/ RecordPause(c)

NewCall(c, s) == Start(c, s) \/ Resume(c, s) \/ Stop(c, s) \/ Pause(c, s)

ShutdownStep == (\E s \in Spiders : ShutdownStop(s)) \/ CancelAll \/ Exit

Init ==
    /\ RunnerInit
    /\ runners = [s \in Spiders |-> 0]
    /\ call = [c \in Actors |-> NoCall]
    /\ phase = "up"
    /\ toStop = {}
    /\ raced = {}

Next ==
    \/ \E t \in TaskIds : RunnerStep(t) /\ UNCHANGED engineVars
    \/ \E c \in Actors : CallStep(c)
    \/ \E c \in Callers, s \in Spiders : NewCall(c, s)
    \/ Shutdown \/ ShutdownStep \/ Crash \/ Boot

Spec == Init /\ [][Next]_vars

\* The event loop resumes every await that completes; database calls, log
\* writes and sleeps complete; the 30 seconds of stop() elapse.  What the
\* spider code does is not assumed.
LoopFairness ==
    /\ \A t \in TaskIds : WF_vars(OwnStep(t) /\ UNCHANGED engineVars)
    /\ \A c \in Actors : WF_vars(CallStep(c))
    /\ WF_vars(ShutdownStep)

FairSpec == Spec /\ LoopFairness

-----------------------------------------------------------------------------
(* Properties.                                                             *)

\* Every variable has its type.
TypeOK ==
    /\ RunnerTypeOK
    /\ runners \in [Spiders -> 0..MaxTasks]
    /\ call \in [Actors -> Call]
    /\ phase \in {"up", "stopping", "exiting", "down"}
    /\ toStop \in SUBSET Spiders
    /\ raced \in SUBSET Spiders

LiveRunners(s) == {t \in TaskIds : Live(t) /\ owner[t] = s}

\* One instance per spider: the check of start_spider keeps a spider to one
\* live runner, and that runner is the one _runners can stop, as long as no
\* two start calls for the spider were in flight at once.
SingletonUnlessRaced ==
    \A s \in Spiders \ raced : \A t \in LiveRunners(s) : t = runners[s]

\* A RUNNING row is being worked on: by a live runner or by the start call
\* that inserted it.  In one life of the process only a stop request or a
\* failed database call strands one; those of earlier lives were recovered.
NoStrandedRow ==
    \A t \in TaskIds :
        phase = "up" /\ status[t] = "running" =>
            \/ Live(t)
            \/ \E c \in Callers : call[c].pc = "mark" /\ call[c].task = t
            \/ stopEvent[t]
            \/ faults > 0

\* A runner that has ended leaves no sandbox suspended at its yield: the
\* runner object stays in _runners, so the child would never be killed.
NoAbandonedSandbox ==
    \A t \in TaskIds : phase = "up" /\ ~Live(t) => sandboxGen[t] # "open"

NewestTask(s, t) ==
    /\ owner[t] = s
    /\ \A u \in TaskIds : owner[u] = s => u <= t

Shown(st) ==
    CASE st = "completed" -> "idle"
      [] st = "failed"    -> "failed"
      [] st = "paused"    -> "paused"
      [] OTHER            -> "running"

\* The two commits of _update_task_status agree in the end: once the newest
\* runner of a spider has returned and no call is about to write, the spider
\* row shows what the task row says.  pause_spider (crawldir) writes the task
\* row alone, and overlapping runs overwrite each other.
RowsAgree ==
    \A s \in Spiders \ raced, t \in TaskIds :
        /\ phase = "up" /\ faults = 0
        /\ NewestTask(s, t) /\ pc[t] = "returned"
        /\ ~crawldir[t]
        /\ \A c \in Callers : call[c].spider # s
        => spiderStatus[s] = Shown(status[t])

\* Once a stop is requested the runner takes no further item, whatever
\* retry it is in, for as long as the process lives.
NoItemAfterStop ==
    [][\A t \in TaskIds : stopEvent[t] /\ phase' # "down" =>
          stopEvent'[t] /\ (pc[t] # "save" => pc'[t] # "save")]_vars

\* The outcome of a run is final.  Only a stop or pause, a failed database
\* call or the cancellation at exit ever changes a COMPLETED or FAILED row,
\* and nothing ever changes a CRASHED one.
OutcomeIsFinal ==
    [][\A t \in TaskIds :
          /\ status[t] = "crashed" => status'[t] = "crashed"
          /\ status[t] \in {"completed", "failed"} /\ status'[t] # status[t]
             => \/ stopEvent[t]
                \/ faults > 0
                \/ phase = "exiting"]_vars

\* The rows the engine and its runners write live as TaskLedger says.
Ledger == INSTANCE TaskLedger

ImplementsLedger == Ledger!Spec

\* stop and pause return, whatever the spider code does.
StopReturns == \A c \in Actors : call[c].pc = "wait" ~> Idle(c)

\* Engine.shutdown brings the process down, whatever the spider code does.
ShutdownEnds == phase = "stopping" ~> phase = "down"

\* No sandbox stays open for ever: run_sandboxed compares the clock with its
\* deadline before every read, and unwinds the generator when it has passed.
SandboxDeadline == \A t \in TaskIds : []<>(sandboxGen[t] # "open")

\* Every run ends if no sandbox stays open for ever: retries are bounded and
\* every handler gets somewhere.
RunEnds == SandboxDeadline => \A t \in TaskIds : Live(t) ~> ~Live(t)
=============================================================================
