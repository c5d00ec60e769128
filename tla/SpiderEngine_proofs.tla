------------------------ MODULE SpiderEngine_proofs ------------------------
(***************************************************************************)
(* Theorems about SpiderEngine for every set of spiders and callers and    *)
(* every bound: its types; one runner per spider, whose sandbox and whose  *)
(* rows are looked after; stops that last; the ledger of runs that it      *)
(* implements; and the two tables, whose outcomes are final and agree.     *)
(***************************************************************************)
EXTENDS SpiderEngine, TLAPS

-----------------------------------------------------------------------------
(* Type correctness.                                                       *)

\* Every step of a runner (SpiderRunner._run) keeps the types of what it writes.
LEMMA RunnerStepType ==
    ASSUME RunnerTypeOK, NEW t \in TaskIds, RunnerStep(t)
    PROVE  RunnerTypeOK'
<1> USE ConstantsAssumption
    DEF ConstantsAssumption, RunnerTypeOK, Pc, Gen, rows, Goto, GotoWithGen, GiveUpItems
<1>1. CASE SandboxStep(t) \/ SandboxTimeout(t)
  BY <1>1 DEF SandboxStep, GetItem, DropItem, EndOfItems, SandboxError, SandboxTimeout
<1>2. CASE Launch(t) \/ SavedItem(t) \/ CloseSession(t) \/ EndBackoff(t)
  BY <1>2 DEF Launch, SavedItem, CloseSession, EndBackoff
<1>3. CASE HandleError(t)
  BY <1>3 DEF HandleError
<1>4. CASE CompleteTask(t) \/ RetryTask(t) \/ FailTask(t) \/ PauseTask(t)
  BY <1>4 DEF CompleteTask, RetryTask, FailTask, PauseTask, CommitTask, Fault, TaskStatus
<1>5. CASE CompleteSpider(t) \/ FailSpider(t) \/ PauseSpider(t)
  BY <1>5 DEF CompleteSpider, FailSpider, PauseSpider, CommitSpider, Fault, SpiderStatus
<1> QED
  BY <1>1, <1>2, <1>3, <1>4, <1>5, RunnerStep(t) DEF RunnerStep, OwnStep

\* What a stop, a cancellation and a new SpiderRunner write has its type.
LEMMA OutsideStepType ==
    ASSUME RunnerTypeOK, NEW t, SignalStop(t) \/ CancelTask(t) \/ NewRunner(t)
    PROVE  /\ pc' \in [TaskIds -> Pc]
           /\ retryCount' \in [TaskIds -> 0..MaxRetries]
           /\ stopEvent' \in [TaskIds -> BOOLEAN]
           /\ sandboxGen' \in [TaskIds -> Gen]
           /\ cut' \in [TaskIds -> BOOLEAN]
<1> USE ConstantsAssumption DEF ConstantsAssumption, RunnerTypeOK, Pc, Gen
<1>1. CASE SignalStop(t)
  BY <1>1 DEF SignalStop
<1>2. CASE CancelTask(t)
  BY <1>2 DEF CancelTask, CancelledPc, CancelledGen, InTryBlock, Finished
<1>3. CASE NewRunner(t)
  <2>1. pc' \in [TaskIds -> Pc] /\ sandboxGen' \in [TaskIds -> Gen]
    BY <1>3 DEF NewRunner
  <2>2. retryCount' \in [TaskIds -> 0..MaxRetries]
    <3>1. 0 \in 0..MaxRetries
      OBVIOUS
    <3> QED
      BY <1>3, <3>1 DEF NewRunner
  <2>3. stopEvent' \in [TaskIds -> BOOLEAN] /\ cut' \in [TaskIds -> BOOLEAN]
    BY <1>3 DEF NewRunner
  <2> QED
    BY <2>1, <2>2, <2>3
<1> QED
  BY <1>1, <1>2, <1>3

\* What an engine call writes to its own record, and to the count of faults.
LEMMA CallRecordType ==
    ASSUME TypeOK, NEW c \in Actors
    PROVE  /\ Return(c) => call' \in [Actors -> Call]
           /\ \A next \in {"cancelWait", "recordPause"} :
                 ~Idle(c) /\ Await(c, next) => call' \in [Actors -> Call]
           /\ \A op \in {"start", "resume"}, s \in Spiders :
                 EnterStart(c, op, s) =>
                    call' \in [Actors -> Call] /\ raced' \in SUBSET Spiders
           /\ Fault => faults' \in 0..MaxFaults
<1>1. NoCall \in Call
  BY DEF Call
<1>2. Return(c) => call' \in [Actors -> Call]
  BY <1>1 DEF Return, TypeOK
<1>3. ASSUME NEW next \in {"cancelWait", "recordPause"}, ~Idle(c), Await(c, next)
      PROVE  call' \in [Actors -> Call]
  <2>1. call[c] \in Call
    BY DEF TypeOK
  <2>2. [call[c] EXCEPT !.pc = next] \in Call
    BY <1>3, <2>1 DEF Call, NoCall, Idle
  <2> QED
    BY <1>3, <2>2 DEF Await, TypeOK
<1>4. ASSUME NEW op \in {"start", "resume"}, NEW s \in Spiders, EnterStart(c, op, s)
      PROVE  call' \in [Actors -> Call] /\ raced' \in SUBSET Spiders
  <2>1. [op |-> op, pc |-> "insert", spider |-> s, task |-> 0] \in Call
    BY ConstantsAssumption DEF ConstantsAssumption, Call
  <2> QED
    BY <1>4, <2>1 DEF EnterStart, TypeOK
<1>5. Fault => faults' \in 0..MaxFaults
  BY ConstantsAssumption DEF ConstantsAssumption, Fault, TypeOK, RunnerTypeOK
<1> QED
  BY <1>2, <1>3, <1>4, <1>5

\* The initial state has its types.
LEMMA InitType == Init => TypeOK
  BY ConstantsAssumption
  DEF ConstantsAssumption, Init, RunnerInit, TypeOK, RunnerTypeOK, TaskStatus, SpiderStatus,
      Pc, Gen, Call, NoCall

\* Every step of an engine call (start, resume, stop, pause) keeps the types.
LEMMA CallStepType ==
    ASSUME TypeOK, NEW c \in Actors, CallStep(c)
    PROVE  TypeOK'
<1> USE DEF rows, runnerVars
<1>1. CASE SelectPaused(c)
  <2>1. UNCHANGED <<owner, status, crawldir, spiderStatus, runnerVars, runners, phase, toStop>>
    BY <1>1 DEF SelectPaused
  <2>2. call[c].spider \in Spiders
    BY <1>1 DEF SelectPaused, TypeOK, Call, NoCall
  <2>3. call' \in [Actors -> Call] /\ raced' \in SUBSET Spiders /\ faults' \in 0..MaxFaults
    BY <1>1, <2>2, CallRecordType DEF SelectPaused, CallFails, TypeOK, RunnerTypeOK
  <2> QED
    BY <2>1, <2>3 DEF TypeOK, RunnerTypeOK
<1>2. CASE InsertTask(c)
  <2>1. UNCHANGED <<crawldir, spiderStatus, runnerVars, runners, phase, toStop, raced>>
    BY <1>2 DEF InsertTask
  <2>2. call[c] \in Call /\ call[c] # NoCall /\ call[c].spider \in Spiders
    <3>1. call[c].pc = "insert" /\ call[c] \in Call
      BY <1>2 DEF InsertTask, TypeOK
    <3> QED
      BY <3>1 DEF Call, NoCall
  <2>3. owner' \in [TaskIds -> Spiders \cup {NoSpider}] /\ status' \in [TaskIds -> TaskStatus]
    BY <1>2, <2>2 DEF InsertTask, TypeOK, RunnerTypeOK, TaskStatus
  <2>4. call' \in [Actors -> Call]
    <3>1. ASSUME NEW t \in TaskIds,
                 call' = [call EXCEPT ![c] = [@ EXCEPT !.pc = "mark", !.task = t]]
          PROVE  call' \in [Actors -> Call]
      <4>2. t \in 0..MaxTasks
        BY ConstantsAssumption DEF ConstantsAssumption, TaskIds
      <4>3. [[call[c] EXCEPT !.pc = "mark"] EXCEPT !.task = t] \in Call
        BY <2>2, <4>2 DEF Call
      <4> QED
        BY <3>1, <4>3 DEF TypeOK
    <3> QED
      BY <1>2, <3>1, CallRecordType DEF InsertTask, CallFails
  <2>5. faults' \in 0..MaxFaults
    BY <1>2, CallRecordType DEF InsertTask, CallFails, TypeOK, RunnerTypeOK
  <2> QED
    BY <2>1, <2>3, <2>4, <2>5 DEF TypeOK, RunnerTypeOK
<1>3. CASE MarkRunning(c)
  <2>1. UNCHANGED <<owner, status, crawldir, phase, toStop, raced>>
    BY <1>3 DEF MarkRunning
  <2>2. spiderStatus' \in [Spiders -> SpiderStatus]
    BY <1>3 DEF MarkRunning, TypeOK, RunnerTypeOK, SpiderStatus
  <2>3. /\ pc' \in [TaskIds -> Pc]
        /\ retryCount' \in [TaskIds -> 0..MaxRetries]
        /\ stopEvent' \in [TaskIds -> BOOLEAN]
        /\ sandboxGen' \in [TaskIds -> Gen]
        /\ cut' \in [TaskIds -> BOOLEAN]
    BY <1>3, OutsideStepType DEF MarkRunning, TypeOK, RunnerTypeOK
  <2>4. call' \in [Actors -> Call] /\ faults' \in 0..MaxFaults
    BY <1>3, CallRecordType DEF MarkRunning, CallFails, TypeOK, RunnerTypeOK
  <2>5. runners' \in [Spiders -> 0..MaxTasks]
    BY <1>3 DEF MarkRunning, TypeOK, Call, NoCall
  <2> QED
    BY <2>1, <2>2, <2>3, <2>4, <2>5 DEF TypeOK, RunnerTypeOK
<1>4. CASE WaitTimeout(c)
  <2>1. UNCHANGED <<rows, runners, phase, toStop, raced>> /\ call' \in [Actors -> Call]
    BY <1>4, CallRecordType DEF WaitTimeout, Idle
  <2> QED
    BY <1>4, <2>1, OutsideStepType DEF WaitTimeout, TypeOK, RunnerTypeOK
<1>5. CASE WaitReturn(c)
  <2>1. UNCHANGED <<rows, runnerVars, runners, phase, raced>> /\ toStop' \in SUBSET Spiders
    BY <1>5 DEF WaitReturn, TypeOK
  <2>2. call' \in [Actors -> Call]
    BY <1>5, CallRecordType DEF WaitReturn, Idle
  <2> QED
    BY <2>1, <2>2 DEF TypeOK, RunnerTypeOK
<1>6. CASE RecordPause(c)
  <2>1. UNCHANGED <<owner, spiderStatus, runnerVars, runners, phase, toStop, raced>>
    BY <1>6 DEF RecordPause
  <2>2. status' \in [TaskIds -> TaskStatus] /\ crawldir' \in [TaskIds -> BOOLEAN]
    BY <1>6 DEF RecordPause, TypeOK, RunnerTypeOK, TaskStatus
  <2>3. call' \in [Actors -> Call] /\ faults' \in 0..MaxFaults
    BY <1>6, CallRecordType DEF RecordPause, CallFails, TypeOK, RunnerTypeOK
  <2> QED
    BY <2>1, <2>2, <2>3 DEF TypeOK, RunnerTypeOK
<1> QED
  BY <1>1, <1>2, <1>3, <1>4, <1>5, <1>6, CallStep(c) DEF CallStep

\* Every call that begins (Engine.start_spider and its like) keeps the types.
LEMMA NewCallType ==
    ASSUME TypeOK, NEW c \in Callers, NEW s \in Spiders, NewCall(c, s)
    PROVE  TypeOK'
<1> USE ConstantsAssumption DEF ConstantsAssumption, TypeOK, rows, runnerVars, Actors
<1>1. CASE Start(c, s) \/ Resume(c, s)
  BY <1>1 DEF Start, Resume, EnterStart, Call, RunnerTypeOK
<1>2. CASE Stop(c, s) \/ Pause(c, s)
  <2>1. UNCHANGED <<rows, runners, phase, toStop, raced>> /\ SignalStop(runners[s])
    BY <1>2 DEF Stop, Pause, RequestStop
  <2>2. call' \in [Actors -> Call]
    BY <1>2 DEF Stop, Pause, RequestStop, Call
  <2> QED
    BY <2>1, <2>2, OutsideStepType DEF RunnerTypeOK
<1> QED
  BY <1>1, <1>2, NewCall(c, s) DEF NewCall

\* The life of the process (initialize, shutdown, a crash) keeps the types.
LEMMA LifeStepType ==
    ASSUME TypeOK, Shutdown \/ ShutdownStep \/ Crash \/ Boot
    PROVE  TypeOK'
<1> USE ConstantsAssumption DEF ConstantsAssumption, TypeOK, rows, runnerVars, Actors
<1>1. CASE Shutdown
  BY <1>1 DEF Shutdown, Call, NoCall, RunnerTypeOK
<1>2. ASSUME NEW s \in Spiders, ShutdownStop(s) PROVE TypeOK'
  <2>1. UNCHANGED <<rows, runners, phase, raced>> /\ toStop' \in SUBSET Spiders
    BY <1>2 DEF ShutdownStop
  <2>2. CASE RequestStop(Lifespan, "stop", s)
    <3>1. call' \in [Actors -> Call] /\ SignalStop(runners[s])
      BY <2>2 DEF RequestStop, Call
    <3> QED
      BY <2>1, <3>1, OutsideStepType DEF RunnerTypeOK
  <2>3. CASE UNCHANGED <<runnerVars, call>>
    BY <2>1, <2>3 DEF RunnerTypeOK
  <2> QED
    BY <1>2, <2>2, <2>3 DEF ShutdownStop
<1>3. CASE CancelAll
  BY <1>3 DEF CancelAll, CancelledPc, CancelledGen, InTryBlock, Finished, RunnerTypeOK, Pc, Gen
<1>4. CASE Exit \/ Crash
  <2>1. LoseMemory
    BY <1>4 DEF Exit, Crash
  <2>2. /\ pc' \in [TaskIds -> Pc]
        /\ retryCount' \in [TaskIds -> 0..MaxRetries]
        /\ stopEvent' \in [TaskIds -> BOOLEAN]
        /\ sandboxGen' \in [TaskIds -> Gen]
        /\ cut' \in [TaskIds -> BOOLEAN]
    BY <2>1 DEF LoseMemory, ForgetRunners, Pc, Gen
  <2>3. call' \in [Actors -> Call]
    BY <2>1 DEF LoseMemory, Call
  <2>4. runners' \in [Spiders -> 0..MaxTasks]
    BY <2>1 DEF LoseMemory
  <2> QED
    BY <2>1, <2>2, <2>3, <2>4 DEF LoseMemory, RunnerTypeOK
<1>5. CASE Boot
  BY <1>5 DEF Boot, RunnerTypeOK, TaskStatus, SpiderStatus
<1> QED
  BY <1>1, <1>2, <1>3, <1>4, <1>5 DEF ShutdownStep

\* Type correctness of the engine and its runners, for all constants.
THEOREM TypeCorrect == Spec => []TypeOK
<1>1. TypeOK /\ [Next]_vars => TypeOK'
  <2> SUFFICES ASSUME TypeOK, [Next]_vars PROVE TypeOK'
    OBVIOUS
  <2>1. ASSUME NEW t \in TaskIds, RunnerStep(t), UNCHANGED engineVars PROVE TypeOK'
    BY <2>1, RunnerStepType DEF TypeOK, engineVars
  <2>2. CASE UNCHANGED vars
    BY <2>2 DEF vars, TypeOK, RunnerTypeOK
  <2> QED
    BY <2>1, <2>2, CallStepType, NewCallType, LifeStepType DEF Next
<1> QED
  BY <1>1, InitType, PTL DEF Spec

-----------------------------------------------------------------------------
(* The inductive invariant.                                                *)

\* What the task row of a runner can say, by where the runner is.
StatusAt(at) ==
    CASE at \in {"log", "next", "save", "complete", "backoff"} -> {"running"}
      [] at \in {"completeSpider", "closeSession"} -> {"completed"}
      [] at \in {"error", "retrying", "fail", "pause"} -> {"running", "completed"}
      [] at = "failSpider" -> {"failed"}
      [] at = "pauseSpider" -> {"paused"}
      [] OTHER -> {"running", "completed", "failed", "paused"}

RunnersHaveRows == \A t \in TaskIds : pc[t] # "none" => status[t] \in StatusAt(pc[t])

\* A start call that has inserted its row owns it: no runner and no other
\* call is about it yet.
InsertedRow(c) ==
    LET t == call[c].task
    IN  /\ t \in TaskIds
        /\ owner[t] = call[c].spider
        /\ status[t] = "running"
        /\ pc[t] = "none"

InsertedRows ==
    /\ \A c \in Actors : call[c].pc = "mark" => InsertedRow(c)
    /\ \A c, d \in Actors :
          call[c].pc = "mark" /\ call[d].pc = "mark" /\ call[c].task = call[d].task => c = d

\* A call that stops a runner holds a runner of this life of the process.
StoppedRunners ==
    \A c \in Actors :
        /\ call[c].pc \in {"wait", "cancelWait", "recordPause"} =>
              /\ call[c].task \in TaskIds
              /\ pc[call[c].task] # "none"
              /\ stopEvent[call[c].task]
        /\ call[c].pc = "recordPause" => pc[call[c].task] \in Finished

DownIsEmpty ==
    phase = "down" => /\ \A t \in TaskIds : pc[t] = "none"
                      /\ \A c \in Actors : call[c] = NoCall

RowInv == RunnersHaveRows /\ InsertedRows /\ StoppedRunners /\ DownIsEmpty

\* As long as the starts of a spider have not overlapped, its live runner is
\* the registered one, and a start in flight is the only one and has no live
\* runner beside it.
Slot(s) ==
    /\ \A t \in TaskIds : Live(t) /\ owner[t] = s => runners[s] = t
    /\ \A c \in Actors, t \in TaskIds : Starting(c, s) /\ owner[t] = s => ~Live(t)
    /\ \A c, d \in Actors : Starting(c, s) /\ Starting(d, s) => c = d

SlotInv == \A s \in Spiders \ raced : Slot(s)

\* Only a runner that drains its sandbox has it open, and not at its yield
\* once a stop was requested.
SandboxInv ==
    \A t \in TaskIds :
        /\ sandboxGen[t] = "open" /\ phase # "exiting" => pc[t] \in {"next", "save"}
        /\ pc[t] = "save" /\ stopEvent[t] => sandboxGen[t] # "open"

\* The task of the lifespan starts nothing.
LifespanStops == call[Lifespan].pc \notin {"select", "insert", "mark"}

-----------------------------------------------------------------------------
(* RowInv is inductive.                                                    *)

\* A step of a runner (SpiderRunner._run) is a step of a live runner that
\* touches nothing of another, and stays live or ends.
LEMMA RunnerStepFrame ==
    ASSUME TypeOK, NEW t \in TaskIds, RunnerStep(t)
    PROVE  /\ Live(t)
           /\ UNCHANGED <<owner, crawldir, stopEvent>>
           /\ pc'[t] # "none"
           /\ \A u \in TaskIds \ {t} : /\ pc'[u] = pc[u]
                                       /\ status'[u] = status[u]
                                       /\ sandboxGen'[u] = sandboxGen[u]
<1> USE DEF TypeOK, RunnerTypeOK, Live, Finished, rows, Goto, GotoWithGen, GiveUpItems
<1>1. CASE SandboxStep(t) \/ SandboxTimeout(t)
  BY <1>1 DEF SandboxStep, GetItem, DropItem, EndOfItems, SandboxError, SandboxTimeout
<1>2. CASE Launch(t) \/ SavedItem(t) \/ CloseSession(t) \/ EndBackoff(t)
  BY <1>2 DEF Launch, SavedItem, CloseSession, EndBackoff
<1>3. CASE HandleError(t)
  BY <1>3 DEF HandleError
<1>4. CASE CompleteTask(t) \/ RetryTask(t) \/ FailTask(t) \/ PauseTask(t)
  BY <1>4 DEF CompleteTask, RetryTask, FailTask, PauseTask, CommitTask, Fault
<1>5. CASE CompleteSpider(t) \/ FailSpider(t) \/ PauseSpider(t)
  BY <1>5 DEF CompleteSpider, FailSpider, PauseSpider, CommitSpider, Fault
<1> QED
  BY <1>1, <1>2, <1>3, <1>4, <1>5, RunnerStep(t) DEF RunnerStep, OwnStep

\* The row of a runner follows it (SpiderRunner._update_task_status).
LEMMA RunnerStepStatus ==
    ASSUME TypeOK, NEW t \in TaskIds, RunnerStep(t), status[t] \in StatusAt(pc[t])
    PROVE  status'[t] \in StatusAt(pc'[t])
<1> USE DEF TypeOK, RunnerTypeOK, StatusAt, rows, Goto, GotoWithGen, GiveUpItems
<1>1. CASE SandboxStep(t) \/ SandboxTimeout(t)
  BY <1>1 DEF SandboxStep, GetItem, DropItem, EndOfItems, SandboxError, SandboxTimeout
<1>2. CASE Launch(t) \/ SavedItem(t) \/ CloseSession(t) \/ EndBackoff(t)
  BY <1>2 DEF Launch, SavedItem, CloseSession, EndBackoff
<1>3. CASE HandleError(t)
  BY <1>3 DEF HandleError
<1>4. CASE CompleteTask(t) \/ RetryTask(t) \/ FailTask(t) \/ PauseTask(t)
  BY <1>4 DEF CompleteTask, RetryTask, FailTask, PauseTask, CommitTask, Fault
<1>5. CASE CompleteSpider(t) \/ FailSpider(t) \/ PauseSpider(t)
  BY <1>5 DEF CompleteSpider, FailSpider, PauseSpider, CommitSpider, Fault
<1> QED
  BY <1>1, <1>2, <1>3, <1>4, <1>5, RunnerStep(t) DEF RunnerStep, OwnStep

\* Steps of the runners keep RowInv.
LEMMA RunnerKeepsRowInv ==
    ASSUME TypeOK, RowInv, NEW t \in TaskIds, RunnerStep(t), UNCHANGED engineVars
    PROVE  RowInv'
<1> USE RunnerStepFrame DEF engineVars
<1>1. RunnersHaveRows'
  BY RunnerStepStatus DEF RowInv, RunnersHaveRows, Live
<1>2. InsertedRows'
  BY DEF RowInv, InsertedRows, InsertedRow, Live
<1>3. StoppedRunners'
  BY DEF RowInv, StoppedRunners, Live
<1>4. DownIsEmpty'
  BY DEF RowInv, DownIsEmpty, Live
<1> QED
  BY <1>1, <1>2, <1>3, <1>4 DEF RowInv

\* A cancellation (Task.cancel) ends a runner or sends it to a handler.
LEMMA CancelledPcFacts ==
    ASSUME NEW at \in Pc
    PROVE  /\ CancelledPc(at) \in Pc
           /\ CancelledPc(at) = "none" <=> at = "none"
           /\ at \in Finished => CancelledPc(at) = at
           /\ CancelledPc(at) \in Finished \cup {"none", "pause"}
           /\ StatusAt(at) \subseteq StatusAt(CancelledPc(at))
  BY DEF CancelledPc, InTryBlock, Finished, Pc, StatusAt

\* Steps of the engine calls keep RowInv.
LEMMA CallKeepsRowInv ==
    ASSUME TypeOK, RowInv, NEW c \in Actors, CallStep(c)
    PROVE  RowInv'
<1> USE DEF TypeOK, RunnerTypeOK, rows, runnerVars
<1>0. call[c] # NoCall /\ phase # "down"
  <2>1. call[c].pc # "idle"
    BY CallStep(c)
    DEF CallStep, SelectPaused, InsertTask, MarkRunning, WaitTimeout, WaitReturn, RecordPause
  <2>2. NoCall.pc = "idle"
    BY DEF NoCall
  <2>3. call[c] # NoCall
    BY <2>1, <2>2
  <2> QED
    BY <2>3 DEF RowInv, DownIsEmpty
<1>1. CASE SelectPaused(c)
  <2>1. UNCHANGED <<owner, status, pc, stopEvent, phase>>
    BY <1>1 DEF SelectPaused
  <2>2. /\ call'[c].pc \in {"idle", "insert"}
        /\ \A d \in Actors \ {c} : call'[d] = call[d]
    BY <1>1 DEF SelectPaused, EnterStart, CallFails, Return, NoCall
  <2> QED
    BY <1>0, <2>1, <2>2
    DEF RowInv, RunnersHaveRows, InsertedRows, InsertedRow, StoppedRunners, DownIsEmpty
<1>2. CASE InsertTask(c)
  <2>1. UNCHANGED <<pc, stopEvent, phase>> /\ \A d \in Actors \ {c} : call'[d] = call[d]
    BY <1>2 DEF InsertTask, CallFails, Return
  <2>2. CASE UNCHANGED <<owner, status>> /\ call'[c] = NoCall
    BY <1>0, <2>1, <2>2
    DEF RowInv, RunnersHaveRows, InsertedRows, InsertedRow, StoppedRunners, DownIsEmpty, NoCall
  <2>3. ASSUME NEW t \in TaskIds, FreshId(t),
               owner' = [owner EXCEPT ![t] = call[c].spider],
               status' = [status EXCEPT ![t] = "running"],
               call' = [call EXCEPT ![c] = [@ EXCEPT !.pc = "mark", !.task = t]]
        PROVE  RowInv'
    <3>1. status[t] = "none" /\ pc[t] = "none"
      <4>1. status[t] = "none"
        BY <2>3, ConstantsAssumption DEF FreshId, TaskIds, ConstantsAssumption
      <4> QED
        BY <4>1 DEF RowInv, RunnersHaveRows, StatusAt
    <3>2. /\ call'[c].pc = "mark" /\ call'[c].task = t
          /\ call'[c].spider = call[c].spider
      <4>1. call[c] \in Call /\ call[c] # NoCall
        BY <1>0
      <4> QED
        BY <2>3, <4>1 DEF Call
    <3>3. InsertedRow(c)'
      BY <2>1, <2>3, <3>1, <3>2 DEF InsertedRow
    <3>4. \A d \in Actors \ {c} : call[d].pc = "mark" => call[d].task # t
      BY <3>1 DEF RowInv, InsertedRows, InsertedRow
    <3>5. \A d \in Actors \ {c} : call[d].pc = "mark" => InsertedRow(d)'
      BY <2>1, <2>3, <3>4 DEF RowInv, InsertedRows, InsertedRow
    <3>6. InsertedRows'
      BY <2>1, <3>2, <3>3, <3>4, <3>5 DEF RowInv, InsertedRows
    <3>7. RunnersHaveRows'
      BY <2>1, <2>3, <3>1 DEF RowInv, RunnersHaveRows
    <3>8. StoppedRunners'
      BY <2>1, <3>2 DEF RowInv, StoppedRunners
    <3> QED
      BY <1>0, <2>1, <3>6, <3>7, <3>8 DEF RowInv, DownIsEmpty
  <2> QED
    BY <1>2, <2>2, <2>3 DEF InsertTask, CallFails, Return
<1>3. CASE MarkRunning(c)
  <2>1. UNCHANGED <<owner, status, phase>> /\ call' = [call EXCEPT ![c] = NoCall]
    BY <1>3 DEF MarkRunning, CallFails, Return
  <2>2. CASE UNCHANGED runnerVars
    BY <1>0, <2>1, <2>2
    DEF RowInv, RunnersHaveRows, InsertedRows, InsertedRow, StoppedRunners, DownIsEmpty, NoCall
  <2>3. CASE NewRunner(call[c].task)
    <3> DEFINE t == call[c].task
    <3>1. /\ t \in TaskIds /\ status[t] = "running" /\ pc[t] = "none"
          /\ \A d \in Actors \ {c} : call[d].pc = "mark" => call[d].task # t
      BY <1>3 DEF MarkRunning, RowInv, InsertedRows, InsertedRow
    <3>2. /\ pc'[t] = "log"
          /\ \A u \in TaskIds \ {t} : pc'[u] = pc[u] /\ stopEvent'[u] = stopEvent[u]
      BY <2>3, <3>1 DEF NewRunner
    <3>3. RunnersHaveRows'
      BY <2>1, <3>1, <3>2 DEF RowInv, RunnersHaveRows, StatusAt
    <3>4. InsertedRows'
      BY <2>1, <3>1, <3>2 DEF RowInv, InsertedRows, InsertedRow, NoCall
    <3>5. StoppedRunners'
      BY <2>1, <3>1, <3>2 DEF RowInv, StoppedRunners, NoCall
    <3> QED
      BY <1>0, <2>1, <3>3, <3>4, <3>5 DEF RowInv, DownIsEmpty
  <2> QED
    BY <1>3, <2>2, <2>3 DEF MarkRunning
<1>4. CASE WaitTimeout(c)
  <2> DEFINE t == call[c].task
  <2>1. UNCHANGED <<owner, status, stopEvent, phase>>
    BY <1>4 DEF WaitTimeout, CancelTask
  <2>2. t \in TaskIds /\ pc[t] # "none" /\ stopEvent[t]
    BY <1>4 DEF WaitTimeout, RowInv, StoppedRunners
  <2>3. /\ pc'[t] = CancelledPc(pc[t])
        /\ \A u \in TaskIds \ {t} : pc'[u] = pc[u]
    BY <1>4, <2>2 DEF WaitTimeout, CancelTask
  <2>4. /\ call'[c].pc = "cancelWait" /\ call'[c].task = t
        /\ \A d \in Actors \ {c} : call'[d] = call[d]
    <3>1. call[c] \in Call /\ call[c] # NoCall
      BY <1>0
    <3> QED
      BY <1>4, <3>1 DEF WaitTimeout, Await, Call
  <2>5. RunnersHaveRows'
    BY <2>1, <2>2, <2>3, CancelledPcFacts DEF RowInv, RunnersHaveRows
  <2>6. InsertedRows'
    BY <2>1, <2>2, <2>3, <2>4 DEF RowInv, InsertedRows, InsertedRow
  <2>7. StoppedRunners'
    <3>1. \A u \in TaskIds : /\ pc[u] # "none" => pc'[u] # "none"
                             /\ pc[u] \in Finished => pc'[u] \in Finished
      BY <2>3, CancelledPcFacts
    <3>2. \A d \in Actors \ {c} :
             /\ call'[d].pc \in {"wait", "cancelWait", "recordPause"} =>
                   /\ call'[d].task \in TaskIds
                   /\ pc'[call'[d].task] # "none"
                   /\ stopEvent'[call'[d].task]
             /\ call'[d].pc = "recordPause" => pc'[call'[d].task] \in Finished
      BY <2>1, <2>4, <3>1 DEF RowInv, StoppedRunners
    <3>3. /\ call'[c].pc # "recordPause"
          /\ call'[c].task \in TaskIds
          /\ pc'[call'[c].task] # "none"
          /\ stopEvent'[call'[c].task]
      BY <2>1, <2>2, <2>4, <3>1
    <3> QED
      BY <3>2, <3>3 DEF StoppedRunners
  <2> QED
    BY <1>0, <2>1, <2>5, <2>6, <2>7 DEF RowInv, DownIsEmpty
<1>5. CASE WaitReturn(c)
  <2>1. UNCHANGED <<owner, status, pc, stopEvent, phase>>
    BY <1>5 DEF WaitReturn
  <2>2. /\ call'[c] = NoCall
           \/ /\ call'[c].pc = "recordPause" /\ call'[c].task = call[c].task
        /\ \A d \in Actors \ {c} : call'[d] = call[d]
    <3>1. call[c] \in Call /\ call[c] # NoCall
      BY <1>0
    <3> QED
      BY <1>5, <3>1 DEF WaitReturn, Await, Return, Call
  <2>3. call[c].task \in TaskIds /\ pc[call[c].task] \in Finished /\ stopEvent[call[c].task]
    BY <1>5 DEF WaitReturn, RowInv, StoppedRunners, Live
  <2>4. StoppedRunners'
    BY <2>1, <2>2, <2>3 DEF RowInv, StoppedRunners, NoCall, Finished
  <2> QED
    BY <1>0, <2>1, <2>2, <2>4 DEF RowInv, RunnersHaveRows, InsertedRows, InsertedRow, DownIsEmpty, NoCall
<1>6. CASE RecordPause(c)
  <2> DEFINE t == call[c].task
  <2>1. UNCHANGED <<owner, pc, stopEvent, phase>> /\ call' = [call EXCEPT ![c] = NoCall]
    BY <1>6 DEF RecordPause, CallFails, Return
  <2>2. t \in TaskIds /\ pc[t] \in Finished
    BY <1>6 DEF RecordPause, RowInv, StoppedRunners
  <2>3. /\ status'[t] \in {status[t], "paused"}
        /\ \A u \in TaskIds \ {t} : status'[u] = status[u]
    BY <1>6, <2>2 DEF RecordPause
  <2>4. RunnersHaveRows'
    BY <2>1, <2>2, <2>3 DEF RowInv, RunnersHaveRows, StatusAt, Finished
  <2>5. InsertedRows'
    BY <2>1, <2>2, <2>3 DEF RowInv, InsertedRows, InsertedRow, NoCall, Finished
  <2> QED
    BY <1>0, <2>1, <2>4, <2>5 DEF RowInv, StoppedRunners, DownIsEmpty, NoCall
<1> QED
  BY <1>1, <1>2, <1>3, <1>4, <1>5, <1>6, CallStep(c) DEF CallStep

\* What stop_spider, pause_spider and Engine.shutdown do before they wait: the
\* registered runner is alive, its event is set, and it is the one waited for.
LEMMA RequestStopFacts ==
    ASSUME TypeOK, NEW c \in Actors, NEW op, NEW s \in Spiders, RequestStop(c, op, s)
    PROVE  /\ runners[s] \in TaskIds /\ Live(runners[s])
           /\ stopEvent'[runners[s]]
           /\ \A u \in TaskIds : stopEvent[u] => stopEvent'[u]
           /\ pc' = pc
           /\ call'[c] = [op |-> op, pc |-> "wait", spider |-> s, task |-> runners[s]]
           /\ \A d \in Actors \ {c} : call'[d] = call[d]
<1>1. runners[s] \in TaskIds /\ Live(runners[s])
  BY ConstantsAssumption
  DEF ConstantsAssumption, RequestStop, IsRunning, TypeOK, TaskIds
<1>2. /\ stopEvent'[runners[s]] /\ pc' = pc
      /\ \A u \in TaskIds : stopEvent[u] => stopEvent'[u]
  BY <1>1 DEF RequestStop, SignalStop, TypeOK, RunnerTypeOK
<1>3. /\ call'[c] = [op |-> op, pc |-> "wait", spider |-> s, task |-> runners[s]]
      /\ \A d \in Actors \ {c} : call'[d] = call[d]
  BY DEF RequestStop, TypeOK
<1> QED
  BY <1>1, <1>2, <1>3

\* ... and it keeps RowInv.
LEMMA RequestStopKeepsRowInv ==
    ASSUME TypeOK, RowInv, NEW c \in Actors, NEW op, NEW s \in Spiders, RequestStop(c, op, s),
           Idle(c), phase # "down", UNCHANGED <<rows, phase>>
    PROVE  RowInv'
<1>1. /\ runners[s] \in TaskIds /\ Live(runners[s])
      /\ stopEvent'[runners[s]]
      /\ \A u \in TaskIds : stopEvent[u] => stopEvent'[u]
      /\ pc' = pc
      /\ \A d \in Actors \ {c} : call'[d] = call[d]
  BY RequestStopFacts
<1>2. call'[c].pc = "wait" /\ call'[c].task = runners[s]
  <2>1. call'[c] = [op |-> op, pc |-> "wait", spider |-> s, task |-> runners[s]]
    BY RequestStopFacts
  <2> QED
    BY <2>1
<1>3. UNCHANGED <<owner, status, phase>>
  BY DEF rows
<1>4. RunnersHaveRows'
  BY <1>1, <1>3 DEF RowInv, RunnersHaveRows
<1>5. InsertedRows'
  BY <1>1, <1>2, <1>3 DEF RowInv, InsertedRows, InsertedRow
<1>6. StoppedRunners'
  BY <1>1, <1>2 DEF RowInv, StoppedRunners, Live
<1> QED
  BY <1>3, <1>4, <1>5, <1>6 DEF RowInv, DownIsEmpty

\* Calls that begin keep RowInv.
LEMMA NewCallKeepsRowInv ==
    ASSUME TypeOK, RowInv, NEW c \in Callers, NEW s \in Spiders, NewCall(c, s)
    PROVE  RowInv'
<1> USE DEF Actors
<1>1. CASE Start(c, s) \/ Resume(c, s)
  <2>1. UNCHANGED <<owner, status, pc, stopEvent, phase>> /\ phase = "up"
    BY <1>1 DEF Start, Resume, rows, runnerVars
  <2>2. /\ call'[c].pc \in {"insert", "select"}
        /\ \A d \in Actors \ {c} : call'[d] = call[d]
    BY <1>1 DEF Start, Resume, EnterStart, TypeOK
  <2> QED
    BY <2>1, <2>2
    DEF RowInv, RunnersHaveRows, InsertedRows, InsertedRow, StoppedRunners, DownIsEmpty
<1>2. CASE Stop(c, s) \/ Pause(c, s)
  <2>1. UNCHANGED <<rows, phase>> /\ phase # "down" /\ Idle(c)
    BY <1>2 DEF Stop, Pause
  <2>2. RequestStop(c, "stop", s) \/ RequestStop(c, "pause", s)
    BY <1>2 DEF Stop, Pause
  <2> QED
    BY <2>1, <2>2, RequestStopKeepsRowInv
<1> QED
  BY <1>1, <1>2, NewCall(c, s) DEF NewCall

\* The life of the process keeps RowInv; check_crashed_tasks runs before any
\* runner exists.
LEMMA LifeKeepsRowInv ==
    ASSUME TypeOK, RowInv, Shutdown \/ ShutdownStep \/ Crash \/ Boot
    PROVE  RowInv'
<1> USE DEF Actors
<1>1. CASE Shutdown
  <2>1. UNCHANGED <<owner, status, pc, stopEvent>> /\ phase' = "stopping"
    BY <1>1 DEF Shutdown, rows, runnerVars
  <2>2. \A c \in Actors : call'[c].pc = "idle"
    BY <1>1 DEF Shutdown, NoCall
  <2> QED
    BY <2>1, <2>2
    DEF RowInv, RunnersHaveRows, InsertedRows, InsertedRow, StoppedRunners, DownIsEmpty
<1>2. ASSUME NEW s \in Spiders, ShutdownStop(s) PROVE RowInv'
  <2>1. UNCHANGED <<rows, phase>> /\ phase # "down" /\ Idle(Lifespan)
    BY <1>2 DEF ShutdownStop
  <2>2. CASE RequestStop(Lifespan, "stop", s)
    BY <2>1, <2>2, RequestStopKeepsRowInv
  <2>3. CASE UNCHANGED <<runnerVars, call>>
    BY <2>1, <2>3
    DEF rows, runnerVars, RowInv, RunnersHaveRows, InsertedRows, InsertedRow, StoppedRunners,
        DownIsEmpty
  <2> QED
    BY <1>2, <2>2, <2>3 DEF ShutdownStop
<1>3. CASE CancelAll
  <2>1. UNCHANGED <<owner, status, stopEvent, call>> /\ phase' = "exiting"
    BY <1>3 DEF CancelAll, rows
  <2>2. \A t \in TaskIds : pc[t] \in Pc /\ pc'[t] = CancelledPc(pc[t])
    BY <1>3 DEF CancelAll, TypeOK, RunnerTypeOK
  <2>3. RunnersHaveRows'
    BY <2>1, <2>2, CancelledPcFacts DEF RowInv, RunnersHaveRows
  <2>4. InsertedRows'
    BY <2>1, <2>2, CancelledPcFacts DEF RowInv, InsertedRows, InsertedRow
  <2>5. StoppedRunners'
    BY <2>1, <2>2, CancelledPcFacts DEF RowInv, StoppedRunners
  <2> QED
    BY <2>1, <2>3, <2>4, <2>5 DEF RowInv, DownIsEmpty
<1>4. CASE Exit \/ Crash
  <2>1. \A t \in TaskIds : pc'[t] = "none"
    BY <1>4 DEF Exit, Crash, LoseMemory, ForgetRunners
  <2>2. \A c \in Actors : call'[c] = NoCall /\ call'[c].pc = "idle"
    BY <1>4 DEF Exit, Crash, LoseMemory, NoCall
  <2> QED
    BY <2>1, <2>2
    DEF RowInv, RunnersHaveRows, InsertedRows, InsertedRow, StoppedRunners, DownIsEmpty
<1>5. CASE Boot
  <2>1. phase' = "up" /\ UNCHANGED <<pc, call>>
    BY <1>5 DEF Boot, runnerVars
  <2>2. /\ \A t \in TaskIds : pc[t] = "none"
        /\ \A c \in Actors : call[c].pc = "idle"
    BY <1>5 DEF Boot, RowInv, DownIsEmpty, NoCall
  <2> QED
    BY <2>1, <2>2
    DEF RowInv, RunnersHaveRows, InsertedRows, InsertedRow, StoppedRunners, DownIsEmpty
<1> QED
  BY <1>1, <1>2, <1>3, <1>4, <1>5 DEF ShutdownStep

\* RowInv holds in every state.
LEMMA RowsCorrect == Spec => [](TypeOK /\ RowInv)
<1>1. Init => RowInv
  BY DEF Init, RunnerInit, RowInv, RunnersHaveRows, InsertedRows, InsertedRow, StoppedRunners,
         DownIsEmpty, NoCall
<1>2. TypeOK /\ RowInv /\ [Next]_vars => RowInv'
  <2> SUFFICES ASSUME TypeOK, RowInv, [Next]_vars PROVE RowInv'
    OBVIOUS
  <2>1. CASE UNCHANGED vars
    BY <2>1
    DEF vars, RowInv, RunnersHaveRows, InsertedRows, InsertedRow, StoppedRunners, DownIsEmpty
  <2> QED
    BY <2>1, RunnerKeepsRowInv, CallKeepsRowInv, NewCallKeepsRowInv, LifeKeepsRowInv DEF Next
<1> QED
  BY <1>1, <1>2, TypeCorrect, PTL DEF Spec

-----------------------------------------------------------------------------
(* One runner per spider.                                                  *)

\* A step that registers no runner, starts no call and revives no runner
\* keeps the slots.
LEMMA SlotsShrink ==
    ASSUME SlotInv, runners' = runners, raced \subseteq raced',
           \A t \in TaskIds : Live(t)' => Live(t) /\ owner'[t] = owner[t],
           \A c \in Actors, s \in Spiders : Starting(c, s)' => Starting(c, s)
    PROVE  SlotInv'
  BY DEF SlotInv, Slot

\* A start call that is admitted (the checks of start_spider) takes a slot
\* nobody holds, or the start is recorded as raced.
LEMMA EnterStartKeepsSlots ==
    ASSUME TypeOK, SlotInv, NEW c \in Actors, NEW op, NEW s \in Spiders,
           ~IsRunning(s), EnterStart(c, op, s), ~\E r \in Spiders : Starting(c, r),
           UNCHANGED <<owner, pc, runners>>
    PROVE  SlotInv'
<1>1. call'[c] = [op |-> op, pc |-> "insert", spider |-> s, task |-> 0]
  BY DEF EnterStart, TypeOK
<1>2. \A d \in Actors \ {c} : call'[d] = call[d]
  BY DEF EnterStart, TypeOK
<1>3. \A d \in Actors, r \in Spiders : Starting(d, r)' <=> Starting(d, r) \/ (d = c /\ r = s)
  BY <1>1, <1>2 DEF Starting
<1>4. raced \subseteq raced' /\ (s \notin raced' => ~SomeStarting(s))
  BY DEF EnterStart
<1>5. ASSUME NEW r \in Spiders \ raced', r # s PROVE Slot(r)'
  BY <1>3, <1>4, <1>5 DEF SlotInv, Slot, Live
<1>6. ASSUME s \notin raced' PROVE Slot(s)'
  <2>1. Slot(s)
    BY <1>4, <1>6 DEF SlotInv
  <2>2. \A t \in TaskIds : owner[t] = s => ~Live(t)
    BY <2>1, ConstantsAssumption DEF ConstantsAssumption, Slot, IsRunning, TaskIds
  <2>3. \A d \in Actors : Starting(d, s)' => d = c
    BY <1>3, <1>4, <1>6 DEF SomeStarting
  <2> QED
    BY <2>2, <2>3 DEF Slot, Live
<1> QED
  BY <1>5, <1>6 DEF SlotInv

\* Steps of the engine calls keep the slots.
LEMMA CallKeepsSlots ==
    ASSUME TypeOK, RowInv, SlotInv, NEW c \in Actors, CallStep(c)
    PROVE  SlotInv'
<1> USE DEF TypeOK, RunnerTypeOK, rows, runnerVars
<1>0. ASSUME call' = [call EXCEPT ![c] = NoCall]
      PROVE  \A d \in Actors, s \in Spiders : Starting(d, s)' => Starting(d, s)
  BY <1>0 DEF Starting, NoCall
<1>1. CASE SelectPaused(c)
  <2>1. UNCHANGED <<owner, pc, runners>> /\ call[c].spider \in Spiders
    BY <1>1 DEF SelectPaused, Call, NoCall
  <2>2. ~\E r \in Spiders : Starting(c, r)
    BY <1>1 DEF SelectPaused, Starting
  <2>3. CASE ~IsRunning(call[c].spider) /\ EnterStart(c, "resume", call[c].spider)
    BY <2>1, <2>2, <2>3, EnterStartKeepsSlots
  <2>4. CASE call' = [call EXCEPT ![c] = NoCall] /\ raced' = raced
    BY <1>0, <2>1, <2>4, SlotsShrink DEF Live
  <2> QED
    BY <1>1, <2>3, <2>4 DEF SelectPaused, CallFails, Return
<1>2. CASE InsertTask(c)
  <2>1. UNCHANGED <<pc, runners, raced>>
    BY <1>2 DEF InsertTask
  <2>2. CASE UNCHANGED owner /\ call' = [call EXCEPT ![c] = NoCall]
    BY <1>0, <2>1, <2>2, SlotsShrink DEF Live
  <2>3. ASSUME NEW t \in TaskIds, FreshId(t),
               owner' = [owner EXCEPT ![t] = call[c].spider],
               call' = [call EXCEPT ![c] = [@ EXCEPT !.pc = "mark", !.task = t]]
        PROVE  SlotInv'
    <3>1. pc[t] = "none"
      <4>1. status[t] = "none"
        BY <2>3, ConstantsAssumption DEF FreshId, TaskIds, ConstantsAssumption
      <4> QED
        BY <4>1 DEF RowInv, RunnersHaveRows, StatusAt
    <3>2. \A u \in TaskIds : Live(u)' => Live(u) /\ owner'[u] = owner[u]
      BY <2>1, <2>3, <3>1 DEF Live
    <3>3. call'[c].spider = call[c].spider
      <4>1. call[c].pc = "insert" /\ call[c] \in Call
        BY <1>2 DEF InsertTask
      <4>2. call[c] # NoCall
        BY <4>1 DEF NoCall
      <4> QED
        BY <2>3, <4>1, <4>2 DEF Call
    <3>4. \A d \in Actors, s \in Spiders : Starting(d, s)' => Starting(d, s)
      BY <1>2, <2>3, <3>3 DEF InsertTask, Starting
    <3> QED
      BY <2>1, <3>2, <3>4, SlotsShrink
  <2> QED
    BY <1>2, <2>2, <2>3 DEF InsertTask, CallFails, Return
<1>3. CASE MarkRunning(c)
  <2>0. call[c].task \in TaskIds /\ call[c].spider \in Spiders /\ call[c].pc = "mark"
    <3>1. call[c] \in Call /\ call[c] # NoCall
      BY <1>3 DEF MarkRunning, NoCall
    <3> QED
      BY <1>3, <3>1 DEF MarkRunning, RowInv, InsertedRows, InsertedRow, Call
  <2> PICK t \in TaskIds, s \in Spiders : t = call[c].task /\ s = call[c].spider
    BY <2>0
  <2>1. UNCHANGED <<owner, raced>> /\ call' = [call EXCEPT ![c] = NoCall]
    BY <1>3 DEF MarkRunning, CallFails, Return
  <2>2. CASE UNCHANGED <<pc, runners>>
    BY <1>0, <2>1, <2>2, SlotsShrink DEF Live
  <2>3. CASE NewRunner(t) /\ runners' = [runners EXCEPT ![s] = t]
    <3>1. owner[t] = s /\ Starting(c, s)
      BY <2>0 DEF RowInv, InsertedRows, InsertedRow, Starting
    <3>2. \A u \in TaskIds \ {t} : Live(u)' <=> Live(u)
      BY <2>3, <3>1 DEF NewRunner, Live
    <3>3. \A d \in Actors, r \in Spiders : Starting(d, r)' => Starting(d, r) /\ d # c
      BY <2>1 DEF Starting, NoCall
    <3>4. ASSUME NEW r \in Spiders \ raced, r # s PROVE Slot(r)'
      BY <2>1, <2>3, <3>1, <3>2, <3>3, <3>4 DEF SlotInv, Slot
    <3>5. ASSUME s \notin raced PROVE Slot(s)'
      <4>1. Slot(s)
        BY <3>1, <3>5 DEF SlotInv
      <4>2. \A u \in TaskIds \ {t} : owner[u] = s => ~Live(u)'
        BY <3>1, <3>2, <4>1 DEF Slot
      <4>3. \A d \in Actors : ~Starting(d, s)'
        BY <3>1, <3>3, <4>1 DEF Slot
      <4>4. runners'[s] = t
        BY <2>3, <3>1
      <4> QED
        BY <2>1, <4>2, <4>3, <4>4 DEF Slot
    <3> QED
      BY <2>1, <3>4, <3>5 DEF SlotInv
  <2> QED
    BY <1>3, <2>2, <2>3 DEF MarkRunning
<1>4. CASE WaitTimeout(c)
  <2>1. UNCHANGED <<owner, runners, raced>>
    BY <1>4 DEF WaitTimeout
  <2>2. \A u \in TaskIds : Live(u)' => Live(u)
    BY <1>4, CancelledPcFacts DEF WaitTimeout, CancelTask, Live
  <2>3. \A d \in Actors, s \in Spiders : Starting(d, s)' => Starting(d, s)
    <3>1. call[c] \in Call /\ call[c] # NoCall
      BY <1>4 DEF WaitTimeout, NoCall
    <3>2. call'[c].pc = "cancelWait" /\ \A d \in Actors \ {c} : call'[d] = call[d]
      BY <1>4, <3>1 DEF WaitTimeout, Await, Call
    <3> QED
      BY <3>2 DEF Starting
  <2> QED
    BY <2>1, <2>2, <2>3, SlotsShrink
<1>5. CASE WaitReturn(c)
  <2>1. UNCHANGED <<owner, pc, runners, raced>>
    BY <1>5 DEF WaitReturn
  <2>2. \A d \in Actors, s \in Spiders : Starting(d, s)' => Starting(d, s)
    <3>1. call[c] \in Call /\ call[c] # NoCall
      BY <1>5 DEF WaitReturn, NoCall
    <3>2. call'[c].pc \in {"idle", "recordPause"} /\ \A d \in Actors \ {c} : call'[d] = call[d]
      BY <1>5, <3>1 DEF WaitReturn, Await, Return, Call, NoCall
    <3> QED
      BY <3>2 DEF Starting
  <2> QED
    BY <2>1, <2>2, SlotsShrink DEF Live
<1>6. CASE RecordPause(c)
  <2>1. UNCHANGED <<owner, pc, runners, raced>> /\ call' = [call EXCEPT ![c] = NoCall]
    BY <1>6 DEF RecordPause, CallFails, Return
  <2> QED
    BY <1>0, <2>1, SlotsShrink DEF Live
<1> QED
  BY <1>1, <1>2, <1>3, <1>4, <1>5, <1>6, CallStep(c) DEF CallStep

\* Calls that begin keep the slots.
LEMMA NewCallKeepsSlots ==
    ASSUME TypeOK, SlotInv, NEW c \in Callers, NEW s \in Spiders, NewCall(c, s)
    PROVE  SlotInv'
<1> USE DEF Actors, rows, runnerVars
<1>1. CASE Start(c, s)
  <2>1. ~\E r \in Spiders : Starting(c, r)
    BY <1>1 DEF Start, Idle, Starting
  <2> QED
    BY <1>1, <2>1, EnterStartKeepsSlots DEF Start
<1>2. CASE Resume(c, s)
  <2>1. UNCHANGED <<owner, pc, runners, raced>>
    BY <1>2 DEF Resume
  <2>2. call'[c].pc = "select" /\ \A d \in Actors \ {c} : call'[d] = call[d]
    BY <1>2 DEF Resume, TypeOK
  <2> QED
    BY <2>1, <2>2, SlotsShrink DEF Live, Starting
<1>3. CASE Stop(c, s) \/ Pause(c, s)
  <2>1. UNCHANGED <<owner, runners, raced>>
    BY <1>3 DEF Stop, Pause
  <2>2. PICK op : RequestStop(c, op, s)
    BY <1>3 DEF Stop, Pause
  <2>3. /\ pc' = pc
        /\ call'[c] = [op |-> op, pc |-> "wait", spider |-> s, task |-> runners[s]]
        /\ \A d \in Actors \ {c} : call'[d] = call[d]
    BY <2>2, RequestStopFacts
  <2>4. call'[c].pc = "wait"
    BY <2>3
  <2> QED
    BY <2>1, <2>3, <2>4, SlotsShrink DEF Live, Starting
<1> QED
  BY <1>1, <1>2, <1>3, NewCall(c, s) DEF NewCall

\* The life of the process keeps the slots: a new process has no runner.
LEMMA LifeKeepsSlots ==
    ASSUME TypeOK, RowInv, SlotInv, Shutdown \/ ShutdownStep \/ Crash \/ Boot
    PROVE  SlotInv'
<1> USE DEF Actors, rows, runnerVars
<1>1. CASE Shutdown
  <2>1. UNCHANGED <<owner, pc, runners, raced>>
    BY <1>1 DEF Shutdown
  <2>2. \A d \in Actors : call'[d].pc = "idle"
    BY <1>1 DEF Shutdown, NoCall
  <2> QED
    BY <2>1, <2>2, SlotsShrink DEF Live, Starting
<1>2. ASSUME NEW s \in Spiders, ShutdownStop(s) PROVE SlotInv'
  <2>1. UNCHANGED <<owner, runners, raced>>
    BY <1>2 DEF ShutdownStop
  <2>2. CASE RequestStop(Lifespan, "stop", s)
    <3>1. /\ pc' = pc
          /\ call'[Lifespan] = [op |-> "stop", pc |-> "wait", spider |-> s, task |-> runners[s]]
          /\ \A d \in Actors \ {Lifespan} : call'[d] = call[d]
      BY <2>2, RequestStopFacts
    <3>2. call'[Lifespan].pc = "wait"
      BY <3>1
    <3> QED
      BY <2>1, <3>1, <3>2, SlotsShrink DEF Live, Starting
  <2>3. CASE UNCHANGED <<runnerVars, call>>
    BY <2>1, <2>3, SlotsShrink DEF Live, Starting
  <2> QED
    BY <1>2, <2>2, <2>3 DEF ShutdownStop
<1>3. CASE CancelAll
  <2>1. UNCHANGED <<owner, runners, call, raced>>
    BY <1>3 DEF CancelAll
  <2>2. \A t \in TaskIds : Live(t)' => Live(t)
    BY <1>3, CancelledPcFacts DEF CancelAll, Live, TypeOK, RunnerTypeOK
  <2> QED
    BY <2>1, <2>2, SlotsShrink DEF Starting
<1>4. CASE Exit \/ Crash
  <2>1. \A t \in TaskIds : ~Live(t)'
    BY <1>4 DEF Exit, Crash, LoseMemory, ForgetRunners, Live
  <2>2. \A d \in Actors, s \in Spiders : ~Starting(d, s)'
    BY <1>4 DEF Exit, Crash, LoseMemory, NoCall, Starting
  <2> QED
    BY <2>1, <2>2 DEF SlotInv, Slot
<1>5. CASE Boot
  <2>1. UNCHANGED <<owner, pc, runners, call, raced>>
    BY <1>5 DEF Boot
  <2> QED
    BY <2>1, SlotsShrink DEF Live, Starting
<1> QED
  BY <1>1, <1>2, <1>3, <1>4, <1>5 DEF ShutdownStep

\* SlotInv holds in every state.
LEMMA SlotsCorrect == Spec => []SlotInv
<1>1. Init => SlotInv
  BY DEF Init, RunnerInit, NoCall, SlotInv, Slot, Live, Starting
<1>2. TypeOK /\ RowInv /\ SlotInv /\ [Next]_vars => SlotInv'
  <2> SUFFICES ASSUME TypeOK, RowInv, SlotInv, [Next]_vars PROVE SlotInv'
    OBVIOUS
  <2>1. ASSUME NEW t \in TaskIds, RunnerStep(t), UNCHANGED engineVars PROVE SlotInv'
    <3>1. \A u \in TaskIds : Live(u)' => Live(u) /\ owner'[u] = owner[u]
      BY <2>1, RunnerStepFrame DEF Live
    <3> QED
      BY <2>1, <3>1, SlotsShrink DEF engineVars, Starting
  <2>2. CASE UNCHANGED vars
    BY <2>2, SlotsShrink DEF vars, Live, Starting
  <2> QED
    BY <2>1, <2>2, CallKeepsSlots, NewCallKeepsSlots, LifeKeepsSlots DEF Next
<1> QED
  BY <1>1, <1>2, RowsCorrect, PTL DEF Spec

\* One live runner per spider, for any number of spiders, callers and runs, as
\* long as no two start calls for it overlapped (the check of start_spider).
THEOREM SingletonCorrect == Spec => []SingletonUnlessRaced
<1>1. SlotInv => SingletonUnlessRaced
  BY DEF SlotInv, Slot, SingletonUnlessRaced, LiveRunners
<1> QED
  BY <1>1, SlotsCorrect, PTL

-----------------------------------------------------------------------------
(* No sandbox is left behind.                                              *)

\* What SandboxInv says of one runner.
SandboxOf(t) ==
    /\ sandboxGen[t] = "open" /\ phase # "exiting" => pc[t] \in {"next", "save"}
    /\ pc[t] = "save" /\ stopEvent[t] => sandboxGen[t] # "open"

\* A step of a runner (the loop of _run over its generator) keeps its part.
LEMMA RunnerKeepsSandbox ==
    ASSUME TypeOK, NEW t \in TaskIds, SandboxOf(t), RunnerStep(t), UNCHANGED engineVars
    PROVE  SandboxOf(t)'
<1> USE RunnerStepFrame
    DEF TypeOK, RunnerTypeOK, SandboxOf, engineVars, Goto, GotoWithGen, GiveUpItems
<1>1. CASE SandboxStep(t) \/ SandboxTimeout(t)
  BY <1>1 DEF SandboxStep, GetItem, DropItem, EndOfItems, SandboxError, SandboxTimeout
<1>2. CASE Launch(t) \/ SavedItem(t) \/ CloseSession(t) \/ EndBackoff(t)
  BY <1>2 DEF Launch, SavedItem, CloseSession, EndBackoff, Gen
<1>3. CASE HandleError(t)
  BY <1>3 DEF HandleError
<1>4. CASE CompleteTask(t) \/ RetryTask(t) \/ FailTask(t) \/ PauseTask(t)
  BY <1>4 DEF CompleteTask, RetryTask, FailTask, PauseTask, CommitTask
<1>5. CASE CompleteSpider(t) \/ FailSpider(t) \/ PauseSpider(t)
  BY <1>5 DEF CompleteSpider, FailSpider, PauseSpider, CommitSpider
<1> QED
  BY <1>1, <1>2, <1>3, <1>4, <1>5, RunnerStep(t) DEF RunnerStep, OwnStep

\* SpiderRunner.stop before its wait keeps it: a generator suspended at its
\* yield is closed.
LEMMA StopKeepsSandbox ==
    ASSUME TypeOK, SandboxInv, NEW c \in Actors, NEW op, NEW s \in Spiders,
           RequestStop(c, op, s), UNCHANGED phase
    PROVE  SandboxInv'
<1>1. runners[s] \in TaskIds
  BY RequestStopFacts
<1>2. SignalStop(runners[s])
  BY DEF RequestStop
<1>3. \A t \in TaskIds \ {runners[s]} :
         pc'[t] = pc[t] /\ stopEvent'[t] = stopEvent[t] /\ sandboxGen'[t] = sandboxGen[t]
  BY <1>2 DEF SignalStop, TypeOK, RunnerTypeOK
<1>4. /\ pc'[runners[s]] = pc[runners[s]]
      /\ pc[runners[s]] # "next" => sandboxGen'[runners[s]] # "open"
  BY <1>1, <1>2 DEF SignalStop, TypeOK, RunnerTypeOK
<1> QED
  BY <1>1, <1>3, <1>4 DEF SandboxInv

\* Steps of the engine calls keep it.
LEMMA CallKeepsSandbox ==
    ASSUME TypeOK, RowInv, SandboxInv, NEW c \in Actors, CallStep(c)
    PROVE  SandboxInv'
<1>1. CASE SelectPaused(c) \/ InsertTask(c) \/ WaitReturn(c) \/ RecordPause(c)
  <2>1. UNCHANGED <<pc, stopEvent, sandboxGen, phase>>
    BY <1>1 DEF SelectPaused, InsertTask, WaitReturn, RecordPause, runnerVars
  <2> QED
    BY <2>1 DEF SandboxInv
<1>2. CASE MarkRunning(c)
  <2>1. UNCHANGED phase
    BY <1>2 DEF MarkRunning
  <2>2. CASE UNCHANGED runnerVars
    BY <2>1, <2>2 DEF SandboxInv, runnerVars
  <2>3. CASE NewRunner(call[c].task)
    <3>1. call[c].task \in TaskIds
      BY <1>2 DEF MarkRunning, RowInv, InsertedRows, InsertedRow
    <3> QED
      BY <2>1, <2>3, <3>1 DEF NewRunner, SandboxInv, TypeOK, RunnerTypeOK
  <2> QED
    BY <1>2, <2>2, <2>3 DEF MarkRunning
<1>3. CASE WaitTimeout(c)
  <2> PICK t \in TaskIds : t = call[c].task
    BY <1>3 DEF WaitTimeout, RowInv, StoppedRunners
  <2>1. stopEvent[t] /\ UNCHANGED <<stopEvent, phase>>
    BY <1>3 DEF WaitTimeout, CancelTask, RowInv, StoppedRunners
  <2>2. /\ pc'[t] = CancelledPc(pc[t])
        /\ sandboxGen'[t] = CancelledGen(pc[t], sandboxGen[t])
        /\ \A u \in TaskIds \ {t} : pc'[u] = pc[u] /\ sandboxGen'[u] = sandboxGen[u]
    BY <1>3 DEF WaitTimeout, CancelTask, TypeOK, RunnerTypeOK
  <2>3. phase # "exiting" => sandboxGen'[t] # "open"
    BY <2>1, <2>2 DEF CancelledGen, SandboxInv
  <2>4. pc'[t] # "save"
    BY <2>2, CancelledPcFacts DEF TypeOK, RunnerTypeOK, Finished
  <2> QED
    BY <2>1, <2>2, <2>3, <2>4 DEF SandboxInv
<1> QED
  BY <1>1, <1>2, <1>3, CallStep(c) DEF CallStep

\* So do calls that begin, and the life of the process: only the cancellation
\* at exit leaves a generator open behind its runner.
LEMMA OthersKeepSandbox ==
    ASSUME TypeOK, SandboxInv,
           \/ \E c \in Callers, s \in Spiders : NewCall(c, s)
           \/ Shutdown \/ ShutdownStep \/ Crash \/ Boot
    PROVE  SandboxInv'
<1>1. ASSUME NEW c \in Callers, NEW s \in Spiders, NewCall(c, s) PROVE SandboxInv'
  <2>1. CASE Start(c, s) \/ Resume(c, s)
    BY <2>1 DEF Start, Resume, runnerVars, SandboxInv
  <2>2. CASE Stop(c, s) \/ Pause(c, s)
    BY <2>2, StopKeepsSandbox DEF Stop, Pause, Actors
  <2> QED
    BY <1>1, <2>1, <2>2 DEF NewCall
<1>2. CASE Shutdown \/ Boot
  <2>1. UNCHANGED <<pc, stopEvent, sandboxGen>> /\ phase # "exiting"
    BY <1>2 DEF Shutdown, Boot, runnerVars
  <2> QED
    BY <2>1 DEF SandboxInv
<1>3. ASSUME NEW s \in Spiders, ShutdownStop(s) PROVE SandboxInv'
  <2>1. CASE RequestStop(Lifespan, "stop", s)
    BY <1>3, <2>1, StopKeepsSandbox DEF ShutdownStop, Actors
  <2>2. CASE UNCHANGED runnerVars
    BY <1>3, <2>2 DEF ShutdownStop, runnerVars, SandboxInv
  <2> QED
    BY <1>3, <2>1, <2>2 DEF ShutdownStop
<1>4. CASE CancelAll
  <2>1. \A t \in TaskIds : pc'[t] # "save"
    <3>1. \A t \in TaskIds : pc[t] \in Pc /\ pc'[t] = CancelledPc(pc[t])
      BY <1>4 DEF CancelAll, TypeOK, RunnerTypeOK
    <3> QED
      BY <3>1, CancelledPcFacts DEF Finished
  <2> QED
    BY <1>4, <2>1 DEF CancelAll, SandboxInv
<1>5. CASE Exit \/ Crash
  BY <1>5 DEF Exit, Crash, LoseMemory, ForgetRunners, SandboxInv
<1> QED
  BY <1>1, <1>2, <1>3, <1>4, <1>5 DEF ShutdownStep

\* No runner of a serving process ends with its sandbox open, whatever stops,
\* time-outs and cancellations reached it.
THEOREM NothingAbandoned == Spec => []NoAbandonedSandbox
<1>1. Init => SandboxInv
  BY DEF Init, RunnerInit, SandboxInv
<1>2. TypeOK /\ RowInv /\ SandboxInv /\ [Next]_vars => SandboxInv'
  <2> SUFFICES ASSUME TypeOK, RowInv, SandboxInv, [Next]_vars PROVE SandboxInv'
    OBVIOUS
  <2>1. ASSUME NEW t \in TaskIds, RunnerStep(t), UNCHANGED engineVars PROVE SandboxInv'
    <3>1. \A u \in TaskIds : SandboxInv => SandboxOf(u)
      BY DEF SandboxInv, SandboxOf
    <3>2. SandboxOf(t)'
      BY <2>1, <3>1, RunnerKeepsSandbox
    <3>3. \A u \in TaskIds \ {t} : SandboxOf(u)'
      BY <2>1, <3>1, RunnerStepFrame DEF SandboxOf, engineVars
    <3> QED
      BY <3>2, <3>3 DEF SandboxInv, SandboxOf
  <2>2. CASE UNCHANGED vars
    BY <2>2 DEF vars, SandboxInv
  <2> QED
    BY <2>1, <2>2, CallKeepsSandbox, OthersKeepSandbox DEF Next
<1>3. SandboxInv => NoAbandonedSandbox
  BY DEF SandboxInv, NoAbandonedSandbox, Live, Finished
<1> QED
  BY <1>1, <1>2, <1>3, RowsCorrect, PTL DEF Spec

-----------------------------------------------------------------------------
(* No row is stranded.                                                     *)

\* The row is not RUNNING, or someone works on it, or a stop or a failed
\* database call excuses it.
Attended(t) ==
    status[t] = "running" =>
       \/ Live(t)
       \/ \E c \in Callers : call[c].pc = "mark" /\ call[c].task = t
       \/ stopEvent[t]
       \/ faults > 0

StrandedInv == LifespanStops /\ (phase = "up" => \A t \in TaskIds : Attended(t))

\* The task of the lifespan never inserts a row (Engine.shutdown).
LEMMA LifespanKeepsStopping ==
    ASSUME TypeOK, LifespanStops, [Next]_vars
    PROVE  LifespanStops'
<1> USE LifespanAssumption DEF LifespanAssumption, Actors, TypeOK, LifespanStops
<1>1. ASSUME NEW c \in Actors, CallStep(c) PROVE LifespanStops'
  <2>1. CASE c = Lifespan
    <3>1. CASE WaitTimeout(c)
      <4>1. call[c] \in Call /\ call[c] # NoCall
        BY <3>1 DEF WaitTimeout, NoCall
      <4> QED
        BY <2>1, <3>1, <4>1 DEF WaitTimeout, Await, Call
    <3>2. CASE WaitReturn(c)
      <4>1. call[c] \in Call /\ call[c] # NoCall
        BY <3>2 DEF WaitReturn, NoCall
      <4> QED
        BY <2>1, <3>2, <4>1 DEF WaitReturn, Await, Return, Call, NoCall
    <3>3. CASE RecordPause(c)
      BY <2>1, <3>3 DEF RecordPause, CallFails, Return, NoCall
    <3> QED
      BY <1>1, <2>1, <3>1, <3>2, <3>3 DEF CallStep, SelectPaused, InsertTask, MarkRunning
  <2>2. CASE c # Lifespan
    <3>1. call'[Lifespan] = call[Lifespan]
      BY <1>1, <2>2
      DEF CallStep, SelectPaused, InsertTask, MarkRunning, WaitTimeout, WaitReturn, RecordPause,
          EnterStart, CallFails, Return, Await
    <3> QED
      BY <3>1
  <2> QED
    BY <2>1, <2>2
<1>2. ASSUME NEW c \in Callers, NEW s \in Spiders, NewCall(c, s) PROVE LifespanStops'
  <2>1. call'[Lifespan] = call[Lifespan]
    BY <1>2 DEF NewCall, Start, Resume, Stop, Pause, EnterStart, RequestStop
  <2> QED
    BY <2>1
<1>3. CASE Shutdown \/ Exit \/ Crash
  BY <1>3 DEF Shutdown, Exit, Crash, LoseMemory, NoCall
<1>4. CASE CancelAll \/ Boot
  BY <1>4 DEF CancelAll, Boot
<1>5. ASSUME NEW s \in Spiders, ShutdownStop(s) PROVE LifespanStops'
  <2>1. CASE RequestStop(Lifespan, "stop", s)
    BY <2>1 DEF RequestStop
  <2> QED
    BY <1>5, <2>1 DEF ShutdownStop
<1>6. CASE UNCHANGED vars \/ \E t \in TaskIds : RunnerStep(t) /\ UNCHANGED engineVars
  BY <1>6 DEF vars, engineVars
<1> QED
  BY <1>1, <1>2, <1>3, <1>4, <1>5, <1>6 DEF Next, ShutdownStep

\* A runner that ends (SpiderRunner._run) leaves its row attended.
LEMMA RunnerKeepsAttended ==
    ASSUME TypeOK, RowInv, NEW t \in TaskIds, Attended(t), RunnerStep(t), UNCHANGED engineVars
    PROVE  Attended(t)' /\ (faults > 0 => faults' > 0)
<1>0. /\ Live(t) /\ stopEvent'[t] = stopEvent[t]
      /\ status[t] \in StatusAt(pc[t])
      /\ faults \in Nat
  BY RunnerStepFrame, ConstantsAssumption
  DEF ConstantsAssumption, Live, RowInv, RunnersHaveRows, TypeOK, RunnerTypeOK
<1> USE <1>0
    DEF TypeOK, RunnerTypeOK, Attended, Live, Finished, StatusAt, rows,
        Goto, GotoWithGen, GiveUpItems
<1>1. CASE SandboxStep(t) \/ SandboxTimeout(t)
  BY <1>1 DEF SandboxStep, GetItem, DropItem, EndOfItems, SandboxError, SandboxTimeout
<1>2. CASE Launch(t) \/ SavedItem(t) \/ CloseSession(t) \/ EndBackoff(t)
  BY <1>2 DEF Launch, SavedItem, CloseSession, EndBackoff
<1>3. CASE HandleError(t)
  BY <1>3 DEF HandleError
<1>4. CASE CompleteTask(t) \/ RetryTask(t) \/ FailTask(t) \/ PauseTask(t)
  BY <1>4 DEF CompleteTask, RetryTask, FailTask, PauseTask, CommitTask, Fault
<1>5. CASE CompleteSpider(t) \/ FailSpider(t) \/ PauseSpider(t)
  BY <1>5 DEF CompleteSpider, FailSpider, PauseSpider, CommitSpider, Fault
<1> QED
  BY <1>1, <1>2, <1>3, <1>4, <1>5, RunnerStep(t) DEF RunnerStep, OwnStep

\* A call that returns early, or goes on without inserting, leaves them so.
LEMMA CallKeepsAttended ==
    ASSUME TypeOK, RowInv, LifespanStops, NEW c \in Actors, CallStep(c),
           \A t \in TaskIds : Attended(t)
    PROVE  \A t \in TaskIds : Attended(t)'
<1> USE DEF TypeOK, RunnerTypeOK, rows, runnerVars
<1>0. faults \in Nat
  BY ConstantsAssumption DEF ConstantsAssumption
<1>1. CASE SelectPaused(c) \/ WaitReturn(c)
  <2>1. UNCHANGED <<status, pc, stopEvent>> /\ faults' \in {faults, faults + 1} /\ call[c].pc # "mark"
    BY <1>0, <1>1 DEF SelectPaused, WaitReturn, CallFails, Fault
  <2>2. \A d \in Actors \ {c} : call'[d] = call[d]
    BY <1>1 DEF SelectPaused, WaitReturn, EnterStart, CallFails, Return, Await
  <2> QED
    BY <1>0, <2>1, <2>2 DEF Attended, Live, Actors
<1>2. CASE InsertTask(c)
  <2>1. UNCHANGED <<pc, stopEvent>> /\ call[c].pc = "insert" /\ c \in Callers
    BY <1>2 DEF InsertTask, LifespanStops, Actors
  <2>2. CASE CallFails(c)
    BY <1>0, <2>2 DEF CallFails, Fault, Attended
  <2>3. ASSUME NEW t \in TaskIds,
               status' = [status EXCEPT ![t] = "running"],
               call' = [call EXCEPT ![c] = [@ EXCEPT !.pc = "mark", !.task = t]],
               UNCHANGED faults
        PROVE  \A u \in TaskIds : Attended(u)'
    <3>1. call'[c].pc = "mark" /\ call'[c].task = t
      <4>1. call[c] \in Call
        OBVIOUS
      <4>2. call[c] # NoCall
        BY <2>1 DEF NoCall
      <4> QED
        BY <2>3, <4>1, <4>2 DEF Call
    <3>2. Attended(t)'
      BY <2>1, <3>1 DEF Attended
    <3>3. \A u \in TaskIds \ {t} : Attended(u)'
      BY <2>1, <2>3 DEF Attended, Live, Actors
    <3> QED
      BY <3>2, <3>3
  <2> QED
    BY <1>2, <2>2, <2>3 DEF InsertTask
<1>3. CASE MarkRunning(c)
  <2> PICK t \in TaskIds : t = call[c].task
    BY <1>3 DEF MarkRunning, RowInv, InsertedRows, InsertedRow
  <2>1. CASE CallFails(c)
    BY <1>0, <2>1 DEF CallFails, Fault, Attended
  <2>2. CASE NewRunner(t) /\ call' = [call EXCEPT ![c] = NoCall] /\ UNCHANGED <<status, faults>>
    <3>1. Live(t)'
      BY <2>2 DEF NewRunner, Live, Finished
    <3>2. ASSUME NEW u \in TaskIds, u # t PROVE Attended(u)'
      <4>1. (Live(u)' <=> Live(u)) /\ stopEvent'[u] = stopEvent[u]
        BY <2>2, <3>2 DEF NewRunner, Live
      <4>2. \A d \in Actors \ {c} : call'[d] = call[d]
        BY <2>2
      <4> QED
        BY <2>2, <3>2, <4>1, <4>2 DEF Attended, Actors
    <3> QED
      BY <3>1, <3>2 DEF Attended
  <2> QED
    BY <1>3, <2>1, <2>2 DEF MarkRunning, Return
<1>4. CASE WaitTimeout(c)
  <2> PICK t \in TaskIds : t = call[c].task
    BY <1>4 DEF WaitTimeout, RowInv, StoppedRunners
  <2>1. stopEvent[t] /\ UNCHANGED <<status, stopEvent, faults>> /\ call[c].pc # "mark"
    BY <1>4 DEF WaitTimeout, CancelTask, RowInv, StoppedRunners
  <2>2. \A u \in TaskIds \ {t} : pc'[u] = pc[u]
    BY <1>4 DEF WaitTimeout, CancelTask
  <2>3. \A d \in Actors \ {c} : call'[d] = call[d]
    BY <1>4 DEF WaitTimeout, Await
  <2> QED
    BY <2>1, <2>2, <2>3 DEF Attended, Live, Actors
<1>5. CASE RecordPause(c)
  <2>1. UNCHANGED <<pc, stopEvent>> /\ faults' \in {faults, faults + 1} /\ call[c].pc # "mark"
    BY <1>0, <1>5 DEF RecordPause, CallFails, Fault
  <2>2. \A t \in TaskIds : status'[t] \in {status[t], "paused"}
    BY <1>5 DEF RecordPause
  <2>3. \A d \in Actors \ {c} : call'[d] = call[d]
    BY <1>5 DEF RecordPause, CallFails, Return
  <2> QED
    BY <1>0, <2>1, <2>2, <2>3 DEF Attended, Live, Actors
<1> QED
  BY <1>1, <1>2, <1>3, <1>4, <1>5, CallStep(c) DEF CallStep

\* A stop request adds an excuse and takes none away.
LEMMA StopKeepsAttended ==
    ASSUME TypeOK, NEW c \in Actors, NEW op, NEW s \in Spiders, RequestStop(c, op, s),
           Idle(c), UNCHANGED rows, \A t \in TaskIds : Attended(t)
    PROVE  \A t \in TaskIds : Attended(t)'
<1>1. /\ \A u \in TaskIds : stopEvent[u] => stopEvent'[u]
      /\ pc' = pc
      /\ \A d \in Actors \ {c} : call'[d] = call[d]
  BY RequestStopFacts
<1>2. UNCHANGED <<status, faults>> /\ call[c].pc # "mark"
  BY DEF rows, Idle
<1> QED
  BY <1>1, <1>2 DEF Attended, Live, Actors

\* Calls that begin leave the rows attended.
LEMMA NewCallKeepsAttended ==
    ASSUME TypeOK, NEW c \in Callers, NEW s \in Spiders, NewCall(c, s),
           \A t \in TaskIds : Attended(t)
    PROVE  \A t \in TaskIds : Attended(t)'
<1>1. CASE Start(c, s) \/ Resume(c, s)
  <2>1. UNCHANGED <<status, pc, stopEvent, faults>> /\ call[c].pc # "mark"
    BY <1>1 DEF Start, Resume, Idle, rows, runnerVars
  <2>2. \A d \in Actors \ {c} : call'[d] = call[d]
    BY <1>1 DEF Start, Resume, EnterStart, TypeOK
  <2> QED
    BY <2>1, <2>2 DEF Attended, Live, Actors
<1>2. CASE Stop(c, s) \/ Pause(c, s)
  <2>1. PICK op : RequestStop(c, op, s)
    BY <1>2 DEF Stop, Pause
  <2>2. Idle(c) /\ UNCHANGED rows /\ c \in Actors
    BY <1>2 DEF Stop, Pause, Actors
  <2> QED
    BY <2>1, <2>2, StopKeepsAttended
<1> QED
  BY <1>1, <1>2, NewCall(c, s) DEF NewCall

\* Start-up leaves no RUNNING row, and a process that is not up promises none.
LEMMA LifeKeepsAttended ==
    ASSUME TypeOK, StrandedInv, Shutdown \/ ShutdownStep \/ Crash \/ Boot, phase' = "up"
    PROVE  \A t \in TaskIds : Attended(t)'
<1>1. CASE Boot
  BY <1>1 DEF Boot, Attended, TypeOK, RunnerTypeOK
<1>2. ~(Shutdown \/ CancelAll \/ Exit \/ Crash)
  BY DEF Shutdown, CancelAll, Exit, Crash, LoseMemory
<1>3. \A s \in Spiders : ~ShutdownStop(s)
  BY DEF ShutdownStop
<1> QED
  BY <1>1, <1>2, <1>3 DEF ShutdownStep

\* A RUNNING row is worked on, for any number of spiders, callers, runs, retries
\* and crashes, unless a stop or a failed database call excuses it.
THEOREM NothingStranded == Spec => []NoStrandedRow
<1>1. Init => StrandedInv
  BY DEF Init, RunnerInit, NoCall, StrandedInv, LifespanStops, Attended, Actors
<1>2. TypeOK /\ RowInv /\ StrandedInv /\ [Next]_vars => StrandedInv'
  <2> SUFFICES ASSUME TypeOK, RowInv, StrandedInv, [Next]_vars PROVE StrandedInv'
    OBVIOUS
  <2>1. LifespanStops'
    BY LifespanKeepsStopping DEF StrandedInv
  <2>2. SUFFICES ASSUME phase' = "up" PROVE \A t \in TaskIds : Attended(t)'
    BY <2>1 DEF StrandedInv
  <2>3. CASE Shutdown \/ ShutdownStep \/ Crash \/ Boot
    BY <2>2, <2>3, LifeKeepsAttended
  <2>4. ASSUME NEW t \in TaskIds, RunnerStep(t), UNCHANGED engineVars
        PROVE  \A u \in TaskIds : Attended(u)'
    <3>1. \A u \in TaskIds : Attended(u)
      BY <2>2, <2>4 DEF StrandedInv, engineVars
    <3>2. Attended(t)' /\ (faults > 0 => faults' > 0)
      BY <2>4, <3>1, RunnerKeepsAttended
    <3>3. \A u \in TaskIds \ {t} : Attended(u)'
      BY <2>4, <3>1, <3>2, RunnerStepFrame DEF Attended, Live, engineVars
    <3> QED
      BY <3>2, <3>3
  <2>5. ASSUME NEW c \in Actors, CallStep(c) PROVE \A u \in TaskIds : Attended(u)'
    <3>1. phase = "up"
      BY <2>2, <2>5
      DEF CallStep, SelectPaused, InsertTask, MarkRunning, WaitTimeout, WaitReturn, RecordPause
    <3> QED
      BY <2>5, <3>1, CallKeepsAttended DEF StrandedInv
  <2>6. ASSUME NEW c \in Callers, NEW s \in Spiders, NewCall(c, s)
        PROVE  \A u \in TaskIds : Attended(u)'
    <3>1. phase = "up"
      BY <2>6 DEF NewCall, Start, Resume, Stop, Pause
    <3> QED
      BY <2>6, <3>1, NewCallKeepsAttended DEF StrandedInv
  <2>7. CASE UNCHANGED vars
    BY <2>2, <2>7 DEF vars, StrandedInv, Attended, Live
  <2> QED
    BY <2>3, <2>4, <2>5, <2>6, <2>7 DEF Next
<1>3. StrandedInv => NoStrandedRow
  BY DEF StrandedInv, Attended, NoStrandedRow
<1> QED
  BY <1>1, <1>2, <1>3, RowsCorrect, PTL DEF Spec

-----------------------------------------------------------------------------
(* A stop lasts.                                                           *)

\* Only a runner that exists was told to stop.
StopInv == \A t \in TaskIds : stopEvent[t] => pc[t] # "none"

\* The loop of _run over its generator saves no item once the event is set.
LEMMA RunnerTakesNoItem ==
    ASSUME TypeOK, NEW t \in TaskIds, RunnerStep(t), stopEvent[t]
    PROVE  pc'[t] # "save"
<1> USE DEF TypeOK, RunnerTypeOK, rows, Goto, GotoWithGen, GiveUpItems
<1>1. CASE SandboxStep(t) \/ SandboxTimeout(t)
  BY <1>1 DEF SandboxStep, GetItem, DropItem, EndOfItems, SandboxError, SandboxTimeout
<1>2. CASE Launch(t) \/ SavedItem(t) \/ CloseSession(t) \/ EndBackoff(t)
  BY <1>2 DEF Launch, SavedItem, CloseSession, EndBackoff
<1>3. CASE HandleError(t)
  BY <1>3 DEF HandleError
<1>4. CASE CompleteTask(t) \/ RetryTask(t) \/ FailTask(t) \/ PauseTask(t)
  BY <1>4 DEF CompleteTask, RetryTask, FailTask, PauseTask, CommitTask
<1>5. CASE CompleteSpider(t) \/ FailSpider(t) \/ PauseSpider(t)
  BY <1>5 DEF CompleteSpider, FailSpider, PauseSpider, CommitSpider
<1> QED
  BY <1>1, <1>2, <1>3, <1>4, <1>5, RunnerStep(t) DEF RunnerStep, OwnStep

\* What a step does to the runner of t, as far as a stop is concerned: the
\* process ends; or the runner of t is untouched, cancelled or told to stop, or
\* steps itself; or it is made, where none was.
StopKept(t) ==
    /\ stopEvent[t] => stopEvent'[t]
    /\ stopEvent[t] => (pc'[t] = "save" => pc[t] = "save")
    /\ stopEvent'[t] => stopEvent[t] \/ pc[t] # "none"
    /\ pc[t] # "none" => pc'[t] # "none"

\* Steps of the engine calls clear no event of a runner.
LEMMA CallKeepsStop ==
    ASSUME TypeOK, RowInv, StopInv, NEW c \in Actors, CallStep(c)
    PROVE  \A t \in TaskIds : StopKept(t)
<1> USE DEF TypeOK, RunnerTypeOK
<1>1. CASE SelectPaused(c) \/ InsertTask(c) \/ WaitReturn(c) \/ RecordPause(c)
  BY <1>1 DEF SelectPaused, InsertTask, WaitReturn, RecordPause, runnerVars, StopKept, StopInv
<1>2. CASE MarkRunning(c)
  <2>1. CASE UNCHANGED runnerVars
    BY <2>1 DEF runnerVars, StopKept, StopInv
  <2>2. CASE NewRunner(call[c].task)
    <3>1. call[c].task \in TaskIds /\ pc[call[c].task] = "none" /\ ~stopEvent[call[c].task]
      BY <1>2 DEF MarkRunning, RowInv, InsertedRows, InsertedRow, StopInv
    <3> QED
      BY <2>2, <3>1 DEF NewRunner, StopKept, StopInv
  <2> QED
    BY <1>2, <2>1, <2>2 DEF MarkRunning
<1>3. CASE WaitTimeout(c)
  <2>1. /\ UNCHANGED stopEvent
        /\ \A t \in TaskIds : pc'[t] = pc[t] \/ pc'[t] = CancelledPc(pc[t])
    BY <1>3 DEF WaitTimeout, CancelTask
  <2> QED
    BY <2>1, CancelledPcFacts DEF StopKept, StopInv, Finished
<1> QED
  BY <1>1, <1>2, <1>3, CallStep(c) DEF CallStep

\* No other step does, unless it ends the process.
LEMMA OthersKeepStop ==
    ASSUME TypeOK, StopInv, phase' # "down",
           \/ \E c \in Callers, s \in Spiders : NewCall(c, s)
           \/ Shutdown \/ ShutdownStep \/ Crash \/ Boot
    PROVE  \A t \in TaskIds : StopKept(t)
<1> USE DEF TypeOK, RunnerTypeOK
<1>0. ASSUME NEW c \in Actors, NEW op, NEW s \in Spiders, RequestStop(c, op, s)
      PROVE  \A t \in TaskIds : StopKept(t)
  <2>1. /\ runners[s] \in TaskIds /\ pc[runners[s]] # "none" /\ pc' = pc
        /\ \A u \in TaskIds : stopEvent[u] => stopEvent'[u]
    BY <1>0, RequestStopFacts DEF Live
  <2>2. \A u \in TaskIds \ {runners[s]} : stopEvent'[u] = stopEvent[u]
    BY <1>0 DEF RequestStop, SignalStop
  <2> QED
    BY <2>1, <2>2 DEF StopKept
<1>1. ASSUME NEW c \in Callers, NEW s \in Spiders, NewCall(c, s)
      PROVE  \A t \in TaskIds : StopKept(t)
  <2>1. CASE Start(c, s) \/ Resume(c, s)
    BY <2>1 DEF Start, Resume, runnerVars, StopKept, StopInv
  <2>2. CASE Stop(c, s) \/ Pause(c, s)
    BY <1>0, <2>2 DEF Stop, Pause, Actors
  <2> QED
    BY <1>1, <2>1, <2>2 DEF NewCall
<1>2. CASE Shutdown \/ Boot
  BY <1>2 DEF Shutdown, Boot, runnerVars, StopKept, StopInv
<1>3. ASSUME NEW s \in Spiders, ShutdownStop(s) PROVE \A t \in TaskIds : StopKept(t)
  <2>1. CASE RequestStop(Lifespan, "stop", s)
    BY <1>0, <2>1 DEF Actors
  <2>2. CASE UNCHANGED runnerVars
    BY <2>2 DEF runnerVars, StopKept, StopInv
  <2> QED
    BY <1>3, <2>1, <2>2 DEF ShutdownStop
<1>4. CASE CancelAll
  <2>1. /\ UNCHANGED stopEvent
        /\ \A t \in TaskIds : pc'[t] = CancelledPc(pc[t])
    BY <1>4 DEF CancelAll
  <2> QED
    BY <2>1, CancelledPcFacts DEF StopKept, StopInv, Finished
<1>5. ~(Exit \/ Crash)
  BY DEF Exit, Crash, LoseMemory
<1> QED
  BY <1>1, <1>2, <1>3, <1>4, <1>5 DEF ShutdownStep

\* No step of a process that goes on takes a stop back.
LEMMA StepKeepsStop ==
    ASSUME TypeOK, RowInv, StopInv, [Next]_vars, phase' # "down"
    PROVE  \A t \in TaskIds : StopKept(t)
<1>1. ASSUME NEW t \in TaskIds, RunnerStep(t) PROVE \A u \in TaskIds : StopKept(u)
  BY <1>1, RunnerStepFrame, RunnerTakesNoItem DEF StopKept, StopInv, Live
<1>2. CASE UNCHANGED vars
  BY <1>2 DEF vars, StopKept, StopInv
<1> QED
  BY <1>1, <1>2, CallKeepsStop, OthersKeepStop DEF Next

\* Only a runner that exists was told to stop, in every state.
LEMMA StopsCorrect == Spec => []StopInv
<1>1. Init => StopInv
  BY DEF Init, RunnerInit, StopInv
<1>2. TypeOK /\ RowInv /\ StopInv /\ [Next]_vars => StopInv'
  <2> SUFFICES ASSUME TypeOK, RowInv, StopInv, [Next]_vars PROVE StopInv'
    OBVIOUS
  <2>1. CASE phase' # "down"
    BY <2>1, StepKeepsStop DEF StopKept, StopInv
  <2>2. CASE phase' = "down" /\ phase # "down"
    <3>1. ASSUME NEW t \in TaskIds, RunnerStep(t), UNCHANGED engineVars PROVE FALSE
      BY <2>2, <3>1 DEF engineVars
    <3>2. ASSUME NEW c \in Actors, CallStep(c) PROVE FALSE
      BY <2>2, <3>2
      DEF CallStep, SelectPaused, InsertTask, MarkRunning, WaitTimeout, WaitReturn, RecordPause
    <3>3. ASSUME NEW c \in Callers, NEW s \in Spiders, NewCall(c, s) PROVE FALSE
      BY <2>2, <3>3 DEF NewCall, Start, Resume, Stop, Pause
    <3>4. ~(Shutdown \/ Boot \/ CancelAll \/ UNCHANGED vars \/ \E s \in Spiders : ShutdownStop(s))
      BY <2>2 DEF Shutdown, Boot, CancelAll, ShutdownStop, vars
    <3>5. LoseMemory
      BY <3>1, <3>2, <3>3, <3>4 DEF Next, ShutdownStep, Exit, Crash
    <3> QED
      BY <3>5 DEF LoseMemory, ForgetRunners, StopInv
  <2>3. CASE phase = "down" /\ phase' = "down"
    <3>1. \A t \in TaskIds : pc[t] = "none" /\ ~stopEvent[t]
      BY <2>3 DEF RowInv, DownIsEmpty, StopInv
    <3>2. ASSUME NEW t \in TaskIds, RunnerStep(t) PROVE FALSE
      BY <3>1, <3>2, RunnerStepFrame DEF Live
    <3>3. ASSUME NEW c \in Actors, CallStep(c) PROVE FALSE
      <4>1. call[c].pc = "idle"
        BY <2>3 DEF RowInv, DownIsEmpty, NoCall
      <4> QED
        BY <3>3, <4>1
        DEF CallStep, SelectPaused, InsertTask, MarkRunning, WaitTimeout, WaitReturn, RecordPause
    <3>4. ~(\E c \in Callers, s \in Spiders : NewCall(c, s))
      BY <2>3 DEF NewCall, Start, Resume, Stop, Pause
    <3>5. ~(Shutdown \/ ShutdownStep \/ Crash \/ Boot)
      BY <2>3 DEF Shutdown, ShutdownStep, ShutdownStop, CancelAll, Exit, Crash, Boot
    <3>6. UNCHANGED vars
      BY <3>2, <3>3, <3>4, <3>5 DEF Next
    <3> QED
      BY <3>6 DEF vars, StopInv
  <2> QED
    BY <2>1, <2>2, <2>3
<1> QED
  BY <1>1, <1>2, RowsCorrect, PTL DEF Spec

\* Once SpiderRunner.stop has set the event, no retry, time-out, cancellation
\* or further call lets the runner take an item, for all constants.
THEOREM StopIsObeyed == Spec => NoItemAfterStop
<1> DEFINE Obeyed == \A t \in TaskIds : stopEvent[t] /\ phase' # "down" =>
                        stopEvent'[t] /\ (pc[t] # "save" => pc'[t] # "save")
<1>1. TypeOK /\ RowInv /\ StopInv /\ [Next]_vars => [Obeyed]_vars
  BY StepKeepsStop DEF StopKept
<1> QED
  BY <1>1, RowsCorrect, StopsCorrect, PTL DEF Spec, NoItemAfterStop

-----------------------------------------------------------------------------
(* The ledger of runs.  Every step of a runner, of an engine call and of   *)
(* the process is one step in the life of one row of TaskLedger, a         *)
(* recovery, or leaves the rows alone.                                     *)

RowVars == <<owner, status, crawldir>>

\* A step of the ledger about row t.
LedgerStep(t) == Ledger!Open(t) \/ Ledger!Report(t) \/ Ledger!Revise(t) \/ Ledger!Suspend(t)

\* The two modules have the same row ids.
LEMMA SameIds == Ledger!TaskIds = TaskIds
  BY DEF Ledger!TaskIds, TaskIds

\* The task commit of a runner (_update_task_status) reports an outcome, takes
\* a completed one back, or rewrites RUNNING.
LEMMA RunnerImplements ==
    ASSUME TypeOK, RowInv, NEW t \in TaskIds, RunnerStep(t)
    PROVE  LedgerStep(t) \/ UNCHANGED RowVars
<1> USE DEF RowVars, rows
<1>1. CASE SandboxStep(t) \/ SandboxTimeout(t)
  BY <1>1 DEF SandboxStep, GetItem, DropItem, EndOfItems, SandboxError, SandboxTimeout
<1>2. CASE Launch(t) \/ SavedItem(t) \/ CloseSession(t) \/ EndBackoff(t) \/ HandleError(t)
  BY <1>2 DEF Launch, SavedItem, CloseSession, EndBackoff, HandleError
<1>3. CASE CompleteSpider(t) \/ FailSpider(t) \/ PauseSpider(t)
  BY <1>3 DEF CompleteSpider, FailSpider, PauseSpider, CommitSpider
<1>4. CASE CompleteTask(t) \/ RetryTask(t) \/ FailTask(t) \/ PauseTask(t)
  <2>1. UNCHANGED <<owner, crawldir>>
    BY <1>4 DEF CompleteTask, RetryTask, FailTask, PauseTask, CommitTask
  <2>2. /\ pc[t] \in {"complete", "retrying", "fail", "pause"}
        /\ pc[t] = "complete" => status[t] = "running"
        /\ status[t] \in {"running", "completed"}
    BY <1>4
    DEF CompleteTask, RetryTask, FailTask, PauseTask, CommitTask, RowInv, RunnersHaveRows, StatusAt
  <2>3. CASE UNCHANGED status
    BY <2>1, <2>3
  <2>4. ASSUME NEW new \in {"completed", "running", "failed", "paused"},
               status' = [status EXCEPT ![t] = new],
               new = "completed" => status[t] = "running"
        PROVE  LedgerStep(t) \/ UNCHANGED RowVars
    <3>1. Ledger!Change(t, new)
      BY <2>1, <2>4 DEF Ledger!Change
    <3>2. CASE status[t] = "running" /\ new # "running"
      BY <3>1, <3>2 DEF LedgerStep, Ledger!Report
    <3>3. CASE status[t] = "completed" /\ new # "completed"
      BY <3>1, <3>3 DEF LedgerStep, Ledger!Revise
    <3>4. CASE status[t] = new
      BY <2>1, <2>4, <3>4 DEF TypeOK, RunnerTypeOK
    <3> QED
      BY <2>2, <2>4, <3>2, <3>3, <3>4
  <2> QED
    BY <1>4, <2>2, <2>3, <2>4 DEF CompleteTask, RetryTask, FailTask, PauseTask, CommitTask
<1> QED
  BY <1>1, <1>2, <1>3, <1>4, RunnerStep(t) DEF RunnerStep, OwnStep

\* start_spider opens a row and pause_spider suspends one; no other call
\* touches the rows.
LEMMA CallImplements ==
    ASSUME TypeOK, RowInv, NEW c \in Actors, CallStep(c)
    PROVE  (\E t \in TaskIds : LedgerStep(t)) \/ UNCHANGED RowVars
<1>1. CASE SelectPaused(c) \/ MarkRunning(c) \/ WaitTimeout(c) \/ WaitReturn(c)
  BY <1>1 DEF SelectPaused, MarkRunning, WaitTimeout, WaitReturn, RowVars, rows
<1>2. CASE InsertTask(c)
  <2>1. UNCHANGED crawldir
    BY <1>2 DEF InsertTask
  <2>2. CASE UNCHANGED <<owner, status>>
    BY <2>1, <2>2 DEF RowVars
  <2>3. ASSUME NEW t \in TaskIds, FreshId(t),
               owner' = [owner EXCEPT ![t] = call[c].spider],
               status' = [status EXCEPT ![t] = "running"]
        PROVE  LedgerStep(t)
    <3>1. call[c].spider \in Spiders
      <4>1. call[c].pc = "insert" /\ call[c] \in Call
        BY <1>2 DEF InsertTask, TypeOK
      <4> QED
        BY <4>1 DEF Call, NoCall
    <3> QED
      BY <2>1, <2>3, <3>1, SameIds DEF FreshId, LedgerStep, Ledger!Open
  <2> QED
    BY <1>2, <2>2, <2>3 DEF InsertTask, CallFails
<1>3. CASE RecordPause(c)
  <2> PICK t \in TaskIds : t = call[c].task
    BY <1>3 DEF RecordPause, RowInv, StoppedRunners
  <2>1. status[t] \in {"running", "completed", "failed", "paused"}
    BY <1>3 DEF RecordPause, RowInv, StoppedRunners, RunnersHaveRows, StatusAt, Finished
  <2>2. CASE UNCHANGED <<status, crawldir>>
    BY <1>3, <2>2 DEF RecordPause, RowVars
  <2>3. CASE /\ status' = [status EXCEPT ![t] = "paused"]
             /\ crawldir' = [crawldir EXCEPT ![t] = TRUE]
    BY <1>3, <2>1, <2>3 DEF RecordPause, LedgerStep, Ledger!Suspend
  <2> QED
    BY <1>3, <2>2, <2>3 DEF RecordPause
<1> QED
  BY <1>1, <1>2, <1>3, CallStep(c) DEF CallStep

\* check_crashed_tasks is the recovery; nothing else in the life of the process
\* touches the rows.
LEMMA LifeImplements ==
    ASSUME Shutdown \/ ShutdownStep \/ Crash \/ Boot
    PROVE  Ledger!Recover \/ UNCHANGED RowVars
<1>1. CASE Boot
  <2>1. status' = [t \in TaskIds |-> IF status[t] = "running" THEN "crashed" ELSE status[t]]
    BY <1>1 DEF Boot
  <2> QED
    BY <1>1, <2>1, SameIds DEF Boot, Ledger!Recover
<1>2. CASE Shutdown \/ ShutdownStep \/ Crash
  BY <1>2 DEF Shutdown, ShutdownStep, ShutdownStop, CancelAll, Exit, Crash, LoseMemory, RowVars, rows
<1> QED
  BY <1>1, <1>2

\* The engine implements the ledger, for all constants: PAUSED and CRASHED rows
\* stay so, FAILED ones only become PAUSED, and the owner of a row never
\* changes, under every interleaving of runs, calls and crashes.
THEOREM LedgerImplemented == Spec => ImplementsLedger
<1>1. Init => Ledger!Init
  BY SameIds DEF Init, RunnerInit, Ledger!Init
<1>2. TypeOK /\ RowInv /\ [Next]_vars => [Ledger!Next]_RowVars
  <2> SUFFICES ASSUME TypeOK, RowInv, [Next]_vars PROVE [Ledger!Next]_RowVars
    OBVIOUS
  <2>1. (\E t \in TaskIds : LedgerStep(t)) \/ Ledger!Recover => Ledger!Next
    BY SameIds DEF LedgerStep, Ledger!Next
  <2>2. CASE UNCHANGED vars
    BY <2>2 DEF vars, RowVars
  <2>3. CASE \E c \in Callers, s \in Spiders : NewCall(c, s)
    BY <2>3 DEF NewCall, Start, Resume, Stop, Pause, RowVars, rows
  <2> QED
    BY <2>1, <2>2, <2>3, RunnerImplements, CallImplements, LifeImplements DEF Next
<1>3. [Ledger!Next]_RowVars => [Ledger!Next]_<<owner, status, crawldir>>
  BY DEF RowVars
<1> QED
  BY <1>1, <1>2, <1>3, RowsCorrect, PTL DEF Spec, ImplementsLedger, Ledger!Spec

-----------------------------------------------------------------------------
(* Outcomes are final.                                                     *)

\* A runner handles an error of a completed run only if a database call failed,
\* and records a pause only if it was told to stop or the process exits.
Excused(t) ==
    /\ pc[t] \in {"error", "retrying", "fail"} /\ status[t] = "completed" => faults > 0
    /\ pc[t] \in {"pause", "pauseSpider"} => stopEvent[t] \/ phase = "exiting"

ExcuseInv == \A t \in TaskIds : Excused(t)

\* A commit that fails is counted, in the life of the process.
LEMMA FaultsGrow ==
    ASSUME TypeOK
    PROVE  /\ faults \in Nat
           /\ \A t \in TaskIds : RunnerStep(t) => faults' \in {faults, faults + 1}
           /\ \A c \in Actors : CallStep(c) => faults' \in {faults, faults + 1}
<1>1. faults \in Nat
  BY ConstantsAssumption DEF ConstantsAssumption, TypeOK, RunnerTypeOK
<1>2. ASSUME NEW t \in TaskIds, RunnerStep(t) PROVE faults' \in {faults, faults + 1}
  <2> USE DEF rows, Fault
  <2>1. CASE SandboxStep(t) \/ SandboxTimeout(t)
    BY <2>1 DEF SandboxStep, GetItem, DropItem, EndOfItems, SandboxError, SandboxTimeout
  <2>2. CASE Launch(t) \/ SavedItem(t) \/ CloseSession(t) \/ EndBackoff(t) \/ HandleError(t)
    BY <2>2 DEF Launch, SavedItem, CloseSession, EndBackoff, HandleError
  <2>3. CASE CompleteTask(t) \/ RetryTask(t) \/ FailTask(t) \/ PauseTask(t)
    BY <2>3 DEF CompleteTask, RetryTask, FailTask, PauseTask, CommitTask
  <2>4. CASE CompleteSpider(t) \/ FailSpider(t) \/ PauseSpider(t)
    BY <2>4 DEF CompleteSpider, FailSpider, PauseSpider, CommitSpider
  <2> QED
    BY <1>2, <2>1, <2>2, <2>3, <2>4 DEF RunnerStep, OwnStep
<1>3. ASSUME NEW c \in Actors, CallStep(c) PROVE faults' \in {faults, faults + 1}
  BY <1>3
  DEF CallStep, SelectPaused, InsertTask, MarkRunning, WaitTimeout, WaitReturn, RecordPause,
      CallFails, Fault, rows
<1> QED
  BY <1>1, <1>2, <1>3

\* A step of a runner (the handlers of SpiderRunner._run) keeps its excuse.
LEMMA RunnerKeepsExcuse ==
    ASSUME TypeOK, RowInv, NEW t \in TaskIds, Excused(t), RunnerStep(t), UNCHANGED engineVars
    PROVE  Excused(t)'
<1>0. /\ faults \in Nat /\ stopEvent'[t] = stopEvent[t] /\ phase' = phase
      /\ status[t] \in StatusAt(pc[t])
  BY FaultsGrow, RunnerStepFrame DEF engineVars, RowInv, RunnersHaveRows, Live
<1> USE <1>0
    DEF TypeOK, RunnerTypeOK, Excused, StatusAt, rows, Goto, GotoWithGen, GiveUpItems
<1>1. CASE SandboxStep(t) \/ SandboxTimeout(t)
  BY <1>1 DEF SandboxStep, GetItem, DropItem, EndOfItems, SandboxError, SandboxTimeout
<1>2. CASE Launch(t) \/ SavedItem(t) \/ CloseSession(t) \/ EndBackoff(t)
  BY <1>2 DEF Launch, SavedItem, CloseSession, EndBackoff
<1>3. CASE HandleError(t)
  BY <1>3 DEF HandleError
<1>4. CASE CompleteTask(t) \/ RetryTask(t) \/ FailTask(t) \/ PauseTask(t)
  BY <1>4 DEF CompleteTask, RetryTask, FailTask, PauseTask, CommitTask, Fault
<1>5. CASE CompleteSpider(t) \/ FailSpider(t) \/ PauseSpider(t)
  BY <1>5 DEF CompleteSpider, FailSpider, PauseSpider, CommitSpider, Fault
<1> QED
  BY <1>1, <1>2, <1>3, <1>4, <1>5, RunnerStep(t) DEF RunnerStep, OwnStep

\* An engine call cancels a runner only once it was told to stop.
LEMMA CallKeepsExcuse ==
    ASSUME TypeOK, RowInv, StopInv, ExcuseInv, NEW c \in Actors, CallStep(c)
    PROVE  ExcuseInv'
<1> USE FaultsGrow DEF TypeOK, RunnerTypeOK, ExcuseInv, Excused
<1>1. CASE SelectPaused(c) \/ WaitReturn(c)
  BY <1>1 DEF SelectPaused, WaitReturn, rows, runnerVars
<1>2. CASE InsertTask(c) \/ RecordPause(c)
  <2>1. UNCHANGED <<pc, stopEvent, phase>>
    BY <1>2 DEF InsertTask, RecordPause, runnerVars
  <2>2. \A t \in TaskIds : status'[t] \in {status[t], "running", "paused"}
    BY <1>2 DEF InsertTask, RecordPause
  <2> QED
    BY <2>1, <2>2
<1>3. CASE MarkRunning(c)
  <2>1. UNCHANGED <<status, phase>>
    BY <1>3 DEF MarkRunning
  <2>2. \A t \in TaskIds : StopKept(t)
    BY CallKeepsStop
  <2>3. \A t \in TaskIds : pc'[t] \in {pc[t], "log"}
    BY <1>3 DEF MarkRunning, NewRunner, runnerVars
  <2> QED
    BY <2>1, <2>2, <2>3 DEF StopKept
<1>4. CASE WaitTimeout(c)
  <2> PICK t \in TaskIds : t = call[c].task
    BY <1>4 DEF WaitTimeout, RowInv, StoppedRunners
  <2>1. stopEvent[t] /\ UNCHANGED <<status, stopEvent, phase, faults>>
    BY <1>4 DEF WaitTimeout, CancelTask, RowInv, StoppedRunners, rows
  <2>2. /\ pc'[t] = CancelledPc(pc[t])
        /\ \A u \in TaskIds \ {t} : pc'[u] = pc[u]
    BY <1>4 DEF WaitTimeout, CancelTask
  <2>3. pc'[t] \notin {"error", "retrying", "fail"}
    BY <2>2, CancelledPcFacts DEF Finished
  <2> QED
    BY <2>1, <2>2, <2>3
<1> QED
  BY <1>1, <1>2, <1>3, <1>4, CallStep(c) DEF CallStep

\* So do calls that begin and the life of the process: the cancellation at
\* exit is an excuse of its own, and a new process starts without runners.
LEMMA OthersKeepExcuse ==
    ASSUME TypeOK, RowInv, StopInv, ExcuseInv,
           \/ \E c \in Callers, s \in Spiders : NewCall(c, s)
           \/ Shutdown \/ ShutdownStep \/ Crash \/ Boot
    PROVE  ExcuseInv'
<1> USE DEF ExcuseInv, Excused
<1>0. ASSUME UNCHANGED <<status, pc, faults>>, phase # "exiting", phase' # "down",
             \A t \in TaskIds : StopKept(t)
      PROVE  ExcuseInv'
  BY <1>0 DEF StopKept
<1>1. CASE \E c \in Callers, s \in Spiders : NewCall(c, s)
  <2>1. UNCHANGED <<status, pc, faults, phase>> /\ phase = "up"
    BY <1>1 DEF NewCall, Start, Resume, Stop, Pause, RequestStop, SignalStop, rows, runnerVars
  <2> QED
    BY <1>0, <1>1, <2>1, OthersKeepStop
<1>2. CASE Shutdown \/ \E s \in Spiders : ShutdownStop(s)
  <2>1. /\ UNCHANGED <<status, pc, faults>>
        /\ phase \in {"up", "stopping"} /\ phase' # "down"
    BY <1>2 DEF Shutdown, ShutdownStop, RequestStop, SignalStop, rows, runnerVars
  <2> QED
    BY <1>0, <1>2, <2>1, OthersKeepStop DEF ShutdownStep
<1>3. CASE CancelAll
  <2>1. phase' = "exiting" /\ \A t \in TaskIds : pc[t] \in Pc /\ pc'[t] = CancelledPc(pc[t])
    BY <1>3 DEF CancelAll, TypeOK, RunnerTypeOK
  <2> QED
    BY <2>1, CancelledPcFacts DEF Finished
<1>4. CASE Exit \/ Crash
  BY <1>4 DEF Exit, Crash, LoseMemory, ForgetRunners
<1>5. CASE Boot
  BY <1>5 DEF Boot, runnerVars, RowInv, DownIsEmpty
<1> QED
  BY <1>1, <1>2, <1>3, <1>4, <1>5 DEF ShutdownStep

\* ExcuseInv holds in every state.
LEMMA ExcusesCorrect == Spec => []ExcuseInv
<1>1. Init => ExcuseInv
  BY DEF Init, RunnerInit, ExcuseInv, Excused
<1>2. TypeOK /\ RowInv /\ StopInv /\ ExcuseInv /\ [Next]_vars => ExcuseInv'
  <2> SUFFICES ASSUME TypeOK, RowInv, StopInv, ExcuseInv, [Next]_vars PROVE ExcuseInv'
    OBVIOUS
  <2>1. ASSUME NEW t \in TaskIds, RunnerStep(t), UNCHANGED engineVars PROVE ExcuseInv'
    <3>1. Excused(t)'
      BY <2>1, RunnerKeepsExcuse DEF ExcuseInv
    <3>2. \A u \in TaskIds \ {t} : Excused(u)'
      BY <2>1, RunnerStepFrame, FaultsGrow DEF ExcuseInv, Excused, engineVars
    <3> QED
      BY <3>1, <3>2 DEF ExcuseInv
  <2>2. CASE UNCHANGED vars
    BY <2>2 DEF vars, ExcuseInv, Excused
  <2> QED
    BY <2>1, <2>2, CallKeepsExcuse, OthersKeepExcuse DEF Next
<1> QED
  BY <1>1, <1>2, RowsCorrect, StopsCorrect, PTL DEF Spec

\* Row t is not crashed and keeps its status if it is final, or something
\* excuses its loss.
Final(t) ==
    /\ status[t] = "crashed" => status'[t] = "crashed"
    /\ status[t] \in {"completed", "failed"} /\ status'[t] # status[t]
       => \/ stopEvent[t]
          \/ faults > 0
          \/ phase = "exiting"

\* The commits of a runner (_update_task_status) keep what is final.
LEMMA RunnerKeepsOutcome ==
    ASSUME TypeOK, RowInv, NEW t \in TaskIds, Excused(t), RunnerStep(t)
    PROVE  Final(t)
<1>0. status[t] \in StatusAt(pc[t]) /\ status[t] # "crashed"
  BY RunnerStepFrame DEF RowInv, RunnersHaveRows, StatusAt, Live
<1> USE <1>0 DEF Final, rows
<1>1. CASE SandboxStep(t) \/ SandboxTimeout(t)
  BY <1>1 DEF SandboxStep, GetItem, DropItem, EndOfItems, SandboxError, SandboxTimeout
<1>2. CASE Launch(t) \/ SavedItem(t) \/ CloseSession(t) \/ EndBackoff(t) \/ HandleError(t)
  BY <1>2 DEF Launch, SavedItem, CloseSession, EndBackoff, HandleError
<1>3. CASE CompleteSpider(t) \/ FailSpider(t) \/ PauseSpider(t)
  BY <1>3 DEF CompleteSpider, FailSpider, PauseSpider, CommitSpider
<1>4. CASE CompleteTask(t) \/ RetryTask(t) \/ FailTask(t) \/ PauseTask(t)
  <2>1. pc[t] \in {"complete", "retrying", "fail", "pause"}
    BY <1>4 DEF CompleteTask, RetryTask, FailTask, PauseTask, CommitTask
  <2>2. CASE pc[t] = "complete"
    BY <2>2 DEF StatusAt
  <2>3. CASE pc[t] \in {"retrying", "fail"}
    BY <2>3 DEF StatusAt, Excused
  <2>4. CASE pc[t] = "pause"
    BY <2>4 DEF Excused
  <2> QED
    BY <2>1, <2>2, <2>3, <2>4
<1> QED
  BY <1>1, <1>2, <1>3, <1>4, RunnerStep(t) DEF RunnerStep, OwnStep

\* pause_spider overwrites a row that was told to stop, and a new row replaces
\* none.
LEMMA CallKeepsOutcome ==
    ASSUME TypeOK, RowInv, NEW c \in Actors, CallStep(c)
    PROVE  \A t \in TaskIds : Final(t)
<1>1. CASE SelectPaused(c) \/ MarkRunning(c) \/ WaitTimeout(c) \/ WaitReturn(c)
  BY <1>1 DEF SelectPaused, MarkRunning, WaitTimeout, WaitReturn, rows, Final
<1>2. CASE InsertTask(c)
  <2>1. CASE UNCHANGED status
    BY <2>1 DEF Final
  <2>2. ASSUME NEW t \in TaskIds, FreshId(t), status' = [status EXCEPT ![t] = "running"]
        PROVE  \A u \in TaskIds : Final(u)
    <3>1. status[t] = "none"
      BY <2>2, ConstantsAssumption DEF FreshId, TaskIds, ConstantsAssumption
    <3> QED
      BY <2>2, <3>1 DEF Final, TypeOK, RunnerTypeOK
  <2> QED
    BY <1>2, <2>1, <2>2 DEF InsertTask
<1>3. CASE RecordPause(c)
  <2> PICK t \in TaskIds : t = call[c].task
    BY <1>3 DEF RecordPause, RowInv, StoppedRunners
  <2>1. stopEvent[t] /\ status[t] # "crashed"
    BY <1>3 DEF RecordPause, RowInv, StoppedRunners, RunnersHaveRows, StatusAt, Finished
  <2>2. \A u \in TaskIds \ {t} : status'[u] = status[u]
    BY <1>3 DEF RecordPause, TypeOK, RunnerTypeOK
  <2> QED
    BY <2>1, <2>2 DEF Final
<1> QED
  BY <1>1, <1>2, <1>3, CallStep(c) DEF CallStep

\* No run, retry, call or restart ever changes an outcome but for the reasons
\* OutcomeIsFinal names, for all constants.
THEOREM OutcomesLast == Spec => OutcomeIsFinal
<1> DEFINE Kept == \A t \in TaskIds : Final(t)
<1>1. TypeOK /\ RowInv /\ ExcuseInv /\ [Next]_vars => [Kept]_vars
  <2> SUFFICES ASSUME TypeOK, RowInv, ExcuseInv, Next PROVE Kept
    OBVIOUS
  <2>1. ASSUME NEW t \in TaskIds, RunnerStep(t) PROVE Kept
    <3>1. Final(t)
      BY <2>1, RunnerKeepsOutcome DEF ExcuseInv
    <3>2. \A u \in TaskIds \ {t} : Final(u)
      BY <2>1, RunnerStepFrame DEF Final
    <3> QED
      BY <3>1, <3>2
  <2>2. CASE \E c \in Callers, s \in Spiders : NewCall(c, s)
    BY <2>2 DEF NewCall, Start, Resume, Stop, Pause, rows, Final
  <2>3. CASE Boot
    BY <2>3 DEF Boot, Final
  <2>4. CASE Shutdown \/ ShutdownStep \/ Crash
    <3>1. UNCHANGED status
      BY <2>4 DEF Shutdown, ShutdownStep, ShutdownStop, CancelAll, Exit, Crash, LoseMemory, rows
    <3> QED
      BY <3>1 DEF Final
  <2> QED
    BY <2>1, <2>2, <2>3, <2>4, CallKeepsOutcome DEF Next
<1>2. [Kept]_vars =>
        [\A t \in TaskIds :
            /\ status[t] = "crashed" => status'[t] = "crashed"
            /\ status[t] \in {"completed", "failed"} /\ status'[t] # status[t]
               => \/ stopEvent[t]
                  \/ faults > 0
                  \/ phase = "exiting"]_vars
  BY DEF Final
<1> QED
  BY <1>1, <1>2, RowsCorrect, ExcusesCorrect, PTL DEF Spec, OutcomeIsFinal

-----------------------------------------------------------------------------
(* The two tables agree.                                                   *)

\* As long as the starts of s have not overlapped, the start call in flight
\* has inserted the newest row of s, and no older runner is alive once the
\* runner of a row exists.
Order(s) ==
    /\ \A c \in Actors, u \in TaskIds :
          call[c].pc = "mark" /\ call[c].spider = s /\ owner[u] = s => u <= call[c].task
    /\ \A t, u \in TaskIds :
          owner[t] = s /\ owner[u] = s /\ u < t /\ pc[t] # "none" => ~Live(u)

OrderInv ==
    /\ \A t \in TaskIds : status[t] = "none" => owner[t] = NoSpider
    /\ \A s \in Spiders \ raced : Order(s)

\* Order is kept by a step that inserts no row and makes no runner.
LEMMA OrderShrinks ==
    ASSUME OrderInv, raced \subseteq raced', UNCHANGED owner,
           \A t \in TaskIds : /\ status'[t] = "none" => status[t] = "none"
                              /\ pc'[t] # "none" => pc[t] # "none"
                              /\ Live(t)' => Live(t),
           \A c \in Actors : call'[c].pc = "mark" => call'[c] = call[c]
    PROVE  OrderInv'
  BY DEF OrderInv, Order

\* A step of a runner takes no row away.
LEMMA RunnerKeepsRow ==
    ASSUME TypeOK, RowInv, NEW t \in TaskIds, RunnerStep(t)
    PROVE  status'[t] # "none"
<1>1. status'[t] \in StatusAt(pc'[t])
  BY RunnerStepStatus, RunnerStepFrame DEF RowInv, RunnersHaveRows, Live
<1>2. "none" \notin StatusAt(pc'[t])
  BY DEF StatusAt
<1> QED
  BY <1>1, <1>2

\* start_spider inserts a row newer than every other, and makes the runner of
\* a row only when no other runner of the spider is alive.
LEMMA CallKeepsOrder ==
    ASSUME TypeOK, RowInv, SlotInv, OrderInv, NEW c \in Actors, CallStep(c)
    PROVE  OrderInv'
<1> USE DEF TypeOK, RunnerTypeOK
<1>0. ASSUME call' = [call EXCEPT ![c] = NoCall]
      PROVE  \A d \in Actors : call'[d].pc = "mark" => call'[d] = call[d]
  BY <1>0 DEF NoCall
<1>1. CASE SelectPaused(c) \/ WaitReturn(c)
  <2>1. raced \subseteq raced' /\ UNCHANGED <<owner, status, pc>>
    BY <1>1 DEF SelectPaused, WaitReturn, EnterStart, CallFails, rows, runnerVars
  <2>2. /\ call'[c].pc # "mark"
        /\ \A d \in Actors \ {c} : call'[d] = call[d]
    BY <1>1 DEF SelectPaused, WaitReturn, EnterStart, CallFails, Return, Await, NoCall, Call
  <2> QED
    BY <2>1, <2>2, OrderShrinks DEF Live
<1>2. CASE InsertTask(c)
  <2>1. UNCHANGED <<pc, raced>>
    BY <1>2 DEF InsertTask, runnerVars
  <2>2. CASE UNCHANGED <<owner, status>> /\ call' = [call EXCEPT ![c] = NoCall]
    BY <1>0, <2>1, <2>2, OrderShrinks DEF Live
  <2>3. ASSUME NEW t \in TaskIds, FreshId(t),
               owner' = [owner EXCEPT ![t] = call[c].spider],
               status' = [status EXCEPT ![t] = "running"],
               call' = [call EXCEPT ![c] = [@ EXCEPT !.pc = "mark", !.task = t]]
        PROVE  OrderInv'
    <3>1. /\ t \in Nat /\ TaskIds \subseteq Nat
          /\ \A u \in TaskIds : u < t <=> status[u] # "none"
      BY <2>3, ConstantsAssumption DEF FreshId, TaskIds, ConstantsAssumption
    <3>2. pc[t] = "none" /\ ~Live(t)
      BY <3>1 DEF RowInv, RunnersHaveRows, StatusAt, Live
    <3>3. /\ call'[c].pc = "mark" /\ call'[c].task = t
          /\ call'[c].spider = call[c].spider
          /\ call[c].spider \in Spiders
          /\ \A d \in Actors \ {c} : call'[d] = call[d]
      <4>1. call[c].pc = "insert" /\ call[c] \in Call
        BY <1>2 DEF InsertTask
      <4>2. call[c] # NoCall
        BY <4>1 DEF NoCall
      <4> QED
        BY <2>3, <4>1, <4>2 DEF Call
    <3>4. \A u \in TaskIds : owner'[u] \in Spiders => u <= t
      <4>1. ASSUME NEW u \in TaskIds, u > t PROVE owner'[u] \notin Spiders
        <5>1. status[u] = "none" /\ owner'[u] = owner[u]
          BY <2>3, <3>1, <4>1
        <5> QED
          BY <5>1, ConstantsAssumption DEF ConstantsAssumption, OrderInv
      <4> QED
        BY <3>1, <4>1
    <3>5. ASSUME NEW s \in Spiders \ raced PROVE Order(s)'
      <4>1. Order(s) /\ Slot(s)
        BY <3>5 DEF OrderInv, SlotInv
      <4>2. \A d \in Actors, u \in TaskIds :
               call'[d].pc = "mark" /\ call'[d].spider = s /\ owner'[u] = s => u <= call'[d].task
        <5> SUFFICES ASSUME NEW d \in Actors, NEW u \in TaskIds, call'[d].pc = "mark",
                            call'[d].spider = s, owner'[u] = s
                     PROVE  u <= call'[d].task
          OBVIOUS
        <5>1. CASE d = c
          BY <3>3, <3>4, <3>5, <5>1
        <5>2. CASE d # c
          <6>1. call'[d] = call[d]
            BY <3>3, <5>2
          <6>2. Starting(d, s)
            BY <6>1 DEF Starting
          <6>3. CASE owner[u] = s
            BY <4>1, <6>1, <6>3 DEF Order
          <6>4. CASE owner[u] # s
            <7>1. u = t /\ call[c].spider = s
              BY <2>3, <6>4
            <7>2. Starting(c, s)
              BY <1>2, <7>1 DEF InsertTask, Starting
            <7> QED
              BY <4>1, <5>2, <6>2, <7>2 DEF Slot
          <6> QED
            BY <6>3, <6>4
        <5> QED
          BY <5>1, <5>2
      <4>3. ASSUME NEW v \in TaskIds, NEW u \in TaskIds,
                   owner'[v] = s, owner'[u] = s, u < v, pc'[v] # "none"
            PROVE  ~Live(u)'
        <5>1. v # t
          BY <2>1, <3>2, <4>3
        <5>2. CASE u = t
          BY <2>1, <3>2, <5>2 DEF Live
        <5>3. CASE u # t
          BY <2>1, <2>3, <4>1, <4>3, <5>1, <5>3 DEF Order, Live
        <5> QED
          BY <5>2, <5>3
      <4> QED
        BY <4>2, <4>3 DEF Order
    <3>6. \A u \in TaskIds : status'[u] = "none" => owner'[u] = NoSpider
      BY <2>3 DEF OrderInv
    <3> QED
      BY <2>1, <3>5, <3>6 DEF OrderInv
  <2> QED
    BY <1>2, <2>2, <2>3 DEF InsertTask, CallFails, Return
<1>3. CASE MarkRunning(c)
  <2>1. UNCHANGED <<owner, status, raced>> /\ call' = [call EXCEPT ![c] = NoCall]
    BY <1>3 DEF MarkRunning, CallFails, Return
  <2> PICK t \in TaskIds, s \in Spiders : t = call[c].task /\ s = call[c].spider
    <3>1. call[c] \in Call /\ call[c] # NoCall
      BY <1>3 DEF MarkRunning, NoCall
    <3> QED
      BY <1>3, <3>1 DEF MarkRunning, RowInv, InsertedRows, InsertedRow, Call
  <2>2. CASE UNCHANGED pc
    BY <1>0, <2>1, <2>2, OrderShrinks DEF Live
  <2>3. CASE NewRunner(t)
    <3>1. owner[t] = s /\ Starting(c, s) /\ call[c].pc = "mark"
      BY <1>3 DEF MarkRunning, RowInv, InsertedRows, InsertedRow, Starting
    <3>2. \A u \in TaskIds \ {t} : pc'[u] = pc[u]
      BY <2>3 DEF NewRunner
    <3>3. ASSUME NEW r \in Spiders \ raced PROVE Order(r)'
      <4>1. Order(r) /\ Slot(r)
        BY <3>3 DEF OrderInv, SlotInv
      <4>2. \A d \in Actors, u \in TaskIds :
               call'[d].pc = "mark" /\ call'[d].spider = r /\ owner'[u] = r => u <= call'[d].task
        BY <1>0, <2>1, <4>1 DEF Order
      <4>3. ASSUME NEW v \in TaskIds, NEW u \in TaskIds,
                   owner'[v] = r, owner'[u] = r, u < v, pc'[v] # "none"
            PROVE  ~Live(u)'
        <5>1. u # t
          <6>1. CASE r = s
            <7>1. v <= t
              BY <2>1, <3>1, <4>1, <4>3, <6>1 DEF Order
            <7> QED
              BY <4>3, <7>1, ConstantsAssumption DEF TaskIds, ConstantsAssumption
          <6> QED
            BY <2>1, <3>1, <4>3, <6>1
        <5>2. CASE v = t
          BY <2>1, <3>1, <3>2, <4>1, <4>3, <5>1, <5>2 DEF Slot, Live
        <5>3. CASE v # t
          BY <2>1, <3>2, <4>1, <4>3, <5>1, <5>3 DEF Order, Live
        <5> QED
          BY <5>2, <5>3
      <4> QED
        BY <4>2, <4>3 DEF Order
    <3> QED
      BY <2>1, <3>3 DEF OrderInv
  <2> QED
    BY <1>3, <2>2, <2>3 DEF MarkRunning, runnerVars
<1>4. CASE WaitTimeout(c)
  <2>1. UNCHANGED <<owner, status, raced>>
    BY <1>4 DEF WaitTimeout, rows
  <2>2. \A t \in TaskIds : pc'[t] \in {pc[t], CancelledPc(pc[t])}
    BY <1>4 DEF WaitTimeout, CancelTask
  <2>3. call'[c].pc # "mark" /\ \A d \in Actors \ {c} : call'[d] = call[d]
    <3>1. call[c] \in Call /\ call[c] # NoCall
      BY <1>4 DEF WaitTimeout, NoCall
    <3> QED
      BY <1>4, <3>1 DEF WaitTimeout, Await, Call
  <2> QED
    BY <2>1, <2>2, <2>3, CancelledPcFacts, OrderShrinks DEF Live
<1>5. CASE RecordPause(c)
  <2>1. /\ UNCHANGED <<owner, pc, raced>> /\ call' = [call EXCEPT ![c] = NoCall]
        /\ \A t \in TaskIds : status'[t] \in {status[t], "paused"}
    BY <1>5 DEF RecordPause, CallFails, Return, runnerVars
  <2> QED
    BY <1>0, <2>1, OrderShrinks DEF Live
<1> QED
  BY <1>1, <1>2, <1>3, <1>4, <1>5, CallStep(c) DEF CallStep

\* Calls that begin and the life of the process insert no row and make no
\* runner.
LEMMA OthersKeepOrder ==
    ASSUME TypeOK, RowInv, OrderInv,
           \/ \E c \in Callers, s \in Spiders : NewCall(c, s)
           \/ Shutdown \/ ShutdownStep \/ Crash \/ Boot
    PROVE  OrderInv'
<1> USE DEF TypeOK, RunnerTypeOK, rows, runnerVars
<1>0. ASSUME NEW c \in Actors, NEW op, NEW s \in Spiders, RequestStop(c, op, s),
             UNCHANGED <<owner, status, raced>>
      PROVE  OrderInv'
  <2>1. /\ pc' = pc
        /\ call'[c] = [op |-> op, pc |-> "wait", spider |-> s, task |-> runners[s]]
        /\ \A d \in Actors \ {c} : call'[d] = call[d]
    BY <1>0, RequestStopFacts
  <2>2. call'[c].pc = "wait"
    BY <2>1
  <2> QED
    BY <1>0, <2>1, <2>2, OrderShrinks DEF Live
<1>1. ASSUME NEW c \in Callers, NEW s \in Spiders, NewCall(c, s) PROVE OrderInv'
  <2>1. CASE Start(c, s) \/ Resume(c, s)
    <3>1. raced \subseteq raced' /\ UNCHANGED <<owner, status, pc>>
      BY <2>1 DEF Start, Resume, EnterStart
    <3>2. call'[c].pc # "mark" /\ \A d \in Actors \ {c} : call'[d] = call[d]
      BY <2>1 DEF Start, Resume, EnterStart, Actors
    <3> QED
      BY <3>1, <3>2, OrderShrinks DEF Live
  <2>2. CASE Stop(c, s) \/ Pause(c, s)
    BY <1>0, <2>2 DEF Stop, Pause, Actors
  <2> QED
    BY <1>1, <2>1, <2>2 DEF NewCall
<1>2. CASE Shutdown
  <2>1. UNCHANGED <<owner, status, pc, raced>> /\ \A c \in Actors : call'[c].pc # "mark"
    BY <1>2 DEF Shutdown, NoCall
  <2> QED
    BY <2>1, OrderShrinks DEF Live
<1>3. ASSUME NEW s \in Spiders, ShutdownStop(s) PROVE OrderInv'
  <2>1. UNCHANGED <<owner, status, raced>>
    BY <1>3 DEF ShutdownStop
  <2>2. CASE RequestStop(Lifespan, "stop", s)
    BY <1>0, <2>1, <2>2 DEF Actors
  <2>3. CASE UNCHANGED <<runnerVars, call>>
    BY <2>1, <2>3, OrderShrinks DEF Live
  <2> QED
    BY <1>3, <2>2, <2>3 DEF ShutdownStop
<1>4. CASE CancelAll
  <2>1. UNCHANGED <<owner, status, call, raced>>
    BY <1>4 DEF CancelAll
  <2>2. \A t \in TaskIds : pc'[t] = CancelledPc(pc[t])
    BY <1>4 DEF CancelAll
  <2> QED
    BY <2>1, <2>2, CancelledPcFacts, OrderShrinks DEF Live
<1>5. CASE Exit \/ Crash
  <2>1. /\ UNCHANGED <<owner, status>>
        /\ \A t \in TaskIds : pc'[t] = "none"
        /\ \A c \in Actors : call'[c].pc # "mark"
    BY <1>5 DEF Exit, Crash, LoseMemory, ForgetRunners, NoCall
  <2> QED
    BY <2>1 DEF OrderInv, Order
<1>6. CASE Boot
  <2>1. /\ UNCHANGED <<owner, pc, call, raced>>
        /\ \A t \in TaskIds : status'[t] \in {status[t], "crashed"}
    BY <1>6 DEF Boot
  <2> QED
    BY <2>1, OrderShrinks DEF Live
<1> QED
  BY <1>1, <1>2, <1>3, <1>4, <1>5, <1>6 DEF ShutdownStep

\* OrderInv holds in every state.
LEMMA OrderCorrect == Spec => []OrderInv
<1>1. Init => OrderInv
  BY DEF Init, RunnerInit, OrderInv, Order, Live, NoCall
<1>2. TypeOK /\ RowInv /\ SlotInv /\ OrderInv /\ [Next]_vars => OrderInv'
  <2> SUFFICES ASSUME TypeOK, RowInv, SlotInv, OrderInv, [Next]_vars PROVE OrderInv'
    OBVIOUS
  <2>1. ASSUME NEW t \in TaskIds, RunnerStep(t), UNCHANGED engineVars PROVE OrderInv'
    BY <2>1, RunnerStepFrame, RunnerKeepsRow, OrderShrinks DEF engineVars, Live
  <2>2. CASE UNCHANGED vars
    BY <2>2, OrderShrinks DEF vars, Live
  <2> QED
    BY <2>1, <2>2, CallKeepsOrder, OthersKeepOrder DEF Next
<1> QED
  BY <1>1, <1>2, RowsCorrect, SlotsCorrect, PTL DEF Spec

\* What the spider row says when its newest row is t, by where the runner of t
\* is: between its two commits, and once pause_spider has overwritten the task
\* row, nothing.
ShownAt(t) ==
    CASE pc[t] \in {"log", "next", "save", "complete", "error", "retrying", "backoff"} ->
            {"running"}
      [] pc[t] = "closeSession" -> {"idle"}
      [] pc[t] = "returned" /\ ~crawldir[t] -> {Shown(status[t])}
      [] OTHER -> SpiderStatus

AgreeInv ==
    phase = "up" /\ faults = 0 =>
        \A s \in Spiders \ raced, t \in TaskIds :
            NewestTask(s, t) => spiderStatus[s] \in ShownAt(t)

\* The two commits of _update_task_status keep the rows of a runner together,
\* as long as none of them fails.
LEMMA RunnerAgrees ==
    ASSUME TypeOK, RowInv, ExcuseInv, NEW t \in TaskIds, RunnerStep(t), faults = 0, faults' = 0,
           owner[t] \in Spiders, spiderStatus[owner[t]] \in ShownAt(t)
    PROVE  spiderStatus'[owner[t]] \in ShownAt(t)'
<1>0. /\ status[t] \in StatusAt(pc[t])
      /\ pc[t] \in {"error", "retrying", "fail"} => status[t] # "completed"
      /\ spiderStatus[owner[t]] \in SpiderStatus
      /\ crawldir' = crawldir
      /\ faults + 1 # 0
  BY RunnerStepFrame DEF RowInv, RunnersHaveRows, ExcuseInv, Excused, Live, TypeOK, RunnerTypeOK
<1> USE <1>0
    DEF TypeOK, RunnerTypeOK, StatusAt, ShownAt, Shown, SpiderStatus, rows,
        Goto, GotoWithGen, GiveUpItems
<1>1. CASE SandboxStep(t) \/ SandboxTimeout(t)
  BY <1>1 DEF SandboxStep, GetItem, DropItem, EndOfItems, SandboxError, SandboxTimeout
<1>2. CASE Launch(t) \/ SavedItem(t)
  BY <1>2 DEF Launch, SavedItem
<1>3. CASE CloseSession(t)
  BY <1>3 DEF CloseSession
<1>4. CASE EndBackoff(t)
  BY <1>4 DEF EndBackoff
<1>5. CASE HandleError(t)
  BY <1>5 DEF HandleError
<1>6. CASE CompleteTask(t) \/ RetryTask(t)
  BY <1>6 DEF CompleteTask, RetryTask, CommitTask, Fault
<1>7. CASE FailTask(t) \/ PauseTask(t)
  BY <1>7 DEF FailTask, PauseTask, CommitTask, Fault
<1>8. CASE CompleteSpider(t)
  BY <1>8 DEF CompleteSpider, CommitSpider, Fault
<1>9. CASE FailSpider(t) \/ PauseSpider(t)
  BY <1>9 DEF FailSpider, PauseSpider, CommitSpider, Fault
<1> QED
  BY <1>1, <1>2, <1>3, <1>4, <1>5, <1>6, <1>7, <1>8, <1>9, RunnerStep(t) DEF RunnerStep, OwnStep

\* A runner writes the spider row of its own spider only.
LEMMA RunnerSpiderFrame ==
    ASSUME TypeOK, NEW t \in TaskIds, RunnerStep(t), NEW s \in Spiders, s # owner[t]
    PROVE  spiderStatus'[s] = spiderStatus[s]
<1> USE DEF TypeOK, RunnerTypeOK, rows
<1>1. CASE SandboxStep(t) \/ SandboxTimeout(t)
  BY <1>1 DEF SandboxStep, GetItem, DropItem, EndOfItems, SandboxError, SandboxTimeout
<1>2. CASE Launch(t) \/ SavedItem(t) \/ CloseSession(t) \/ EndBackoff(t) \/ HandleError(t)
  BY <1>2 DEF Launch, SavedItem, CloseSession, EndBackoff, HandleError
<1>3. CASE CompleteTask(t) \/ RetryTask(t) \/ FailTask(t) \/ PauseTask(t)
  BY <1>3 DEF CompleteTask, RetryTask, FailTask, PauseTask, CommitTask
<1>4. CASE CompleteSpider(t) \/ FailSpider(t) \/ PauseSpider(t)
  BY <1>4 DEF CompleteSpider, FailSpider, PauseSpider, CommitSpider
<1> QED
  BY <1>1, <1>2, <1>3, <1>4, RunnerStep(t) DEF RunnerStep, OwnStep

\* A step of a runner keeps the agreement: the runner is that of the newest
\* row, or it is of another spider, or the newest row has no runner yet.
LEMMA RunnerKeepsAgree ==
    ASSUME TypeOK, RowInv, ExcuseInv, OrderInv, AgreeInv,
           NEW u \in TaskIds, RunnerStep(u), UNCHANGED engineVars
    PROVE  AgreeInv'
<1> SUFFICES ASSUME phase = "up", faults' = 0, NEW s \in Spiders \ raced, NEW t \in TaskIds,
                    NewestTask(s, t)
             PROVE  spiderStatus'[s] \in ShownAt(t)'
  BY RunnerStepFrame DEF AgreeInv, engineVars, NewestTask
<1>1. faults = 0
  BY FaultsGrow
<1>2. spiderStatus[s] \in ShownAt(t) /\ owner[t] = s
  BY <1>1 DEF AgreeInv, NewestTask
<1>3. CASE u = t
  BY <1>1, <1>2, <1>3, RunnerAgrees
<1>4. CASE u # t /\ owner[u] # s
  <2>1. spiderStatus'[s] = spiderStatus[s]
    BY <1>4, RunnerSpiderFrame
  <2>2. pc'[t] = pc[t] /\ status'[t] = status[t] /\ crawldir'[t] = crawldir[t]
    BY <1>4, RunnerStepFrame
  <2> QED
    BY <1>2, <2>1, <2>2 DEF ShownAt
<1>5. CASE u # t /\ owner[u] = s
  <2>1. u < t
    BY <1>5, ConstantsAssumption DEF NewestTask, TaskIds, ConstantsAssumption
  <2>2. pc[t] = "none"
    BY <1>2, <1>5, <2>1, RunnerStepFrame DEF OrderInv, Order
  <2>3. pc'[t] = "none"
    BY <1>5, <2>2, RunnerStepFrame
  <2>4. spiderStatus'[s] \in SpiderStatus
    BY RunnerStepType DEF TypeOK, RunnerTypeOK
  <2> QED
    BY <2>3, <2>4 DEF ShownAt
<1> QED
  BY <1>3, <1>4, <1>5

\* A start call opens a row whose runner shows RUNNING; a pause that overwrites
\* the task row sets its crawldir.
LEMMA CallKeepsAgree ==
    ASSUME TypeOK, RowInv, OrderInv, AgreeInv, NEW c \in Actors, CallStep(c)
    PROVE  AgreeInv'
<1>0. phase' = phase /\ raced \subseteq raced'
  BY CallStep(c)
  DEF CallStep, SelectPaused, InsertTask, MarkRunning, WaitTimeout, WaitReturn, RecordPause,
      EnterStart
<1> SUFFICES ASSUME phase = "up", faults' = 0, NEW s \in Spiders \ raced, NEW t \in TaskIds,
                    NewestTask(s, t)'
             PROVE  spiderStatus'[s] \in ShownAt(t)'
  BY <1>0 DEF AgreeInv
<1>1. faults = 0 /\ faults + 1 # 0
  BY FaultsGrow
<1>2. NewestTask(s, t) => spiderStatus[s] \in ShownAt(t)
  BY <1>1 DEF AgreeInv
<1>3. spiderStatus[s] \in SpiderStatus
  BY DEF TypeOK, RunnerTypeOK
<1> USE DEF TypeOK, RunnerTypeOK
<1>4. CASE SelectPaused(c) \/ WaitReturn(c)
  <2>1. UNCHANGED <<owner, status, crawldir, spiderStatus, pc>>
    BY <1>4 DEF SelectPaused, WaitReturn, rows, runnerVars
  <2> QED
    BY <1>2, <2>1 DEF NewestTask, ShownAt
<1>5. CASE InsertTask(c)
  <2>1. UNCHANGED <<crawldir, spiderStatus, pc>>
    BY <1>5 DEF InsertTask, runnerVars
  <2>2. PICK v \in TaskIds : FreshId(v) /\ owner' = [owner EXCEPT ![v] = call[c].spider]
                             /\ status' = [status EXCEPT ![v] = "running"]
    BY <1>1, <1>5 DEF InsertTask, CallFails, Fault
  <2>3. pc[v] = "none" /\ owner[v] \notin Spiders
    <3>1. status[v] = "none"
      BY <2>2, ConstantsAssumption DEF FreshId, TaskIds, ConstantsAssumption
    <3> QED
      BY <3>1, ConstantsAssumption
      DEF ConstantsAssumption, OrderInv, RowInv, RunnersHaveRows, StatusAt
  <2>4. CASE t = v
    BY <1>3, <2>1, <2>3, <2>4 DEF ShownAt
  <2>5. CASE t # v
    <3>1. NewestTask(s, t)
      BY <2>2, <2>3, <2>5 DEF NewestTask
    <3>2. status'[t] = status[t]
      BY <2>2, <2>5
    <3> QED
      BY <1>2, <2>1, <3>1, <3>2 DEF ShownAt
  <2> QED
    BY <2>4, <2>5
<1>6. CASE MarkRunning(c)
  <2>1. UNCHANGED <<owner, status, crawldir>>
    BY <1>6 DEF MarkRunning
  <2> PICK v \in TaskIds, r \in Spiders : v = call[c].task /\ r = call[c].spider
    <3>1. call[c] \in Call /\ call[c] # NoCall
      BY <1>6 DEF MarkRunning, NoCall
    <3> QED
      BY <1>6, <3>1 DEF MarkRunning, RowInv, InsertedRows, InsertedRow, Call
  <2>2. spiderStatus' = [spiderStatus EXCEPT ![r] = "running"] /\ NewRunner(v)
    BY <1>1, <1>6 DEF MarkRunning, CallFails, Fault
  <2>3. call[c].pc = "mark" /\ owner[v] = r /\ pc'[v] = "log"
    BY <1>6, <2>2 DEF MarkRunning, NewRunner, RowInv, InsertedRows, InsertedRow
  <2>4. CASE s = r
    <3>1. t = v
      <4>1. t <= v
        BY <2>1, <2>3, <2>4 DEF OrderInv, Order, NewestTask
      <4>2. v <= t
        BY <2>1, <2>3, <2>4 DEF NewestTask
      <4> QED
        BY <4>1, <4>2, ConstantsAssumption DEF TaskIds, ConstantsAssumption
    <3>2. spiderStatus'[s] = "running"
      BY <2>2, <2>4
    <3> QED
      BY <2>3, <3>1, <3>2 DEF ShownAt
  <2>5. CASE s # r
    <3>1. t # v
      BY <2>1, <2>3, <2>5 DEF NewestTask
    <3>2. pc'[t] = pc[t] /\ spiderStatus'[s] = spiderStatus[s]
      BY <2>2, <2>5, <3>1 DEF NewRunner
    <3> QED
      BY <1>2, <2>1, <3>2 DEF NewestTask, ShownAt
  <2> QED
    BY <2>4, <2>5
<1>7. CASE WaitTimeout(c)
  <2>1. UNCHANGED <<owner, status, crawldir, spiderStatus>>
    BY <1>7 DEF WaitTimeout, rows
  <2>2. pc'[t] \in {pc[t], "pause", "cancelled"}
    BY <1>7 DEF WaitTimeout, CancelTask, CancelledPc, Live
  <2> QED
    BY <1>2, <1>3, <2>1, <2>2 DEF NewestTask, ShownAt
<1>8. CASE RecordPause(c)
  <2>1. UNCHANGED <<owner, spiderStatus, pc>>
    BY <1>8 DEF RecordPause, runnerVars
  <2>2. PICK v \in TaskIds : /\ v = call[c].task /\ pc[v] \in Finished
                             /\ status' = [status EXCEPT ![v] = "paused"]
                             /\ crawldir' = [crawldir EXCEPT ![v] = TRUE]
    BY <1>1, <1>8 DEF RecordPause, CallFails, Fault, RowInv, StoppedRunners
  <2>3. CASE t = v
    BY <1>3, <2>1, <2>2, <2>3 DEF ShownAt, Finished
  <2>4. CASE t # v
    BY <1>2, <2>1, <2>2, <2>4 DEF NewestTask, ShownAt
  <2> QED
    BY <2>3, <2>4
<1> QED
  BY <1>4, <1>5, <1>6, <1>7, <1>8, CallStep(c) DEF CallStep

\* Calls that begin touch no row, and a process that starts has no runner.
LEMMA OthersKeepAgree ==
    ASSUME TypeOK, RowInv, AgreeInv,
           \/ \E c \in Callers, s \in Spiders : NewCall(c, s)
           \/ Shutdown \/ ShutdownStep \/ Crash \/ Boot
    PROVE  AgreeInv'
<1>1. CASE \E c \in Callers, s \in Spiders : NewCall(c, s)
  <2>1. /\ UNCHANGED <<owner, status, crawldir, spiderStatus, faults, pc, phase>>
        /\ raced \subseteq raced'
    BY <1>1
    DEF NewCall, Start, Resume, Stop, Pause, RequestStop, SignalStop, EnterStart, rows, runnerVars
  <2> QED
    BY <2>1 DEF AgreeInv, NewestTask, ShownAt
<1>2. CASE Shutdown \/ CancelAll \/ Exit \/ Crash \/ \E s \in Spiders : ShutdownStop(s)
  <2>1. phase' # "up"
    BY <1>2 DEF Shutdown, CancelAll, Exit, Crash, LoseMemory, ShutdownStop
  <2> QED
    BY <2>1 DEF AgreeInv
<1>3. CASE Boot
  <2>1. \A t \in TaskIds : pc'[t] = "none"
    BY <1>3 DEF Boot, runnerVars, RowInv, DownIsEmpty
  <2>2. \A s \in Spiders : spiderStatus'[s] \in SpiderStatus
    BY <1>3 DEF Boot, TypeOK, RunnerTypeOK, SpiderStatus
  <2> QED
    BY <2>1, <2>2 DEF AgreeInv, ShownAt
<1> QED
  BY <1>1, <1>2, <1>3 DEF ShutdownStep

\* Once the newest runner of a spider has returned, the spider row shows what
\* its task row says, for any number of spiders, callers, runs and retries, as
\* long as starts do not overlap and no database call fails.
THEOREM TablesAgree == Spec => []RowsAgree
<1>1. Init => AgreeInv
  BY DEF Init, RunnerInit, AgreeInv, ShownAt, SpiderStatus
<1>2. TypeOK /\ RowInv /\ ExcuseInv /\ OrderInv /\ AgreeInv /\ [Next]_vars => AgreeInv'
  <2> SUFFICES ASSUME TypeOK, RowInv, ExcuseInv, OrderInv, AgreeInv, [Next]_vars
               PROVE  AgreeInv'
    OBVIOUS
  <2>1. CASE UNCHANGED vars
    BY <2>1 DEF vars, AgreeInv, NewestTask, ShownAt
  <2> QED
    BY <2>1, RunnerKeepsAgree, CallKeepsAgree, OthersKeepAgree DEF Next
<1>3. AgreeInv => RowsAgree
  BY DEF AgreeInv, RowsAgree, ShownAt
<1> QED
  BY <1>1, <1>2, <1>3, RowsCorrect, ExcusesCorrect, OrderCorrect, PTL DEF Spec
=============================================================================
