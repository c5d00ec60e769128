----------------------------- MODULE Scheduler -----------------------------
(***************************************************************************)
(* Timed starts: the jobs of SpiderScheduler (core/scheduler.py), the      *)
(* schedules table, and the requests of the API that change both           *)
(* (api/schedule_routes.py), one after the other and concurrently.         *)
(*                                                                         *)
(* A request is suspended at the await request[c].pc: it reads its row,    *)
(* commits, reloads the row (create and update only), and then, without    *)
(* a session, tells the scheduler.  Rows keep their jobs in memory only.   *)
(*                                                                         *)
(* A job that fires calls Engine.start_spider, which SpiderEngine models.  *)
(***************************************************************************)
EXTENDS Integers, FiniteSets

CONSTANTS
    Spiders,      \* registered spiders
    NoSpider,     \* the spider of a row that does not exist yet
    Crons,        \* cron expressions CronTrigger accepts
    BadCron,      \* one it does not
    NoCron,       \* no cron expression
    NoJob,        \* no job
    ClassCrons,   \* bound: the schedule attributes classes are given
    Clients,      \* concurrent requests
    MaxSchedules  \* bound: rows ever inserted

ScheduleIds == 1..MaxSchedules

\* Job ids: schedule_<id>, and spider_<name> for the schedule of a class.
JobIds == ScheduleIds \cup Spiders

ASSUME SchedulerAssumption ==
    /\ MaxSchedules \in Nat
    /\ NoSpider \notin Spiders /\ NoJob \notin JobIds
    /\ Spiders \cap ScheduleIds = {}
    /\ ClassCrons \subseteq Crons \cup {BadCron, NoCron}
    /\ BadCron \notin Crons /\ NoCron \notin Crons \cup {BadCron}

VARIABLES
    classCron,    \* the schedule attribute of the registered class
    \* The schedules table.
    rowSpider, rowCron, rowStatus,
    \* SpiderScheduler.
    jobs,         \* the cron expression of each job, NoCron if it does not exist
    jobMap,       \* _job_map: the job of each spider
    \* The server.
    request,      \* the request each client is in
    serving,      \* the process is up
    tangled       \* history: spiders whose schedules were used out of turn

rows == <<rowSpider, rowCron, rowStatus>>

scheduler == <<jobs, jobMap>>

vars == <<classCron, rowSpider, rowCron, rowStatus, jobs, jobMap, request, serving, tangled>>

CronText == Crons \cup {BadCron}

RowStatus == {"none", "enabled", "disabled", "deleted"}

InTable(i) == rowStatus[i] \in {"enabled", "disabled"}

SpiderOf(j) == IF j \in Spiders THEN j ELSE rowSpider[j]

NoRequest == [op |-> "none", pc |-> "idle", spider |-> NoSpider, row |-> 0,
              cron |-> NoCron, seen |-> NoCron]

Request == {NoRequest} \cup
           [op: {"create", "update", "delete", "enable", "disable"},
            pc: {"read", "commit", "reload", "apply"},
            spider: Spiders, row: 0..MaxSchedules,
            cron: CronText \cup {NoCron},
            seen: CronText \cup RowStatus \cup {NoCron}]

Finish(c) == request' = [request EXCEPT ![c] = NoRequest]

GoOn(c, next, cron, seen) ==
    request' = [request EXCEPT ![c] = [@ EXCEPT !.pc = next, !.cron = cron, !.seen = seen]]

Await(c, next) == request' = [request EXCEPT ![c] = [@ EXCEPT !.pc = next]]

InFlight(s) == \E c \in Clients : request[c].spider = s

Tangle(S) == tangled' = tangled \cup S

-----------------------------------------------------------------------------
(* SpiderScheduler.                                                        *)

WithoutJobOf(s) == [j \in JobIds |-> IF j = jobMap[s] THEN NoCron ELSE jobs[j]]

\* Mutant of AddSchedule: the job of the spider is not removed first.
AddBesides(s, cron, j) ==
    \/ /\ cron \in Crons
       /\ jobs' = [jobs EXCEPT ![j] = cron]
       /\ jobMap' = [jobMap EXCEPT ![s] = j]
    \/ cron \notin Crons /\ UNCHANGED <<jobs, jobMap>>

\* Mutant of AddSchedule: the expression is not parsed.
AddUnparsed(s, cron, j) ==
    /\ jobs' = [WithoutJobOf(s) EXCEPT ![j] = cron]
    /\ jobMap' = [jobMap EXCEPT ![s] = j]

\* add_schedule: the spider's job is removed, whichever schedule it is of,
\* and a new one is made if the expression is good.
AddSchedule(s, cron, j) ==
    \/ /\ cron \in Crons
       /\ jobs' = [WithoutJobOf(s) EXCEPT ![j] = cron]
       /\ jobMap' = [jobMap EXCEPT ![s] = j]
    \/ /\ cron \notin Crons
       /\ jobs' = WithoutJobOf(s)
       /\ jobMap' = [jobMap EXCEPT ![s] = NoJob]

RemoveSchedule(s) ==
    /\ jobs' = WithoutJobOf(s)
    /\ jobMap' = [jobMap EXCEPT ![s] = NoJob]

-----------------------------------------------------------------------------
(* Requests.                                                               *)

\* A request arrives.  One that overlaps another about its spider tangles it.
Arrive(c, op, s, i, cron) ==
    /\ serving /\ request[c] = NoRequest
    /\ request' = [request EXCEPT ![c] =
          [op |-> op, pc |-> IF op = "create" THEN "commit" ELSE "read",
           spider |-> s, row |-> i, cron |-> cron, seen |-> NoCron]]
    /\ Tangle(IF InFlight(s) THEN {s} ELSE {})
    /\ UNCHANGED <<classCron, rows, scheduler, serving>>

ArriveCreate(c) == \E s \in Spiders, cron \in CronText : Arrive(c, "create", s, 0, cron)

ArriveOther(c) ==
    \E i \in ScheduleIds :
        /\ rowStatus[i] # "none"
        /\ \/ \E cron \in CronText : Arrive(c, "update", rowSpider[i], i, cron)
           \/ \E op \in {"delete", "enable", "disable"} : Arrive(c, op, rowSpider[i], i, NoCron)

\* The row is selected; without it the request is answered 404.
Read(c) ==
    /\ request[c].pc = "read"
    /\ LET r == request[c]
           i == r.row
       IN  \/ ~InTable(i) /\ Finish(c)
           \/ /\ InTable(i)
              /\ GoOn(c, "commit", IF r.op = "enable" THEN rowCron[i] ELSE r.cron,
                      IF r.op = "update" THEN rowCron[i] ELSE rowStatus[i])
    /\ UNCHANGED <<classCron, rows, scheduler, serving, tangled>>

\* create: the row is inserted, ENABLED whatever the expression.
CommitCreate(c) ==
    /\ request[c].op = "create" /\ request[c].pc = "commit"
    /\ \E i \in ScheduleIds :
          /\ \A k \in ScheduleIds : k < i <=> rowStatus[k] # "none"
          /\ rowSpider' = [rowSpider EXCEPT ![i] = request[c].spider]
          /\ rowCron' = [rowCron EXCEPT ![i] = request[c].cron]
          /\ rowStatus' = [rowStatus EXCEPT ![i] = "enabled"]
          /\ request' = [request EXCEPT ![c] = [@ EXCEPT !.pc = "reload", !.row = i]]
    /\ LET s == request[c].spider
       IN  Tangle(IF \E i \in ScheduleIds : InTable(i) /\ rowSpider[i] = s THEN {s} ELSE {})
    /\ UNCHANGED <<classCron, scheduler, serving>>

\* update: the expression is written if it differs from the one read.  The
\* row may be gone by now, and the request fails.
CommitUpdate(c) ==
    /\ request[c].op = "update" /\ request[c].pc = "commit"
    /\ LET r == request[c]
       IN  \/ ~InTable(r.row) /\ Finish(c) /\ UNCHANGED rowCron
           \/ /\ InTable(r.row)
              /\ rowCron' = [rowCron EXCEPT ![r.row] = IF r.cron = r.seen THEN @ ELSE r.cron]
              /\ Await(c, "reload")
    /\ UNCHANGED <<classCron, rowSpider, rowStatus, scheduler, serving, tangled>>

\* delete.  A row that is gone already is deleted without a complaint.
CommitDelete(c) ==
    /\ request[c].op = "delete" /\ request[c].pc = "commit"
    /\ rowStatus' = [rowStatus EXCEPT ![request[c].row] = "deleted"]
    /\ Await(c, "apply")
    /\ UNCHANGED <<classCron, rowSpider, rowCron, scheduler, serving, tangled>>

\* enable and disable: the status is written if it differs from the one read.
\* A row that is gone fails the request, unless there is nothing to write.
CommitStatus(c) ==
    /\ request[c].op \in {"enable", "disable"} /\ request[c].pc = "commit"
    /\ LET r   == request[c]
           new == IF r.op = "enable" THEN "enabled" ELSE "disabled"
       IN  \/ /\ InTable(r.row)
              /\ rowStatus' = [rowStatus EXCEPT ![r.row] = IF new = r.seen THEN @ ELSE new]
              /\ Await(c, "apply")
           \/ ~InTable(r.row) /\ Finish(c) /\ UNCHANGED rowStatus
           \/ ~InTable(r.row) /\ new = r.seen /\ Await(c, "apply") /\ UNCHANGED rowStatus
    /\ UNCHANGED <<classCron, rowSpider, rowCron, scheduler, serving, tangled>>

\* create and update load the row again; create registers the expression of
\* its body, update the one of the row.
Reload(c) ==
    /\ request[c].pc = "reload"
    /\ LET r == request[c]
       IN  \/ ~InTable(r.row) /\ Finish(c)
           \/ /\ InTable(r.row)
              /\ GoOn(c, "apply", IF r.op = "update" THEN rowCron[r.row] ELSE r.cron, r.seen)
    /\ UNCHANGED <<classCron, rows, scheduler, serving, tangled>>

\* The scheduler is told.  update registers a job for a disabled row, too,
\* which tangles the spider.
Apply(c) ==
    /\ request[c].pc = "apply"
    /\ LET r == request[c]
       IN  /\ \/ /\ r.op \in {"create", "update", "enable"}
                 /\ AddSchedule(r.spider, r.cron, r.row)
              \/ /\ r.op \in {"delete", "disable"}
                 /\ RemoveSchedule(r.spider)
           /\ Tangle(IF r.op = "update" /\ rowStatus[r.row] = "disabled"
                     THEN {r.spider} ELSE {})
    /\ Finish(c)
    /\ UNCHANGED <<classCron, rows, serving>>

\* A database call raises: the request fails.  When it had committed, the row
\* and the jobs part.
RequestFails(c) ==
    /\ request[c].pc \in {"read", "commit", "reload"}
    /\ Finish(c)
    /\ Tangle(IF request[c].pc = "reload" THEN {request[c].spider} ELSE {})
    /\ UNCHANGED <<classCron, rows, scheduler, serving>>

-----------------------------------------------------------------------------
(* The process.                                                            *)

\* The file watcher or an upload registers the class of a spider again.
Reregister(s) ==
    /\ serving
    /\ \E cron \in ClassCrons : classCron' = [classCron EXCEPT ![s] = cron]
    /\ UNCHANGED <<rows, scheduler, request, serving, tangled>>

Crash ==
    /\ serving
    /\ serving' = FALSE
    /\ jobs' = [j \in JobIds |-> NoCron]
    /\ jobMap' = [s \in Spiders |-> NoJob]
    /\ request' = [c \in Clients |-> NoRequest]
    /\ UNCHANGED <<classCron, rows, tangled>>

\* The cron expression sync_schedules finds for a job.
CronOf(j) == IF j \in Spiders THEN classCron[j] ELSE rowCron[j]

Shared(s) == Cardinality({i \in ScheduleIds : InTable(i) /\ rowSpider[i] = s}) > 1

\* Mutant of SyncSchedules: the select does not look at the status.
SyncDisabledToo(loaded) ==
    LET rowsOf(s) == {i \in ScheduleIds : loaded /\ InTable(i) /\ rowSpider[i] = s}
    IN  \E last \in [Spiders -> JobIds] :
          /\ \A s \in Spiders : last[s] \in IF rowsOf(s) = {} THEN {s} ELSE rowsOf(s)
          /\ jobMap' = [s \in Spiders |-> IF CronOf(last[s]) \in Crons THEN last[s] ELSE NoJob]
          /\ jobs' = [j \in JobIds |->
                        IF \E s \in Spiders : jobMap'[s] = j THEN CronOf(j) ELSE NoCron]

\* sync_schedules adds the schedules of the classes and then, unless the
\* select fails, those of the ENABLED rows, in no stated order: of a spider's
\* schedules the last one added is left.
SyncSchedules(loaded) ==
    LET rowsOf(s) == {i \in ScheduleIds :
                         loaded /\ rowStatus[i] = "enabled" /\ rowSpider[i] = s}
    IN  \E last \in [Spiders -> JobIds] :
          /\ \A s \in Spiders : last[s] \in IF rowsOf(s) = {} THEN {s} ELSE rowsOf(s)
          /\ jobMap' = [s \in Spiders |-> IF CronOf(last[s]) \in Crons THEN last[s] ELSE NoJob]
          /\ jobs' = [j \in JobIds |->
                        IF \E s \in Spiders : jobMap'[s] = j THEN CronOf(j) ELSE NoCron]

Boot ==
    /\ ~serving
    /\ serving' = TRUE
    /\ \E loaded \in BOOLEAN :
          /\ SyncSchedules(loaded)
          /\ tangled' = IF loaded THEN {s \in Spiders : Shared(s)} ELSE Spiders
    /\ UNCHANGED <<classCron, rows, request>>

-----------------------------------------------------------------------------
Init ==
    /\ classCron \in [Spiders -> ClassCrons]
    /\ rowSpider = [i \in ScheduleIds |-> NoSpider]
    /\ rowCron = [i \in ScheduleIds |-> NoCron]
    /\ rowStatus = [i \in ScheduleIds |-> "none"]
    /\ jobs = [j \in JobIds |-> NoCron]
    /\ jobMap = [s \in Spiders |-> NoJob]
    /\ request = [c \in Clients |-> NoRequest]
    /\ serving = FALSE
    /\ tangled = {}

RequestStep(c) ==
    \/ Read(c)
    \/ CommitCreate(c) \/ CommitUpdate(c) \/ CommitDelete(c) \/ CommitStatus(c)
    \/ Reload(c) \/ Apply(c) \/ RequestFails(c)

Next ==
    \/ \E c \in Clients : ArriveCreate(c) \/ ArriveOther(c) \/ RequestStep(c)
    \/ \E s \in Spiders : Reregister(s)
    \/ Crash \/ Boot

Spec == Init /\ [][Next]_vars

-----------------------------------------------------------------------------
(* Properties.                                                             *)

\* Every variable has its type.
TypeOK ==
    /\ classCron \in [Spiders -> ClassCrons]
    /\ rowSpider \in [ScheduleIds -> Spiders \cup {NoSpider}]
    /\ rowCron \in [ScheduleIds -> CronText \cup {NoCron}]
    /\ rowStatus \in [ScheduleIds -> RowStatus]
    /\ jobs \in [JobIds -> Crons \cup {NoCron}]
    /\ jobMap \in [Spiders -> JobIds \cup {NoJob}]
    /\ request \in [Clients -> Request]
    /\ serving \in BOOLEAN
    /\ tangled \in SUBSET Spiders

\* A spider has at most one job, the one _job_map knows how to remove, through
\* any interleaving of requests: it is never triggered twice at a time, and
\* no job outlives the map's memory of it.
OneJobPerSpider ==
    \A j \in JobIds, s \in Spiders :
        jobs[j] # NoCron /\ SpiderOf(j) = s => jobMap[s] = j

\* A spider with one schedule, used one request at a time, is triggered when
\* its row says, through updates, failures, crashes and restarts.
ScheduledAsShown ==
    \A i \in ScheduleIds :
        /\ serving /\ rowStatus[i] # "none"
        /\ rowSpider[i] \notin tangled /\ ~InFlight(rowSpider[i])
        => jobs[i] = IF rowStatus[i] = "enabled" /\ rowCron[i] \in Crons
                     THEN rowCron[i] ELSE NoCron
=============================================================================
