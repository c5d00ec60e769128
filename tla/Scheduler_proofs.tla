-------------------------- MODULE Scheduler_proofs --------------------------
(***************************************************************************)
(* Theorems about Scheduler for every set of spiders, expressions, clients *)
(* and every number of schedules.                                          *)
(***************************************************************************)
EXTENDS Scheduler, FiniteSetTheorems, TLAPS

\* A request that has its row, or is about to look for it, holds the id of a
\* row that was inserted, and the spider of that row.
HasRow(r) == r.pc \in {"read", "reload", "apply"} \/ (r.pc = "commit" /\ r.op # "create")

RequestRow(r) ==
    r.row \in ScheduleIds /\ rowStatus[r.row] # "none" /\ rowSpider[r.row] = r.spider

RequestRows == \A c \in Clients : HasRow(request[c]) => RequestRow(request[c])

\* A row has no job before it exists.
RowsBeforeJobs == \A i \in ScheduleIds : rowStatus[i] = "none" => jobs[i] = NoCron

\* A row that was inserted is of a registered spider.
RowsHaveSpiders == \A i \in ScheduleIds : rowStatus[i] # "none" => rowSpider[i] \in Spiders

Inv == TypeOK /\ RequestRows /\ RowsHaveSpiders /\ RowsBeforeJobs /\ OneJobPerSpider

-----------------------------------------------------------------------------
(* What a request does to its record.                                      *)

\* A request that is not idle is a record whose fields have their types.
LEMMA RequestFields ==
    ASSUME TypeOK, NEW c \in Clients, request[c].pc # "idle"
    PROVE  /\ request[c] \in Request \ {NoRequest}
           /\ request[c].spider \in Spiders
           /\ request[c].cron \in CronText \cup {NoCron}
<1>1. request[c] \in Request /\ request[c] # NoRequest
  BY DEF TypeOK, NoRequest
<1> QED
  BY <1>1 DEF Request

\* The response to a request leaves its record idle.
LEMMA FinishFacts ==
    ASSUME TypeOK, NEW c \in Clients, Finish(c)
    PROVE  /\ request' \in [Clients -> Request]
           /\ ~HasRow(request'[c])
           /\ \A d \in Clients \ {c} : request'[d] = request[d]
<1>1. NoRequest \in Request
  BY DEF Request
<1> QED
  BY <1>1 DEF Finish, TypeOK, HasRow, NoRequest

\* The fields of a record that is given a new place, expression and memory.
LEMMA GoOnFields ==
    ASSUME NEW r \in Request \ {NoRequest}, NEW next, NEW cron, NEW seen
    PROVE  LET q == [r EXCEPT !.pc = next, !.cron = cron, !.seen = seen]
           IN  /\ q.row = r.row /\ q.spider = r.spider /\ q.op = r.op
               /\ q.pc = next /\ q.cron = cron /\ q.seen = seen
  BY DEF Request

\* A request that goes on keeps its operation, spider and row.
LEMMA GoOnFacts ==
    ASSUME TypeOK, NEW c \in Clients, request[c].pc # "idle",
           NEW next \in {"commit", "reload", "apply"},
           NEW cron \in CronText \cup {NoCron},
           NEW seen \in CronText \cup RowStatus \cup {NoCron},
           GoOn(c, next, cron, seen)
    PROVE  /\ request' \in [Clients -> Request]
           /\ request'[c].row = request[c].row
           /\ request'[c].spider = request[c].spider
           /\ request'[c].op = request[c].op
           /\ request'[c].pc = next /\ request'[c].cron = cron /\ request'[c].seen = seen
           /\ \A d \in Clients \ {c} : request'[d] = request[d]
<1>1. request[c] \in Request \ {NoRequest}
  BY RequestFields
<1>2. [request[c] EXCEPT !.pc = next, !.cron = cron, !.seen = seen] \in Request
  BY <1>1 DEF Request
<1>3. request'[c] = [request[c] EXCEPT !.pc = next, !.cron = cron, !.seen = seen]
  BY DEF GoOn, TypeOK
<1>4. /\ request'[c].row = request[c].row
      /\ request'[c].spider = request[c].spider
      /\ request'[c].op = request[c].op
      /\ request'[c].pc = next /\ request'[c].cron = cron /\ request'[c].seen = seen
  <2>1. PICK r \in Request \ {NoRequest} : r = request[c]
    BY <1>1
  <2>2. PICK q : q = [r EXCEPT !.pc = next, !.cron = cron, !.seen = seen]
    OBVIOUS
  <2>3. /\ q.row = r.row /\ q.spider = r.spider /\ q.op = r.op
        /\ q.pc = next /\ q.cron = cron /\ q.seen = seen
    BY <2>2, GoOnFields
  <2>4. request'[c] = q
    BY <1>3, <2>1, <2>2
  <2> QED
    BY <2>1, <2>3, <2>4
<1>5. \A d \in Clients \ {c} : request'[d] = request[d]
  BY DEF GoOn, TypeOK
<1>6. request' \in [Clients -> Request]
  BY <1>2 DEF GoOn, TypeOK
<1> QED
  BY <1>4, <1>5, <1>6

\* ... in particular when only its place changes.
LEMMA AwaitFacts ==
    ASSUME TypeOK, NEW c \in Clients, request[c].pc # "idle",
           NEW next \in {"reload", "apply"}, Await(c, next)
    PROVE  /\ request' \in [Clients -> Request]
           /\ request'[c].row = request[c].row
           /\ request'[c].spider = request[c].spider
           /\ request'[c].op = request[c].op
           /\ request'[c].pc = next /\ request'[c].cron = request[c].cron
           /\ \A d \in Clients \ {c} : request'[d] = request[d]
<1>1. request[c] \in Request \ {NoRequest}
  BY RequestFields
<1>2. [request[c] EXCEPT !.pc = next] \in Request
  BY <1>1 DEF Request
<1>3. request'[c] = [request[c] EXCEPT !.pc = next]
  BY DEF Await, TypeOK
<1>4. /\ request'[c].row = request[c].row
      /\ request'[c].spider = request[c].spider
      /\ request'[c].op = request[c].op
      /\ request'[c].pc = next /\ request'[c].cron = request[c].cron
  BY <1>1, <1>3 DEF Request
<1> QED
  BY <1>2, <1>4 DEF Await, TypeOK

-----------------------------------------------------------------------------
(* Inv is inductive.                                                       *)

\* add_schedule and remove_schedule keep one job per spider.
LEMMA SchedulerKeepsInv ==
    ASSUME TypeOK, OneJobPerSpider, RowsBeforeJobs,
           NEW i \in ScheduleIds, rowStatus[i] # "none", NEW cron,
           AddSchedule(rowSpider[i], cron, i) \/ RemoveSchedule(rowSpider[i]),
           rowSpider[i] \in Spiders, UNCHANGED <<rowSpider, rowStatus>>
    PROVE  /\ jobs' \in [JobIds -> Crons \cup {NoCron}]
           /\ jobMap' \in [Spiders -> JobIds \cup {NoJob}]
           /\ OneJobPerSpider' /\ RowsBeforeJobs'
<1> DEFINE s == rowSpider[i]
<1> USE SchedulerAssumption DEF SchedulerAssumption, JobIds
<1>1. WithoutJobOf(s) \in [JobIds -> Crons \cup {NoCron}]
  BY DEF TypeOK, WithoutJobOf
<1>2. \A j \in JobIds : WithoutJobOf(s)[j] # NoCron => jobs[j] # NoCron /\ SpiderOf(j) # s
  BY DEF OneJobPerSpider, WithoutJobOf
<1>3. /\ jobs' \in [JobIds -> Crons \cup {NoCron}]
      /\ jobMap' \in [Spiders -> JobIds \cup {NoJob}]
  BY <1>1 DEF AddSchedule, RemoveSchedule, TypeOK
<1>4. \A j \in JobIds \ {i} : jobs'[j] # NoCron => jobs[j] # NoCron /\ SpiderOf(j) # s
  BY <1>1, <1>2 DEF AddSchedule, RemoveSchedule
<1>5. jobs'[i] # NoCron => jobMap'[s] = i
  BY <1>1, <1>2 DEF AddSchedule, RemoveSchedule, TypeOK, SpiderOf
<1>6. \A r \in Spiders \ {s} : jobMap'[r] = jobMap[r]
  BY DEF AddSchedule, RemoveSchedule, TypeOK
<1>7. OneJobPerSpider'
  BY <1>4, <1>5, <1>6 DEF OneJobPerSpider, SpiderOf
<1>8. RowsBeforeJobs'
  BY <1>4 DEF RowsBeforeJobs
<1> QED
  BY <1>3, <1>7, <1>8

\* A row's spider never changes and a row never disappears.
RowsKept ==
    \A i \in ScheduleIds : /\ rowStatus'[i] = "none" => rowStatus[i] = "none"
                           /\ rowStatus[i] # "none" => rowSpider'[i] = rowSpider[i]

\* A step that does not touch the scheduler keeps one job per spider.
LEMMA QuietKeepsJobs ==
    ASSUME TypeOK, OneJobPerSpider, RowsBeforeJobs, UNCHANGED scheduler, RowsKept
    PROVE  OneJobPerSpider' /\ RowsBeforeJobs'
  BY DEF OneJobPerSpider, RowsBeforeJobs, scheduler, SpiderOf, JobIds, RowsKept

\* The rows of the other requests survive any step.
LEMMA QuietKeepsRequests ==
    ASSUME TypeOK, RequestRows, NEW c \in Clients, RowsKept,
           \A d \in Clients \ {c} : request'[d] = request[d],
           HasRow(request'[c]) => RequestRow(request[c])'
    PROVE  RequestRows'
<1>1. ASSUME NEW d \in Clients, HasRow(request[d])
      PROVE  RequestRow(request[d])
  BY <1>1 DEF RequestRows
<1>2. ASSUME NEW d \in Clients \ {c}, HasRow(request'[d])
      PROVE  RequestRow(request[d])'
  BY <1>1, <1>2 DEF RequestRow, RowsKept
<1> QED
  BY <1>2 DEF RequestRows, HasRow

\* A request that keeps its row keeps what is known of it.
LEMMA SameRow ==
    ASSUME RequestRows, NEW c \in Clients, RowsKept, HasRow(request[c]),
           request'[c].row = request[c].row, request'[c].spider = request[c].spider
    PROVE  RequestRow(request[c])'
  BY DEF RequestRows, RequestRow, RowsKept

\* An arriving request refers to a row that exists, or to none if it creates.
LEMMA ArriveKeepsInv ==
    ASSUME Inv, NEW c \in Clients, ArriveCreate(c) \/ ArriveOther(c)
    PROVE  Inv'
<1> USE SchedulerAssumption DEF SchedulerAssumption
<1>1. PICK op \in {"create", "update", "delete", "enable", "disable"}, s \in Spiders \cup {NoSpider},
           i \in 0..MaxSchedules, cron \in CronText \cup {NoCron} :
         /\ Arrive(c, op, s, i, cron)
         /\ op = "create" => s \in Spiders
         /\ op # "create" => i \in ScheduleIds /\ rowStatus[i] # "none" /\ s = rowSpider[i]
  <2>1. CASE ArriveCreate(c)
    BY <2>1 DEF ArriveCreate
  <2>2. CASE ArriveOther(c)
    BY <2>2 DEF ArriveOther, Inv, TypeOK, ScheduleIds
  <2> QED
    BY <2>1, <2>2
<1>2. PICK r : r = [op |-> op, pc |-> IF op = "create" THEN "commit" ELSE "read",
                    spider |-> s, row |-> i, cron |-> cron, seen |-> NoCron]
  OBVIOUS
<1>3. s \in Spiders
  BY <1>1 DEF Inv, RowsHaveSpiders
<1>4. r \in Request
  BY <1>2, <1>3 DEF Request
<1>5. request' = [request EXCEPT ![c] = r]
  BY <1>1, <1>2 DEF Arrive
<1>6. request' \in [Clients -> Request] /\ request'[c] = r
      /\ \A d \in Clients \ {c} : request'[d] = request[d]
  BY <1>4, <1>5 DEF Inv, TypeOK
<1>7. tangled' \in SUBSET Spiders
  BY <1>1, <1>3 DEF Arrive, Tangle, Inv, TypeOK
<1>8. UNCHANGED <<classCron, rows, scheduler, serving>>
  BY <1>1 DEF Arrive
<1>9. RowsKept
  BY <1>8 DEF RowsKept, rows
<1>10. TypeOK'
  BY <1>6, <1>7, <1>8 DEF Inv, TypeOK, rows, scheduler
<1>11. HasRow(r) => r.row \in ScheduleIds /\ rowStatus[r.row] # "none"
                    /\ rowSpider[r.row] = r.spider
  BY <1>1, <1>2 DEF HasRow
<1>12. RequestRows'
  <2>1. HasRow(request'[c]) => RequestRow(request[c])'
    BY <1>6, <1>8, <1>11 DEF RequestRow, rows
  <2> QED
    BY <1>6, <1>9, <2>1, QuietKeepsRequests DEF Inv
<1>13. RowsHaveSpiders'
  BY <1>8 DEF Inv, RowsHaveSpiders, rows
<1> QED
  BY <1>8, <1>9, <1>10, <1>12, <1>13, QuietKeepsJobs DEF Inv

\* Steps of a request that leave the scheduler alone differ only in what they
\* do to the rows and to the request.
LEMMA QuietKeepsInv ==
    ASSUME Inv, NEW c \in Clients, RowsKept, UNCHANGED <<classCron, scheduler, serving>>,
           request' \in [Clients -> Request],
           \A d \in Clients \ {c} : request'[d] = request[d],
           HasRow(request'[c]) => RequestRow(request[c])',
           rowSpider' \in [ScheduleIds -> Spiders \cup {NoSpider}],
           rowCron' \in [ScheduleIds -> CronText \cup {NoCron}],
           rowStatus' \in [ScheduleIds -> RowStatus],
           RowsHaveSpiders', tangled' \in SUBSET Spiders
    PROVE  Inv'
<1>1. TypeOK'
  BY DEF Inv, TypeOK, scheduler
<1>2. RequestRows'
  BY QuietKeepsRequests DEF Inv
<1>3. OneJobPerSpider' /\ RowsBeforeJobs'
  BY QuietKeepsJobs DEF Inv
<1> QED
  BY <1>1, <1>2, <1>3 DEF Inv

\* The same when the rows are left alone, too, and the request answers or
\* goes on with its row.
LEMMA RequestKeepsInv ==
    ASSUME Inv, NEW c \in Clients, UNCHANGED <<classCron, rows, scheduler, serving>>,
           request' \in [Clients -> Request],
           \A d \in Clients \ {c} : request'[d] = request[d],
           HasRow(request'[c]) => /\ HasRow(request[c])
                                  /\ request'[c].row = request[c].row
                                  /\ request'[c].spider = request[c].spider,
           tangled' \in SUBSET Spiders
    PROVE  Inv'
<1>1. RowsKept
  BY DEF RowsKept, rows
<1>2. HasRow(request'[c]) => RequestRow(request[c])'
  BY <1>1, SameRow DEF Inv
<1>3. RowsHaveSpiders'
  BY DEF Inv, RowsHaveSpiders, rows
<1>4. /\ rowSpider' \in [ScheduleIds -> Spiders \cup {NoSpider}]
      /\ rowCron' \in [ScheduleIds -> CronText \cup {NoCron}]
      /\ rowStatus' \in [ScheduleIds -> RowStatus]
  BY DEF Inv, TypeOK, rows
<1> QED
  BY <1>1, <1>2, <1>3, <1>4, QuietKeepsInv

\* Read, Reload and RequestFails end the request or go on with its row.
LEMMA LookKeepsInv ==
    ASSUME Inv, NEW c \in Clients, Read(c) \/ Reload(c) \/ RequestFails(c)
    PROVE  Inv'
<1>1. TypeOK /\ request[c].pc # "idle"
  BY DEF Inv, Read, Reload, RequestFails
<1>2. /\ request[c] \in Request \ {NoRequest} /\ request[c].spider \in Spiders
      /\ request[c].cron \in CronText \cup {NoCron}
  BY <1>1, RequestFields
<1>3. UNCHANGED <<classCron, rows, scheduler, serving>>
  BY DEF Read, Reload, RequestFails
<1>4. tangled' \in SUBSET Spiders
  BY <1>1, <1>2 DEF Read, Reload, RequestFails, Tangle, TypeOK
<1>5. CASE Finish(c)
  BY <1>1, <1>3, <1>4, <1>5, FinishFacts, RequestKeepsInv
<1>6. CASE ~Finish(c)
  <2>1. HasRow(request[c])
    <3>1. request[c].pc \in {"read", "reload"}
      BY <1>6 DEF Read, Reload, RequestFails
    <3> QED
      BY <3>1 DEF HasRow
  <2>2. request[c].row \in ScheduleIds
    BY <2>1 DEF Inv, RequestRows, RequestRow
  <2>3. PICK next \in {"commit", "reload", "apply"}, cron \in CronText \cup {NoCron},
             seen \in CronText \cup RowStatus \cup {NoCron} : GoOn(c, next, cron, seen)
    <3>1. rowCron[request[c].row] \in CronText \cup {NoCron} /\ rowStatus[request[c].row] \in RowStatus
      BY <1>1, <2>2 DEF TypeOK
    <3>2. request[c].seen \in CronText \cup RowStatus \cup {NoCron}
      BY <1>2 DEF Request
    <3>3. CASE Read(c)
      <4>1. GoOn(c, "commit",
                 IF request[c].op = "enable" THEN rowCron[request[c].row] ELSE request[c].cron,
                 IF request[c].op = "update" THEN rowCron[request[c].row]
                                             ELSE rowStatus[request[c].row])
        BY <1>6, <3>3 DEF Read
      <4> QED
        BY <1>2, <3>1, <4>1
    <3>4. CASE Reload(c)
      <4>1. GoOn(c, "apply",
                 IF request[c].op = "update" THEN rowCron[request[c].row] ELSE request[c].cron,
                 request[c].seen)
        BY <1>6, <3>4 DEF Reload
      <4> QED
        BY <1>2, <3>1, <3>2, <4>1
    <3> QED
      BY <1>6, <3>3, <3>4 DEF RequestFails
  <2>4. /\ request' \in [Clients -> Request]
        /\ request'[c].row = request[c].row /\ request'[c].spider = request[c].spider
        /\ \A d \in Clients \ {c} : request'[d] = request[d]
    BY <1>1, <2>3, GoOnFacts
  <2> QED
    BY <1>3, <1>4, <2>1, <2>4, RequestKeepsInv
<1> QED
  BY <1>5, <1>6

\* The record of a request that creates points at the row it inserted.
LEMMA CommitCreateKeepsInv ==
    ASSUME Inv, NEW c \in Clients, CommitCreate(c)
    PROVE  Inv'
<1>1. TypeOK /\ request[c].pc # "idle" /\ request[c] \in Request \ {NoRequest}
      /\ request[c].spider \in Spiders /\ request[c].cron \in CronText \cup {NoCron}
  BY RequestFields DEF Inv, CommitCreate
<1>2. PICK i \in ScheduleIds :
         /\ rowStatus[i] = "none"
         /\ rowSpider' = [rowSpider EXCEPT ![i] = request[c].spider]
         /\ rowCron' = [rowCron EXCEPT ![i] = request[c].cron]
         /\ rowStatus' = [rowStatus EXCEPT ![i] = "enabled"]
         /\ request' = [request EXCEPT ![c] = [@ EXCEPT !.pc = "reload", !.row = i]]
  <2>1. \A i \in ScheduleIds : ~(i < i)
    BY SchedulerAssumption DEF SchedulerAssumption, ScheduleIds
  <2> QED
    BY <2>1 DEF CommitCreate
<1>3. UNCHANGED <<classCron, scheduler, serving>>
  BY DEF CommitCreate
<1>4. /\ rowSpider' \in [ScheduleIds -> Spiders \cup {NoSpider}]
      /\ rowCron' \in [ScheduleIds -> CronText \cup {NoCron}]
      /\ rowStatus' \in [ScheduleIds -> RowStatus]
  BY <1>1, <1>2 DEF TypeOK, RowStatus
<1>5. RowsKept
  BY <1>1, <1>2 DEF TypeOK, RowsKept
<1>6. RowsHaveSpiders'
  BY <1>1, <1>2 DEF TypeOK, RowsHaveSpiders, Inv
<1>7. tangled' \in SUBSET Spiders
  BY <1>1 DEF CommitCreate, Tangle, TypeOK
<1>8. PICK r \in Request \ {NoRequest} : r = request[c]
  BY <1>1
<1>9. PICK q : q = [r EXCEPT !.pc = "reload", !.row = i]
  OBVIOUS
<1>10. q \in Request /\ q.row = i /\ q.spider = r.spider
  <2>1. i \in 0..MaxSchedules
    BY SchedulerAssumption DEF SchedulerAssumption, ScheduleIds
  <2>2. q \in Request
    BY <1>9, <2>1 DEF Request
  <2> QED
    BY <1>9, <2>2 DEF Request
<1>11. /\ request' \in [Clients -> Request] /\ request'[c] = q
       /\ \A d \in Clients \ {c} : request'[d] = request[d]
  BY <1>1, <1>2, <1>8, <1>9, <1>10 DEF TypeOK
<1>12. RequestRow(request[c])'
  BY <1>1, <1>2, <1>8, <1>10, <1>11 DEF TypeOK, RequestRow
<1> QED
  BY <1>3, <1>4, <1>5, <1>6, <1>7, <1>11, <1>12, QuietKeepsInv

\* update, delete, enable and disable write to a row that was inserted.
LEMMA CommitOtherKeepsInv ==
    ASSUME Inv, NEW c \in Clients, CommitUpdate(c) \/ CommitDelete(c) \/ CommitStatus(c)
    PROVE  Inv'
<1>1. TypeOK /\ request[c].pc # "idle" /\ request[c].cron \in CronText \cup {NoCron}
  <2>1. TypeOK /\ request[c].pc # "idle"
    BY DEF Inv, CommitUpdate, CommitDelete, CommitStatus
  <2> QED
    BY <2>1, RequestFields
<1>2. HasRow(request[c])
  BY DEF CommitUpdate, CommitDelete, CommitStatus, HasRow
<1>3. request[c].row \in ScheduleIds /\ rowStatus[request[c].row] # "none"
  BY <1>2 DEF Inv, RequestRows, RequestRow
<1>4. UNCHANGED <<classCron, rowSpider, scheduler, serving, tangled>>
  BY DEF CommitUpdate, CommitDelete, CommitStatus
<1>5. Finish(c) \/ Await(c, "reload") \/ Await(c, "apply")
  BY DEF CommitUpdate, CommitDelete, CommitStatus
<1>6. /\ request' \in [Clients -> Request]
      /\ \A d \in Clients \ {c} : request'[d] = request[d]
      /\ HasRow(request'[c]) => request'[c].row = request[c].row
                                /\ request'[c].spider = request[c].spider
  BY <1>1, <1>5, FinishFacts, AwaitFacts
<1>7. /\ rowCron' \in [ScheduleIds -> CronText \cup {NoCron}]
      /\ rowStatus' \in [ScheduleIds -> RowStatus]
      /\ \A i \in ScheduleIds : rowStatus'[i] = "none" <=> rowStatus[i] = "none"
  <2>1. CASE CommitUpdate(c)
    BY <1>1, <1>3, <2>1 DEF CommitUpdate, TypeOK
  <2>2. CASE CommitDelete(c)
    BY <1>1, <1>3, <2>2 DEF CommitDelete, TypeOK, RowStatus
  <2>3. CASE CommitStatus(c)
    BY <1>1, <1>3, <2>3 DEF CommitStatus, TypeOK, RowStatus
  <2> QED
    BY <2>1, <2>2, <2>3
<1>8. RowsKept /\ RowsHaveSpiders'
  BY <1>4, <1>7 DEF RowsKept, RowsHaveSpiders, Inv
<1>9. HasRow(request'[c]) => RequestRow(request[c])'
  BY <1>2, <1>6, <1>8, SameRow DEF Inv
<1>10. rowSpider' \in [ScheduleIds -> Spiders \cup {NoSpider}] /\ tangled' \in SUBSET Spiders
  BY <1>1, <1>4 DEF TypeOK
<1> QED
  BY <1>4, <1>6, <1>7, <1>8, <1>9, <1>10, QuietKeepsInv

\* A job is only ever made under the id of a row that exists, for its spider.
LEMMA ApplyKeepsInv ==
    ASSUME Inv, NEW c \in Clients, Apply(c)
    PROVE  Inv'
<1>1. TypeOK /\ request[c].pc # "idle"
  BY DEF Inv, Apply
<1>2. request' \in [Clients -> Request] /\ ~HasRow(request'[c])
      /\ \A d \in Clients \ {c} : request'[d] = request[d]
  BY <1>1, FinishFacts DEF Apply
<1>3. UNCHANGED <<classCron, rows, serving>>
  BY DEF Apply
<1>4. HasRow(request[c])
  BY DEF Apply, HasRow
<1>5. PICK i \in ScheduleIds : i = request[c].row /\ rowStatus[i] # "none"
                               /\ rowSpider[i] = request[c].spider
  BY <1>4 DEF Inv, RequestRows, RequestRow
<1>6. rowSpider[i] \in Spiders
  BY <1>5 DEF Inv, RowsHaveSpiders
<1>7. PICK cron : AddSchedule(rowSpider[i], cron, i) \/ RemoveSchedule(rowSpider[i])
  BY <1>5 DEF Apply
<1>8. UNCHANGED <<rowSpider, rowStatus>>
  BY <1>3 DEF rows
<1>9. /\ jobs' \in [JobIds -> Crons \cup {NoCron}]
      /\ jobMap' \in [Spiders -> JobIds \cup {NoJob}]
      /\ OneJobPerSpider' /\ RowsBeforeJobs'
  BY <1>1, <1>5, <1>6, <1>7, <1>8, SchedulerKeepsInv DEF Inv
<1>10. tangled' \in SUBSET Spiders
  BY <1>1, <1>5, <1>6 DEF Apply, Tangle, TypeOK
<1>11. TypeOK'
  BY <1>1, <1>2, <1>3, <1>9, <1>10 DEF TypeOK, rows
<1>12. RowsKept
  BY <1>8 DEF RowsKept
<1>13. RequestRows'
  BY <1>2, <1>12, QuietKeepsRequests DEF Inv
<1>14. RowsHaveSpiders'
  BY <1>8 DEF Inv, RowsHaveSpiders
<1> QED
  BY <1>9, <1>11, <1>13, <1>14 DEF Inv

-----------------------------------------------------------------------------
(* The process.                                                            *)

\* A new class leaves everything but its schedule alone.
LEMMA ReregisterKeepsInv ==
    ASSUME Inv, NEW s \in Spiders, Reregister(s)
    PROVE  Inv'
<1>1. TypeOK'
  BY DEF Reregister, Inv, TypeOK, rows, scheduler
<1>2. RequestRows' /\ RowsHaveSpiders'
  BY DEF Reregister, Inv, RequestRows, RequestRow, HasRow, RowsHaveSpiders, rows
<1>3. RowsKept
  BY DEF Reregister, RowsKept, rows
<1>4. OneJobPerSpider' /\ RowsBeforeJobs'
  BY <1>3, QuietKeepsJobs DEF Inv, Reregister
<1> QED
  BY <1>1, <1>2, <1>4 DEF Inv

\* A crash forgets the jobs with the map, and the requests.
LEMMA CrashKeepsInv == Inv /\ Crash => Inv'
<1> SUFFICES ASSUME Inv, Crash
             PROVE  Inv'
  OBVIOUS
<1>1. TypeOK'
  <2>1. NoRequest \in Request
    BY DEF Request
  <2> QED
    BY <2>1 DEF Crash, Inv, TypeOK, rows
<1>2. RequestRows'
  BY DEF Crash, RequestRows, HasRow, NoRequest
<1>3. RowsHaveSpiders' /\ RowsBeforeJobs' /\ OneJobPerSpider'
  BY DEF Crash, Inv, RowsHaveSpiders, RowsBeforeJobs, OneJobPerSpider, rows, JobIds
<1> QED
  BY <1>1, <1>2, <1>3 DEF Inv

\* sync_schedules leaves a spider the job of one of its own schedules.
LEMMA SyncOneJob ==
    ASSUME TypeOK, NEW loaded \in BOOLEAN, SyncSchedules(loaded), UNCHANGED rows
    PROVE  /\ jobs' \in [JobIds -> Crons \cup {NoCron}]
           /\ jobMap' \in [Spiders -> JobIds \cup {NoJob}]
           /\ OneJobPerSpider' /\ RowsBeforeJobs'
<1> USE SchedulerAssumption DEF SchedulerAssumption
<1>1. PICK last \in [Spiders -> JobIds] :
         /\ \A s \in Spiders :
               \/ last[s] = s
               \/ last[s] \in ScheduleIds /\ rowStatus[last[s]] = "enabled"
                                         /\ rowSpider[last[s]] = s
         /\ jobMap' = [s \in Spiders |-> IF CronOf(last[s]) \in Crons THEN last[s] ELSE NoJob]
         /\ jobs' = [j \in JobIds |->
                       IF \E s \in Spiders : jobMap'[s] = j THEN CronOf(j) ELSE NoCron]
  BY DEF SyncSchedules
<1>2. jobMap' \in [Spiders -> JobIds \cup {NoJob}]
  BY <1>1
<1>3. ASSUME NEW j \in JobIds, NEW s \in Spiders, jobMap'[s] = j
      PROVE  last[s] = j /\ CronOf(j) \in Crons /\ SpiderOf(j)' = s
  <2>1. last[s] = j /\ CronOf(j) \in Crons
    BY <1>1, <1>3 DEF JobIds
  <2>2. SpiderOf(j)' = s
    BY <1>1, <2>1 DEF SpiderOf, rows
  <2> QED
    BY <2>1, <2>2
<1>4. ASSUME NEW j \in JobIds
      PROVE  /\ jobs'[j] \in Crons \cup {NoCron}
             /\ jobs'[j] # NoCron => \E s \in Spiders : jobMap'[s] = j
  BY <1>1, <1>3
<1>5. jobs' \in [JobIds -> Crons \cup {NoCron}]
  BY <1>1, <1>4
<1>6. OneJobPerSpider'
  BY <1>3, <1>4 DEF OneJobPerSpider
<1>7. RowsBeforeJobs'
  BY <1>1, <1>3, <1>4 DEF RowsBeforeJobs, JobIds, rows
<1> QED
  BY <1>2, <1>5, <1>6, <1>7

LEMMA BootKeepsInv == Inv /\ Boot => Inv'
<1> SUFFICES ASSUME Inv, Boot
             PROVE  Inv'
  OBVIOUS
<1>1. PICK loaded \in BOOLEAN : SyncSchedules(loaded) /\ tangled' \in SUBSET Spiders
  BY DEF Boot
<1>2. UNCHANGED <<classCron, rows, request>> /\ serving' = TRUE
  BY DEF Boot
<1>3. /\ jobs' \in [JobIds -> Crons \cup {NoCron}]
      /\ jobMap' \in [Spiders -> JobIds \cup {NoJob}]
      /\ OneJobPerSpider' /\ RowsBeforeJobs'
  BY <1>1, <1>2, SyncOneJob DEF Inv
<1>4. TypeOK'
  BY <1>1, <1>2, <1>3 DEF Inv, TypeOK, rows
<1>5. RequestRows' /\ RowsHaveSpiders'
  BY <1>2 DEF Inv, RequestRows, RequestRow, HasRow, RowsHaveSpiders, rows
<1> QED
  BY <1>3, <1>4, <1>5 DEF Inv

-----------------------------------------------------------------------------
(* The theorems.                                                           *)

LEMMA InitInv == Init => Inv
<1> SUFFICES ASSUME Init
             PROVE  Inv
  OBVIOUS
<1>1. TypeOK
  <2>1. NoRequest \in Request
    BY DEF Request
  <2> QED
    BY <2>1 DEF Init, TypeOK, RowStatus
<1>2. RequestRows
  BY DEF Init, RequestRows, HasRow, NoRequest
<1>3. RowsHaveSpiders /\ RowsBeforeJobs /\ OneJobPerSpider
  BY DEF Init, RowsHaveSpiders, RowsBeforeJobs, OneJobPerSpider, JobIds
<1> QED
  BY <1>1, <1>2, <1>3 DEF Inv

LEMMA StepInv == Inv /\ [Next]_vars => Inv'
<1> SUFFICES ASSUME Inv, [Next]_vars
             PROVE  Inv'
  OBVIOUS
<1>1. CASE UNCHANGED vars
  BY <1>1 DEF vars, rows, scheduler, Inv, TypeOK, RequestRows, RequestRow, HasRow,
              RowsHaveSpiders, RowsBeforeJobs, OneJobPerSpider, SpiderOf
<1>2. ASSUME NEW c \in Clients, ArriveCreate(c) \/ ArriveOther(c)
      PROVE  Inv'
  BY <1>2, ArriveKeepsInv
<1>3. ASSUME NEW c \in Clients, RequestStep(c)
      PROVE  Inv'
  <2>1. CASE Read(c) \/ Reload(c) \/ RequestFails(c)
    BY <2>1, LookKeepsInv
  <2>2. CASE CommitCreate(c)
    BY <2>2, CommitCreateKeepsInv
  <2>3. CASE CommitUpdate(c) \/ CommitDelete(c) \/ CommitStatus(c)
    BY <2>3, CommitOtherKeepsInv
  <2>4. CASE Apply(c)
    BY <2>4, ApplyKeepsInv
  <2> QED
    BY <1>3, <2>1, <2>2, <2>3, <2>4 DEF RequestStep
<1>4. ASSUME NEW s \in Spiders, Reregister(s)
      PROVE  Inv'
  BY <1>4, ReregisterKeepsInv
<1> QED
  BY <1>1, <1>2, <1>3, <1>4, CrashKeepsInv, BootKeepsInv DEF Next

LEMMA AlwaysInv == Spec => []Inv
  BY InitInv, StepInv, PTL DEF Spec

\* The scheduler's state, the schedules and the requests are always what the
\* code takes them for, whatever requests, crashes and restarts interleave.
THEOREM SchedulerTypeCorrect == Spec => []TypeOK
<1>1. Inv => TypeOK
  BY DEF Inv
<1> QED
  BY <1>1, AlwaysInv, PTL

\* _job_map finds every job there is of a spider, so add_schedule and
\* remove_schedule leave no job behind: for any number of spiders, schedules
\* and concurrent requests, no spider has two jobs.
THEOREM OneJob == Spec => []OneJobPerSpider
<1>1. Inv => OneJobPerSpider
  BY DEF Inv
<1> QED
  BY <1>1, AlwaysInv, PTL

-----------------------------------------------------------------------------
(* Spiders are scheduled as their rows show.                               *)

\* _job_map leads to a job of the spider itself.
MapInv ==
    \A s \in Spiders :
        /\ jobMap[s] \in ScheduleIds => rowStatus[jobMap[s]] # "none" /\ rowSpider[jobMap[s]] = s
        /\ jobMap[s] \in Spiders => jobMap[s] = s

\* The job that row i asks for.
ShownJob(i) == IF rowStatus[i] = "enabled" /\ rowCron[i] \in Crons THEN rowCron[i] ELSE NoCron

\* The request has committed and not yet told the scheduler.
Committed(r) == r.pc \in {"reload", "apply"}

\* What the request remembers of its row still holds, and no other row of its
\* spider is in the table.
Current(r) ==
    /\ r.pc = "commit" /\ r.op # "create" =>
          /\ InTable(r.row)
          /\ r.op \in {"enable", "disable"} => r.seen = rowStatus[r.row]
          /\ r.op = "enable" => r.cron = rowCron[r.row]
    /\ Committed(r) =>
          /\ \A k \in ScheduleIds \ {r.row} : rowSpider[k] = r.spider => ~InTable(k)
          /\ r.pc = "reload" => r.op \in {"create", "update"}
          /\ r.op \in {"create", "enable"} => rowStatus[r.row] = "enabled"
          /\ r.op = "update" => InTable(r.row)
          /\ r.op = "disable" => rowStatus[r.row] = "disabled"
          /\ r.op = "delete" => rowStatus[r.row] = "deleted"
          /\ r.op \in {"create", "enable"} \/ (r.op = "update" /\ r.pc = "apply") =>
                r.cron = rowCron[r.row]

\* The request is about to tell the scheduler of row i of s.
Pending(c, s, i) ==
    request[c].spider = s /\ Committed(request[c]) /\ request[c].row = i

\* The spider s is used one request at a time and has one row in the table,
\* and its rows have the jobs they ask for but for the one being changed.
Tidy(s) ==
    /\ \A c, d \in Clients : request[c].spider = s /\ request[d].spider = s => c = d
    /\ \A c \in Clients : request[c].spider = s => Current(request[c])
    /\ \A i, k \in ScheduleIds :
          rowSpider[i] = s /\ rowSpider[k] = s /\ InTable(i) /\ InTable(k) => i = k
    /\ \A i \in ScheduleIds :
          /\ rowStatus[i] # "none" /\ rowSpider[i] = s
          /\ \A c \in Clients : ~Pending(c, s, i)
          => jobs[i] = ShownJob(i)

TidyInv ==
    /\ ~serving => \A c \in Clients : request[c] = NoRequest
    /\ serving => \A s \in Spiders \ tangled : Tidy(s)

\* add_schedule and remove_schedule leave the jobs of other spiders alone and
\* of the spider's rows at most the one they are told of with a job.
LEMMA SchedulerEffect ==
    ASSUME TypeOK, OneJobPerSpider, MapInv, NEW i \in ScheduleIds, NEW s \in Spiders,
           rowSpider[i] = s, NEW cron
    PROVE  /\ AddSchedule(s, cron, i) \/ RemoveSchedule(s) =>
                 /\ \A k \in ScheduleIds : rowSpider[k] # s => jobs'[k] = jobs[k]
                 /\ \A k \in ScheduleIds \ {i} : rowSpider[k] = s => jobs'[k] = NoCron
                 /\ jobMap'[s] \in {i, NoJob}
                 /\ \A r \in Spiders \ {s} : jobMap'[r] = jobMap[r]
           /\ AddSchedule(s, cron, i) => jobs'[i] = IF cron \in Crons THEN cron ELSE NoCron
           /\ RemoveSchedule(s) => jobs'[i] = NoCron
<1> USE SchedulerAssumption DEF SchedulerAssumption, JobIds
<1>1. \A k \in ScheduleIds : /\ rowSpider[k] # s => WithoutJobOf(s)[k] = jobs[k]
                             /\ rowSpider[k] = s => WithoutJobOf(s)[k] = NoCron
  BY DEF WithoutJobOf, MapInv, OneJobPerSpider, SpiderOf
<1>2. WithoutJobOf(s) = [j \in JobIds |-> WithoutJobOf(s)[j]]
  BY DEF WithoutJobOf
<1>3. AddSchedule(s, cron, i) \/ RemoveSchedule(s) =>
         /\ jobMap'[s] \in {i, NoJob}
         /\ \A r \in Spiders \ {s} : jobMap'[r] = jobMap[r]
  BY DEF AddSchedule, RemoveSchedule, TypeOK
<1>4. ASSUME NEW k \in ScheduleIds \ {i}, AddSchedule(s, cron, i) \/ RemoveSchedule(s)
      PROVE  jobs'[k] = WithoutJobOf(s)[k]
  BY <1>2, <1>4 DEF AddSchedule, RemoveSchedule
<1>5. AddSchedule(s, cron, i) => jobs'[i] = IF cron \in Crons THEN cron ELSE NoCron
  BY <1>1, <1>2 DEF AddSchedule
<1>6. RemoveSchedule(s) => jobs'[i] = NoCron
  BY <1>1 DEF RemoveSchedule
<1> QED
  BY <1>1, <1>3, <1>4, <1>5, <1>6

\* What a step of request c is about: its spider, which the request names
\* before or after the step.
About(c, s) ==
    /\ \A d \in Clients \ {c} : request'[d] = request[d]
    /\ request[c].spider \in {s, NoSpider} /\ request'[c].spider \in {s, NoSpider}

RowStays(i) ==
    /\ rowSpider'[i] = rowSpider[i] /\ rowCron'[i] = rowCron[i] /\ rowStatus'[i] = rowStatus[i]
    /\ jobs'[i] = jobs[i]

\* A request changes only rows and jobs of its spider.
LEMMA OthersStayTidy ==
    ASSUME Inv, TidyInv, NEW c \in Clients, NEW s \in Spiders, About(c, s),
           serving, serving', tangled \subseteq tangled',
           \A i \in ScheduleIds :
              \/ RowStays(i)
              \/ rowSpider'[i] = s /\ (rowStatus[i] # "none" => rowSpider[i] = s),
           s \notin tangled' => Tidy(s)'
    PROVE  TidyInv'
<1> SUFFICES ASSUME NEW r \in Spiders \ tangled', r # s
             PROVE  Tidy(r)'
  BY DEF TidyInv
<1>1. Tidy(r) /\ r # NoSpider
  BY SchedulerAssumption DEF TidyInv, SchedulerAssumption
<1>2. \A d \in Clients : request'[d].spider = r <=> request[d].spider = r
  BY <1>1 DEF About
<1>3. \A d \in Clients : request[d].spider = r => request'[d] = request[d]
  BY <1>1 DEF About
<1>4. /\ \A i \in ScheduleIds : rowSpider'[i] = r => RowStays(i)
      /\ \A i \in ScheduleIds : rowStatus[i] # "none" /\ rowSpider[i] = r => RowStays(i)
  OBVIOUS
<1>5. ASSUME NEW d \in Clients, request[d].spider = r PROVE Current(request[d])'
  <2>1. Current(request[d]) /\ request'[d] = request[d]
    BY <1>1, <1>3, <1>5 DEF Tidy
  <2>2. HasRow(request[d]) => RowStays(request[d].row)
    BY <1>4, <1>5 DEF Inv, RequestRows, RequestRow
  <2>3. CASE request[d].pc = "commit" /\ request[d].op # "create"
    BY <2>1, <2>2, <2>3 DEF HasRow, Current, Committed, RowStays, InTable
  <2>4. CASE Committed(request[d])
    <3>1. RowStays(request[d].row)
      BY <2>2, <2>4 DEF HasRow, Committed
    <3>2. \A k \in ScheduleIds \ {request[d].row} :
             rowSpider'[k] = request[d].spider => ~InTable(k)'
      BY <1>4, <1>5, <2>1, <2>4 DEF Current, RowStays, InTable
    <3> QED
      BY <2>1, <2>4, <3>1, <3>2 DEF Current, RowStays, InTable, Committed
  <2> QED
    BY <2>1, <2>3, <2>4 DEF Current, Committed
<1>6. \A i, k \in ScheduleIds :
         rowSpider'[i] = r /\ rowSpider'[k] = r /\ InTable(i)' /\ InTable(k)' => i = k
  BY <1>1, <1>4 DEF Tidy, RowStays, InTable
<1>7. ASSUME NEW i \in ScheduleIds, rowStatus'[i] # "none", rowSpider'[i] = r,
             \A d \in Clients : ~Pending(d, r, i)'
      PROVE  jobs'[i] = ShownJob(i)'
  <2>1. RowStays(i)
    BY <1>4, <1>7
  <2>2. \A d \in Clients : ~Pending(d, r, i)
    BY <1>2, <1>3, <1>7 DEF Pending
  <2> QED
    BY <1>1, <1>7, <2>1, <2>2 DEF Tidy, RowStays, ShownJob
<1> QED
  BY <1>1, <1>2, <1>3, <1>5, <1>6, <1>7 DEF Tidy

\* What is left to show of the spider itself: the request is its only one.
LEMMA OwnStaysTidy ==
    ASSUME NEW c \in Clients, NEW s \in Spiders, About(c, s),
           \A d \in Clients \ {c} : request[d].spider # s,
           request'[c].spider = s => Current(request[c])',
           \A i, k \in ScheduleIds :
              rowSpider'[i] = s /\ rowSpider'[k] = s /\ InTable(i)' /\ InTable(k)' => i = k,
           \A i \in ScheduleIds :
              rowStatus'[i] # "none" /\ rowSpider'[i] = s /\ ~Pending(c, s, i)' =>
              jobs'[i] = ShownJob(i)'
    PROVE  Tidy(s)'
<1>1. \A d \in Clients : request'[d].spider = s => d = c
  BY DEF About
<1> QED
  BY <1>1 DEF Tidy

\* The same for a step that leaves rows and jobs alone and commits nothing.
LEMMA LookStaysTidy ==
    ASSUME NEW c \in Clients, NEW s \in Spiders, Tidy(s), About(c, s), UNCHANGED <<rows, scheduler>>,
           \A d \in Clients \ {c} : request[d].spider # s,
           request'[c].spider = s => Current(request[c])',
           \A i \in ScheduleIds : Pending(c, s, i) => Pending(c, s, i)'
    PROVE  Tidy(s)'
<1>1. \A i, k \in ScheduleIds :
         rowSpider'[i] = s /\ rowSpider'[k] = s /\ InTable(i)' /\ InTable(k)' => i = k
  BY DEF Tidy, rows, InTable
<1>2. ASSUME NEW i \in ScheduleIds, rowStatus'[i] # "none", rowSpider'[i] = s, ~Pending(c, s, i)'
      PROVE  jobs'[i] = ShownJob(i)'
  <2>1. \A d \in Clients : ~Pending(d, s, i)
    BY <1>2 DEF Pending
  <2> QED
    BY <1>2, <2>1 DEF Tidy, rows, scheduler, ShownJob
<1> QED
  BY <1>1, <1>2, OwnStaysTidy

\* A request that is not idle is about a spider, in a process that serves; the
\* only one about it, and what it remembers holds, unless it is tangled.
LEMMA RequestFacts ==
    ASSUME Inv, TidyInv, NEW c \in Clients, request[c].pc # "idle"
    PROVE  /\ serving
           /\ request[c].spider \in Spiders /\ request[c].spider # NoSpider
           /\ request[c].spider \notin tangled =>
                 /\ Tidy(request[c].spider)
                 /\ Current(request[c])
                 /\ \A d \in Clients \ {c} : request[d].spider # request[c].spider
           /\ HasRow(request[c]) => /\ request[c].row \in ScheduleIds
                                    /\ rowStatus[request[c].row] # "none"
                                    /\ rowSpider[request[c].row] = request[c].spider
<1>1. request[c].spider \in Spiders
  BY RequestFields DEF Inv
<1>2. serving
  BY DEF TidyInv, NoRequest
<1>3. request[c].spider # NoSpider
  BY <1>1, SchedulerAssumption DEF SchedulerAssumption
<1> QED
  BY <1>1, <1>2, <1>3 DEF TidyInv, Tidy, Inv, RequestRows, RequestRow

\* A request that arrives while another is about its spider tangles it.
LEMMA ArriveStaysTidy ==
    ASSUME Inv, TidyInv, NEW c \in Clients, ArriveCreate(c) \/ ArriveOther(c)
    PROVE  TidyInv'
<1>0. PICK s \in Spiders : \E op, i, cron : Arrive(c, op, s, i, cron)
  BY DEF ArriveCreate, ArriveOther, Inv, RowsHaveSpiders
<1>1. PICK op, i, cron : Arrive(c, op, s, i, cron)
  BY <1>0
<1>2. PICK r : r = [op |-> op, pc |-> IF op = "create" THEN "commit" ELSE "read",
                    spider |-> s, row |-> i, cron |-> cron, seen |-> NoCron]
  OBVIOUS
<1>3. request'[c] = r /\ \A d \in Clients \ {c} : request'[d] = request[d]
  BY <1>1, <1>2 DEF Arrive, Inv, TypeOK
<1>4. /\ UNCHANGED <<rows, scheduler>> /\ serving /\ serving'
      /\ tangled' = tangled \cup (IF InFlight(s) THEN {s} ELSE {})
  BY <1>1 DEF Arrive, Tangle
<1>5. About(c, s)
  BY <1>1, <1>2, <1>3 DEF About, Arrive, NoRequest
<1>6. ASSUME s \notin tangled' PROVE Tidy(s)'
  <2>1. Tidy(s) /\ \A d \in Clients : request[d].spider # s
    BY <1>4, <1>6 DEF TidyInv, InFlight
  <2>2. Current(request[c])'
    BY <1>2, <1>3 DEF Current, Committed
  <2> QED
    BY <1>4, <1>5, <2>1, <2>2, LookStaysTidy DEF Pending
<1>7. \A k \in ScheduleIds : RowStays(k)
  BY <1>4 DEF RowStays, rows, scheduler
<1> QED
  BY <1>4, <1>5, <1>6, <1>7, OthersStayTidy

\* The response to a request that has committed nothing; one that fails after
\* its commit tangles its spider.
LEMMA FinishStaysTidy ==
    ASSUME Inv, TidyInv, NEW c \in Clients, request[c].pc # "idle", Finish(c),
           UNCHANGED <<rows, scheduler, serving>>, tangled \subseteq tangled',
           Committed(request[c]) => request[c].spider \in tangled'
    PROVE  TidyInv'
<1> PICK s \in Spiders : s = request[c].spider
  BY RequestFacts
<1>1. /\ request'[c] = NoRequest /\ NoRequest.spider = NoSpider /\ s # NoSpider
      /\ \A d \in Clients \ {c} : request'[d] = request[d]
  BY RequestFacts DEF Finish, Inv, TypeOK, NoRequest
<1>2. About(c, s)
  BY <1>1 DEF About
<1>3. ASSUME s \notin tangled' PROVE Tidy(s)'
  <2>1. Tidy(s) /\ \A d \in Clients \ {c} : request[d].spider # s
    BY <1>3, RequestFacts
  <2>2. ~Committed(request[c])
    BY <1>3
  <2> QED
    BY <1>1, <1>2, <2>1, <2>2, LookStaysTidy DEF Pending
<1>4. \A k \in ScheduleIds : RowStays(k)
  BY DEF RowStays, rows, scheduler
<1> QED
  BY <1>2, <1>3, <1>4, RequestFacts, OthersStayTidy

LEMMA ReadStaysTidy ==
    ASSUME Inv, TidyInv, NEW c \in Clients, Read(c)
    PROVE  TidyInv'
<1>1. /\ request[c].pc = "read" /\ UNCHANGED <<rows, scheduler, serving, tangled>>
      /\ HasRow(request[c]) /\ ~Committed(request[c])
  BY DEF Read, HasRow, Committed
<1>2. CASE Finish(c)
  BY <1>1, <1>2, FinishStaysTidy
<1>3. CASE ~Finish(c)
  <2> PICK s \in Spiders, i \in ScheduleIds : s = request[c].spider /\ i = request[c].row
    BY <1>1, RequestFacts
  <2>1. PICK cron, seen :
           /\ InTable(i) /\ GoOn(c, "commit", cron, seen)
           /\ cron = IF request[c].op = "enable" THEN rowCron[i] ELSE request[c].cron
           /\ seen = IF request[c].op = "update" THEN rowCron[i] ELSE rowStatus[i]
    BY <1>3 DEF Read
  <2>2. /\ cron \in CronText \cup {NoCron} /\ seen \in CronText \cup RowStatus \cup {NoCron}
    BY <1>1, <2>1, RequestFields DEF Inv, TypeOK
  <2>3. /\ request'[c].row = i /\ request'[c].spider = s /\ request'[c].op = request[c].op
        /\ request'[c].pc = "commit" /\ request'[c].cron = cron /\ request'[c].seen = seen
        /\ \A d \in Clients \ {c} : request'[d] = request[d]
    BY <1>1, <2>1, <2>2, GoOnFacts DEF Inv
  <2>4. About(c, s)
    BY <2>3 DEF About
  <2>5. ASSUME s \notin tangled' PROVE Tidy(s)'
    <3>1. Tidy(s) /\ \A d \in Clients \ {c} : request[d].spider # s
      BY <1>1, <2>5, RequestFacts
    <3>2. Current(request[c])'
      BY <1>1, <2>1, <2>3 DEF Current, Committed, InTable, rows
    <3> QED
      BY <1>1, <2>4, <3>1, <3>2, LookStaysTidy DEF Pending
  <2>6. \A k \in ScheduleIds : RowStays(k)
    BY <1>1 DEF RowStays, rows, scheduler
  <2> QED
    BY <1>1, <2>4, <2>5, <2>6, RequestFacts, OthersStayTidy
<1> QED
  BY <1>2, <1>3

\* The row is as the request left it when it is loaded again.
LEMMA ReloadStaysTidy ==
    ASSUME Inv, TidyInv, NEW c \in Clients, Reload(c)
    PROVE  TidyInv'
<1>1. /\ request[c].pc = "reload" /\ UNCHANGED <<rows, scheduler, serving, tangled>>
      /\ HasRow(request[c]) /\ Committed(request[c])
  BY DEF Reload, HasRow, Committed
<1> PICK s \in Spiders, i \in ScheduleIds : s = request[c].spider /\ i = request[c].row
  BY <1>1, RequestFacts
<1>2. \A k \in ScheduleIds : RowStays(k)
  BY <1>1 DEF RowStays, rows, scheduler
<1>3. CASE Finish(c) /\ ~InTable(i)
  <2>1. /\ request'[c] = NoRequest /\ NoRequest.spider = NoSpider
        /\ \A d \in Clients \ {c} : request'[d] = request[d]
    BY <1>3 DEF Finish, Inv, TypeOK, NoRequest
  <2>2. About(c, s)
    BY <2>1 DEF About
  <2>3. ASSUME s \notin tangled' PROVE Tidy(s)'
    <3>1. Tidy(s) /\ \A d \in Clients \ {c} : request[d].spider # s
      BY <1>1, <2>3, RequestFacts
    <3>2. Current(request[c])
      BY <1>1, <2>3, RequestFacts
    <3> QED
      BY <1>1, <1>3, <3>2 DEF Current, InTable
  <2> QED
    BY <1>1, <1>2, <2>2, <2>3, RequestFacts, OthersStayTidy
<1>4. ASSUME InTable(i),
             GoOn(c, "apply", IF request[c].op = "update" THEN rowCron[i] ELSE request[c].cron,
                  request[c].seen)
      PROVE  TidyInv'
  <2>1. PICK cron : cron = IF request[c].op = "update" THEN rowCron[i] ELSE request[c].cron
    OBVIOUS
  <2>2. /\ cron \in CronText \cup {NoCron}
        /\ request[c].seen \in CronText \cup RowStatus \cup {NoCron}
    <3>1. request[c] \in Request \ {NoRequest} /\ request[c].cron \in CronText \cup {NoCron}
      BY <1>1, RequestFields DEF Inv
    <3> QED
      BY <2>1, <3>1 DEF Inv, TypeOK, Request
  <2>3. /\ request'[c].row = i /\ request'[c].spider = s /\ request'[c].op = request[c].op
        /\ request'[c].pc = "apply" /\ request'[c].cron = cron
        /\ \A d \in Clients \ {c} : request'[d] = request[d]
    BY <1>1, <1>4, <2>1, <2>2, GoOnFacts DEF Inv
  <2>4. About(c, s)
    BY <2>3 DEF About
  <2>5. ASSUME s \notin tangled' PROVE Tidy(s)'
    <3>1. /\ Tidy(s) /\ Current(request[c])
          /\ \A d \in Clients \ {c} : request[d].spider # s
      BY <1>1, <2>5, RequestFacts
    <3>2. Current(request[c])'
      BY <1>1, <2>1, <2>3, <3>1 DEF Current, Committed, InTable, rows
    <3> QED
      BY <1>1, <2>3, <2>4, <3>1, <3>2, LookStaysTidy DEF Pending, Committed
  <2> QED
    BY <1>1, <1>2, <2>4, <2>5, RequestFacts, OthersStayTidy
<1> QED
  BY <1>3, <1>4 DEF Reload

\* A row that is created beside another of its spider tangles the spider.
LEMMA CreateStaysTidy ==
    ASSUME Inv, TidyInv, NEW c \in Clients, CommitCreate(c)
    PROVE  TidyInv'
<1>1. /\ request[c].pc = "commit" /\ request[c].op = "create"
      /\ UNCHANGED <<scheduler, serving>>
  BY DEF CommitCreate
<1> PICK s \in Spiders : s = request[c].spider
  BY <1>1, RequestFacts
<1>2. PICK i \in ScheduleIds :
         /\ rowStatus[i] = "none"
         /\ rowSpider' = [rowSpider EXCEPT ![i] = s]
         /\ rowCron' = [rowCron EXCEPT ![i] = request[c].cron]
         /\ rowStatus' = [rowStatus EXCEPT ![i] = "enabled"]
         /\ request' = [request EXCEPT ![c] = [@ EXCEPT !.pc = "reload", !.row = i]]
  <2>1. \A i \in ScheduleIds : ~(i < i)
    BY SchedulerAssumption DEF SchedulerAssumption, ScheduleIds
  <2> QED
    BY <2>1 DEF CommitCreate
<1>3. tangled' = tangled \cup (IF \E k \in ScheduleIds : InTable(k) /\ rowSpider[k] = s
                               THEN {s} ELSE {})
  BY DEF CommitCreate, Tangle
<1>4. PICK r \in Request \ {NoRequest} : r = request[c]
  BY <1>1, RequestFields DEF Inv
<1>5. PICK q : q = [r EXCEPT !.pc = "reload", !.row = i]
  OBVIOUS
<1>6. /\ q.row = i /\ q.spider = r.spider /\ q.op = r.op /\ q.cron = r.cron /\ q.pc = "reload"
      /\ request'[c] = q
      /\ \A d \in Clients \ {c} : request'[d] = request[d]
  BY <1>2, <1>4, <1>5 DEF Request, Inv, TypeOK
<1>7. About(c, s)
  BY <1>4, <1>6 DEF About
<1>8. /\ rowSpider'[i] = s /\ rowCron'[i] = request[c].cron /\ rowStatus'[i] = "enabled"
      /\ \A k \in ScheduleIds \ {i} : RowStays(k)
  BY <1>1, <1>2 DEF Inv, TypeOK, RowStays, scheduler
<1>9. ASSUME s \notin tangled' PROVE Tidy(s)'
  <2>1. Tidy(s) /\ \A d \in Clients \ {c} : request[d].spider # s
    BY <1>1, <1>3, <1>9, RequestFacts
  <2>2. \A k \in ScheduleIds : rowSpider[k] = s => ~InTable(k)
    BY <1>3, <1>9
  <2>3. \A k \in ScheduleIds \ {i} : rowSpider'[k] = s => ~InTable(k)'
    BY <1>8, <2>2 DEF RowStays, InTable
  <2>4. Current(request[c])'
    BY <1>1, <1>4, <1>6, <1>8, <2>3 DEF Current, Committed, InTable
  <2>5. ASSUME NEW k \in ScheduleIds, rowStatus'[k] # "none", rowSpider'[k] = s,
               ~Pending(c, s, k)'
        PROVE  jobs'[k] = ShownJob(k)'
    <3>1. k # i
      BY <1>4, <1>6, <2>5 DEF Pending, Committed
    <3>2. \A d \in Clients : ~Pending(d, s, k)
      BY <1>1, <2>1 DEF Pending, Committed
    <3> QED
      BY <1>8, <2>1, <2>5, <3>1, <3>2 DEF Tidy, RowStays, ShownJob
  <2> QED
    BY <1>7, <2>1, <2>3, <2>4, <2>5, OwnStaysTidy
<1> QED
  BY <1>1, <1>2, <1>3, <1>7, <1>8, <1>9, RequestFacts, OthersStayTidy

\* update, delete, enable and disable write to the one row of their spider.
LEMMA WriteStaysTidy ==
    ASSUME Inv, TidyInv, NEW c \in Clients, CommitUpdate(c) \/ CommitDelete(c) \/ CommitStatus(c)
    PROVE  TidyInv'
<1>1. /\ request[c].pc = "commit" /\ request[c].op # "create"
      /\ UNCHANGED <<rowSpider, scheduler, serving, tangled>>
      /\ HasRow(request[c]) /\ ~Committed(request[c])
  BY DEF CommitUpdate, CommitDelete, CommitStatus, HasRow, Committed
<1> PICK s \in Spiders, i \in ScheduleIds : s = request[c].spider /\ i = request[c].row
  BY <1>1, RequestFacts
<1>2. rowSpider[i] = s /\ rowStatus[i] # "none"
  BY <1>1, RequestFacts
<1>3. \A k \in ScheduleIds \ {i} : RowStays(k)
  BY <1>1 DEF CommitUpdate, CommitDelete, CommitStatus, RowStays, scheduler, Inv, TypeOK
<1>4. /\ request'[c] = NoRequest
         \/ /\ request'[c].row = i /\ request'[c].spider = s /\ request'[c].op = request[c].op
            /\ request'[c].cron = request[c].cron
            /\ request'[c].pc = IF request[c].op = "update" THEN "reload" ELSE "apply"
      /\ \A d \in Clients \ {c} : request'[d] = request[d]
  <2>1. CASE Finish(c)
    BY <2>1 DEF Finish, Inv, TypeOK
  <2>2. CASE ~Finish(c)
    <3>1. /\ CommitUpdate(c) => Await(c, "reload")
          /\ CommitDelete(c) \/ CommitStatus(c) => Await(c, "apply")
      BY <2>2 DEF CommitUpdate, CommitDelete, CommitStatus
    <3> QED
      BY <1>1, <3>1, AwaitFacts DEF CommitUpdate, CommitDelete, CommitStatus, Inv
  <2> QED
    BY <2>1, <2>2
<1>5. About(c, s)
  BY <1>4 DEF About, NoRequest
<1>6. ASSUME s \notin tangled' PROVE Tidy(s)'
  <2>1. /\ Tidy(s) /\ Current(request[c])
        /\ \A d \in Clients \ {c} : request[d].spider # s
    BY <1>1, <1>6, RequestFacts
  <2>2. InTable(i) /\ \A k \in ScheduleIds \ {i} : rowSpider[k] = s => ~InTable(k)
    BY <1>1, <1>2, <2>1 DEF Current, Tidy
  <2>3. \A k \in ScheduleIds \ {i} : rowSpider'[k] = s => ~InTable(k)'
    BY <1>3, <2>2 DEF RowStays, InTable
  <2>4. /\ request'[c].row = i /\ request'[c].spider = s /\ request'[c].op = request[c].op
        /\ request'[c].cron = request[c].cron
        /\ request'[c].pc = IF request[c].op = "update" THEN "reload" ELSE "apply"
    <3>1. /\ CommitUpdate(c) => Await(c, "reload")
          /\ CommitDelete(c) \/ CommitStatus(c) => Await(c, "apply")
      BY <2>2 DEF CommitUpdate, CommitDelete, CommitStatus
    <3> QED
      BY <1>1, <3>1, AwaitFacts DEF CommitUpdate, CommitDelete, CommitStatus, Inv
  <2>5. /\ request[c].op \in {"update", "delete", "enable", "disable"}
        /\ request[c].op = "update" => rowStatus'[i] = rowStatus[i]
        /\ request[c].op = "delete" => rowStatus'[i] = "deleted"
        /\ request[c].op = "disable" => rowStatus'[i] = "disabled"
        /\ request[c].op = "enable" =>
              rowStatus'[i] = "enabled" /\ rowCron'[i] = request[c].cron
    <3>1. CASE CommitUpdate(c) \/ CommitDelete(c)
      BY <3>1 DEF CommitUpdate, CommitDelete, Inv, TypeOK
    <3>2. CASE CommitStatus(c)
      BY <1>1, <2>1, <2>2, <3>2 DEF CommitStatus, Current, Inv, TypeOK
    <3> QED
      BY <3>1, <3>2
  <2>6. Current(request[c])'
    BY <2>2, <2>3, <2>4, <2>5 DEF Current, Committed, InTable
  <2>7. ASSUME NEW k \in ScheduleIds, rowStatus'[k] # "none", rowSpider'[k] = s,
               ~Pending(c, s, k)'
        PROVE  jobs'[k] = ShownJob(k)'
    <3>1. k # i
      BY <2>4, <2>7 DEF Pending, Committed
    <3>2. \A d \in Clients : ~Pending(d, s, k)
      BY <1>1, <2>1 DEF Pending
    <3> QED
      BY <1>3, <2>1, <2>7, <3>1, <3>2 DEF Tidy, RowStays, ShownJob
  <2> QED
    BY <1>5, <2>1, <2>3, <2>6, <2>7, OwnStaysTidy
<1>7. RowStays(i) \/ rowSpider'[i] = s
  BY <1>1, <1>2
<1> QED
  BY <1>1, <1>2, <1>3, <1>5, <1>6, <1>7, RequestFacts, OthersStayTidy

\* What the scheduler is told is what the row says, and it leaves no other row
\* of the spider with a job.
LEMMA ApplyStaysTidy ==
    ASSUME Inv, MapInv, TidyInv, NEW c \in Clients, Apply(c)
    PROVE  MapInv' /\ TidyInv'
<1>1. /\ request[c].pc = "apply" /\ UNCHANGED <<rows, serving>>
      /\ HasRow(request[c]) /\ Committed(request[c])
  BY DEF Apply, HasRow, Committed
<1> PICK s \in Spiders, i \in ScheduleIds : s = request[c].spider /\ i = request[c].row
  BY <1>1, RequestFacts
<1> PICK cron : cron = request[c].cron
  OBVIOUS
<1>2. rowSpider[i] = s /\ rowStatus[i] # "none"
  BY <1>1, RequestFacts
<1>3. \/ request[c].op \in {"create", "update", "enable"} /\ AddSchedule(s, cron, i)
      \/ request[c].op \in {"delete", "disable"} /\ RemoveSchedule(s)
  BY DEF Apply
<1>4. /\ \A k \in ScheduleIds : rowSpider[k] # s => jobs'[k] = jobs[k]
      /\ \A k \in ScheduleIds \ {i} : rowSpider[k] = s => jobs'[k] = NoCron
      /\ jobMap'[s] \in {i, NoJob}
      /\ \A r \in Spiders \ {s} : jobMap'[r] = jobMap[r]
      /\ AddSchedule(s, cron, i) => jobs'[i] = IF cron \in Crons THEN cron ELSE NoCron
      /\ RemoveSchedule(s) => jobs'[i] = NoCron
  BY <1>2, <1>3, SchedulerEffect DEF Inv
<1>5. MapInv'
  <2>1. i \notin Spiders /\ NoJob \notin ScheduleIds \cup Spiders
    BY SchedulerAssumption DEF SchedulerAssumption, JobIds
  <2> QED
    BY <1>1, <1>2, <1>4, <2>1 DEF MapInv, rows
<1>6. /\ request'[c] = NoRequest /\ NoRequest.spider = NoSpider /\ s # NoSpider
      /\ \A d \in Clients \ {c} : request'[d] = request[d]
  BY <1>1, RequestFacts DEF Apply, Finish, Inv, TypeOK, NoRequest
<1>7. About(c, s)
  BY <1>6 DEF About
<1>8. /\ tangled \subseteq tangled'
      /\ s \notin tangled' => ~(request[c].op = "update" /\ rowStatus[i] = "disabled")
  BY DEF Apply, Tangle
<1>9. ASSUME s \notin tangled' PROVE Tidy(s)'
  <2>1. /\ Tidy(s) /\ Current(request[c])
        /\ \A d \in Clients \ {c} : request[d].spider # s
    BY <1>1, <1>8, <1>9, RequestFacts
  <2>2. \A k \in ScheduleIds \ {i} : rowSpider[k] = s => ~InTable(k)
    BY <1>1, <2>1 DEF Current
  <2>3. \A k, m \in ScheduleIds :
           rowSpider'[k] = s /\ rowSpider'[m] = s /\ InTable(k)' /\ InTable(m)' => k = m
    BY <1>1, <2>2 DEF rows, InTable
  <2>4. jobs'[i] = ShownJob(i)
    <3>1. CASE request[c].op \in {"create", "update", "enable"} /\ AddSchedule(s, cron, i)
      <4>1. rowStatus[i] = "enabled" /\ rowCron[i] = cron
        BY <1>1, <1>8, <1>9, <2>1, <3>1 DEF Current, InTable
      <4> QED
        BY <1>4, <3>1, <4>1 DEF ShownJob
    <3>2. CASE request[c].op \in {"delete", "disable"} /\ RemoveSchedule(s)
      <4>1. rowStatus[i] # "enabled"
        BY <1>1, <2>1, <3>2 DEF Current
      <4> QED
        BY <1>4, <3>2, <4>1 DEF ShownJob
    <3> QED
      BY <1>3, <3>1, <3>2
  <2>5. \A k \in ScheduleIds \ {i} : rowSpider[k] = s => jobs'[k] = ShownJob(k)
    BY <1>4, <2>2 DEF ShownJob, InTable
  <2>6. \A k \in ScheduleIds : rowSpider'[k] = s => jobs'[k] = ShownJob(k)'
    BY <1>1, <2>4, <2>5 DEF rows, ShownJob
  <2> QED
    BY <1>6, <1>7, <2>1, <2>3, <2>6, OwnStaysTidy
<1>10. \A k \in ScheduleIds : RowStays(k) \/ (rowSpider'[k] = s /\ rowSpider[k] = s)
  BY <1>1, <1>4 DEF RowStays, rows
<1> QED
  BY <1>1, <1>5, <1>7, <1>8, <1>9, <1>10, RequestFacts, OthersStayTidy

\* A select that succeeds at start-up gives every spider with at most one row
\* in the table the job of that row.
LEMMA BootStaysTidy ==
    ASSUME Inv, TidyInv, Boot
    PROVE  MapInv' /\ TidyInv'
<1> USE SchedulerAssumption DEF SchedulerAssumption
<1>1. /\ UNCHANGED <<rows, request>> /\ serving' = TRUE /\ ~serving
      /\ \A c \in Clients : request[c] = NoRequest
  BY DEF Boot, TidyInv
<1>2. PICK loaded \in BOOLEAN :
         /\ SyncSchedules(loaded)
         /\ tangled' = IF loaded THEN {s \in Spiders : Shared(s)} ELSE Spiders
  BY DEF Boot
<1>3. PICK last \in [Spiders -> JobIds] :
         /\ \A s \in Spiders :
               LET on == {i \in ScheduleIds :
                             loaded /\ rowStatus[i] = "enabled" /\ rowSpider[i] = s}
               IN  last[s] \in IF on = {} THEN {s} ELSE on
         /\ jobMap' = [s \in Spiders |-> IF CronOf(last[s]) \in Crons THEN last[s] ELSE NoJob]
         /\ jobs' = [j \in JobIds |->
                       IF \E s \in Spiders : jobMap'[s] = j THEN CronOf(j) ELSE NoCron]
  BY <1>2 DEF SyncSchedules
<1>4. \A s \in Spiders :
         \/ last[s] = s
         \/ last[s] \in ScheduleIds /\ rowStatus[last[s]] = "enabled" /\ rowSpider[last[s]] = s
  BY <1>3
<1>5. MapInv'
  BY <1>1, <1>3, <1>4 DEF MapInv, rows, JobIds
<1>6. ASSUME NEW s \in Spiders \ tangled' PROVE Tidy(s)'
  <2>1. loaded /\ ~Shared(s)
    BY <1>2, <1>6
  <2>2. ASSUME NEW i \in ScheduleIds, NEW k \in ScheduleIds,
               rowSpider[i] = s, rowSpider[k] = s, InTable(i), InTable(k)
        PROVE  i = k
    <3>1. PICK S : S = {m \in ScheduleIds : InTable(m) /\ rowSpider[m] = s}
      OBVIOUS
    <3>2. IsFiniteSet(S) /\ {i, k} \subseteq S
      <4>1. IsFiniteSet(ScheduleIds)
        BY FS_Interval DEF ScheduleIds
      <4> QED
        BY <2>2, <3>1, <4>1, FS_Subset
    <3>3. Cardinality({i, k}) <= Cardinality(S) /\ Cardinality(S) \in Nat
      BY <3>2, FS_Subset, FS_CardinalityType
    <3>4. Cardinality(S) <= 1
      BY <2>1, <3>1, <3>3 DEF Shared
    <3>5. i # k => Cardinality({i, k}) = 2
      <4>1. i # k => Cardinality({i} \cup {k}) = Cardinality({i}) + 1
        BY FS_Singleton, FS_AddElement
      <4>2. Cardinality({i}) = 1 /\ {i, k} = {i} \cup {k}
        BY FS_Singleton
      <4> QED
        BY <4>1, <4>2
    <3> QED
      BY <3>3, <3>4, <3>5
  <2>3. ASSUME NEW i \in ScheduleIds, rowSpider[i] = s PROVE jobs'[i] = ShownJob(i)
    <3>1. CronOf(i) = rowCron[i] /\ i \in JobIds /\ NoJob # i
      BY DEF CronOf, JobIds
    <3>2. \A r \in Spiders : jobMap'[r] = i => r = s /\ last[s] = i
      BY <1>3, <1>4, <2>3, <3>1
    <3>3. CASE rowStatus[i] = "enabled"
      <4>1. last[s] = i
        <5>1. \A k \in ScheduleIds : rowStatus[k] = "enabled" /\ rowSpider[k] = s => k = i
          BY <2>2, <2>3, <3>3 DEF InTable
        <5> QED
          BY <1>3, <2>1, <2>3, <3>3, <5>1
      <4>2. jobMap'[s] = i <=> rowCron[i] \in Crons
        BY <1>3, <3>1, <4>1
      <4> QED
        BY <1>3, <3>1, <3>2, <3>3, <4>2 DEF ShownJob
    <3>4. CASE rowStatus[i] # "enabled"
      <4>1. last[s] # i
        BY <1>4, <3>4
      <4> QED
        BY <1>3, <3>1, <3>2, <3>4, <4>1 DEF ShownJob
    <3> QED
      BY <3>3, <3>4
  <2>4. \A c \in Clients : request'[c].spider # s
    BY <1>1 DEF NoRequest
  <2> QED
    BY <1>1, <2>2, <2>3, <2>4 DEF Tidy, rows, InTable, ShownJob
<1> QED
  BY <1>1, <1>5, <1>6 DEF TidyInv

\* MapInv and TidyInv hold in every state.
LEMMA AlwaysTidy == Spec => [](MapInv /\ TidyInv)
<1>1. Init => MapInv /\ TidyInv
  BY SchedulerAssumption DEF SchedulerAssumption, Init, MapInv, TidyInv, JobIds
<1>2. Inv /\ MapInv /\ TidyInv /\ [Next]_vars => MapInv' /\ TidyInv'
  <2> SUFFICES ASSUME Inv, MapInv, TidyInv, [Next]_vars PROVE MapInv' /\ TidyInv'
    OBVIOUS
  <2>1. ASSUME NEW c \in Clients, ArriveCreate(c) \/ ArriveOther(c) PROVE MapInv' /\ TidyInv'
    <3>1. UNCHANGED <<rows, scheduler>>
      BY <2>1 DEF ArriveCreate, ArriveOther, Arrive
    <3>2. MapInv'
      BY <3>1 DEF MapInv, rows, scheduler
    <3> QED
      BY <2>1, <3>2, ArriveStaysTidy
  <2>2. ASSUME NEW c \in Clients, Read(c) \/ Reload(c) \/ RequestFails(c)
        PROVE  MapInv' /\ TidyInv'
    <3>1. UNCHANGED <<rows, scheduler>>
      BY <2>2 DEF Read, Reload, RequestFails
    <3>2. MapInv'
      BY <3>1 DEF MapInv, rows, scheduler
    <3>3. RequestFails(c) => TidyInv'
      BY FinishStaysTidy DEF RequestFails, Tangle, Committed
    <3> QED
      BY <2>2, <3>2, <3>3, ReadStaysTidy, ReloadStaysTidy
  <2>3. ASSUME NEW c \in Clients,
               CommitCreate(c) \/ CommitUpdate(c) \/ CommitDelete(c) \/ CommitStatus(c)
        PROVE  MapInv' /\ TidyInv'
    <3>1. MapInv'
      <4>1. /\ UNCHANGED jobMap
            /\ \A i \in ScheduleIds :
                  rowStatus[i] # "none" => rowStatus'[i] # "none" /\ rowSpider'[i] = rowSpider[i]
        <5>1. CASE CommitCreate(c)
          <6>1. \A i \in ScheduleIds : ~(i < i)
            BY SchedulerAssumption DEF SchedulerAssumption, ScheduleIds
          <6>2. PICK i \in ScheduleIds :
                   /\ rowStatus[i] = "none"
                   /\ rowSpider' = [rowSpider EXCEPT ![i] = request[c].spider]
                   /\ rowStatus' = [rowStatus EXCEPT ![i] = "enabled"]
            BY <5>1, <6>1 DEF CommitCreate
          <6> QED
            BY <5>1, <6>2 DEF CommitCreate, scheduler, Inv, TypeOK
        <5>2. CASE CommitUpdate(c)
          BY <5>2 DEF CommitUpdate, scheduler
        <5>3. CASE CommitDelete(c)
          BY <5>3 DEF CommitDelete, scheduler, Inv, TypeOK
        <5>4. CASE CommitStatus(c)
          BY <5>4 DEF CommitStatus, scheduler, Inv, TypeOK
        <5> QED
          BY <2>3, <5>1, <5>2, <5>3, <5>4
      <4> QED
        BY <4>1 DEF MapInv
    <3> QED
      BY <2>3, <3>1, CreateStaysTidy, WriteStaysTidy
  <2>4. CASE Crash
    BY <2>4, SchedulerAssumption DEF SchedulerAssumption, Crash, MapInv, TidyInv, JobIds
  <2>5. CASE UNCHANGED vars \/ \E s \in Spiders : Reregister(s)
    <3>1. UNCHANGED <<rows, scheduler, request, serving, tangled>>
      BY <2>5 DEF vars, Reregister, rows, scheduler
    <3> QED
      BY <3>1 DEF MapInv, TidyInv, Tidy, Current, Committed, Pending, ShownJob, InTable, rows,
                  scheduler
  <2> QED
    BY <2>1, <2>2, <2>3, <2>4, <2>5, ApplyStaysTidy, BootStaysTidy DEF Next, RequestStep
<1> QED
  BY <1>1, <1>2, AlwaysInv, PTL DEF Spec

\* A spider with one schedule, used one request at a time, has the job its row
\* asks for and no other row of it has one, through updates, failures, crashes
\* and restarts, for any number of spiders, schedules and clients.
THEOREM ScheduledCorrect == Spec => []ScheduledAsShown
<1>1. Inv /\ TidyInv => ScheduledAsShown
  BY DEF Inv, RowsHaveSpiders, TidyInv, Tidy, Pending, InFlight, ShownJob, ScheduledAsShown
<1> QED
  BY <1>1, AlwaysInv, AlwaysTidy, PTL
=============================================================================
