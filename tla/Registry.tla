------------------------------ MODULE Registry ------------------------------
(***************************************************************************)
(* The spider registry (core/registry.py), the spider files it is filled   *)
(* from, the rows of the spiders table, and whoever changes them: the      *)
(* routes of api/routes.py, the file watcher and the start-up of           *)
(* core/engine.py, and the operator who edits files beside the server.     *)
(*                                                                         *)
(* Two threads change the registry, the event loop and the watcher, and    *)
(* neither takes a lock: what they do to its dictionaries is modelled one  *)
(* look-up and one assignment at a time.  Besides, a request is modelled   *)
(* from await to await.  The static checks of core/sandbox.py and of the   *)
(* registry are a property of the content of a file.  Of a row its name    *)
(* counts: who owns a spider and may see it decides nothing here.          *)
(***************************************************************************)
EXTENDS Integers, Sequences, FiniteSets, SequencesExt

CONSTANTS
    Files,        \* names of files in settings.spiders_dir
    Hidden,       \* ... of which begin with an underscore
    Names,        \* names of spiders
    Contents,     \* what a file may hold, records of ContentType
    Clients,      \* requests that may be in flight at once
    MaxRows,      \* bound: rows of one name in the spiders table
    MaxStimuli,   \* bound: requests other than deletions, edits and restarts
    NoFile, NoClass, NoName

\* What a file holds: the spider classes in the order of dir(), and whether
\* every check lets it pass, only that of a scan does, or none.
ContentType == [defines : Seq(Names), check : {"passes", "scanOnly", "refused"}]

ASSUME RegistryAssumption ==
    /\ Hidden \subseteq Files
    /\ \A c \in Contents : c \in ContentType
    /\ MaxRows \in Nat /\ MaxStimuli \in Nat
    /\ NoFile \notin Contents /\ NoName \notin Names
    /\ \A f \in Files, c \in Contents : NoClass # [file |-> f, content |-> c]

VARIABLES
    phase,        \* the server is down, starting or serving
    disk,         \* what each file holds
    registry,     \* SpiderRegistry: _spiders and _file_map
    job,          \* the load, or the unregister, each thread is at
    rows,         \* how many rows the spiders table has of each name
    runners,      \* the number of the runner that engine._runners has of a name
    live,         \* the runners that run
    watch,        \* files with an event the watcher has not handled
    call,         \* the requests in flight
    stimuli,      \* requests other than deletions, edits and restarts so far
    \* History.
    missed,       \* files the registry may be behind: changed without an event,
                  \* not loaded to the end, or loaded by the watcher while the
                  \* event loop was loading what they held before
    torn,         \* spiders both threads were at work on at once, or whose
                  \* unregister broke off, and not loaded properly since
    raced,        \* two listings found spiders without rows at the same time
    startRaced    \* spiders started twice at once, or while they were deleted

fileVars == <<disk, watch, missed>>

runVars == <<runners, live, startRaced>>

vars == <<phase, fileVars, registry, job, torn, rows, raced, runVars, call, stimuli>>

\* Start-up and watcher name a file relative to the working directory, the
\* routes by its resolved path.
Keys == Files \X {"relative", "resolved"}

Threads == {"watcher", "loop"}

KindOf(t) == IF t = "watcher" THEN "relative" ELSE "resolved"

Other(t) == IF t = "watcher" THEN "loop" ELSE "watcher"

Class == [file : Files, content : Contents]

\* The classes a load has yet to register, the first of which it is at; an
\* unregister is from no class.
Job == [at : {"none", "check", "forget", "class", "path"}, from : Class \cup {NoClass},
        todo : Seq(Names), old : SUBSET Keys]

NoJob == [at |-> "none", from |-> NoClass, todo |-> <<>>, old |-> {}]

Idle == [at |-> "idle", names |-> {}, run |-> 0]

Call == [at : {"idle", "insert", "start", "stopping"}, names : SUBSET Names, run : Nat]

Empty == [classes |-> [n \in Names |-> NoClass], paths |-> [k \in Keys |-> NoName]]

Registered(r) == {n \in Names : r.classes[n] # NoClass}

KeysOf(n) == {k \in Keys : registry.paths[k] = n}

Rowless == {n \in Registered(registry) : rows[n] = 0}

Twins(n) == rows[n] > 1

Runs(n) == <<n, runners[n]>> \in live

\* A request, an edit or a restart happens.  (Deletions are not counted.)
Stimulus == stimuli < MaxStimuli /\ stimuli' = stimuli + 1

-----------------------------------------------------------------------------
(* The registry and its threads.                                           *)

\* register_file raises unless all checks pass and the module can be imported.
Registrable(content) == content # NoFile /\ content.check = "passes"

Begins(t, f, content) ==
    job' = [job EXCEPT ![t] =
        IF content.defines = <<>> THEN NoJob
        ELSE [at |-> "check", from |-> [file |-> f, content |-> content],
              todo |-> content.defines, old |-> {}]]

Spider(t) == Head(job[t].todo)

Unregisters(t) == job[t] # NoJob /\ job[t].from = NoClass

\* Thread t has looked up spider n and is not done with it.
WorksOn(t, n) == job[t] # NoJob /\ Spider(t) = n /\ (job[t].at # "check" \/ Unregisters(t))

Loads(t, f) == job[t].from # NoClass /\ job[t].from.file = f

\* Mutant of OldKeys: to unregister a spider does not forget its paths.
OldKeysOfLoads(t) ==
    IF Spider(t) \in Registered(registry) THEN KeysOf(Spider(t)) ELSE {}

\* The paths to forget: a load asks whether the spider is registered, an
\* unregister has done so.
OldKeys(t) ==
    IF Unregisters(t) \/ Spider(t) \in Registered(registry) THEN KeysOf(Spider(t)) ELSE {}

\* Paths are left to forget, or that is all, or the class is registered next.
Forgets(t, old) ==
    job' = [job EXCEPT ![t] =
        IF old # {} THEN [job[t] EXCEPT !.at = "forget", !.old = old]
        ELSE IF Unregisters(t) THEN NoJob
        ELSE [job[t] EXCEPT !.at = "class", !.old = {}]]

\* _load_file and unregister: the paths of the spider are listed.
Check(t) ==
    /\ job[t].at = "check"
    /\ Forgets(t, OldKeys(t))
    /\ torn' = IF WorksOn(Other(t), Spider(t)) THEN torn \cup {Spider(t)} ELSE torn
    /\ UNCHANGED <<phase, fileVars, registry, rows, raced, runVars, call, stimuli>>

\* One of them is deleted.
Forget(t) ==
    /\ job[t].at = "forget"
    /\ \E k \in job[t].old :
          /\ registry.paths[k] # NoName
          /\ registry' = [registry EXCEPT !.paths[k] = NoName]
          /\ Forgets(t, job[t].old \ {k})
    /\ UNCHANGED <<phase, fileVars, torn, rows, raced, runVars, call, stimuli>>

\* The other thread has changed the dictionary that is being listed, or deleted
\* the path: the load ends in an exception that no caller makes up for, and so
\* does an unregister.
BreaksOff(t) ==
    /\ \/ job[t].at = "check" /\ job[Other(t)] # NoJob
       \/ job[t].at = "forget" /\ \E k \in job[t].old : registry.paths[k] = NoName
    /\ job' = [job EXCEPT ![t] = NoJob]
    /\ IF Unregisters(t) THEN torn' = torn \cup {Spider(t)} /\ UNCHANGED missed
       ELSE missed' = missed \cup {job[t].from.file} /\ UNCHANGED torn
    /\ UNCHANGED <<phase, disk, watch, registry, rows, raced, runVars, call, stimuli>>

\* The class is registered, over one of the same name from wherever.
SetClass(t) ==
    /\ job[t].at = "class"
    /\ registry' = [registry EXCEPT !.classes[Spider(t)] = job[t].from]
    /\ job' = [job EXCEPT ![t].at = "path"]
    /\ torn' = IF KeysOf(Spider(t)) = {} /\ ~WorksOn(Other(t), Spider(t)) THEN torn \ {Spider(t)}
               ELSE torn
    /\ UNCHANGED <<phase, fileVars, rows, raced, runVars, call, stimuli>>

\* The path is mapped to it; the next class follows.
SetPath(t) ==
    /\ job[t].at = "path"
    /\ registry' = [registry EXCEPT !.paths[<<job[t].from.file, KindOf(t)>>] = Spider(t)]
    /\ job' = [job EXCEPT ![t] = IF Tail(job[t].todo) = <<>> THEN NoJob
                                 ELSE [job[t] EXCEPT !.at = "check", !.todo = Tail(job[t].todo)]]
    /\ UNCHANGED <<phase, fileVars, torn, rows, raced, runVars, call, stimuli>>

JobStep(t) == Check(t) \/ Forget(t) \/ BreaksOff(t) \/ SetClass(t) \/ SetPath(t)

\* scan_directory, which loads the files in an order of its own: a spider has
\* the class of the last file that defines it, and a file keeps its path if it
\* is the last that defines the spider of the path.
Scan(held, order) ==
    LET defines(i, n) == n \in ToSet(held[order[i]].defines)
        last(i, n)    == /\ defines(i, n)
                         /\ \A j \in DOMAIN order : j > i => ~defines(j, n)
        from(n)       == {order[i] : i \in {j \in DOMAIN order : last(j, n)}}
        named(k)      == {n \in Names : \E i \in DOMAIN order :
                              /\ k = <<order[i], "relative">> /\ last(i, n)
                              /\ n = Last(held[order[i]].defines)}
    IN  [classes |-> [n \in Names |->
            IF from(n) = {} THEN NoClass
            ELSE LET f == CHOOSE f \in from(n) : TRUE IN [file |-> f, content |-> held[f]]],
         paths |-> [k \in Keys |->
            IF named(k) = {} THEN NoName ELSE CHOOSE n \in named(k) : TRUE]]

Scannable ==
    {f \in Files \ Hidden : disk[f] # NoFile /\ disk[f].check # "refused"}

-----------------------------------------------------------------------------
(* The life of the server.                                                 *)

\* Engine.initialize begins: the directory is scanned, by nobody else yet.
StartUp ==
    /\ phase = "down" /\ Stimulus
    /\ phase' = "starting"
    /\ \E order \in SetToSeqs(Scannable) : registry' = Scan(disk, order)
    /\ missed' = {}
    /\ UNCHANGED <<disk, watch, job, torn, rows, raced, runVars, call>>

\* A row more for each of the spiders.
WithRows(names) == [n \in Names |-> IF n \in names THEN rows[n] + 1 ELSE rows[n]]

RoomFor(names) == \A n \in names : rows[n] < MaxRows

\* Mutant of SyncSpiders: the rows are not looked up.
SyncSpidersBlindly ==
    /\ phase = "starting" /\ RoomFor(Registered(registry))
    /\ phase' = "serving" /\ rows' = WithRows(Registered(registry))
    /\ UNCHANGED <<fileVars, registry, job, torn, raced, runVars, call, stimuli>>

\* _sync_spiders_to_db and the rest of initialize, after which the server
\* serves and the watcher runs.  The select of a spider with two rows raises
\* (scalar_one_or_none), and the process ends.
SyncSpiders ==
    /\ phase = "starting"
    /\ \/ /\ \E n \in Registered(registry) : Twins(n)
          /\ phase' = "down" /\ registry' = Empty /\ UNCHANGED rows
       \/ /\ \A n \in Registered(registry) : ~Twins(n)
          /\ RoomFor(Rowless)
          /\ phase' = "serving" /\ rows' = WithRows(Rowless) /\ UNCHANGED registry
    /\ UNCHANGED <<fileVars, job, torn, raced, runVars, call, stimuli>>

\* The process ends, and with it all that is in memory.
Stop ==
    /\ phase = "serving"
    /\ phase' = "down" /\ registry' = Empty /\ job' = [t \in Threads |-> NoJob] /\ torn' = {}
    /\ runners' = [n \in Names |-> 0] /\ live' = {} /\ startRaced' = {}
    /\ watch' = {} /\ missed' = {} /\ call' = [c \in Clients |-> Idle]
    /\ UNCHANGED <<disk, rows, raced, stimuli>>

\* A file changes, with an event or without one for the watcher, which runs
\* once the server serves.  (The next start-up scans what changed before.)
Changes(f, event) ==
    /\ watch'  = IF event /\ phase = "serving" THEN watch \cup {f} ELSE watch
    /\ missed' = IF (event /\ phase = "serving") \/ phase = "down" THEN missed
                 ELSE missed \cup {f}

\* The operator writes a file in place, or renames one over it, which is no
\* event the watcher handles.
Edit(how) ==
    /\ Stimulus
    /\ \E f \in Files, content \in Contents :
          disk' = [disk EXCEPT ![f] = content] /\ Changes(f, how = "write")
    /\ UNCHANGED <<phase, registry, job, torn, rows, raced, runVars, call>>

\* The command "add": the file is copied and registered in the registry of
\* another process, which deletes it when it is refused.
CliAdd ==
    /\ Stimulus
    /\ \E f \in Files, content \in Contents :
          /\ disk' = [disk EXCEPT ![f] = IF Registrable(content) THEN content ELSE NoFile]
          /\ Changes(f, TRUE)
    /\ UNCHANGED <<phase, registry, job, torn, rows, raced, runVars, call>>

\* Mutant of Reload: a change is reported and not loaded.
ReloadNothing(f) ==
    /\ job["watcher"] = NoJob /\ f \in watch
    /\ watch' = watch \ {f} /\ missed' = missed \ {f}
    /\ UNCHANGED <<phase, disk, registry, job, torn, rows, raced, runVars, call, stimuli>>

\* on_created, on_modified: the load of the file as it is by now begins.
Reload(f) ==
    /\ job["watcher"] = NoJob /\ f \in watch
    /\ watch' = watch \ {f}
    /\ missed' = IF Loads("loop", f) /\ job["loop"].from.content # disk[f]
                 THEN missed \cup {f} ELSE missed \ {f}
    /\ IF Registrable(disk[f]) THEN Begins("watcher", f, disk[f]) ELSE UNCHANGED job
    /\ UNCHANGED <<phase, disk, registry, torn, rows, raced, runVars, call, stimuli>>

-----------------------------------------------------------------------------
(* Requests.                                                               *)

\* A load, or an unregister, is done by the event loop without an await.
Free == job["loop"] = NoJob

Request(c) == phase = "serving" /\ Free /\ call[c] = Idle

Goes(c, at, names, run) == call' = [call EXCEPT ![c] = [at |-> at, names |-> names, run |-> run]]

Returns(c) == call' = [call EXCEPT ![c] = Idle]

\* upload_spider: the file is written before it is checked, and deleted when
\* it is refused.  The watcher may load it before, after or while it is
\* registered here.
Upload(c) ==
    /\ Request(c) /\ Stimulus
    /\ \E f \in Files, content \in Contents :
          /\ watch' = watch \cup {f}
          /\ IF Registrable(content)
             THEN disk' = [disk EXCEPT ![f] = content] /\ Begins("loop", f, content)
             ELSE disk' = [disk EXCEPT ![f] = NoFile] /\ UNCHANGED job
    /\ UNCHANGED <<phase, missed, registry, torn, rows, raced, runVars, call>>

\* create_spider does the same with the code in the body of the request,
\* whose file name it completes.
Create(c) == Upload(c)

\* list_spiders finds spiders without a row.  (A listing that finds none
\* changes nothing.)
List(c) ==
    /\ Request(c) /\ Rowless # {} /\ Stimulus
    /\ Goes(c, "insert", Rowless, 0)
    /\ raced' = (raced \/ \E d \in Clients : call[d].at = "insert")
    /\ UNCHANGED <<phase, fileVars, registry, job, torn, rows, runVars>>

CommitRows(c) ==
    /\ Free /\ call[c].at = "insert" /\ RoomFor(call[c].names)
    /\ Returns(c)
    /\ rows' = WithRows(call[c].names)
    /\ UNCHANGED <<phase, fileVars, registry, job, torn, raced, runVars, stimuli>>

Startable(n) == rows[n] > 0 /\ ~Runs(n) /\ n \in Registered(registry) /\ KeysOf(n) # {}

\* Mutant of Start: the spider to run is that of the file's path on start-up.
StartByPath(c, n) ==
    /\ Request(c) /\ Startable(n) /\ Stimulus
    /\ Goes(c, "start", {registry.paths[<<registry.classes[n].file, "relative">>]}, 0)
    /\ UNCHANGED <<phase, fileVars, registry, job, torn, rows, raced, runVars>>

\* start_spider, route and engine, up to the insert of the task.
Start(c, n) ==
    /\ Request(c) /\ Startable(n) /\ Stimulus
    /\ Goes(c, "start", {n}, 0)
    /\ UNCHANGED <<phase, fileVars, registry, job, torn, rows, raced, runVars>>

\* The transactions are committed, and a runner takes the place of the one
\* before, which may run.
CommitStart(c) ==
    /\ Free /\ call[c].at = "start"
    /\ Returns(c)
    /\ \E n \in call[c].names :
          /\ runners' = [runners EXCEPT ![n] = @ + 1]
          /\ live' = live \cup {<<n, runners[n] + 1>>}
          /\ startRaced' = IF \/ Runs(n)
                              \/ \E d \in Clients : call[d].at = "stopping" /\ n \in call[d].names
                           THEN startRaced \cup {n} ELSE startRaced
    /\ UNCHANGED <<phase, fileVars, registry, job, torn, rows, raced, stimuli>>

\* A run ends, or a stop or pause request ends it.
EndRun(r) ==
    /\ Free /\ r \in live
    /\ live' = live \ {r}
    /\ UNCHANGED <<phase, fileVars, registry, job, torn, rows, raced, runners, startRaced, call, stimuli>>

\* The part of delete_spider behind the stop: the class goes, its paths follow.
\* (The route then marks the row, which is kept.)
RemoveSpider(n) ==
    /\ IF n \in Registered(registry)
       THEN /\ registry' = [registry EXCEPT !.classes[n] = NoClass]
            /\ job' = [job EXCEPT !["loop"] = [NoJob EXCEPT !.at = "check", !.todo = <<n>>]]
            /\ torn' = IF WorksOn("watcher", n) THEN torn \cup {n} ELSE torn
       ELSE UNCHANGED <<registry, job, torn>>
    /\ startRaced' = IF \E d \in Clients : call[d].at = "start" /\ n \in call[d].names
                     THEN startRaced \cup {n} ELSE startRaced

\* Mutant of Delete: a running spider is not stopped.
DeleteRunning(c, n) ==
    /\ Request(c) /\ rows[n] > 0
    /\ RemoveSpider(n)
    /\ UNCHANGED <<phase, fileVars, rows, raced, runners, live, call, stimuli>>

\* delete_spider: a spider that runs is stopped first, by its last runner.
Delete(c, n) ==
    /\ Request(c) /\ rows[n] > 0
    /\ IF Runs(n)
       THEN Goes(c, "stopping", {n}, runners[n]) /\ UNCHANGED <<registry, job, torn, startRaced>>
       ELSE RemoveSpider(n) /\ UNCHANGED call
    /\ UNCHANGED <<phase, fileVars, rows, raced, runners, live, stimuli>>

\* That runner has been stopped.
Stopped(c) ==
    /\ Free /\ call[c].at = "stopping"
    /\ Returns(c)
    /\ \E n \in call[c].names : RemoveSpider(n) /\ live' = live \ {<<n, call[c].run>>}
    /\ UNCHANGED <<phase, fileVars, rows, raced, runners, stimuli>>

\* The database fails: the request ends with an error.
CallFails(c) ==
    /\ Free /\ call[c].at \in {"insert", "start"}
    /\ Returns(c)
    /\ UNCHANGED <<phase, fileVars, registry, job, torn, rows, raced, runVars, stimuli>>

-----------------------------------------------------------------------------
\* The database is new, or an earlier life of the server has left rows in it.
Init ==
    /\ phase = "down"
    /\ disk \in [Files -> Contents \cup {NoFile}]
    /\ registry = Empty /\ job = [t \in Threads |-> NoJob] /\ torn = {}
    /\ \E left \in {0, MaxRows} : rows = [n \in Names |-> left] /\ raced = (left > 1)
    /\ runners = [n \in Names |-> 0] /\ live = {} /\ startRaced = {}
    /\ watch = {} /\ missed = {} /\ stimuli = 0
    /\ call = [c \in Clients |-> Idle]

RouteStep(c) ==
    \/ \E n \in Names : Start(c, n) \/ Delete(c, n)
    \/ Upload(c) \/ Create(c) \/ List(c) \/ CommitRows(c) \/ CommitStart(c) \/ Stopped(c) \/ CallFails(c)

Next ==
    \/ StartUp \/ SyncSpiders \/ Stop
    \/ (\E how \in {"write", "rename"} : Edit(how)) \/ CliAdd
    \/ \E f \in Files : Reload(f)
    \/ \E t \in Threads : JobStep(t)
    \/ \E r \in live : EndRun(r)
    \/ \E c \in Clients : RouteStep(c)

Spec == Init /\ [][Next]_vars

-----------------------------------------------------------------------------
(* Properties.                                                             *)

\* Every variable has its type.
TypeOK ==
    /\ phase \in {"down", "starting", "serving"}
    /\ disk \in [Files -> Contents \cup {NoFile}]
    /\ registry \in [classes : [Names -> Class \cup {NoClass}], paths : [Keys -> Names \cup {NoName}]]
    /\ job \in [Threads -> Job] /\ rows \in [Names -> 0..MaxRows]
    /\ runners \in [Names -> Nat] /\ live \subseteq Names \X Nat
    /\ call \in [Clients -> Call] /\ stimuli \in 0..MaxStimuli
    /\ watch \subseteq Files /\ missed \subseteq Files
    /\ torn \subseteq Names /\ raced \in BOOLEAN /\ startRaced \subseteq Names

\* A spider has at most one path, and it is that of the file its class came
\* from: what start_spider checks and what the sandbox runs belong together,
\* through all loads by either thread, renamed spiders, moves between files,
\* deletions and loads that break off, each between any two steps of others,
\* unless both threads were at work on this spider at once and it has not been
\* loaded properly since.
OnePath ==
    \A k \in Keys :
        LET n == registry.paths[k]
        IN  n # NoName /\ n \notin torn /\ ~(Unregisters("loop") /\ Spider("loop") = n) =>
                /\ registry.classes[n] # NoClass
                /\ registry.classes[n].file = k[1]
                /\ KeysOf(n) = {k}

\* Hot reload: once the events of a file are handled and nobody is loading it, a
\* spider that can be started from it, and that it still defines, is registered
\* from what the file holds now, unless that is refused, or the registry may be
\* behind (missed), or both threads were at work on the spider at once.
ReloadCatchesUp ==
    \A k \in Keys :
        LET n == registry.paths[k]
        IN  /\ phase = "serving" /\ n # NoName /\ n \notin torn
            /\ ~(Unregisters("loop") /\ Spider("loop") = n)
            /\ k[1] \notin watch \cup missed /\ \A t \in Threads : ~Loads(t, k[1])
            /\ Registrable(disk[k[1]]) /\ n \in ToSet(disk[k[1]].defines)
            => registry.classes[n].content = disk[k[1]]

\* A spider has one row, unless two listings that overlap both added it.
OneRowUnlessRaced == ~raced => \A n \in Names : ~Twins(n)

\* No runner of a spider that was deleted runs, unless the spider was started
\* twice at once, when the first of its runners is out of reach, or while it was
\* deleted.
DeletedIsStopped == \A r \in live : r[1] \in Registered(registry) \cup startRaced
=============================================================================
