--------------------------- MODULE Registry_proofs ---------------------------
(***************************************************************************)
(* Proofs about Registry, for any files, contents and requests: its paths  *)
(* and classes belong together whatever its two threads do, hot reload     *)
(* catches up, a spider has one row unless listings raced, and a deleted   *)
(* spider does not run unless its starts raced.                            *)
(***************************************************************************)
EXTENDS Registry, TLAPS

Registries == [classes : [Names -> Class \cup {NoClass}], paths : [Keys -> Names \cup {NoName}]]

\* The loop is at the paths of spider n, whose class is gone.
Unregistering(n) == Unregisters("loop") /\ Spider("loop") = n

\* What a thread is at is well-formed, and only the event loop unregisters.
JobsInv ==
    /\ \A t \in Threads :
          /\ job[t].at = "none" => job[t] = NoJob
          /\ job[t].at # "none" => job[t].todo # <<>>
          /\ job[t].at = "forget" => job[t].old # {}
          /\ job[t].at \in {"class", "path"} => job[t].from # NoClass
    /\ ~Unregisters("watcher")

\* There are requests, loads and runs only while the server serves.
ServingInv ==
    /\ phase # "serving" =>
          /\ \A t \in Threads : job[t] = NoJob
          /\ \A c \in Clients : call[c] = Idle
          /\ live = {} /\ torn = {} /\ watch = {}
    /\ phase = "down" => registry = Empty

\* A spider that is not torn is worked on by one thread at most, and the paths
\* that thread has yet to forget are all there are.
Working(t, n) ==
    /\ ~WorksOn(Other(t), n)
    /\ Unregisters(t) => registry.classes[n] = NoClass
    /\ job[t].at = "forget" => KeysOf(n) \subseteq job[t].old
    /\ job[t].at \in {"class", "path"} => KeysOf(n) = {}
    /\ job[t].at = "path" => registry.classes[n] = job[t].from

WorkInv == \A t \in Threads, n \in Names \ torn : WorksOn(t, n) => Working(t, n)

\* ReloadCatchesUp, from the scan on: a load that is not done has yet to come to
\* the spider, and it loads what the file holds.
CatchInv ==
    phase # "down" =>
        /\ \A k \in Keys :
              LET n == registry.paths[k]
              IN  /\ n # NoName /\ n \notin torn /\ ~Unregistering(n)
                  /\ k[1] \notin watch \cup missed
                  /\ Registrable(disk[k[1]]) /\ n \in ToSet(disk[k[1]].defines)
                  => \/ registry.classes[n].content = disk[k[1]]
                     \/ \E t \in Threads : Loads(t, k[1]) /\ n \in ToSet(job[t].todo)
        /\ \A t \in Threads, f \in Files :
              Loads(t, f) /\ f \notin watch \cup missed => job[t].from.content = disk[f]

\* Unless listings raced no spider has two rows, and a listing that is to add
\* rows is alone, with names no row has.
RowsInv ==
    ~raced =>
        /\ \A n \in Names : rows[n] <= 1
        /\ \A c, d \in Clients : call[c].at = "insert" /\ call[d].at = "insert" => c = d
        /\ \A c \in Clients : call[c].at = "insert" => \A n \in call[c].names : rows[n] = 0

\* Unless starts of a spider raced, its last runner is the only one that may
\* run, and the one a request that deletes it has stopped; what runs, or is
\* about to, is registered.
RunsInv ==
    /\ \A r \in live : r[1] \notin startRaced => r[1] \in Registered(registry) /\ r[2] = runners[r[1]]
    /\ \A c \in Clients :
          /\ call[c].at = "start" => call[c].names \subseteq Registered(registry) \cup startRaced
          /\ call[c].at = "stopping" =>
                \A n \in call[c].names \ startRaced : call[c].run = runners[n]

Inv == TypeOK /\ JobsInv /\ ServingInv /\ OnePath /\ WorkInv /\ CatchInv /\ RowsInv /\ RunsInv

-----------------------------------------------------------------------------
(* Values.                                                                 *)

LEMMA ThreadFacts ==
    /\ "loop" \in Threads /\ "watcher" \in Threads
    /\ \A t \in Threads : /\ Other(t) \in Threads /\ Other(t) # t /\ Other(Other(t)) = t
                          /\ \A u \in Threads : u = t \/ u = Other(t)
BY DEF Threads, Other

LEMMA NoJobFacts ==
    /\ NoJob \in Job /\ NoJob.at = "none" /\ NoJob.from = NoClass
    /\ Idle \in Call /\ Idle.at = "idle"
BY DEF NoJob, Job, Idle, Call

\* The classes of a file.
LEMMA ContentFacts ==
    ASSUME NEW content \in Contents, NEW f \in Files
    PROVE  /\ [file |-> f, content |-> content] \in Class \ {NoClass}
           /\ content.defines \in Seq(Names) /\ ToSet(content.defines) \subseteq Names
           /\ content.defines # <<>> => Last(content.defines) \in ToSet(content.defines)
<1>1. content.defines \in Seq(Names)
  BY RegistryAssumption DEF RegistryAssumption, ContentType
<1> QED
  BY <1>1, RegistryAssumption DEF RegistryAssumption, Class, ToSet, Last

\* The spiders a sequence holds, its head and what is behind it.
LEMMA TailFacts ==
    ASSUME NEW S, NEW todo \in Seq(S), todo # <<>>
    PROVE  /\ Head(todo) \in S /\ Tail(todo) \in Seq(S)
           /\ ToSet(todo) \subseteq ToSet(Tail(todo)) \cup {Head(todo)}
<1>1. Head(todo) \in S /\ Tail(todo) \in Seq(S)
  OBVIOUS
<1>2. ASSUME NEW i \in DOMAIN todo, i # 1 PROVE todo[i] \in ToSet(Tail(todo))
  <2>1. i - 1 \in DOMAIN Tail(todo) /\ Tail(todo)[i - 1] = todo[i]
    BY <1>2
  <2> QED
    BY <2>1 DEF ToSet
<1>3. Head(todo) = todo[1]
  OBVIOUS
<1> QED
  BY <1>1, <1>2, <1>3 DEF ToSet

\* What a thread that is busy is at.
LEMMA JobFacts ==
    ASSUME TypeOK, JobsInv, NEW t \in Threads, job[t].at # "none"
    PROVE  /\ job[t] \in Job /\ job[t] # NoJob
           /\ job[t].todo \in Seq(Names) /\ job[t].todo # <<>> /\ job[t].old \subseteq Keys
           /\ Spider(t) \in Names /\ Tail(job[t].todo) \in Seq(Names)
           /\ ToSet(job[t].todo) \subseteq ToSet(Tail(job[t].todo)) \cup {Spider(t)}
           /\ job[t].from \in Class \cup {NoClass}
           /\ job[t].from # NoClass => <<job[t].from.file, KindOf(t)>> \in Keys
           /\ Unregisters(t) => t = "loop"
<1>1. job[t] \in Job /\ job[t] # NoJob /\ job[t].todo # <<>>
  BY NoJobFacts DEF TypeOK, JobsInv
<1>2. /\ job[t].todo \in Seq(Names) /\ job[t].old \subseteq Keys
      /\ job[t].from \in Class \cup {NoClass}
  BY <1>1 DEF Job
<1>3. job[t].from # NoClass => <<job[t].from.file, KindOf(t)>> \in Keys
  BY <1>2 DEF Class, Keys, KindOf
<1>4. Unregisters(t) => t = "loop"
  BY DEF JobsInv, Threads
<1> QED
  BY <1>1, <1>2, <1>3, <1>4, TailFacts DEF Spider

\* What Forgets leaves a thread at.
LEMMA ForgetsFacts ==
    ASSUME TypeOK, JobsInv, NEW t \in Threads, job[t].at # "none",
           NEW old \in SUBSET Keys, Forgets(t, old)
    PROVE  /\ job' \in [Threads -> Job] /\ job'[Other(t)] = job[Other(t)]
           /\ old # {} => /\ job'[t].at = "forget" /\ job'[t].old = old
                          /\ job'[t].from = job[t].from /\ job'[t].todo = job[t].todo
           /\ old = {} /\ Unregisters(t) => job'[t] = NoJob
           /\ old = {} /\ ~Unregisters(t) =>
                 /\ job'[t].at = "class"
                 /\ job'[t].from = job[t].from /\ job'[t].todo = job[t].todo
<1> PICK j : j = IF old # {} THEN [job[t] EXCEPT !.at = "forget", !.old = old]
                 ELSE IF Unregisters(t) THEN NoJob
                 ELSE [job[t] EXCEPT !.at = "class", !.old = {}]
  OBVIOUS
<1>1. job[t] \in Job /\ job \in [Threads -> Job]
  BY JobFacts DEF TypeOK
<1>2. /\ j \in Job
      /\ old # {} => /\ j.at = "forget" /\ j.old = old
                     /\ j.from = job[t].from /\ j.todo = job[t].todo
      /\ old = {} /\ ~Unregisters(t) =>
            j.at = "class" /\ j.from = job[t].from /\ j.todo = job[t].todo
  BY <1>1, NoJobFacts DEF Job
<1>3. job' = [job EXCEPT ![t] = j]
  BY DEF Forgets
<1>4. job' \in [Threads -> Job] /\ job'[t] = j /\ job'[Other(t)] = job[Other(t)]
  BY <1>1, <1>2, <1>3, ThreadFacts
<1> QED
  BY <1>2, <1>4

\* The paths that Check finds are those there are, unless the spider is torn.
LEMMA OldKeysFacts ==
    ASSUME TypeOK, JobsInv, OnePath, NEW t \in Threads, Check(t)
    PROVE  /\ OldKeys(t) \in SUBSET Keys
           /\ torn' \in SUBSET Names /\ torn \subseteq torn'
           /\ Spider(t) \notin torn' =>
                 /\ ~WorksOn(Other(t), Spider(t))
                 /\ OldKeys(t) = KeysOf(Spider(t))
<1>1. job[t].at = "check" /\ Spider(t) \in Names
  BY JobFacts DEF Check
<1>2. OldKeys(t) \in SUBSET Keys
  BY DEF OldKeys, KeysOf
<1>3. torn' \in SUBSET Names /\ torn \subseteq torn'
  BY <1>1 DEF Check, TypeOK
<1>4. ASSUME Spider(t) \notin torn'
      PROVE  ~WorksOn(Other(t), Spider(t)) /\ OldKeys(t) = KeysOf(Spider(t))
  <2>1. ~WorksOn(Other(t), Spider(t)) /\ Spider(t) \notin torn
    BY <1>4 DEF Check
  <2>2. CASE Unregisters(t) \/ Spider(t) \in Registered(registry)
    BY <2>1, <2>2 DEF OldKeys
  <2>3. CASE ~Unregisters(t) /\ Spider(t) \notin Registered(registry)
    <3>1. ~Unregistering(Spider(t))
      BY <2>1, <2>3, ThreadFacts DEF Unregistering, WorksOn, Unregisters
    <3>2. \A k \in Keys : registry.paths[k] # Spider(t)
      BY <1>1, <2>1, <2>3, <3>1, RegistryAssumption
      DEF OnePath, Registered, Unregistering, RegistryAssumption
    <3> QED
      BY <2>1, <2>3, <3>2 DEF OldKeys, KeysOf
  <2> QED
    BY <2>2, <2>3
<1> QED
  BY <1>2, <1>3, <1>4

-----------------------------------------------------------------------------
(* Types, jobs and phases.                                                 *)

Base == TypeOK /\ JobsInv /\ ServingInv

LEMMA EmptyFacts == Empty \in Registries /\ \A k \in Keys : Empty.paths[k] = NoName
BY DEF Empty, Registries

\* A thread that goes on with its job.
LEMMA JobsKept ==
    ASSUME TypeOK, JobsInv, NEW t \in Threads, job[t].at # "none",
           job' \in [Threads -> Job], job'[Other(t)] = job[Other(t)],
           \/ job'[t] = NoJob
           \/ /\ job'[t].at # "none" /\ job'[t].from = job[t].from /\ job'[t].todo # <<>>
              /\ job'[t].at = "forget" => job'[t].old # {}
              /\ job'[t].at \in {"class", "path"} => job'[t].from # NoClass
    PROVE  JobsInv'
<1>1. \A u \in Threads : u # t => job'[u] = job[u]
  BY ThreadFacts
<1>2. job[t] # NoJob
  BY NoJobFacts
<1>3. ~Unregisters("watcher")'
  BY <1>1, <1>2, ThreadFacts DEF JobsInv, Unregisters
<1> QED
  BY <1>1, <1>3, NoJobFacts DEF JobsInv

LEMMA CheckBase ==
    ASSUME Base, OnePath, NEW t \in Threads, Check(t)
    PROVE  Base'
<1>1. /\ job[t].at = "check" /\ Forgets(t, OldKeys(t))
      /\ UNCHANGED <<phase, fileVars, registry, rows, raced, runVars, call, stimuli>>
  BY DEF Check
<1>2. OldKeys(t) \in SUBSET Keys /\ torn' \in SUBSET Names
  BY OldKeysFacts DEF Base
<1>3. TypeOK /\ JobsInv /\ job[t] # NoJob /\ job[t].todo # <<>>
  BY <1>1, JobFacts DEF Base
<1>4. job' \in [Threads -> Job]
  BY <1>1, <1>2, <1>3, ForgetsFacts
<1>5. TypeOK'
  BY <1>1, <1>2, <1>3, <1>4 DEF TypeOK, fileVars, runVars
<1>6. JobsInv'
  BY <1>1, <1>2, <1>3, <1>4, ForgetsFacts, JobsKept DEF Unregisters
<1>7. ServingInv'
  BY <1>1, <1>3 DEF Base, ServingInv, fileVars, runVars
<1> QED
  BY <1>5, <1>6, <1>7 DEF Base

LEMMA ForgetBase ==
    ASSUME Base, NEW t \in Threads, Forget(t)
    PROVE  Base'
<1> PICK k \in job[t].old :
        /\ registry' = [registry EXCEPT !.paths[k] = NoName]
        /\ Forgets(t, job[t].old \ {k})
  BY DEF Forget
<1>1. /\ job[t].at = "forget"
      /\ UNCHANGED <<phase, fileVars, torn, rows, raced, runVars, call, stimuli>>
  BY DEF Forget
<1>2. TypeOK /\ JobsInv /\ job[t] # NoJob /\ job[t].todo # <<>> /\ job[t].old \subseteq Keys
  BY <1>1, JobFacts DEF Base
<1>3. job' \in [Threads -> Job]
  BY <1>1, <1>2, ForgetsFacts
<1>4. registry' \in Registries
  BY <1>2 DEF TypeOK, Registries
<1>5. TypeOK'
  BY <1>1, <1>2, <1>3, <1>4 DEF TypeOK, Registries, fileVars, runVars
<1>6. JobsInv'
  BY <1>1, <1>2, <1>3, ForgetsFacts, JobsKept DEF Unregisters
<1>7. ServingInv'
  BY <1>1, <1>2 DEF Base, ServingInv, fileVars, runVars
<1> QED
  BY <1>5, <1>6, <1>7 DEF Base

\* What an interrupted load or unregister leaves.
LEMMA BreaksOffFacts ==
    ASSUME TypeOK, JobsInv, NEW t \in Threads, BreaksOff(t)
    PROVE  /\ job[t].at # "none" /\ job' \in [Threads -> Job]
           /\ job'[t] = NoJob /\ job'[Other(t)] = job[Other(t)]
           /\ torn' \in SUBSET Names /\ torn \subseteq torn'
           /\ missed' \in SUBSET Files /\ missed \subseteq missed'
           /\ Unregisters(t) => Spider(t) \in torn'
           /\ ~Unregisters(t) => job[t].from # NoClass /\ job[t].from.file \in missed'
           /\ UNCHANGED <<phase, disk, watch, registry, rows, raced, runVars, call, stimuli>>
<1>1. job[t].at # "none" /\ job' = [job EXCEPT ![t] = NoJob]
  BY DEF BreaksOff
<1>2. job' \in [Threads -> Job] /\ job'[t] = NoJob /\ job'[Other(t)] = job[Other(t)]
  BY <1>1, NoJobFacts, ThreadFacts DEF TypeOK
<1>3. /\ ~Unregisters(t) => job[t].from \in Class /\ job[t].from # NoClass
      /\ Spider(t) \in Names
  BY <1>1, JobFacts DEF Unregisters
<1>4. ~Unregisters(t) => job[t].from.file \in Files
  BY <1>3 DEF Class
<1> QED
  BY <1>1, <1>2, <1>3, <1>4 DEF BreaksOff, TypeOK

LEMMA BreaksOffBase ==
    ASSUME Base, NEW t \in Threads, BreaksOff(t)
    PROVE  Base'
<1>1. TypeOK /\ JobsInv /\ job[t] # NoJob
  BY BreaksOffFacts, NoJobFacts DEF Base
<1>2. TypeOK'
  BY <1>1, BreaksOffFacts DEF TypeOK, runVars
<1>3. JobsInv'
  BY <1>1, BreaksOffFacts, JobsKept
<1>4. ServingInv'
  BY <1>1, BreaksOffFacts DEF Base, ServingInv, runVars
<1> QED
  BY <1>2, <1>3, <1>4 DEF Base

\* What registering a class does.
LEMMA SetClassFacts ==
    ASSUME TypeOK, JobsInv, NEW t \in Threads, SetClass(t)
    PROVE  /\ job[t].from # NoClass /\ ~Unregisters(t)
           /\ registry' \in Registries /\ registry'.paths = registry.paths
           /\ registry'.classes[Spider(t)] = job[t].from
           /\ \A n \in Names \ {Spider(t)} : registry'.classes[n] = registry.classes[n]
           /\ job' \in [Threads -> Job] /\ job'[Other(t)] = job[Other(t)]
           /\ job'[t].at = "path" /\ job'[t].from = job[t].from /\ job'[t].todo = job[t].todo
           /\ torn' \in SUBSET torn /\ torn \ {Spider(t)} \subseteq torn'
           /\ Spider(t) \notin torn' /\ Spider(t) \in torn =>
                 KeysOf(Spider(t)) = {} /\ ~WorksOn(Other(t), Spider(t))
<1>1. /\ job[t].at = "class" /\ job' = [job EXCEPT ![t].at = "path"]
      /\ registry' = [registry EXCEPT !.classes[Spider(t)] = job[t].from]
  BY DEF SetClass
<1>2. job[t].from \in Class /\ job[t].from # NoClass /\ ~Unregisters(t) /\ Spider(t) \in Names
  BY <1>1, JobFacts DEF JobsInv, Unregisters
<1>3. /\ registry' \in Registries /\ registry'.paths = registry.paths
      /\ registry'.classes[Spider(t)] = job[t].from
      /\ \A n \in Names \ {Spider(t)} : registry'.classes[n] = registry.classes[n]
  BY <1>1, <1>2 DEF TypeOK, Registries
<1>4. /\ job' \in [Threads -> Job] /\ job'[Other(t)] = job[Other(t)]
      /\ job'[t].at = "path" /\ job'[t].from = job[t].from /\ job'[t].todo = job[t].todo
  <2> PICK j : j = [job[t] EXCEPT !.at = "path"]
    OBVIOUS
  <2>1. j \in Job /\ j.at = "path" /\ j.from = job[t].from /\ j.todo = job[t].todo
    <3>1. job[t] \in Job
      BY DEF TypeOK
    <3> QED
      BY <3>1 DEF Job
  <2> QED
    BY <1>1, <2>1, ThreadFacts DEF TypeOK
<1> QED
  BY <1>2, <1>3, <1>4 DEF SetClass

LEMMA SetClassBase ==
    ASSUME Base, NEW t \in Threads, SetClass(t)
    PROVE  Base'
<1>1. /\ job[t].at = "class"
      /\ UNCHANGED <<phase, fileVars, rows, raced, runVars, call, stimuli>>
  BY DEF SetClass
<1>2. TypeOK /\ JobsInv /\ job[t] # NoJob /\ job[t].todo # <<>>
  BY <1>1, JobFacts DEF Base
<1>3. TypeOK'
  BY <1>1, <1>2, SetClassFacts DEF TypeOK, Registries, fileVars, runVars
<1>4. JobsInv'
  BY <1>1, <1>2, SetClassFacts, JobsKept
<1>5. ServingInv'
  BY <1>1, <1>2 DEF Base, ServingInv, fileVars, runVars
<1> QED
  BY <1>3, <1>4, <1>5 DEF Base

\* What mapping a path does; the spider may come again in the same file.
LEMMA SetPathFacts ==
    ASSUME TypeOK, JobsInv, NEW t \in Threads, SetPath(t)
    PROVE  /\ job[t].from # NoClass /\ ~Unregisters(t)
           /\ registry' \in Registries /\ registry'.classes = registry.classes
           /\ registry'.paths[<<job[t].from.file, KindOf(t)>>] = Spider(t)
           /\ \A k \in Keys \ {<<job[t].from.file, KindOf(t)>>} :
                 registry'.paths[k] = registry.paths[k]
           /\ job' \in [Threads -> Job] /\ job'[Other(t)] = job[Other(t)]
           /\ \/ job'[t] = NoJob /\ ToSet(job[t].todo) \subseteq {Spider(t)}
              \/ /\ job'[t].at = "check" /\ job'[t].from = job[t].from
                 /\ job'[t].todo # <<>>
                 /\ ToSet(job[t].todo) \subseteq ToSet(job'[t].todo) \cup {Spider(t)}
<1>1. /\ job[t].at = "path"
      /\ registry' = [registry EXCEPT !.paths[<<job[t].from.file, KindOf(t)>>] = Spider(t)]
  BY DEF SetPath
<1>2. job[t].from \in Class /\ job[t].from # NoClass /\ ~Unregisters(t) /\ Spider(t) \in Names
  BY <1>1, JobFacts DEF JobsInv, Unregisters
<1>3. /\ registry' \in Registries /\ registry'.classes = registry.classes
      /\ registry'.paths[<<job[t].from.file, KindOf(t)>>] = Spider(t)
      /\ \A k \in Keys \ {<<job[t].from.file, KindOf(t)>>} :
            registry'.paths[k] = registry.paths[k]
  <2>1. <<job[t].from.file, KindOf(t)>> \in Keys
    BY <1>1, <1>2, JobFacts
  <2> QED
    BY <1>1, <1>2, <2>1 DEF TypeOK, Registries
<1> PICK j : j = IF Tail(job[t].todo) = <<>> THEN NoJob
                 ELSE [job[t] EXCEPT !.at = "check", !.todo = Tail(job[t].todo)]
  OBVIOUS
<1>4. job[t] \in Job /\ job \in [Threads -> Job] /\ Tail(job[t].todo) \in Seq(Names)
      /\ ToSet(job[t].todo) \subseteq ToSet(Tail(job[t].todo)) \cup {Spider(t)}
  BY <1>1, JobFacts DEF TypeOK
<1>5. /\ j \in Job
      /\ \/ j = NoJob /\ Tail(job[t].todo) = <<>>
         \/ /\ j.at = "check" /\ j.from = job[t].from /\ j.todo = Tail(job[t].todo)
            /\ j.todo # <<>>
  BY <1>4, NoJobFacts DEF Job
<1>6. job' = [job EXCEPT ![t] = j]
  BY DEF SetPath
<1>7. job' \in [Threads -> Job] /\ job'[t] = j /\ job'[Other(t)] = job[Other(t)]
  BY <1>4, <1>5, <1>6, ThreadFacts
<1>8. ToSet(<<>>) = {}
  BY DEF ToSet
<1> QED
  BY <1>2, <1>3, <1>4, <1>5, <1>7, <1>8

LEMMA SetPathBase ==
    ASSUME Base, NEW t \in Threads, SetPath(t)
    PROVE  Base'
<1>1. /\ job[t].at = "path"
      /\ UNCHANGED <<phase, fileVars, torn, rows, raced, runVars, call, stimuli>>
  BY DEF SetPath
<1>2. TypeOK /\ JobsInv /\ job[t] # NoJob
  BY <1>1, NoJobFacts DEF Base
<1>3. TypeOK'
  BY <1>1, <1>2, SetPathFacts DEF TypeOK, Registries, fileVars, runVars
<1>4. JobsInv'
  BY <1>1, <1>2, SetPathFacts, JobsKept
<1>5. ServingInv'
  BY <1>1, <1>2 DEF Base, ServingInv, fileVars, runVars
<1> QED
  BY <1>3, <1>4, <1>5 DEF Base

\* A thread without a job begins to load a file.
LEMMA BeginsFacts ==
    ASSUME TypeOK, JobsInv, NEW t \in Threads, job[t] = NoJob, NEW f \in Files,
           NEW content \in Contents, Begins(t, f, content)
    PROVE  /\ job' \in [Threads -> Job] /\ job'[Other(t)] = job[Other(t)] /\ JobsInv'
           /\ job'[t] = NoJob => ToSet(content.defines) = {}
           /\ job'[t] # NoJob => /\ job'[t].at = "check" /\ job'[t].todo = content.defines
                                 /\ job'[t].from = [file |-> f, content |-> content]
                                 /\ job'[t].from # NoClass
<1> PICK j : j = IF content.defines = <<>> THEN NoJob
                 ELSE [at |-> "check", from |-> [file |-> f, content |-> content],
                       todo |-> content.defines, old |-> {}]
  OBVIOUS
<1>1. /\ j \in Job
      /\ \/ j = NoJob /\ content.defines = <<>>
         \/ /\ j.at = "check" /\ j.todo = content.defines /\ j.todo # <<>>
            /\ j.from = [file |-> f, content |-> content] /\ j.from # NoClass
  BY ContentFacts, NoJobFacts DEF Job
<1>2. job' = [job EXCEPT ![t] = j]
  BY DEF Begins
<1>3. /\ job' \in [Threads -> Job] /\ job'[t] = j /\ job'[Other(t)] = job[Other(t)]
      /\ \A u \in Threads : u # t => job'[u] = job[u]
  BY <1>1, <1>2, ThreadFacts DEF TypeOK
<1>4. ~Unregisters("watcher")'
  BY <1>1, <1>3, ThreadFacts DEF JobsInv, Unregisters
<1>5. JobsInv'
  BY <1>1, <1>3, <1>4, NoJobFacts DEF JobsInv
<1>6. ToSet(<<>>) = {}
  BY DEF ToSet
<1> QED
  BY <1>1, <1>3, <1>5, <1>6, NoJobFacts

\* What an upload does.
LEMMA UploadFacts ==
    ASSUME TypeOK, NEW c \in Clients, Upload(c)
    PROVE  \E f \in Files, content \in Contents :
               /\ phase = "serving" /\ job["loop"] = NoJob
               /\ disk' \in [Files -> Contents \cup {NoFile}] /\ watch' = watch \cup {f}
               /\ \A g \in Files \ {f} : disk'[g] = disk[g]
               /\ Begins("loop", f, content) \/ UNCHANGED job
               /\ stimuli' \in 0..MaxStimuli
               /\ UNCHANGED <<phase, missed, registry, torn, rows, raced, runVars, call>>
<1>1. PICK f \in Files, content \in Contents :
          /\ watch' = watch \cup {f}
          /\ IF Registrable(content)
             THEN disk' = [disk EXCEPT ![f] = content] /\ Begins("loop", f, content)
             ELSE disk' = [disk EXCEPT ![f] = NoFile] /\ UNCHANGED job
  BY DEF Upload
<1>2. /\ disk' \in [Files -> Contents \cup {NoFile}]
      /\ \A g \in Files \ {f} : disk'[g] = disk[g]
      /\ Begins("loop", f, content) \/ UNCHANGED job
  BY <1>1 DEF TypeOK
<1>3. stimuli' \in 0..MaxStimuli
  BY RegistryAssumption DEF Upload, Stimulus, TypeOK, RegistryAssumption
<1> QED
  BY <1>1, <1>2, <1>3 DEF Upload, Request, Free

LEMMA UploadBase ==
    ASSUME Base, NEW c \in Clients, Upload(c)
    PROVE  Base'
<1>1. PICK f \in Files, content \in Contents :
               /\ phase = "serving" /\ job["loop"] = NoJob
               /\ disk' \in [Files -> Contents \cup {NoFile}] /\ watch' = watch \cup {f}
               /\ Begins("loop", f, content) \/ UNCHANGED job
               /\ stimuli' \in 0..MaxStimuli
               /\ UNCHANGED <<phase, missed, registry, torn, rows, raced, runVars, call>>
  BY UploadFacts DEF Base
<1>2. job' \in [Threads -> Job] /\ JobsInv'
  BY <1>1, BeginsFacts, ThreadFacts DEF Base, TypeOK, JobsInv, Unregisters
<1>3. TypeOK'
  BY <1>1, <1>2 DEF Base, TypeOK, runVars
<1>4. ServingInv'
  BY <1>1 DEF Base, ServingInv, runVars
<1> QED
  BY <1>2, <1>3, <1>4 DEF Base

LEMMA ReloadBase ==
    ASSUME Base, NEW f \in Files, Reload(f)
    PROVE  Base'
<1>1. /\ phase = "serving" /\ job["watcher"] = NoJob
      /\ watch' \in SUBSET Files /\ missed' \in SUBSET Files
      /\ (Registrable(disk[f]) /\ Begins("watcher", f, disk[f])) \/ UNCHANGED job
      /\ UNCHANGED <<phase, disk, registry, torn, rows, raced, runVars, call, stimuli>>
  BY DEF Base, Reload, TypeOK, ServingInv
<1>2. Registrable(disk[f]) => disk[f] \in Contents
  BY DEF Base, TypeOK, Registrable
<1>3. job' \in [Threads -> Job] /\ JobsInv'
  BY <1>1, <1>2, BeginsFacts, ThreadFacts DEF Base, TypeOK, JobsInv, Unregisters
<1>4. TypeOK'
  BY <1>1, <1>3 DEF Base, TypeOK, runVars
<1>5. ServingInv'
  BY <1>1 DEF Base, ServingInv, runVars
<1> QED
  BY <1>3, <1>4, <1>5 DEF Base

\* What the removal of a spider from the registry begins with.
LEMMA RemoveFacts ==
    ASSUME TypeOK, JobsInv, job["loop"] = NoJob, NEW n \in Names, RemoveSpider(n)
    PROVE  /\ registry' \in Registries /\ registry'.paths = registry.paths
           /\ Registered(registry') = Registered(registry) \ {n}
           /\ \A m \in Names \ {n} : registry'.classes[m] = registry.classes[m]
           /\ job' \in [Threads -> Job] /\ job'["watcher"] = job["watcher"] /\ JobsInv'
           /\ \/ UNCHANGED <<registry, job, torn>>
              \/ /\ job'["loop"] = [NoJob EXCEPT !.at = "check", !.todo = <<n>>]
                 /\ registry'.classes[n] = NoClass
                 /\ torn' = IF WorksOn("watcher", n) THEN torn \cup {n} ELSE torn
           /\ startRaced \subseteq startRaced' /\ startRaced' \in SUBSET Names
           /\ \A c \in Clients : call[c].at = "start" /\ n \in call[c].names => n \in startRaced'
<1>1. CASE n \notin Registered(registry)
  <2>1. UNCHANGED <<registry, job, torn>>
    BY <1>1 DEF RemoveSpider
  <2>2. JobsInv'
    BY <2>1 DEF JobsInv, Unregisters
  <2> QED
    BY <1>1, <2>1, <2>2 DEF RemoveSpider, TypeOK, Registries, Registered
<1>2. CASE n \in Registered(registry)
  <2>0. PICK j : j = [NoJob EXCEPT !.at = "check", !.todo = <<n>>]
    OBVIOUS
  <2>1. j \in Job /\ j.at = "check" /\ j.todo = <<n>> /\ j.todo # <<>>
    <3>1. PICK todo : todo = <<n>>
      OBVIOUS
    <3>2. j = [at |-> "check", from |-> NoClass, todo |-> todo, old |-> {}]
      BY <2>0, <3>1 DEF NoJob
    <3>3. todo \in Seq(Names) /\ todo # <<>>
      BY <3>1
    <3>4. j \in Job /\ j.at = "check" /\ j.todo = todo
      BY <3>2, <3>3 DEF Job
    <3> QED
      BY <3>1, <3>3, <3>4
  <2>2. /\ registry' = [registry EXCEPT !.classes[n] = NoClass]
        /\ job' = [job EXCEPT !["loop"] = j]
        /\ torn' = IF WorksOn("watcher", n) THEN torn \cup {n} ELSE torn
    BY <1>2, <2>0 DEF RemoveSpider
  <2>3. /\ job' \in [Threads -> Job] /\ job'["loop"] = j /\ job'["watcher"] = job["watcher"]
    BY <2>1, <2>2, ThreadFacts DEF TypeOK, Threads
  <2>4. ~Unregisters("watcher")'
    BY <2>3 DEF JobsInv, Unregisters
  <2>5. JobsInv'
    <3> SUFFICES ASSUME NEW t \in Threads
                 PROVE  /\ job'[t].at = "none" => job'[t] = NoJob
                        /\ job'[t].at # "none" => job'[t].todo # <<>>
                        /\ job'[t].at = "forget" => job'[t].old # {}
                        /\ job'[t].at \in {"class", "path"} => job'[t].from # NoClass
      BY <2>4 DEF JobsInv
    <3>1. CASE t = "loop"
      BY <2>1, <2>3, <3>1
    <3>2. CASE t = "watcher"
      BY <2>3, <3>2 DEF JobsInv
    <3> QED
      BY <3>1, <3>2 DEF Threads
  <2>6. /\ registry' \in Registries /\ registry'.paths = registry.paths
        /\ \A m \in Names : registry'.classes[m] = IF m = n THEN NoClass ELSE registry.classes[m]
    BY <2>2 DEF TypeOK, Registries
  <2>7. Registered(registry') = Registered(registry) \ {n}
    BY <2>6 DEF Registered
  <2> QED
    BY <2>0, <2>2, <2>3, <2>5, <2>6, <2>7 DEF RemoveSpider, TypeOK
<1> QED
  BY <1>1, <1>2

-----------------------------------------------------------------------------
(* The scan at start-up.                                                   *)

\* OnePath, of any registry.
Paths(r) ==
    \A k \in Keys : r.paths[k] # NoName =>
        /\ r.classes[r.paths[k]] # NoClass
        /\ r.classes[r.paths[k]].file = k[1]
        /\ \A other \in Keys : r.paths[other] = r.paths[k] => other = k

\* A scan: the class a path leads to is that of its file, from what it holds.
LEMMA ScanFacts ==
    ASSUME TypeOK, NEW order \in SetToSeqs(Scannable)
    PROVE  /\ Scan(disk, order) \in Registries
           /\ Paths(Scan(disk, order))
           /\ \A k \in Keys :
                 LET n == Scan(disk, order).paths[k]
                 IN  n # NoName => Scan(disk, order).classes[n].content = disk[k[1]]
<1> PICK q : q = Scan(disk, order)
  OBVIOUS
<1> DEFINE D == DOMAIN order
           defines(i, n) == n \in ToSet(disk[order[i]].defines)
           last(i, n) == defines(i, n) /\ \A j \in D : j > i => ~defines(j, n)
           from(n) == {order[i] : i \in {j \in D : last(j, n)}}
           named(k) == {n \in Names : \E i \in D :
                           /\ k = <<order[i], "relative">> /\ last(i, n)
                           /\ n = Last(disk[order[i]].defines)}
<1>1. /\ D \subseteq Int
      /\ \A i \in D : order[i] \in Files /\ disk[order[i]] \in Contents
      /\ \A i, j \in D : order[i] = order[j] => i = j
  BY DEF SetToSeqs, Scannable, TypeOK
<1>2. q = [classes |-> [n \in Names |-> IF from(n) = {} THEN NoClass
                          ELSE LET f == CHOOSE f \in from(n) : TRUE
                               IN [file |-> f, content |-> disk[f]]],
           paths |-> [k \in Keys |-> IF named(k) = {} THEN NoName
                                     ELSE CHOOSE n \in named(k) : TRUE]]
  BY DEF Scan
<1>3. ASSUME NEW n \in Names
      PROVE  \/ from(n) = {} /\ q.classes[n] = NoClass
             \/ \E f \in from(n) : q.classes[n] = [file |-> f, content |-> disk[f]]
  <2>1. q.classes[n] = IF from(n) = {} THEN NoClass
                       ELSE LET f == CHOOSE f \in from(n) : TRUE
                            IN [file |-> f, content |-> disk[f]]
    BY <1>2
  <2> HIDE DEF from
  <2>2. from(n) # {} => (CHOOSE f \in from(n) : TRUE) \in from(n)
    OBVIOUS
  <2> QED
    BY <2>1, <2>2
<1>4. ASSUME NEW k \in Keys PROVE q.paths[k] = NoName \/ q.paths[k] \in named(k)
  <2>1. q.paths[k] = IF named(k) = {} THEN NoName ELSE CHOOSE n \in named(k) : TRUE
    BY <1>2
  <2> HIDE DEF named
  <2> QED
    BY <2>1
<1>5. \A n \in Names : \A f \in from(n) : f \in Files /\ disk[f] \in Contents
  BY <1>1
<1>6. \A n \in Names : q.classes[n] \in Class \cup {NoClass}
  BY <1>2, <1>3, <1>5, ContentFacts
<1>7. q \in Registries
  <2>1. \A k \in Keys : q.paths[k] \in Names \cup {NoName}
    BY <1>4
  <2>2. /\ q = [classes |-> q.classes, paths |-> q.paths]
        /\ q.classes = [n \in Names |-> q.classes[n]]
        /\ q.paths = [k \in Keys |-> q.paths[k]]
    BY <1>2
  <2> QED
    BY <1>6, <2>1, <2>2 DEF Registries
<1>8. ASSUME NEW n \in Names, NEW i \in D, NEW j \in D, last(i, n), last(j, n) PROVE i = j
  BY <1>1, <1>8
<1>9. ASSUME NEW k \in Keys, q.paths[k] # NoName
      PROVE  /\ q.paths[k] \in Names
             /\ \E i \in D : k = <<order[i], "relative">> /\ last(i, q.paths[k])
             /\ q.classes[q.paths[k]] = [file |-> k[1], content |-> disk[k[1]]]
             /\ k[1] \in Files /\ disk[k[1]] \in Contents
  <2>1. q.paths[k] \in named(k)
    BY <1>4, <1>9
  <2>2. PICK n \in Names : n = q.paths[k]
    BY <2>1
  <2>3. PICK i \in D : k = <<order[i], "relative">> /\ last(i, n)
    BY <2>1, <2>2
  <2>4. from(n) = {order[i]}
    BY <2>3, <1>8
  <2> QED
    BY <1>1, <1>3, <2>2, <2>3, <2>4
<1>10. ASSUME NEW k \in Keys, q.paths[k] # NoName
       PROVE  /\ q.classes[q.paths[k]].file = k[1]
              /\ q.classes[q.paths[k]].content = disk[k[1]]
              /\ q.classes[q.paths[k]] # NoClass
  <2> PICK f : f = k[1]
    OBVIOUS
  <2>1. q.classes[q.paths[k]] = [file |-> f, content |-> disk[f]] /\ f \in Files /\ disk[f] \in Contents
    BY <1>9, <1>10
  <2> PICK class : class = q.classes[q.paths[k]]
    OBVIOUS
  <2> QED
    BY <2>1, ContentFacts
<1>11. Paths(q)
  <2> SUFFICES ASSUME NEW k \in Keys, q.paths[k] # NoName
               PROVE  /\ q.classes[q.paths[k]] # NoClass
                      /\ q.classes[q.paths[k]].file = k[1]
                      /\ \A other \in Keys : q.paths[other] = q.paths[k] => other = k
    BY DEF Paths
  <2>1. ASSUME NEW other \in Keys, q.paths[other] = q.paths[k] PROVE other = k
    <3>1. PICK i \in D : k = <<order[i], "relative">> /\ last(i, q.paths[k])
      BY <1>9
    <3>2. PICK j \in D : other = <<order[j], "relative">> /\ last(j, q.paths[k])
      BY <1>9, <2>1
    <3> HIDE DEF D, last
    <3> QED
      BY <1>8, <1>9, <3>1, <3>2
  <2> QED
    BY <1>10, <2>1
<1> HIDE DEF D, defines, last, from, named
<1> QED
  BY <1>7, <1>10, <1>11

-----------------------------------------------------------------------------
(* Types, jobs and phases through the life of the server and its requests. *)

\* A step that leaves the jobs alone.
LEMMA SameJobs == JobsInv /\ UNCHANGED job => JobsInv'
BY DEF JobsInv, Unregisters

LEMMA StimulusFacts == TypeOK /\ Stimulus => stimuli' \in 0..MaxStimuli
BY RegistryAssumption DEF Stimulus, TypeOK, RegistryAssumption

LEMMA StartUpBase ==
    ASSUME Base, StartUp
    PROVE  Base'
<1>1. PICK order \in SetToSeqs(Scannable) : registry' = Scan(disk, order)
  BY DEF StartUp
<1>2. registry' \in Registries
  BY <1>1, ScanFacts DEF Base
<1>3. TypeOK'
  BY <1>2, StimulusFacts DEF Base, TypeOK, Registries, StartUp, runVars
<1>4. ServingInv'
  BY DEF Base, ServingInv, StartUp, runVars
<1> QED
  BY <1>3, <1>4, SameJobs DEF Base, StartUp

\* Rows are added up to the bound.
LEMMA RowsFacts ==
    ASSUME TypeOK, NEW names \in SUBSET Names, RoomFor(names)
    PROVE  /\ WithRows(names) \in [Names -> 0..MaxRows]
           /\ \A n \in Names : WithRows(names)[n] = IF n \in names THEN rows[n] + 1 ELSE rows[n]
BY RegistryAssumption DEF TypeOK, RoomFor, WithRows, RegistryAssumption

LEMMA SyncBase ==
    ASSUME Base, SyncSpiders
    PROVE  Base'
<1>1. /\ phase = "starting" /\ phase' \in {"down", "serving"}
      /\ phase' = "down" => registry' = Empty
      /\ registry' \in Registries
      /\ UNCHANGED <<fileVars, job, torn, raced, runVars, call, stimuli>>
  BY EmptyFacts DEF SyncSpiders, Base, TypeOK, Registries
<1>2. rows' \in [Names -> 0..MaxRows]
  <2>1. Rowless \in SUBSET Names
    BY DEF Rowless, Registered
  <2> QED
    BY <2>1, RowsFacts DEF SyncSpiders, Base, TypeOK
<1>3. TypeOK'
  BY <1>1, <1>2 DEF Base, TypeOK, Registries, fileVars, runVars
<1>4. ServingInv'
  BY <1>1 DEF Base, ServingInv, fileVars, runVars
<1> QED
  BY <1>1, <1>3, <1>4, SameJobs DEF Base

LEMMA StopBase ==
    ASSUME Base, Stop
    PROVE  Base'
<1>1. /\ phase' = "down" /\ registry' = Empty /\ job' = [t \in Threads |-> NoJob] /\ torn' = {}
      /\ runners' = [n \in Names |-> 0] /\ live' = {} /\ startRaced' = {}
      /\ watch' = {} /\ missed' = {} /\ call' = [c \in Clients |-> Idle]
      /\ UNCHANGED <<disk, rows, raced, stimuli>>
  BY DEF Stop
<1>2. TypeOK'
  BY <1>1, EmptyFacts, NoJobFacts DEF Base, TypeOK, Registries
<1>3. /\ \A t \in Threads : job'[t] = NoJob
      /\ \A c \in Clients : call'[c] = Idle
  BY <1>1
<1>4. JobsInv'
  BY <1>3, NoJobFacts, ThreadFacts DEF JobsInv, Unregisters
<1>5. ServingInv'
  BY <1>1, <1>3 DEF ServingInv
<1> QED
  BY <1>2, <1>4, <1>5 DEF Base

\* What an edit does to a file.
LEMMA EditFacts ==
    ASSUME TypeOK, CliAdd \/ \E how \in {"write", "rename"} : Edit(how)
    PROVE  \E f \in Files :
               /\ disk' \in [Files -> Contents \cup {NoFile}]
               /\ \A g \in Files \ {f} : disk'[g] = disk[g]
               /\ watch' \in SUBSET Files /\ missed' \in SUBSET Files
               /\ watch \subseteq watch' /\ missed \subseteq missed'
               /\ phase # "serving" => watch' = watch
               /\ phase # "down" => f \in watch' \cup missed'
               /\ UNCHANGED <<phase, registry, job, torn, rows, raced, runVars, call>>
<1>1. PICK f \in Files, content \in Contents \cup {NoFile}, event \in BOOLEAN :
          disk' = [disk EXCEPT ![f] = content] /\ Changes(f, event)
  BY DEF CliAdd, Edit
<1>2. /\ disk' \in [Files -> Contents \cup {NoFile}]
      /\ \A g \in Files \ {f} : disk'[g] = disk[g]
  BY <1>1 DEF TypeOK
<1>3. /\ watch' \in SUBSET Files /\ missed' \in SUBSET Files
      /\ watch \subseteq watch' /\ missed \subseteq missed'
      /\ phase # "serving" => watch' = watch
      /\ phase # "down" => f \in watch' \cup missed'
  BY <1>1 DEF TypeOK, Changes
<1> QED
  BY <1>2, <1>3 DEF CliAdd, Edit

LEMMA EditBase ==
    ASSUME Base, CliAdd \/ \E how \in {"write", "rename"} : Edit(how)
    PROVE  Base'
<1>1. PICK f \in Files :
               /\ disk' \in [Files -> Contents \cup {NoFile}]
               /\ watch' \in SUBSET Files /\ missed' \in SUBSET Files
               /\ phase # "serving" => watch' = watch
               /\ UNCHANGED <<phase, registry, job, torn, rows, raced, runVars, call>>
  BY EditFacts DEF Base
<1>2. stimuli' \in 0..MaxStimuli
  BY StimulusFacts DEF Base, CliAdd, Edit
<1>3. TypeOK'
  BY <1>1, <1>2 DEF Base, TypeOK, runVars
<1>4. ServingInv'
  BY <1>1 DEF Base, ServingInv, runVars
<1> QED
  BY <1>1, <1>3, <1>4, SameJobs DEF Base

\* A step of requests and runs alone.
RunStep ==
    /\ phase = "serving" /\ UNCHANGED <<phase, fileVars, registry, job, torn>>
    /\ rows' \in [Names -> 0..MaxRows] /\ raced' \in BOOLEAN
    /\ runners' \in [Names -> Nat] /\ live' \subseteq Names \X Nat /\ startRaced' \subseteq Names
    /\ call' \in [Clients -> Call] /\ stimuli' \in 0..MaxStimuli

LEMMA RunStepBase ==
    ASSUME Base, RunStep
    PROVE  Base'
<1>1. TypeOK'
  BY DEF Base, TypeOK, RunStep, fileVars
<1>2. ServingInv'
  BY DEF Base, ServingInv, RunStep, fileVars
<1> QED
  BY <1>1, <1>2, SameJobs DEF Base, RunStep

\* The state of a request changes.
LEMMA GoesFacts ==
    ASSUME TypeOK, NEW c \in Clients, NEW at \in {"idle", "insert", "start", "stopping"},
           NEW names \in SUBSET Names, NEW run \in Nat, Goes(c, at, names, run)
    PROVE  /\ call' \in [Clients -> Call]
           /\ call'[c].at = at /\ call'[c].names = names /\ call'[c].run = run
           /\ \A d \in Clients \ {c} : call'[d] = call[d]
<1> PICK q : q = [at |-> at, names |-> names, run |-> run]
  OBVIOUS
<1>1. q \in Call /\ q.at = at /\ q.names = names /\ q.run = run
  BY DEF Call
<1>2. call' = [call EXCEPT ![c] = q]
  BY DEF Goes
<1> QED
  BY <1>1, <1>2 DEF TypeOK

LEMMA ReturnsFacts ==
    ASSUME TypeOK, NEW c \in Clients, Returns(c)
    PROVE  /\ call' \in [Clients -> Call] /\ call'[c] = Idle
           /\ \A d \in Clients \ {c} : call'[d] = call[d]
BY NoJobFacts DEF TypeOK, Returns

\* A request is busy only while the server serves.
LEMMA CallFacts ==
    ASSUME Base, NEW c \in Clients
    PROVE  /\ call[c] \in Call /\ call[c].names \subseteq Names /\ call[c].run \in Nat
           /\ call[c].at # "idle" => phase = "serving"
BY NoJobFacts DEF Base, TypeOK, ServingInv, Call

LEMMA RunSteps ==
    ASSUME Base, NEW c \in Clients,
           \/ List(c) \/ CommitRows(c) \/ CommitStart(c) \/ CallFails(c)
           \/ \E n \in Names : Start(c, n)
           \/ \E r \in live : EndRun(r)
    PROVE  RunStep
<1>1. CASE List(c)
  <2>1. Rowless \in SUBSET Names /\ 0 \in Nat
    BY DEF Rowless, Registered
  <2> QED
    BY <1>1, <2>1, GoesFacts, StimulusFacts DEF Base, List, Request, RunStep, TypeOK, runVars
<1>2. CASE CommitRows(c)
  BY <1>2, RowsFacts, ReturnsFacts, CallFacts DEF Base, CommitRows, RunStep, TypeOK, runVars
<1>3. CASE CommitStart(c)
  <2>1. PICK n \in call[c].names :
            /\ runners' = [runners EXCEPT ![n] = @ + 1]
            /\ live' = live \cup {<<n, runners[n] + 1>>}
            /\ startRaced' \in {startRaced, startRaced \cup {n}}
    BY <1>3 DEF CommitStart
  <2>2. n \in Names /\ phase = "serving" /\ runners[n] + 1 \in Nat
    BY <1>3, <2>1, CallFacts DEF CommitStart, Base, TypeOK
  <2>3. runners' \in [Names -> Nat] /\ live' \subseteq Names \X Nat /\ startRaced' \subseteq Names
    BY <2>1, <2>2 DEF Base, TypeOK
  <2> QED
    BY <1>3, <2>2, <2>3, ReturnsFacts DEF Base, CommitStart, RunStep, TypeOK
<1>4. CASE CallFails(c)
  BY <1>4, ReturnsFacts, CallFacts DEF Base, CallFails, RunStep, TypeOK, runVars
<1>5. CASE \E n \in Names : Start(c, n)
  <2>1. PICK n \in Names : Start(c, n)
    BY <1>5
  <2>2. phase = "serving" /\ Goes(c, "start", {n}, 0) /\ Stimulus
        /\ UNCHANGED <<phase, fileVars, registry, job, torn, rows, raced, runVars>>
    BY <2>1 DEF Start, Request
  <2>3. TypeOK /\ {n} \in SUBSET Names /\ 0 \in Nat
    BY DEF Base
  <2>4. call' \in [Clients -> Call] /\ stimuli' \in 0..MaxStimuli
    BY <2>2, <2>3, GoesFacts, StimulusFacts
  <2> QED
    BY <2>2, <2>3, <2>4 DEF RunStep, TypeOK, runVars
<1>6. CASE \E r \in live : EndRun(r)
  BY <1>6 DEF Base, EndRun, RunStep, TypeOK, ServingInv
<1> QED
  BY <1>1, <1>2, <1>3, <1>4, <1>5, <1>6

\* A deletion stops the runner of the spider or removes the spider.
LEMMA DeleteFacts ==
    ASSUME Base, NEW c \in Clients, NEW n \in Names, Delete(c, n)
    PROVE  \/ RunStep
           \/ ~Runs(n) /\ job["loop"] = NoJob /\ RemoveSpider(n)
<1>1. CASE Runs(n)
  <2>1. runners[n] \in Nat /\ {n} \in SUBSET Names
    BY DEF Base, TypeOK
  <2> QED
    BY <1>1, <2>1, GoesFacts DEF Base, Delete, Request, RunStep, TypeOK
<1>2. CASE ~Runs(n)
  BY <1>2 DEF Delete, Request, Free
<1> QED
  BY <1>1, <1>2

\* A step that removes a spider.
LEMMA RemoveBase ==
    ASSUME Base, job["loop"] = NoJob, NEW n \in Names, RemoveSpider(n), phase = "serving",
           live' \subseteq live, call' \in [Clients -> Call],
           UNCHANGED <<phase, fileVars, rows, raced, runners, stimuli>>
    PROVE  Base'
<1>1. torn' \subseteq Names
  <2>1. TypeOK /\ JobsInv /\ torn \subseteq Names
    BY DEF Base, TypeOK
  <2>2. torn' = torn \/ torn' = IF WorksOn("watcher", n) THEN torn \cup {n} ELSE torn
    BY <2>1, RemoveFacts
  <2> QED
    BY <2>1, <2>2
<1>2. TypeOK'
  BY <1>1, RemoveFacts DEF Base, TypeOK, Registries, fileVars
<1>3. ServingInv'
  BY DEF ServingInv
<1> QED
  BY <1>2, <1>3, RemoveFacts DEF Base

LEMMA DeleteBase ==
    ASSUME Base, NEW c \in Clients,
           Stopped(c) \/ \E n \in Names : Delete(c, n)
    PROVE  Base'
<1>1. CASE Stopped(c)
  <2>1. PICK n \in call[c].names : RemoveSpider(n) /\ live' = live \ {<<n, call[c].run>>}
    BY <1>1 DEF Stopped
  <2> QED
    BY <1>1, <2>1, CallFacts, ReturnsFacts, RemoveBase DEF Base, Stopped, Free
<1>2. ASSUME NEW n \in Names, Delete(c, n) PROVE Base'
  <2>1. CASE RunStep
    BY <2>1, RunStepBase
  <2>2. CASE ~Runs(n)
    BY <1>2, <2>2, RemoveBase DEF Base, Delete, Request, Free, TypeOK
  <2> QED
    BY <1>2, <2>1, <2>2, DeleteFacts
<1> QED
  BY <1>1, <1>2

-----------------------------------------------------------------------------
(* Paths, and what the files hold.                                         *)

Web == OnePath /\ WorkInv /\ CatchInv

LEMMA SameWeb ==
    ASSUME Web, UNCHANGED <<fileVars, registry, job, torn>>, phase' # "down" => phase # "down"
    PROVE  Web'
<1> USE DEF fileVars
<1>1. OnePath'
  BY DEF Web, OnePath, KeysOf, Unregisters, Spider
<1>2. WorkInv'
  BY DEF Web, WorkInv, Working, KeysOf, Unregisters, Spider, WorksOn
<1>3. CatchInv'
  BY DEF Web, CatchInv, Unregistering, Unregisters, Spider, Loads
<1> QED
  BY <1>1, <1>2, <1>3 DEF Web

\* No path is new, and the spiders of those there are keep their classes.
Shrinks ==
    /\ registry' \in Registries
    /\ \A k \in Keys, n \in Names :
          n = registry'.paths[k] /\ n \notin torn' /\ ~Unregistering(n)' =>
              /\ registry.paths[k] = n /\ n \notin torn /\ ~Unregistering(n)
              /\ registry'.classes[n] = registry.classes[n]

LEMMA PathsKept ==
    ASSUME OnePath, Shrinks
    PROVE  OnePath'
<1>1. \A k \in Keys : registry'.paths[k] \in Names \cup {NoName}
  BY DEF Shrinks, Registries
<1> QED
  BY <1>1 DEF Shrinks, OnePath, KeysOf, Unregistering

\* A thread goes on with its work on a spider while the other is elsewhere.
LEMMA WorkKept ==
    ASSUME NEW u \in Threads, NEW n, Working(u, n), job'[u] = job[u], ~WorksOn(Other(u), n)',
           registry'.classes[n] = registry.classes[n], KeysOf(n)' \subseteq KeysOf(n)
    PROVE  Working(u, n)'
BY DEF Working, Unregisters

\* What a thread loads is as before, or it loads no more.
LEMMA CatchKept ==
    ASSUME Base, CatchInv, UNCHANGED <<phase, disk, watch>>, Shrinks,
           missed \subseteq missed',
           \A u \in Threads, f \in Files :
               /\ Loads(u, f)' => Loads(u, f) /\ job'[u].from = job[u].from
               /\ Loads(u, f) /\ f \notin missed' => Loads(u, f)' /\ job'[u].todo = job[u].todo
    PROVE  CatchInv'
<1> SUFFICES ASSUME phase # "down" PROVE CatchInv'
  BY DEF CatchInv
<1>1. ASSUME NEW k \in Keys, NEW n, n = registry'.paths[k],
             n # NoName, n \notin torn', ~Unregistering(n)',
             k[1] \notin watch \cup missed',
             Registrable(disk[k[1]]), n \in ToSet(disk[k[1]].defines)
      PROVE  \/ registry'.classes[n].content = disk[k[1]]
             \/ \E u \in Threads : Loads(u, k[1])' /\ n \in ToSet(job'[u].todo)
  <2>1. k[1] \in Files
    BY DEF Keys
  <2>2. /\ registry.paths[k] = n /\ n \notin torn /\ ~Unregistering(n)
        /\ registry'.classes[n] = registry.classes[n]
    BY <1>1 DEF Shrinks, Registries
  <2>3. \/ registry.classes[n].content = disk[k[1]]
        \/ \E u \in Threads : Loads(u, k[1]) /\ n \in ToSet(job[u].todo)
    BY <1>1, <2>2 DEF CatchInv
  <2> QED
    BY <1>1, <2>1, <2>2, <2>3
<1>2. ASSUME NEW u \in Threads, NEW f \in Files, Loads(u, f)', f \notin watch \cup missed'
      PROVE  job'[u].from.content = disk[f]
  BY <1>2 DEF CatchInv
<1> QED
  BY <1>1, <1>2 DEF CatchInv

LEMMA CheckWeb ==
    ASSUME Base, Web, NEW t \in Threads, Check(t)
    PROVE  Web'
<1>0. PICK n : n = Spider(t)
  OBVIOUS
<1>1. /\ job[t].at = "check" /\ Forgets(t, OldKeys(t))
      /\ UNCHANGED <<phase, disk, watch, missed, registry>>
      /\ torn' = IF WorksOn(Other(t), n) THEN torn \cup {n} ELSE torn
  BY <1>0 DEF Check, fileVars
<1>2. /\ TypeOK /\ JobsInv /\ OnePath /\ WorkInv /\ CatchInv /\ Other(t) \in Threads
      /\ n \in Names /\ job[t] # NoJob /\ \A u \in Threads : u = t \/ u = Other(t)
  BY <1>0, <1>1, JobFacts, ThreadFacts DEF Base, Web
<1>3. /\ OldKeys(t) \in SUBSET Keys /\ torn \subseteq torn'
      /\ n \notin torn' => /\ ~WorksOn(Other(t), n) /\ OldKeys(t) = KeysOf(n)
  BY <1>0, <1>2, OldKeysFacts
<1>4. /\ job'[Other(t)] = job[Other(t)]
      /\ \/ job'[t] = NoJob /\ Unregisters(t) /\ OldKeys(t) = {}
         \/ /\ job'[t].from = job[t].from /\ job'[t].todo = job[t].todo /\ Spider(t)' = n
            /\ \/ job'[t].at = "forget" /\ job'[t].old = OldKeys(t)
               \/ job'[t].at = "class" /\ ~Unregisters(t) /\ OldKeys(t) = {}
  BY <1>0, <1>1, <1>2, <1>3, ForgetsFacts DEF Spider
<1>5. ASSUME NEW m PROVE WorksOn(Other(t), m)' <=> WorksOn(Other(t), m)
  BY <1>4 DEF WorksOn, Spider, Unregisters
<1>6. ASSUME NEW m, ~Unregistering(m)', Unregistering(m)
      PROVE  m = n /\ (n \in torn' \/ KeysOf(n) = {})
  <2>1. t = "loop" /\ m = n
    BY <1>0, <1>2, <1>4, <1>6, ThreadFacts DEF Unregistering, Unregisters, Spider
  <2>2. Unregisters(t)
    BY <1>6, <2>1 DEF Unregistering
  <2>3. job'[t] = NoJob
    BY <1>2, <1>4, <1>6, <2>1, <2>2, NoJobFacts DEF Unregistering, Unregisters
  <2>4. OldKeys(t) = {}
    BY <1>1, <1>4, <2>3, NoJobFacts
  <2> QED
    BY <1>3, <2>1, <2>4
<1>7. Shrinks
  <2>1. \A k \in Keys, m \in Names :
           m = registry.paths[k] /\ m \notin torn' /\ ~Unregistering(m)' =>
               m \notin torn /\ ~Unregistering(m)
    BY <1>3, <1>6 DEF KeysOf
  <2> QED
    BY <1>1, <1>2, <2>1 DEF Shrinks, TypeOK, Registries
<1>8. OnePath'
  BY <1>2, <1>7, PathsKept
<1>9. WorkInv'
  <2> SUFFICES ASSUME NEW u \in Threads, NEW m \in Names \ torn', WorksOn(u, m)'
               PROVE  Working(u, m)'
    BY DEF WorkInv
  <2>1. CASE u = t
    <3>1. m = n /\ n \notin torn'
      BY <1>4, <2>1, NoJobFacts DEF WorksOn
    <3>2. ~WorksOn(Other(t), n)' /\ OldKeys(t) = KeysOf(n)
      BY <1>3, <1>5, <3>1
    <3>3. Unregisters(t)' => registry.classes[n] = NoClass
      BY <1>0, <1>2, <1>3, <1>4, <2>1, <3>1 DEF WorkInv, Working, WorksOn, Unregisters
    <3> QED
      BY <1>1, <1>4, <2>1, <3>1, <3>2, <3>3 DEF Working, KeysOf, WorksOn
  <2>2. CASE u = Other(t)
    <3>1. job'[u] = job[u] /\ WorksOn(u, m) /\ m \notin torn /\ Other(u) = t
      BY <1>3, <1>4, <1>5, <2>2, ThreadFacts
    <3>2. ~WorksOn(t, m)'
      <4>1. WorksOn(t, m)' => m = n
        BY <1>4 DEF WorksOn
      <4>2. m # n
        BY <1>3, <2>2, <3>1
      <4> QED
        BY <4>1, <4>2
    <3>3. Working(u, m)
      BY <1>2, <3>1 DEF WorkInv
    <3> QED
      BY <1>1, <3>1, <3>2, <3>3, WorkKept DEF KeysOf
  <2> QED
    BY <1>2, <2>1, <2>2
<1>10. CatchInv'
  <2>1. ASSUME NEW u \in Threads, NEW f \in Files
        PROVE  /\ Loads(u, f)' => Loads(u, f) /\ job'[u].from = job[u].from
               /\ Loads(u, f) => Loads(u, f)' /\ job'[u].todo = job[u].todo
    BY <1>2, <1>4, NoJobFacts DEF Loads, Unregisters
  <2> QED
    BY <1>1, <1>2, <1>7, <2>1, CatchKept
<1> QED
  BY <1>8, <1>9, <1>10 DEF Web

LEMMA ForgetWeb ==
    ASSUME Base, Web, NEW t \in Threads, Forget(t)
    PROVE  Web'
<1>0. PICK n : n = Spider(t)
  OBVIOUS
<1>1. PICK k \in job[t].old :
          registry' = [registry EXCEPT !.paths[k] = NoName] /\ Forgets(t, job[t].old \ {k})
  BY DEF Forget
<1>2. job[t].at = "forget" /\ UNCHANGED <<phase, disk, watch, missed, torn>>
  BY DEF Forget, fileVars
<1>3. /\ TypeOK /\ JobsInv /\ OnePath /\ WorkInv /\ CatchInv /\ Other(t) \in Threads
      /\ n \in Names /\ job[t] # NoJob /\ job[t].old \subseteq Keys
      /\ \A u \in Threads : u = t \/ u = Other(t)
  BY <1>0, <1>2, JobFacts, ThreadFacts DEF Base, Web
<1>4. /\ registry' \in Registries /\ registry'.classes = registry.classes
      /\ registry'.paths[k] = NoName
      /\ \A o \in Keys \ {k} : registry'.paths[o] = registry.paths[o]
      /\ \A m \in Names : KeysOf(m)' = KeysOf(m) \ {k}
  <2>1. /\ registry' \in Registries /\ registry'.classes = registry.classes
        /\ registry'.paths[k] = NoName
        /\ \A o \in Keys \ {k} : registry'.paths[o] = registry.paths[o]
    BY <1>1, <1>3 DEF TypeOK, Registries
  <2> QED
    BY <1>3, <2>1, RegistryAssumption DEF KeysOf, RegistryAssumption
<1>5. /\ job'[Other(t)] = job[Other(t)]
      /\ \/ job'[t] = NoJob /\ Unregisters(t) /\ job[t].old \ {k} = {}
         \/ /\ job'[t].from = job[t].from /\ job'[t].todo = job[t].todo /\ Spider(t)' = n
            /\ \/ job'[t].at = "forget" /\ job'[t].old = job[t].old \ {k}
               \/ job'[t].at = "class" /\ ~Unregisters(t) /\ job[t].old \ {k} = {}
  BY <1>0, <1>1, <1>2, <1>3, ForgetsFacts DEF Spider
<1>6. WorksOn(t, n) /\ (n \notin torn => Working(t, n) /\ KeysOf(n) \subseteq job[t].old)
  BY <1>0, <1>2, <1>3 DEF WorksOn, WorkInv, Working
<1>7. ASSUME NEW m, ~Unregistering(m)', Unregistering(m)
      PROVE  m = n /\ (n \in torn \/ KeysOf(n)' = {})
  <2>1. t = "loop" /\ m = n
    BY <1>0, <1>3, <1>5, <1>7, ThreadFacts DEF Unregistering, Unregisters, Spider
  <2>2. Unregisters(t)
    BY <1>7, <2>1 DEF Unregistering
  <2>3. job'[t] = NoJob
    BY <1>3, <1>5, <1>7, <2>1, <2>2, NoJobFacts DEF Unregistering, Unregisters
  <2>4. job[t].old \ {k} = {}
    BY <1>1, <1>5, <2>3, NoJobFacts
  <2> QED
    BY <1>3, <1>4, <1>6, <2>1, <2>4
<1>8. Shrinks
  <2>1. \A o \in Keys, m \in Names :
           m = registry'.paths[o] /\ m \notin torn' /\ ~Unregistering(m)' =>
               registry.paths[o] = m /\ m \notin torn /\ ~Unregistering(m)
    BY <1>2, <1>4, <1>7, RegistryAssumption DEF KeysOf, RegistryAssumption
  <2> QED
    BY <1>4, <2>1 DEF Shrinks
<1>9. OnePath'
  BY <1>3, <1>8, PathsKept
<1>10. WorkInv'
  <2> SUFFICES ASSUME NEW u \in Threads, NEW m \in Names \ torn, WorksOn(u, m)'
               PROVE  Working(u, m)'
    BY <1>2 DEF WorkInv
  <2>0. WorksOn(Other(t), m)' <=> WorksOn(Other(t), m)
    BY <1>5 DEF WorksOn, Spider, Unregisters
  <2>1. CASE u = t
    <3>1. m = n
      BY <1>5, <2>1, NoJobFacts DEF WorksOn
    <3>2. Working(t, n) /\ ~WorksOn(Other(t), n)' /\ KeysOf(n) \subseteq job[t].old
      BY <1>6, <2>0, <3>1 DEF Working
    <3>3. Unregisters(t)' => registry'.classes[n] = NoClass
      BY <1>3, <1>4, <1>5, <3>2 DEF Working, Unregisters
    <3> QED
      BY <1>4, <1>5, <2>1, <3>1, <3>2, <3>3, NoJobFacts DEF Working, WorksOn
  <2>2. CASE u = Other(t)
    <3>1. job'[u] = job[u] /\ WorksOn(u, m) /\ Other(u) = t
      BY <1>5, <2>0, <2>2, ThreadFacts
    <3>2. Working(u, m)
      BY <1>3, <3>1 DEF WorkInv
    <3>3. ~WorksOn(t, m)'
      BY <1>5, <1>6, <3>1, <3>2 DEF Working, WorksOn
    <3> QED
      BY <1>4, <3>1, <3>2, <3>3, WorkKept
  <2> QED
    BY <1>3, <2>1, <2>2
<1>11. CatchInv'
  <2>1. ASSUME NEW u \in Threads, NEW f \in Files
        PROVE  /\ Loads(u, f)' => Loads(u, f) /\ job'[u].from = job[u].from
               /\ Loads(u, f) => Loads(u, f)' /\ job'[u].todo = job[u].todo
    BY <1>3, <1>5, NoJobFacts DEF Loads, Unregisters
  <2> QED
    BY <1>2, <1>3, <1>8, <2>1, CatchKept
<1> QED
  BY <1>9, <1>10, <1>11 DEF Web

LEMMA BreaksOffWeb ==
    ASSUME Base, Web, NEW t \in Threads, BreaksOff(t)
    PROVE  Web'
<1>0. PICK n : n = Spider(t)
  OBVIOUS
<1>1. /\ TypeOK /\ JobsInv /\ OnePath /\ WorkInv /\ CatchInv /\ Other(t) \in Threads
      /\ \A u \in Threads : u = t \/ u = Other(t)
  BY ThreadFacts DEF Base, Web
<1>2. /\ UNCHANGED <<phase, disk, watch, registry>>
      /\ job'[t] = NoJob /\ job'[Other(t)] = job[Other(t)]
      /\ torn \subseteq torn' /\ missed \subseteq missed'
      /\ Unregisters(t) => n \in torn'
      /\ ~Unregisters(t) => job[t].from # NoClass /\ job[t].from.file \in missed'
  BY <1>0, <1>1, BreaksOffFacts
<1>3. ASSUME NEW m, ~Unregistering(m)', Unregistering(m)
      PROVE  m \in torn'
  BY <1>0, <1>1, <1>2, <1>3, ThreadFacts DEF Unregistering, Unregisters, Spider
<1>4. Shrinks
  BY <1>1, <1>2, <1>3 DEF Shrinks, TypeOK, Registries
<1>5. OnePath'
  BY <1>1, <1>4, PathsKept
<1>6. WorkInv'
  <2> SUFFICES ASSUME NEW u \in Threads, NEW m \in Names \ torn', WorksOn(u, m)'
               PROVE  Working(u, m)'
    BY DEF WorkInv
  <2>1. u = Other(t) /\ job'[u] = job[u] /\ Other(u) = t
    BY <1>1, <1>2, ThreadFacts DEF WorksOn
  <2>2. WorksOn(u, m) /\ ~WorksOn(t, m)' /\ KeysOf(m)' = KeysOf(m)
    BY <1>2, <2>1 DEF WorksOn, Spider, Unregisters, KeysOf
  <2>3. Working(u, m)
    BY <1>1, <1>2, <2>2 DEF WorkInv
  <2> QED
    BY <1>2, <2>1, <2>2, <2>3, WorkKept
<1>7. CatchInv'
  <2>1. ASSUME NEW u \in Threads, NEW f \in Files
        PROVE  /\ Loads(u, f)' => Loads(u, f) /\ job'[u].from = job[u].from
               /\ Loads(u, f) /\ f \notin missed' => Loads(u, f)' /\ job'[u].todo = job[u].todo
    <3>1. CASE u = t
      BY <1>2, <3>1, NoJobFacts DEF Loads, Unregisters
    <3>2. CASE u = Other(t)
      BY <1>2, <3>2 DEF Loads
    <3> QED
      BY <1>1, <3>1, <3>2
  <2> QED
    BY <1>1, <1>2, <1>4, <2>1, CatchKept
<1> QED
  BY <1>5, <1>6, <1>7 DEF Web

LEMMA SetClassWeb ==
    ASSUME Base, Web, NEW t \in Threads, SetClass(t)
    PROVE  Web'
<1>0. PICK n : n = Spider(t)
  OBVIOUS
<1>1. job[t].at = "class" /\ UNCHANGED <<phase, disk, watch, missed>>
  BY DEF SetClass, fileVars
<1>2. /\ TypeOK /\ JobsInv /\ OnePath /\ WorkInv /\ CatchInv /\ Other(t) \in Threads
      /\ n \in Names /\ job[t] # NoJob /\ \A u \in Threads : u = t \/ u = Other(t)
  BY <1>0, <1>1, JobFacts, ThreadFacts DEF Base, Web
<1>3. /\ job[t].from # NoClass /\ ~Unregisters(t)
      /\ registry' \in Registries /\ registry'.paths = registry.paths
      /\ registry'.classes[n] = job[t].from
      /\ \A m \in Names \ {n} : registry'.classes[m] = registry.classes[m]
      /\ job'[Other(t)] = job[Other(t)]
      /\ job'[t].at = "path" /\ job'[t].from = job[t].from /\ job'[t].todo = job[t].todo
      /\ torn' \in SUBSET torn /\ torn \ {n} \subseteq torn'
      /\ n \notin torn' /\ n \in torn => KeysOf(n) = {} /\ ~WorksOn(Other(t), n)
  BY <1>0, <1>2, SetClassFacts
<1>4. WorksOn(t, n) /\ (n \notin torn' => KeysOf(n) = {} /\ ~WorksOn(Other(t), n))
  <2>1. WorksOn(t, n)
    BY <1>0, <1>1, <1>2 DEF WorksOn
  <2>2. n \notin torn => KeysOf(n) = {} /\ ~WorksOn(Other(t), n)
    BY <1>1, <1>2, <2>1 DEF WorkInv, Working
  <2> QED
    BY <1>3, <2>1, <2>2
<1>5. ASSUME NEW m PROVE Unregistering(m)' <=> Unregistering(m)
  BY <1>2, <1>3, NoJobFacts, ThreadFacts DEF Unregistering, Unregisters, Spider
<1>6. \A m : KeysOf(m)' = KeysOf(m)
  BY <1>3 DEF KeysOf
<1>7. Shrinks
  <2> SUFFICES ASSUME NEW k \in Keys, NEW m \in Names,
                      m = registry'.paths[k], m \notin torn', ~Unregistering(m)'
               PROVE  /\ registry.paths[k] = m /\ m \notin torn /\ ~Unregistering(m)
                      /\ registry'.classes[m] = registry.classes[m]
    BY <1>3 DEF Shrinks
  <2>1. registry.paths[k] = m /\ KeysOf(m) # {}
    BY <1>3 DEF KeysOf
  <2> QED
    BY <1>3, <1>4, <1>5, <2>1
<1>8. OnePath'
  BY <1>2, <1>7, PathsKept
<1>9. WorkInv'
  <2> SUFFICES ASSUME NEW u \in Threads, NEW m \in Names \ torn', WorksOn(u, m)'
               PROVE  Working(u, m)'
    BY DEF WorkInv
  <2>0. WorksOn(Other(t), m)' <=> WorksOn(Other(t), m)
    BY <1>3 DEF WorksOn, Spider, Unregisters
  <2>1. CASE u = t
    <3>1. m = n
      BY <1>0, <1>3, <2>1 DEF WorksOn, Spider
    <3> QED
      BY <1>3, <1>4, <1>6, <2>0, <2>1, <3>1 DEF Working, Unregisters
  <2>2. CASE u = Other(t)
    <3>1. job'[u] = job[u] /\ WorksOn(u, m) /\ Other(u) = t
      BY <1>3, <2>0, <2>2, ThreadFacts
    <3>2. m # n /\ m \notin torn
      BY <1>3, <1>4, <2>2, <3>1
    <3>3. Working(u, m)
      BY <1>2, <3>1, <3>2 DEF WorkInv
    <3>4. ~WorksOn(t, m)'
      BY <1>0, <1>3, <3>2 DEF WorksOn, Spider
    <3> QED
      BY <1>3, <1>6, <3>1, <3>2, <3>3, <3>4, WorkKept
  <2> QED
    BY <1>2, <2>1, <2>2
<1>10. CatchInv'
  <2>1. ASSUME NEW u \in Threads, NEW f \in Files
        PROVE  /\ Loads(u, f)' => Loads(u, f) /\ job'[u].from = job[u].from
               /\ Loads(u, f) => Loads(u, f)' /\ job'[u].todo = job[u].todo
    BY <1>2, <1>3 DEF Loads
  <2> QED
    BY <1>1, <1>2, <1>7, <2>1, CatchKept
<1> QED
  BY <1>8, <1>9, <1>10 DEF Web

LEMMA SetPathWeb ==
    ASSUME Base, Web, NEW t \in Threads, SetPath(t)
    PROVE  Web'
<1>0. PICK n, f, p : n = Spider(t) /\ f = job[t].from.file /\ p = <<f, KindOf(t)>>
  OBVIOUS
<1>1. job[t].at = "path" /\ UNCHANGED <<phase, disk, watch, missed, torn>>
  BY DEF SetPath, fileVars
<1>2. /\ TypeOK /\ JobsInv /\ OnePath /\ WorkInv /\ CatchInv /\ Other(t) \in Threads
      /\ n \in Names /\ job[t] # NoJob /\ \A u \in Threads : u = t \/ u = Other(t)
  BY <1>0, <1>1, JobFacts, ThreadFacts DEF Base, Web
<1>3. /\ job[t].from # NoClass /\ ~Unregisters(t)
      /\ registry' \in Registries /\ registry'.classes = registry.classes
      /\ registry'.paths[p] = n
      /\ \A k \in Keys \ {p} : registry'.paths[k] = registry.paths[k]
      /\ job'[Other(t)] = job[Other(t)]
      /\ \/ job'[t] = NoJob /\ ToSet(job[t].todo) \subseteq {n}
         \/ /\ job'[t].at = "check" /\ job'[t].from = job[t].from
            /\ ToSet(job[t].todo) \subseteq ToSet(job'[t].todo) \cup {n}
  BY <1>0, <1>2, SetPathFacts
<1>4. /\ WorksOn(t, n) /\ f \in Files /\ p \in Keys /\ p[1] = f /\ Loads(t, f)
      /\ n \notin torn => /\ Working(t, n) /\ KeysOf(n) = {}
                          /\ registry.classes[n] = job[t].from
  <2>1. WorksOn(t, n) /\ job[t].from \in Class /\ p \in Keys
    BY <1>0, <1>1, <1>2, <1>3, JobFacts DEF WorksOn
  <2>2. f \in Files /\ p[1] = f /\ Loads(t, f)
    BY <1>0, <1>3, <2>1 DEF Class, Loads
  <2> QED
    BY <1>1, <1>2, <2>1, <2>2 DEF WorkInv, Working
<1>5. ASSUME NEW m PROVE Unregistering(m)' <=> Unregistering(m)
  BY <1>2, <1>3, NoJobFacts, ThreadFacts DEF Unregistering, Unregisters, Spider
<1>6. ASSUME NEW m \in Names, m # n PROVE KeysOf(m)' \subseteq KeysOf(m)
  BY <1>3, <1>6 DEF KeysOf
<1>7. n \notin torn => KeysOf(n)' = {p}
  BY <1>3, <1>4 DEF KeysOf
<1>8. OnePath'
  <2> SUFFICES ASSUME NEW k \in Keys, NEW m, m = registry'.paths[k],
                      m # NoName, m \notin torn, ~Unregistering(m)
               PROVE  /\ registry'.classes[m] # NoClass
                      /\ registry'.classes[m].file = k[1]
                      /\ KeysOf(m)' = {k}
    BY <1>1, <1>5 DEF OnePath, KeysOf, Unregistering
  <2>1. CASE m = n
    BY <1>0, <1>3, <1>4, <1>7, <2>1 DEF KeysOf
  <2>2. CASE m # n
    <3>1. registry.paths[k] = m /\ k # p /\ m \in Names
      BY <1>2, <1>3, <2>2 DEF TypeOK
    <3>2. registry.classes[m] # NoClass /\ registry.classes[m].file = k[1] /\ KeysOf(m) = {k}
      BY <1>2, <3>1 DEF OnePath, Unregistering
    <3> QED
      BY <1>3, <1>6, <2>2, <3>1, <3>2 DEF KeysOf
  <2> QED
    BY <2>1, <2>2
<1>9. WorkInv'
  <2> SUFFICES ASSUME NEW u \in Threads, NEW m \in Names \ torn, WorksOn(u, m)'
               PROVE  Working(u, m)'
    BY <1>1 DEF WorkInv
  <2>1. u = Other(t) /\ job'[u] = job[u] /\ Other(u) = t /\ ~WorksOn(t, m)'
    BY <1>2, <1>3, ThreadFacts DEF WorksOn, Unregisters
  <2>2. WorksOn(u, m)
    BY <2>1 DEF WorksOn, Spider, Unregisters
  <2>3. m # n /\ Working(u, m)
    BY <1>2, <1>4, <2>1, <2>2 DEF WorkInv, Working
  <2> QED
    BY <1>3, <1>6, <2>1, <2>3, WorkKept
<1>10. CatchInv'
  <2> SUFFICES ASSUME phase # "down" PROVE CatchInv'
    BY <1>1 DEF CatchInv
  <2>1. ASSUME NEW u \in Threads, NEW g \in Files
        PROVE  Loads(u, g)' => Loads(u, g) /\ job'[u].from = job[u].from
    BY <1>2, <1>3, NoJobFacts DEF Loads
  <2>2. ASSUME NEW k \in Keys, NEW m, m = registry'.paths[k],
               m # NoName, m \notin torn, ~Unregistering(m), k[1] \notin watch \cup missed,
               Registrable(disk[k[1]]), m \in ToSet(disk[k[1]].defines)
        PROVE  \/ registry'.classes[m].content = disk[k[1]]
               \/ \E u \in Threads : Loads(u, k[1])' /\ m \in ToSet(job'[u].todo)
    <3>1. CASE m = n
      <4>1. k = p
        BY <1>7, <2>2, <3>1 DEF KeysOf
      <4>2. job[t].from.content = disk[f]
        BY <1>2, <1>4, <2>2, <4>1 DEF CatchInv
      <4> QED
        BY <1>3, <1>4, <2>2, <3>1, <4>1, <4>2
    <3>2. CASE m # n
      <4>1. registry.paths[k] = m /\ k[1] \in Files
        BY <1>3, <2>2, <3>2 DEF Keys
      <4>2. \/ registry.classes[m].content = disk[k[1]]
            \/ \E u \in Threads : Loads(u, k[1]) /\ m \in ToSet(job[u].todo)
        BY <1>2, <2>2, <4>1 DEF CatchInv
      <4>3. ASSUME NEW u \in Threads, Loads(u, k[1]), m \in ToSet(job[u].todo)
            PROVE  Loads(u, k[1])' /\ m \in ToSet(job'[u].todo)
        BY <1>2, <1>3, <3>2, <4>3 DEF Loads
      <4> QED
        BY <1>3, <4>2, <4>3
    <3> QED
      BY <3>1, <3>2
  <2>3. ASSUME NEW u \in Threads, NEW g \in Files, Loads(u, g)', g \notin watch \cup missed
        PROVE  job'[u].from.content = disk[g]
    BY <1>2, <2>1, <2>3 DEF CatchInv
  <2> QED
    BY <1>1, <1>5, <2>2, <2>3 DEF CatchInv
<1> QED
  BY <1>8, <1>9, <1>10 DEF Web

\* A load that begins touches neither paths nor classes.
LEMMA BeginsWeb ==
    ASSUME Base, OnePath, WorkInv, NEW t \in Threads, job[t] = NoJob, NEW f \in Files,
           NEW content \in Contents, Begins(t, f, content) \/ UNCHANGED job,
           UNCHANGED <<registry, torn>>
    PROVE  OnePath' /\ WorkInv'
<1>1. /\ job'[Other(t)] = job[Other(t)] /\ Other(t) \in Threads
      /\ \A u \in Threads : u = t \/ u = Other(t)
      /\ job'[t] # NoJob => job'[t].at = "check" /\ job'[t].from # NoClass
  BY BeginsFacts, ThreadFacts DEF Base
<1>2. ASSUME NEW m PROVE Unregistering(m)' <=> Unregistering(m)
  BY <1>1, ThreadFacts DEF Unregistering, Unregisters, Spider
<1>3. ASSUME NEW m PROVE ~WorksOn(t, m)' /\ (WorksOn(Other(t), m)' <=> WorksOn(Other(t), m))
  BY <1>1 DEF WorksOn, Spider, Unregisters
<1>4. OnePath'
  BY <1>2 DEF OnePath, KeysOf, Unregistering
<1>5. WorkInv'
  <2> SUFFICES ASSUME NEW u \in Threads, NEW m \in Names \ torn, WorksOn(u, m)'
               PROVE  Working(u, m)'
    BY DEF WorkInv
  <2>1. u = Other(t) /\ job'[u] = job[u] /\ Other(u) = t /\ WorksOn(u, m) /\ ~WorksOn(t, m)'
    BY <1>1, <1>3, ThreadFacts
  <2>2. Working(u, m)
    BY <2>1 DEF WorkInv
  <2> QED
    BY <2>1, <2>2, WorkKept DEF KeysOf
<1> QED
  BY <1>4, <1>5

LEMMA UploadWeb ==
    ASSUME Base, Web, NEW c \in Clients, Upload(c)
    PROVE  Web'
<1>1. PICK f \in Files, content \in Contents :
               /\ phase = "serving" /\ job["loop"] = NoJob /\ watch' = watch \cup {f}
               /\ \A g \in Files \ {f} : disk'[g] = disk[g]
               /\ Begins("loop", f, content) \/ UNCHANGED job
               /\ UNCHANGED <<phase, missed, registry, torn>>
  BY UploadFacts DEF Base
<1>2. /\ job'["watcher"] = job["watcher"]
      /\ job'["loop"] # NoJob => job'["loop"].from.file = f
      /\ TypeOK /\ OnePath /\ WorkInv /\ CatchInv
  <2>1. CASE Begins("loop", f, content)
    <3>1. TypeOK /\ JobsInv /\ "loop" \in Threads /\ Other("loop") = "watcher"
      BY DEF Base, Threads, Other
    <3>2. /\ job'["watcher"] = job["watcher"]
          /\ job'["loop"] # NoJob => job'["loop"].from = [file |-> f, content |-> content]
      BY <1>1, <2>1, <3>1, BeginsFacts
    <3> QED
      BY <3>2 DEF Base, Web
  <2>2. CASE UNCHANGED job
    BY <1>1, <2>2 DEF Base, Web
  <2> QED
    BY <1>1, <2>1, <2>2
<1>3. OnePath' /\ WorkInv'
  BY <1>1, <1>2, BeginsWeb, ThreadFacts
<1>4. ASSUME NEW u \in Threads, NEW g \in Files, g # f
      PROVE  /\ Loads(u, g)' <=> Loads(u, g)
             /\ Loads(u, g) => job'[u] = job[u]
  BY <1>1, <1>2, <1>4, NoJobFacts DEF Loads, Threads
<1>5. ASSUME NEW m PROVE Unregistering(m)' <=> Unregistering(m)
  <2>1. ~Unregisters("loop")
    BY <1>1 DEF Unregisters
  <2>2. ~Unregisters("loop")'
    BY <1>1, <2>1, BeginsFacts, ThreadFacts DEF Base, Unregisters
  <2> QED
    BY <2>1, <2>2 DEF Unregistering
<1>6. CatchInv'
  <2>1. ASSUME NEW k \in Keys, NEW n, n = registry.paths[k],
               n # NoName, n \notin torn, ~Unregistering(n), k[1] \notin watch' \cup missed,
               Registrable(disk'[k[1]]), n \in ToSet(disk'[k[1]].defines)
        PROVE  \/ registry.classes[n].content = disk'[k[1]]
               \/ \E u \in Threads : Loads(u, k[1])' /\ n \in ToSet(job'[u].todo)
    <3>1. k[1] \in Files \ {f} /\ disk'[k[1]] = disk[k[1]] /\ k[1] \notin watch
      BY <1>1, <2>1 DEF Keys
    <3>2. \/ registry.classes[n].content = disk[k[1]]
          \/ \E u \in Threads : Loads(u, k[1]) /\ n \in ToSet(job[u].todo)
      BY <1>1, <1>2, <2>1, <3>1 DEF CatchInv
    <3> QED
      BY <1>4, <3>1, <3>2
  <2>2. ASSUME NEW u \in Threads, NEW g \in Files, Loads(u, g)', g \notin watch' \cup missed
        PROVE  job'[u].from.content = disk'[g]
    BY <1>1, <1>2, <1>4, <2>2 DEF CatchInv
  <2> QED
    BY <1>1, <1>5, <2>1, <2>2 DEF CatchInv
<1> QED
  BY <1>3, <1>6 DEF Web

LEMMA ReloadWeb ==
    ASSUME Base, Web, NEW f \in Files, Reload(f)
    PROVE  Web'
<1>1. /\ job["watcher"] = NoJob /\ f \in watch
      /\ watch' = watch \ {f}
      /\ missed' = IF Loads("loop", f) /\ job["loop"].from.content # disk[f]
                   THEN missed \cup {f} ELSE missed \ {f}
      /\ IF Registrable(disk[f]) THEN Begins("watcher", f, disk[f]) ELSE UNCHANGED job
      /\ UNCHANGED <<phase, disk, registry, torn>>
  BY DEF Reload
<1>2. TypeOK /\ JobsInv /\ OnePath /\ WorkInv /\ CatchInv /\ phase = "serving"
      /\ (Registrable(disk[f]) => disk[f] \in Contents)
  BY <1>1 DEF Base, Web, ServingInv, TypeOK, Registrable
<1>3. /\ job'["loop"] = job["loop"]
      /\ ~Registrable(disk[f]) => job'["watcher"] = NoJob
      /\ Registrable(disk[f]) /\ job'["watcher"] = NoJob => ToSet(disk[f].defines) = {}
      /\ job'["watcher"] # NoJob =>
            /\ job'["watcher"].from = [file |-> f, content |-> disk[f]]
            /\ job'["watcher"].from # NoClass /\ job'["watcher"].todo = disk[f].defines
  BY <1>1, <1>2, BeginsFacts, ThreadFacts DEF Other
<1>4. OnePath' /\ WorkInv'
  <2>1. CASE Registrable(disk[f])
    BY <1>1, <1>2, <2>1, BeginsWeb, ThreadFacts
  <2>2. CASE ~Registrable(disk[f])
    BY <1>1, <1>2, <2>2
    DEF OnePath, WorkInv, Working, KeysOf, Unregisters, Spider, WorksOn
  <2> QED
    BY <2>1, <2>2
<1>5. ASSUME NEW g \in Files
      PROVE  /\ Loads("loop", g)' <=> Loads("loop", g)
             /\ ~Loads("watcher", g)
             /\ Loads("watcher", g)' => g = f /\ job'["watcher"].from.content = disk[f]
  BY <1>1, <1>3, NoJobFacts DEF Loads
<1>6. ASSUME NEW m PROVE Unregistering(m)' <=> Unregistering(m)
  BY <1>3 DEF Unregistering, Unregisters, Spider
<1>7. CatchInv'
  <2>1. ASSUME NEW k \in Keys, NEW n, n = registry.paths[k],
               n # NoName, n \notin torn, ~Unregistering(n), k[1] \notin watch' \cup missed',
               Registrable(disk[k[1]]), n \in ToSet(disk[k[1]].defines)
        PROVE  \/ registry.classes[n].content = disk[k[1]]
               \/ \E u \in Threads : Loads(u, k[1])' /\ n \in ToSet(job'[u].todo)
    <3>1. CASE k[1] = f
      <4>1. Loads("watcher", f)' /\ n \in ToSet(job'["watcher"].todo)
        BY <1>3, <2>1, <3>1 DEF Loads
      <4> QED
        BY <3>1, <4>1, ThreadFacts
    <3>2. CASE k[1] # f
      <4>1. k[1] \in Files /\ k[1] \notin watch \cup missed
        BY <1>1, <2>1, <3>2 DEF Keys
      <4>2. \/ registry.classes[n].content = disk[k[1]]
            \/ \E u \in Threads : Loads(u, k[1]) /\ n \in ToSet(job[u].todo)
        BY <1>2, <2>1, <4>1 DEF CatchInv
      <4> QED
        BY <1>3, <1>5, <4>1, <4>2 DEF Threads
    <3> QED
      BY <3>1, <3>2
  <2>2. ASSUME NEW u \in Threads, NEW g \in Files, Loads(u, g)', g \notin watch' \cup missed'
        PROVE  job'[u].from.content = disk[g]
    <3>1. CASE u = "watcher"
      BY <1>5, <2>2, <3>1
    <3>2. CASE u = "loop" /\ g = f
      BY <1>1, <1>3, <1>5, <2>2, <3>2
    <3>3. CASE u = "loop" /\ g # f
      BY <1>1, <1>2, <1>3, <1>5, <2>2, <3>3 DEF CatchInv
    <3> QED
      BY <3>1, <3>2, <3>3 DEF Threads
  <2> QED
    BY <1>1, <1>6, <2>1, <2>2 DEF CatchInv
<1> QED
  BY <1>4, <1>7 DEF Web

LEMMA RemoveWeb ==
    ASSUME Base, Web, job["loop"] = NoJob, NEW n \in Names, RemoveSpider(n),
           UNCHANGED <<phase, fileVars>>
    PROVE  Web'
<1>1. TypeOK /\ JobsInv /\ OnePath /\ WorkInv /\ CatchInv
  BY DEF Base, Web
<1>2. CASE UNCHANGED <<registry, job, torn>>
  BY <1>2, SameWeb
<1>3. CASE /\ job'["loop"] = [NoJob EXCEPT !.at = "check", !.todo = <<n>>]
           /\ registry'.classes[n] = NoClass
           /\ torn' = IF WorksOn("watcher", n) THEN torn \cup {n} ELSE torn
  <2>1. /\ registry' \in Registries /\ registry'.paths = registry.paths
        /\ \A m \in Names \ {n} : registry'.classes[m] = registry.classes[m]
        /\ job'["watcher"] = job["watcher"]
    BY <1>1, RemoveFacts
  <2>2. /\ job'["loop"].from = NoClass /\ job'["loop"].at = "check" /\ Spider("loop")' = n
        /\ job'["loop"] # NoJob
    <3>1. PICK todo : todo = <<n>> /\ Head(todo) = n
      <4>1. <<n>> \in Seq(Names) /\ <<n>>[1] = n
        OBVIOUS
      <4>2. Head(<<n>>) = n
        BY <4>1
      <4> QED
        BY <4>2
    <3>2. job'["loop"] = [at |-> "check", from |-> NoClass, todo |-> todo, old |-> {}]
      BY <1>3, <3>1 DEF NoJob
    <3> QED
      BY <3>1, <3>2, NoJobFacts DEF Spider
  <2>3. ASSUME NEW m PROVE (Unregistering(m)' <=> m = n) /\ ~Unregistering(m)
    BY <2>2 DEF Unregistering, Unregisters
  <2>4. Shrinks
    BY <1>3, <2>1, <2>3 DEF Shrinks
  <2>5. WorkInv'
    <3> SUFFICES ASSUME NEW u \in Threads, NEW m \in Names \ torn', WorksOn(u, m)'
                 PROVE  Working(u, m)'
      BY DEF WorkInv
    <3>1. (WorksOn("loop", m)' => m = n) /\ (WorksOn("watcher", m)' <=> WorksOn("watcher", m))
      BY <2>1, <2>2 DEF WorksOn, Spider, Unregisters
    <3>2. m \notin torn /\ (m = n => ~WorksOn("watcher", m))
      BY <1>3
    <3>3. CASE u = "loop"
      BY <1>3, <2>2, <3>1, <3>2, <3>3 DEF Working, Other
    <3>4. CASE u = "watcher"
      <4>1. WorksOn(u, m) /\ m # n /\ Working(u, m) /\ ~WorksOn(Other(u), m)'
        BY <1>1, <3>1, <3>2, <3>4 DEF WorkInv, Other
      <4> QED
        BY <2>1, <3>4, <4>1, WorkKept DEF KeysOf
    <3> QED
      BY <3>3, <3>4 DEF Threads
  <2>6. CatchInv'
    <3>1. ASSUME NEW u \in Threads, NEW f \in Files
          PROVE  /\ Loads(u, f)' => Loads(u, f) /\ job'[u].from = job[u].from
                 /\ Loads(u, f) => Loads(u, f)' /\ job'[u].todo = job[u].todo
      BY <2>1, <2>2, NoJobFacts DEF Loads, Threads
    <3> QED
      BY <1>1, <2>4, <3>1, CatchKept DEF fileVars
  <2> QED
    BY <1>1, <2>4, <2>5, <2>6, PathsKept DEF Web
<1> QED
  BY <1>1, <1>2, <1>3, RemoveFacts

LEMMA EditWeb ==
    ASSUME Base, Web, CliAdd \/ \E how \in {"write", "rename"} : Edit(how)
    PROVE  Web'
<1>1. PICK f \in Files :
               /\ \A g \in Files \ {f} : disk'[g] = disk[g]
               /\ watch \subseteq watch' /\ missed \subseteq missed'
               /\ phase # "down" => f \in watch' \cup missed'
               /\ UNCHANGED <<phase, registry, job, torn>>
  BY EditFacts DEF Base
<1>2. OnePath'
  BY <1>1 DEF Web, OnePath, KeysOf, Unregisters, Spider
<1>3. WorkInv'
  BY <1>1 DEF Web, WorkInv, Working, KeysOf, Unregisters, Spider, WorksOn
<1>4. \A k \in Keys : k[1] \in Files
  BY DEF Keys
<1>5. CatchInv'
  BY <1>1, <1>4 DEF Web, CatchInv, Unregistering, Unregisters, Spider, Loads
<1> QED
  BY <1>2, <1>3, <1>5 DEF Web

\* A registry and no jobs.
LEMMA QuietWeb ==
    ASSUME \A t \in Threads : job'[t] = NoJob, Paths(registry'),
           \/ phase' = "down"
           \/ \A k \in Keys : LET n == registry'.paths[k]
                              IN  n # NoName => registry'.classes[n].content = disk'[k[1]]
    PROVE  Web'
<1>1. ~Unregisters("loop")' /\ \A t \in Threads, f \in Files : ~Loads(t, f)'
  BY NoJobFacts, ThreadFacts DEF Unregisters, Loads
<1>2. OnePath'
  BY DEF OnePath, Paths, KeysOf
<1>3. WorkInv'
  BY DEF WorkInv, WorksOn
<1>4. CatchInv'
  BY <1>1 DEF CatchInv
<1> QED
  BY <1>2, <1>3, <1>4 DEF Web

LEMMA LifeWeb ==
    ASSUME Base, Web, StartUp \/ SyncSpiders \/ Stop
    PROVE  Web'
<1>1. CASE StartUp
  <2>1. PICK order \in SetToSeqs(Scannable) : registry' = Scan(disk, order)
    BY <1>1 DEF StartUp
  <2>2. disk' = disk /\ \A t \in Threads : job'[t] = NoJob
    BY <1>1 DEF StartUp, Base, ServingInv
  <2> QED
    BY <2>1, <2>2, ScanFacts, QuietWeb DEF Base
<1>2. CASE SyncSpiders
  <2>1. CASE phase' = "down" /\ registry' = Empty
    <3>1. \A t \in Threads : job'[t] = NoJob
      BY <1>2 DEF SyncSpiders, Base, ServingInv
    <3> QED
      BY <2>1, <3>1, EmptyFacts, QuietWeb DEF Paths
  <2>2. CASE UNCHANGED registry
    BY <1>2, <2>2, SameWeb DEF SyncSpiders
  <2> QED
    BY <1>2, <2>1, <2>2 DEF SyncSpiders
<1>3. CASE Stop
  BY <1>3, EmptyFacts, QuietWeb DEF Stop, Paths
<1> QED
  BY <1>1, <1>2, <1>3

-----------------------------------------------------------------------------
(* Rows and runs.                                                          *)

LEMMA SameRows ==
    ASSUME RowsInv, UNCHANGED <<rows, raced>>,
           \A c \in Clients : call'[c].at = "insert" => call'[c] = call[c]
    PROVE  RowsInv'
BY DEF RowsInv

\* A spider stays registered, or its starts were raced.
LEMMA SameRuns ==
    ASSUME RunsInv, Base, Registered(registry) \subseteq Registered(registry'),
           UNCHANGED runners, live' \subseteq live, startRaced \subseteq startRaced',
           \A c \in Clients : call'[c].at \in {"start", "stopping"} => call'[c] = call[c]
    PROVE  RunsInv'
BY CallFacts DEF RunsInv, Registered

LEMMA JobRuns ==
    ASSUME Base, RowsInv, RunsInv, NEW t \in Threads, JobStep(t)
    PROVE  RowsInv' /\ RunsInv'
<1>1. UNCHANGED <<rows, raced, runVars, call>>
  BY DEF JobStep, Check, Forget, BreaksOff, SetClass, SetPath
<1>2. Registered(registry) \subseteq Registered(registry')
  <2>1. CASE Check(t) \/ BreaksOff(t)
    BY <2>1 DEF Check, BreaksOff
  <2>2. CASE Forget(t)
    BY <2>2 DEF Forget, Registered, Base, TypeOK
  <2>3. CASE SetClass(t)
    BY <2>3, SetClassFacts DEF Registered, Base
  <2>4. CASE SetPath(t)
    BY <2>4, SetPathFacts DEF Registered, Base
  <2> QED
    BY <2>1, <2>2, <2>3, <2>4 DEF JobStep
<1> QED
  BY <1>1, <1>2, SameRows, SameRuns DEF runVars

\* What runs is to be out of reach of a deletion only if its starts raced.
LEMMA RemoveRuns ==
    ASSUME Base, RunsInv, job["loop"] = NoJob, NEW n \in Names, RemoveSpider(n),
           UNCHANGED runners, live' \subseteq live,
           n \notin startRaced => <<n, runners[n]>> \notin live',
           \A c \in Clients : call'[c].at \in {"start", "stopping"} => call'[c] = call[c]
    PROVE  RunsInv'
<1>1. /\ Registered(registry') = Registered(registry) \ {n}
      /\ startRaced \subseteq startRaced'
      /\ \A c \in Clients : call[c].at = "start" /\ n \in call[c].names => n \in startRaced'
  BY RemoveFacts DEF Base
<1>2. ASSUME NEW r \in live', r[1] \notin startRaced'
      PROVE  r[1] \in Registered(registry') /\ r[2] = runners[r[1]]
  <2>1. r \in live /\ r = <<r[1], r[2]>> /\ r[1] \in Registered(registry) /\ r[2] = runners[r[1]]
    BY <1>1, <1>2 DEF RunsInv, Base, TypeOK
  <2> QED
    BY <1>1, <1>2, <2>1
<1>3. ASSUME NEW c \in Clients, call'[c].at = "start"
      PROVE  call'[c].names \subseteq Registered(registry') \cup startRaced'
  BY <1>1, <1>3 DEF RunsInv
<1>4. ASSUME NEW c \in Clients, call'[c].at = "stopping", NEW m \in call'[c].names \ startRaced'
      PROVE  call'[c].run = runners[m]
  BY <1>1, <1>4 DEF RunsInv
<1> QED
  BY <1>2, <1>3, <1>4 DEF RunsInv

LEMMA DeleteRuns ==
    ASSUME Base, RowsInv, RunsInv, NEW c \in Clients, NEW n \in Names, Delete(c, n)
    PROVE  RowsInv' /\ RunsInv'
<1>1. UNCHANGED <<rows, raced, runners, live>>
  BY DEF Delete
<1>2. CASE Runs(n)
  <2>1. Goes(c, "stopping", {n}, runners[n]) /\ UNCHANGED <<registry, startRaced>>
    BY <1>2 DEF Delete
  <2>2. /\ call'[c].at = "stopping" /\ call'[c].names = {n} /\ call'[c].run = runners[n]
        /\ \A d \in Clients \ {c} : call'[d] = call[d]
    <3>1. TypeOK /\ runners[n] \in Nat /\ {n} \in SUBSET Names
      BY DEF Base, TypeOK
    <3>2. PICK names \in SUBSET Names, run \in Nat :
              names = {n} /\ run = runners[n] /\ Goes(c, "stopping", names, run)
      BY <2>1, <3>1
    <3>3. /\ call'[c].at = "stopping" /\ call'[c].names = names /\ call'[c].run = run
          /\ \A d \in Clients \ {c} : call'[d] = call[d]
      BY <3>1, <3>2, GoesFacts
    <3> QED
      BY <3>2, <3>3
  <2>3. RowsInv'
    BY <1>1, <2>2, SameRows
  <2>4. RunsInv'
    BY <1>1, <2>1, <2>2 DEF RunsInv
  <2> QED
    BY <2>3, <2>4
<1>3. CASE ~Runs(n)
  <2>1. RemoveSpider(n) /\ UNCHANGED call /\ job["loop"] = NoJob
    BY <1>3 DEF Delete, Request, Free
  <2>2. RunsInv'
    BY <1>1, <1>3, <2>1, RemoveRuns DEF Runs
  <2> QED
    BY <1>1, <2>1, <2>2, SameRows
<1> QED
  BY <1>2, <1>3

LEMMA StoppedRuns ==
    ASSUME Base, RowsInv, RunsInv, NEW c \in Clients, Stopped(c)
    PROVE  RowsInv' /\ RunsInv'
<1>1. PICK n \in call[c].names : RemoveSpider(n) /\ live' = live \ {<<n, call[c].run>>}
  BY DEF Stopped
<1>2. /\ call[c].at = "stopping" /\ job["loop"] = NoJob /\ n \in Names
      /\ UNCHANGED <<rows, raced, runners>>
  BY <1>1, CallFacts DEF Stopped, Free
<1>3. \A d \in Clients : call'[d] = call[d] \/ call'[d] = Idle
  BY ReturnsFacts DEF Stopped, Base
<1>4. n \notin startRaced => call[c].run = runners[n]
  BY <1>1, <1>2 DEF RunsInv
<1> QED
  BY <1>1, <1>2, <1>3, <1>4, NoJobFacts, RemoveRuns, SameRows

LEMMA CommitStartRuns ==
    ASSUME Base, RowsInv, RunsInv, NEW c \in Clients, CommitStart(c)
    PROVE  RowsInv' /\ RunsInv'
<1>1. PICK n \in call[c].names :
          /\ runners' = [runners EXCEPT ![n] = @ + 1]
          /\ live' = live \cup {<<n, runners[n] + 1>>}
          /\ startRaced' = IF \/ Runs(n)
                              \/ \E d \in Clients : call[d].at = "stopping" /\ n \in call[d].names
                           THEN startRaced \cup {n} ELSE startRaced
  BY DEF CommitStart
<1>2. /\ call[c].at = "start" /\ n \in Names /\ UNCHANGED <<registry, rows, raced>>
      /\ \A d \in Clients : call'[d] = call[d] \/ call'[d] = Idle
  BY <1>1, CallFacts, ReturnsFacts DEF CommitStart, Base
<1>3. /\ runners'[n] = runners[n] + 1
      /\ \A m \in Names \ {n} : runners'[m] = runners[m]
  BY <1>1, <1>2 DEF Base, TypeOK
<1>4. n \notin startRaced' =>
         ~Runs(n) /\ \A d \in Clients : call[d].at = "stopping" => n \notin call[d].names
  BY <1>1, <1>2
<1>5. ASSUME NEW r \in live', r[1] \notin startRaced'
      PROVE  r[1] \in Registered(registry) /\ r[2] = runners'[r[1]]
  <2>1. CASE r \in live
    <3>1. r = <<r[1], r[2]>> /\ r[1] \in Registered(registry) /\ r[2] = runners[r[1]]
      BY <1>1, <1>5, <2>1 DEF RunsInv, Base, TypeOK
    <3>2. r[1] # n /\ r[1] \in Names
      BY <1>4, <1>5, <2>1, <3>1 DEF Runs, Registered
    <3> QED
      BY <1>3, <3>1, <3>2
  <2>2. CASE r = <<n, runners[n] + 1>>
    BY <1>1, <1>2, <1>3, <1>5, <2>2 DEF RunsInv
  <2> QED
    BY <1>1, <2>1, <2>2
<1>6. ASSUME NEW d \in Clients, call'[d].at = "start"
      PROVE  call'[d].names \subseteq Registered(registry) \cup startRaced'
  BY <1>1, <1>2, <1>6, NoJobFacts DEF RunsInv
<1>7. ASSUME NEW d \in Clients, call'[d].at = "stopping", NEW m \in call'[d].names \ startRaced'
      PROVE  call'[d].run = runners'[m]
  <2>1. call'[d] = call[d] /\ m \in Names /\ m # n
    BY <1>2, <1>4, <1>7, NoJobFacts, CallFacts
  <2> QED
    BY <1>1, <1>3, <1>7, <2>1 DEF RunsInv
<1>8. RunsInv'
  BY <1>2, <1>5, <1>6, <1>7 DEF RunsInv
<1> QED
  BY <1>2, <1>8, NoJobFacts, SameRows

LEMMA StartRuns ==
    ASSUME Base, RowsInv, RunsInv, NEW c \in Clients, NEW n \in Names, Start(c, n)
    PROVE  RowsInv' /\ RunsInv'
<1>1. /\ Goes(c, "start", {n}, 0) /\ n \in Registered(registry)
      /\ UNCHANGED <<registry, rows, raced, runners, live, startRaced>>
  BY DEF Start, Startable, runVars
<1>2. /\ call'[c].at = "start" /\ call'[c].names = {n}
      /\ \A d \in Clients \ {c} : call'[d] = call[d]
  BY <1>1, GoesFacts DEF Base
<1>3. RowsInv'
  BY <1>1, <1>2, SameRows
<1>4. RunsInv'
  BY <1>1, <1>2 DEF RunsInv
<1> QED
  BY <1>3, <1>4

LEMMA ListRows ==
    ASSUME Base, RowsInv, NEW c \in Clients, List(c)
    PROVE  RowsInv'
<1>1. /\ Goes(c, "insert", Rowless, 0) /\ UNCHANGED rows
      /\ raced' = (raced \/ \E d \in Clients : call[d].at = "insert")
  BY DEF List
<1>2. /\ call'[c].at = "insert" /\ call'[c].names = Rowless
      /\ \A d \in Clients \ {c} : call'[d] = call[d]
  <2>1. Rowless \in SUBSET Names /\ 0 \in Nat
    BY DEF Rowless, Registered
  <2> QED
    BY <1>1, <2>1, GoesFacts DEF Base
<1>3. \A n \in Rowless : rows[n] = 0
  BY DEF Rowless
<1> QED
  BY <1>1, <1>2, <1>3 DEF RowsInv

LEMMA CommitRowsRows ==
    ASSUME Base, RowsInv, NEW c \in Clients, CommitRows(c)
    PROVE  RowsInv'
<1>1. /\ call[c].at = "insert" /\ RoomFor(call[c].names) /\ rows' = WithRows(call[c].names)
      /\ UNCHANGED raced /\ call[c].names \in SUBSET Names
      /\ call'[c] = Idle /\ \A d \in Clients \ {c} : call'[d] = call[d]
  BY CallFacts, ReturnsFacts DEF CommitRows, Base
<1>2. \A n \in Names : rows'[n] = IF n \in call[c].names THEN rows[n] + 1 ELSE rows[n]
  BY <1>1, RowsFacts DEF Base
<1> SUFFICES ASSUME ~raced PROVE RowsInv'
  BY <1>1 DEF RowsInv
<1>3. /\ \A n \in Names : rows[n] <= 1 /\ rows[n] \in Nat
      /\ \A n \in call[c].names : rows[n] = 0
      /\ \A d \in Clients : call[d].at = "insert" => c = d
  BY <1>1 DEF RowsInv, Base, TypeOK
<1>4. \A n \in Names : rows'[n] <= 1
  BY <1>2, <1>3
<1>5. \A d \in Clients : call'[d].at # "insert"
  BY <1>1, <1>3, NoJobFacts
<1> QED
  BY <1>4, <1>5 DEF RowsInv

LEMMA LifeRuns ==
    ASSUME Base, RowsInv, RunsInv, StartUp \/ SyncSpiders \/ Stop
    PROVE  RowsInv' /\ RunsInv'
<1>1. CASE StartUp \/ SyncSpiders
  <2>1. /\ \A c \in Clients : call'[c].at = "idle"
        /\ live' = {} /\ UNCHANGED <<raced, startRaced, runners>>
    BY <1>1, NoJobFacts DEF StartUp, SyncSpiders, Base, ServingInv, runVars
  <2>2. ~raced => \A n \in Names : rows'[n] <= 1
    <3>1. CASE UNCHANGED rows
      BY <3>1 DEF RowsInv
    <3>2. CASE rows' = WithRows(Rowless) /\ RoomFor(Rowless)
      <4>1. Rowless \in SUBSET Names /\ \A n \in Rowless : rows[n] = 0
        BY DEF Rowless, Registered
      <4>2. \A n \in Names : rows'[n] = IF n \in Rowless THEN rows[n] + 1 ELSE rows[n]
        BY <3>2, <4>1, RowsFacts DEF Base
      <4> QED
        BY <4>1, <4>2 DEF RowsInv
    <3> QED
      BY <1>1, <3>1, <3>2 DEF StartUp, SyncSpiders
  <2>3. RowsInv' /\ RunsInv'
    BY <2>1, <2>2 DEF RowsInv, RunsInv
  <2> QED
    BY <2>3
<1>2. CASE Stop
  <2>1. /\ \A c \in Clients : call'[c].at = "idle"
        /\ live' = {} /\ UNCHANGED <<rows, raced>>
    BY <1>2, NoJobFacts DEF Stop
  <2> QED
    BY <2>1 DEF RowsInv, RunsInv
<1> QED
  BY <1>1, <1>2

-----------------------------------------------------------------------------
(* The invariant.                                                          *)

LEMMA InitInv == Init => Inv
<1> SUFFICES ASSUME Init PROVE Inv
  OBVIOUS
<1>1. PICK left \in {0, MaxRows} : rows = [n \in Names |-> left] /\ raced = (left > 1)
  BY DEF Init
<1>2. /\ left \in 0..MaxRows /\ MaxStimuli \in Nat
      /\ \A t \in Threads : job[t] = NoJob
      /\ \A c \in Clients : call[c] = Idle
      /\ \A n \in Names : rows[n] = left
  BY <1>1, RegistryAssumption DEF RegistryAssumption, Init
<1>3. TypeOK
  <2>1. raced \in BOOLEAN /\ rows \in [Names -> 0..MaxRows] /\ stimuli \in 0..MaxStimuli
    BY <1>1, <1>2 DEF Init
  <2> QED
    BY <2>1, EmptyFacts, NoJobFacts DEF Init, TypeOK, Registries
<1>4. JobsInv
  BY <1>2, NoJobFacts, ThreadFacts DEF JobsInv, Unregisters
<1>5. ServingInv
  BY <1>2 DEF Init, ServingInv
<1>6. OnePath /\ WorkInv /\ CatchInv
  BY <1>2, EmptyFacts DEF Init, OnePath, WorkInv, WorksOn, CatchInv
<1>7. RowsInv
  <2>1. MaxRows \in Nat
    BY RegistryAssumption DEF RegistryAssumption
  <2>2. ~(left > 1) => left <= 1
    BY <1>2, <2>1
  <2>3. ~raced => left <= 1
    BY <1>1, <2>2, Zenon
  <2> QED
    BY <1>2, <2>3, NoJobFacts DEF RowsInv
<1>8. RunsInv
  BY <1>2, NoJobFacts DEF Init, RunsInv
<1> QED
  BY <1>3, <1>4, <1>5, <1>6, <1>7, <1>8 DEF Inv

LEMMA StepInv == Inv /\ [Next]_vars => Inv'
<1> SUFFICES ASSUME Inv, [Next]_vars PROVE Inv'
  OBVIOUS
<1>0. /\ Base /\ Web /\ RowsInv /\ RunsInv
      /\ Base' /\ Web' /\ RowsInv' /\ RunsInv' => Inv'
  BY DEF Inv, Base, Web
<1>1. CASE StartUp \/ SyncSpiders \/ Stop
  BY <1>0, <1>1, StartUpBase, SyncBase, StopBase, LifeWeb, LifeRuns
<1>2. CASE CliAdd \/ \E how \in {"write", "rename"} : Edit(how)
  <2>1. UNCHANGED <<registry, rows, raced, runners, live, startRaced, call>>
    BY <1>2 DEF CliAdd, Edit, runVars
  <2> QED
    BY <1>0, <1>2, <2>1, EditBase, EditWeb, SameRows, SameRuns
<1>3. CASE \E f \in Files : Reload(f)
  <2>1. UNCHANGED <<registry, rows, raced, runners, live, startRaced, call>>
    BY <1>3 DEF Reload, runVars
  <2> QED
    BY <1>0, <1>3, <2>1, ReloadBase, ReloadWeb, SameRows, SameRuns
<1>4. ASSUME NEW t \in Threads, JobStep(t) PROVE Inv'
  <2>1. Base'
    BY <1>0, <1>4, CheckBase, ForgetBase, BreaksOffBase, SetClassBase, SetPathBase
    DEF JobStep, Web
  <2>2. Web'
    BY <1>0, <1>4, CheckWeb, ForgetWeb, BreaksOffWeb, SetClassWeb, SetPathWeb DEF JobStep
  <2> QED
    BY <1>0, <1>4, <2>1, <2>2, JobRuns
<1>5. ASSUME NEW c \in Clients, Upload(c) PROVE Inv'
  <2>1. UNCHANGED <<registry, rows, raced, runners, live, startRaced, call>>
    BY <1>5 DEF Upload, runVars
  <2> QED
    BY <1>0, <1>5, <2>1, UploadBase, UploadWeb, SameRows, SameRuns
<1>6. ASSUME RunStep, RowsInv', RunsInv' PROVE Inv'
  BY <1>0, <1>6, RunStepBase, SameWeb DEF RunStep
<1>7. CASE \E r \in live : EndRun(r)
  <2>1. UNCHANGED <<registry, rows, raced, runners, startRaced, call>> /\ live' \subseteq live
    BY <1>7 DEF EndRun
  <2>2. RunStep
    BY <1>0, <1>7 DEF Base, EndRun, RunStep, TypeOK, ServingInv
  <2> QED
    BY <1>0, <1>6, <2>1, <2>2, SameRows, SameRuns
<1>8. ASSUME NEW c \in Clients, RouteStep(c) PROVE Inv'
  <2>1. CASE Upload(c) \/ Create(c)
    BY <1>5, <2>1 DEF Create
  <2>2. ASSUME NEW n \in Names, Start(c, n) PROVE Inv'
    BY <1>0, <1>6, <2>2, RunSteps, StartRuns
  <2>3. ASSUME NEW n \in Names, Delete(c, n) PROVE Inv'
    <3>1. CASE RunStep
      BY <1>0, <1>6, <2>3, <3>1, DeleteRuns
    <3>2. CASE job["loop"] = NoJob /\ RemoveSpider(n)
      BY <1>0, <2>3, <3>2, DeleteBase, DeleteRuns, RemoveWeb DEF Delete
    <3> QED
      BY <1>0, <2>3, <3>1, <3>2, DeleteFacts
  <2>4. CASE List(c)
    <3>1. UNCHANGED <<registry, runners, live, startRaced>> /\ call'[c].at = "insert"
          /\ \A d \in Clients \ {c} : call'[d] = call[d]
      <4>1. Rowless \in SUBSET Names /\ 0 \in Nat
        BY DEF Rowless, Registered
      <4> QED
        BY <1>0, <2>4, <4>1, GoesFacts DEF List, Base, runVars
    <3>2. RunsInv'
      BY <1>0, <3>1, SameRuns
    <3> QED
      BY <1>0, <1>6, <2>4, <3>2, RunSteps, ListRows
  <2>5. CASE CommitRows(c)
    <3>1. /\ UNCHANGED <<registry, runners, live, startRaced>>
          /\ \A d \in Clients : call'[d] = call[d] \/ call'[d] = Idle
      BY <1>0, <2>5, ReturnsFacts DEF CommitRows, Base, runVars
    <3>2. RunsInv'
      BY <1>0, <3>1, NoJobFacts, SameRuns
    <3> QED
      BY <1>0, <1>6, <2>5, <3>2, RunSteps, CommitRowsRows
  <2>6. CASE CommitStart(c)
    BY <1>0, <1>6, <2>6, RunSteps, CommitStartRuns
  <2>7. CASE Stopped(c)
    <3>1. PICK n \in call[c].names : RemoveSpider(n)
      BY <2>7 DEF Stopped
    <3>2. n \in Names /\ job["loop"] = NoJob /\ UNCHANGED <<phase, fileVars>>
      BY <1>0, <2>7, <3>1, CallFacts DEF Stopped, Free
    <3> QED
      BY <1>0, <2>7, <3>1, <3>2, DeleteBase, StoppedRuns, RemoveWeb
  <2>8. CASE CallFails(c)
    <3>1. /\ UNCHANGED <<registry, rows, raced, runners, live, startRaced>>
          /\ \A d \in Clients : call'[d] = call[d] \/ call'[d] = Idle
      BY <1>0, <2>8, ReturnsFacts DEF CallFails, Base, runVars
    <3>2. RowsInv' /\ RunsInv'
      BY <1>0, <3>1, NoJobFacts, SameRows, SameRuns
    <3> QED
      BY <1>0, <1>6, <2>8, <3>2, RunSteps
  <2> QED
    BY <1>8, <2>1, <2>2, <2>3, <2>4, <2>5, <2>6, <2>7, <2>8 DEF RouteStep
<1>9. CASE UNCHANGED vars
  <2>1. /\ UNCHANGED <<phase, disk, watch, missed, registry, job, torn>>
        /\ UNCHANGED <<rows, raced, runners, live, startRaced, call, stimuli>>
    BY <1>9 DEF vars, fileVars, runVars
  <2>2. Base'
    BY <1>0, <2>1, SameJobs DEF Base, TypeOK, ServingInv
  <2>3. Web' /\ RowsInv' /\ RunsInv'
    BY <1>0, <2>1, SameWeb, SameRows, SameRuns DEF fileVars
  <2> QED
    BY <1>0, <2>2, <2>3
<1> QED
  BY <1>1, <1>2, <1>3, <1>4, <1>7, <1>8, <1>9 DEF Next

LEMMA AlwaysInv == Spec => []Inv
BY InitInv, StepInv, PTL DEF Spec

\* Every variable has its type.
THEOREM RegistryTypeCorrect == Spec => []TypeOK
<1>1. Inv => TypeOK
  BY DEF Inv
<1> QED
  BY <1>1, AlwaysInv, PTL

\* The path start_spider checks and the file the sandbox runs are those of the
\* registered class, whatever steps of the two threads follow one another, but
\* for the spiders both were at work on at once.
THEOREM PathsCorrect == Spec => []OnePath
<1>1. Inv => OnePath
  BY DEF Inv
<1> QED
  BY <1>1, AlwaysInv, PTL

\* Once the events of a file are handled and no thread is loading it, the spider
\* of its path is registered from what the file holds, if that may be registered.
THEOREM ReloadCorrect == Spec => []ReloadCatchesUp
<1>1. Inv => ReloadCatchesUp
  BY DEF Inv, CatchInv, ReloadCatchesUp, Unregistering
<1> QED
  BY <1>1, AlwaysInv, PTL

\* A spider has one row, however start-ups, listings and failures follow one
\* another, unless two listings that overlap both added it.
THEOREM OneRowCorrect == Spec => []OneRowUnlessRaced
<1>1. Inv => OneRowUnlessRaced
  BY DEF Inv, RowsInv, OneRowUnlessRaced, Twins, TypeOK
<1> QED
  BY <1>1, AlwaysInv, PTL

\* No runner of a deleted spider runs, unless the spider was started twice at
\* once, when the first of its runners is out of reach, or while it was deleted.
THEOREM DeletedCorrect == Spec => []DeletedIsStopped
<1>1. Inv => DeletedIsStopped
  BY DEF Inv, RunsInv, DeletedIsStopped
<1> QED
  BY <1>1, AlwaysInv, PTL
=============================================================================
