--------------------------- MODULE DockerSandbox ---------------------------
(***************************************************************************)
(* One run of a spider in the Docker sandbox: run_sandboxed over           *)
(* _run_docker (core/sandbox_runner.py), of which core/sandbox_docker.py   *)
(* has a second copy, the program inside the container                     *)
(* (CONTAINER_RUNNER_SCRIPT there), and the thread that reads its log.     *)
(*                                                                         *)
(* The container prints one JSON line per item.  The thread collects the   *)
(* lines until the log ends; only then does the generator yield.  Items    *)
(* are numbered in the order the spider produces them.                     *)
(***************************************************************************)
EXTENDS Integers, Sequences

CONSTANTS
    Deadline,     \* SandboxConfig.timeout_seconds, in ticks
    MaxItems      \* bound: items the spider produces

ASSUME DockerAssumption == Deadline \in Nat \ {0} /\ MaxItems \in Nat

VARIABLES
    container,    \* the life of the container
    how,          \* how the program in it ended
    produced,     \* items it has printed
    log,          \* lines printed and not yet read
    reader,       \* the thread of the executor: absent, reading or done
    msgs,         \* what it has decoded
    gen,          \* where the generator is
    pos,          \* the message in hand
    clock,        \* time since the start, up to the deadline
    \* History.
    at,           \* the last item yielded, 0 for none
    delivered,    \* items yielded
    lost,         \* items in lines that could not be decoded
    broken        \* the log was cut off before its end

vars == <<container, how, produced, log, reader, msgs, gen, pos, clock,
          at, delivered, lost, broken>>

Items == 1..MaxItems

\* The lines that matter: items, by number; the error of the runner script;
\* and JSON the spider code prints itself that is not an object.  The line
\* "done" and all other output have no effect.
Line == Items \cup {-1, -2}

Failure == -1

Scalar == -2

Ended == {"ended", "raised", "timedOut", "closed"}

containerVars == <<container, how, produced, log, lost, broken>>

-----------------------------------------------------------------------------
(* The container.                                                          *)

\* The spider yields an item that on_item_scraped keeps.
PrintItem ==
    /\ container = "running" /\ produced < MaxItems
    /\ produced' = produced + 1
    /\ log' = Append(log, produced')
    /\ UNCHANGED <<container, how, reader, msgs, gen, pos, clock, at, delivered, lost, broken>>

\* The spider code writes to the standard output itself (once, here).
PrintScalar ==
    /\ container = "running"
    /\ \A i \in 1..Len(log) : log[i] # Scalar
    /\ \A i \in 1..Len(msgs) : msgs[i] # Scalar
    /\ log' = Append(log, Scalar)
    /\ UNCHANGED <<container, how, produced, reader, msgs, gen, pos, clock, at, delivered,
                   lost, broken>>

\* The program ends: the spider is exhausted; it raised; it could not be
\* imported, or the kernel killed it, and no line says so.
Exit(end) ==
    /\ container = "running"
    /\ container' = "exited" /\ how' = end
    /\ log' = IF end = "raised" THEN Append(log, Failure) ELSE log
    /\ UNCHANGED <<produced, reader, msgs, gen, pos, clock, at, delivered, lost, broken>>

-----------------------------------------------------------------------------
(* The thread: _read_logs.                                                 *)

\* A chunk of the log is one line.
ReadLine ==
    /\ reader = "reading" /\ log # <<>>
    /\ msgs' = Append(msgs, Head(log))
    /\ log' = Tail(log)
    /\ UNCHANGED <<container, how, produced, reader, gen, pos, clock, at, delivered, lost, broken>>

\* A chunk that holds part of a line, or more than one line, is no JSON and
\* is skipped.
SkipChunk ==
    /\ reader = "reading" /\ log # <<>>
    /\ log' = Tail(log)
    /\ lost' = lost \cup ({Head(log)} \cap Items)
    /\ UNCHANGED <<container, how, produced, reader, msgs, gen, pos, clock, at, delivered, broken>>

\* Mutant of LogEnds: the log is read without following it.
LogEndsEarly ==
    /\ reader = "reading" /\ log = <<>>
    /\ reader' = "done"
    /\ UNCHANGED <<container, how, produced, log, msgs, gen, pos, clock, at, delivered, lost, broken>>

\* Mutant of LogEnds: a follow that does not end with its container.
LogNeverEnds == FALSE

\* The container has ended and its log is read, or it was removed.
LogEnds ==
    /\ reader = "reading"
    /\ \/ container = "exited" /\ log = <<>>
       \/ container = "removed"
    /\ reader' = "done"
    /\ UNCHANGED <<container, how, produced, log, msgs, gen, pos, clock, at, delivered, lost, broken>>

\* The connection to the daemon fails: what was read is returned.
LogBreaks ==
    /\ reader = "reading"
    /\ reader' = "done" /\ broken' = TRUE
    /\ UNCHANGED <<container, how, produced, log, msgs, gen, pos, clock, at, delivered, lost>>

-----------------------------------------------------------------------------
(* The generator.                                                          *)

\* finally: the container is removed by force, or that fails.
Leave(final) ==
    /\ gen' = final
    /\ IF container \in {"running", "exited"} THEN container' \in {"removed", container}
       ELSE UNCHANGED container

\* Mutant of Consume: the messages are gone through from the last one.
ConsumeBackwards(i) ==
    LET m == msgs[Len(msgs) + 1 - i] IN
    /\ pos' = i
    /\ \/ /\ i > Len(msgs)
          /\ Leave("ended") /\ UNCHANGED <<at, delivered>>
       \/ /\ i <= Len(msgs) /\ m \in {Failure, Scalar}
          /\ Leave("raised") /\ UNCHANGED <<at, delivered>>
       \/ /\ i <= Len(msgs) /\ m \in Items
          /\ gen' = "yield" /\ at' = m /\ delivered' = delivered \cup {m}
          /\ UNCHANGED container

\* The loop over the messages goes on: the next item is yielded, an error
\* is raised, and what is no object has no get.
Consume(i) ==
    /\ pos' = i
    /\ \/ /\ i > Len(msgs)
          /\ Leave("ended") /\ UNCHANGED <<at, delivered>>
       \/ /\ i <= Len(msgs) /\ msgs[i] \in {Failure, Scalar}
          /\ Leave("raised") /\ UNCHANGED <<at, delivered>>
       \/ /\ i <= Len(msgs) /\ msgs[i] \in Items
          /\ gen' = "yield" /\ at' = msgs[i] /\ delivered' = delivered \cup {msgs[i]}
          /\ UNCHANGED container

\* The source fails the AST check, there is no docker library or no daemon,
\* or the container cannot be created; or it is created and cannot be
\* started: run raises, and there is nothing to remove.
BeginFails ==
    /\ gen = "new"
    /\ gen' = "raised"
    /\ container' \in {"absent", "created"}
    /\ UNCHANGED <<how, produced, log, reader, msgs, pos, clock, at, delivered, lost, broken>>

Begin ==
    /\ gen = "new"
    /\ gen' = "read" /\ container' = "running" /\ reader' = "reading"
    /\ UNCHANGED <<how, produced, log, msgs, pos, clock, at, delivered, lost, broken>>

\* The thread is done in time.
Receive ==
    /\ gen = "read" /\ reader = "done"
    /\ Consume(1)
    /\ UNCHANGED <<how, produced, log, reader, msgs, clock, lost, broken>>

\* The deadline passes first: the container is killed, and what the thread
\* has read is dropped.
TimesOut ==
    /\ gen = "read" /\ clock >= Deadline
    /\ Leave("timedOut")
    /\ UNCHANGED <<how, produced, log, reader, msgs, pos, clock, at, delivered, lost, broken>>

\* The runner has saved the item and asks for the next one.
Ask ==
    /\ gen = "yield"
    /\ Consume(pos + 1)
    /\ UNCHANGED <<how, produced, log, reader, msgs, clock, lost, broken>>

\* The runner breaks off or stop() closes the outer generator; _run_docker is
\* left to the finaliser of the event loop.
Drop ==
    /\ gen = "yield"
    /\ gen' = "dropped"
    /\ UNCHANGED <<containerVars, reader, msgs, pos, clock, at, delivered>>

Finalise ==
    /\ gen = "dropped"
    /\ Leave("closed")
    /\ UNCHANGED <<how, produced, log, reader, msgs, pos, clock, at, delivered, lost, broken>>

\* The runner's task is cancelled while it awaits the thread, which goes on.
CancelRead ==
    /\ gen = "read"
    /\ Leave("closed")
    /\ UNCHANGED <<how, produced, log, reader, msgs, pos, clock, at, delivered, lost, broken>>

Tick ==
    /\ gen = "read" /\ clock < Deadline
    /\ clock' = clock + 1
    /\ UNCHANGED <<containerVars, reader, msgs, gen, pos, at, delivered>>

ContainerStep == PrintItem \/ PrintScalar \/ (\E end \in {"ok", "raised", "fatal"} : Exit(end))

ReaderStep == ReadLine \/ SkipChunk \/ LogEnds

GenStep == BeginFails \/ Begin \/ Receive \/ TimesOut \/ Finalise

RunnerStep == Ask \/ Drop \/ CancelRead

Init ==
    /\ container = "absent" /\ how = "none" /\ produced = 0 /\ log = <<>>
    /\ reader = "absent" /\ msgs = <<>>
    /\ gen = "new" /\ pos = 0 /\ clock = 0
    /\ at = 0 /\ delivered = {} /\ lost = {} /\ broken = FALSE

Next == ContainerStep \/ ReaderStep \/ LogBreaks \/ GenStep \/ RunnerStep \/ Tick

\* Time passes, the thread goes on, the event loop resumes and finalises, and
\* the runner saves an item and asks on, or breaks off.  Nothing is assumed of
\* the container, nor that a connection ever breaks.
Fairness == WF_vars(ReaderStep) /\ WF_vars(GenStep) /\ WF_vars(Ask \/ Drop) /\ WF_vars(Tick)

Spec == Init /\ [][Next]_vars /\ Fairness

-----------------------------------------------------------------------------
(* Properties.                                                             *)

\* A run that ends as drained, or with the error of its spider, has yielded
\* all that the spider produced but what could not be decoded, unless the log
\* was cut off.  (It may have ended as drained although the spider was killed.)
EndsAfterItems ==
    /\ ~broken
    /\ gen = "ended" \/ (gen = "raised" /\ pos > 0 /\ msgs[pos] = Failure)
    => delivered = 1..produced \ lost

Stream == INSTANCE ItemStream WITH open <- gen \notin Ended, last <- at

\* A run in a container keeps the promise of run_sandboxed, and ends, whatever
\* the container does.
ImplementsStream == Stream!Spec

\* A run gives its thread back to the executor, which all sandboxes share,
\* however it ends, unless the container could not be removed.
ReaderEnds ==
    reader = "reading" ~> reader = "done" \/ (gen \in Ended /\ container \in {"running", "exited"})
=============================================================================
