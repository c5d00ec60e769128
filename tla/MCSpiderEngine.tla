--------------------------- MODULE MCSpiderEngine ---------------------------
(***************************************************************************)
(* TLC instances of SpiderEngine, and what the documents of the repository *)
(* say of it where the code does otherwise.                                *)
(***************************************************************************)
EXTENDS SpiderEngine, TLC

CallerSymmetry == Permutations(Callers)

NoCallOn(s) == \A c \in Callers : call[c].spider # s

\* scheduler.py:16, DESIGN.md:278: a spider has one running instance at a time.
Singleton == \A s \in Spiders : Cardinality(LiveRunners(s)) <= 1

\* DESIGN.md:263-268: a run that was stopped ends paused or stopped.  Not as
\* completed, then, when items were given up.
StoppedIsNotCompleted ==
    \A t \in TaskIds : cut[t] => status[t] # "completed"

\* DESIGN.md:263-268 again: once a stopped run has returned on its own and no
\* database call has failed, its row no longer says running.
StopSettlesRow ==
    \A t \in TaskIds :
        /\ phase = "up" /\ faults = 0
        /\ stopEvent[t] /\ pc[t] = "returned" /\ NoCallOn(owner[t])
        => status[t] # "running"

\* DESIGN.md:268: a paused run can be resumed.  resume_spider needs its crawldir.
PausedIsResumable ==
    \A t \in TaskIds :
        /\ phase = "up" /\ faults = 0
        /\ status[t] = "paused" /\ ~Live(t) /\ NoCallOn(owner[t])
        => crawldir[t]
=============================================================================
