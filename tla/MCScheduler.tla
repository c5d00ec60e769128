---------------------------- MODULE MCScheduler ----------------------------
(* TLC instances of Scheduler.                                             *)
EXTENDS Scheduler, TLC

ClientSymmetry == Permutations(Clients)

\* "Registering a spider again updates its schedule" (docs/DESIGN.md:279,
\* core/scheduler.py:17).  Only a restart does.
ClassIsScheduled ==
    \A s \in Spiders :
        /\ serving /\ classCron[s] \in Crons
        /\ \A i \in ScheduleIds : rowSpider[i] # s
        /\ ~InFlight(s)
        => jobs[s] = classCron[s]

\* "The schedule is disabled" (api/schedule_routes.py:246).  An update of a
\* disabled row registers its job.
DisabledIsQuiet ==
    \A i \in ScheduleIds :
        rowStatus[i] = "disabled" /\ ~InFlight(rowSpider[i]) => jobs[i] = NoCron
=============================================================================
