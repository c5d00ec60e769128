----------------------------- MODULE TaskLedger -----------------------------
(***************************************************************************)
(* What the tasks table promises its readers (the task pages of the API    *)
(* and the CLI, the statistics, resume): the life of one row, whoever      *)
(* writes it and however many runs, calls and crashes are behind it.       *)
(*                                                                         *)
(*   Open     rows get consecutive ids and start as running                *)
(*   Report   a run reports its outcome                                    *)
(*   Revise   a completed outcome is taken back (the write that follows    *)
(*            it failed or was cancelled)                                  *)
(*   Suspend  a pause makes any row that is not crashed resumable          *)
(*   Recover  a start-up turns every running row into a crashed one        *)
(*                                                                         *)
(* So paused and crashed are final, a failed row can only become paused,   *)
(* the spider of a row never changes, and a row with a checkpoint is       *)
(* paused.                                                                 *)
(***************************************************************************)
EXTENDS Integers

CONSTANTS Spiders, NoSpider, MaxTasks

VARIABLES owner, status, crawldir

TaskIds == 1..MaxTasks

Change(t, outcome) ==
    /\ status' = [status EXCEPT ![t] = outcome]
    /\ UNCHANGED <<owner, crawldir>>

Open(t) ==
    /\ \A u \in TaskIds : u < t <=> status[u] # "none"
    /\ \E s \in Spiders : owner' = [owner EXCEPT ![t] = s]
    /\ status' = [status EXCEPT ![t] = "running"]
    /\ UNCHANGED crawldir

Report(t) ==
    /\ status[t] = "running"
    /\ \E outcome \in {"completed", "failed", "paused"} : Change(t, outcome)

Revise(t) ==
    /\ status[t] = "completed"
    /\ \E outcome \in {"running", "failed", "paused"} : Change(t, outcome)

Suspend(t) ==
    /\ status[t] \in {"running", "completed", "failed", "paused"}
    /\ status' = [status EXCEPT ![t] = "paused"]
    /\ crawldir' = [crawldir EXCEPT ![t] = TRUE]
    /\ UNCHANGED owner

Recover ==
    /\ status' = [t \in TaskIds |-> IF status[t] = "running" THEN "crashed" ELSE status[t]]
    /\ UNCHANGED <<owner, crawldir>>

Init ==
    /\ owner = [t \in TaskIds |-> NoSpider]
    /\ status = [t \in TaskIds |-> "none"]
    /\ crawldir = [t \in TaskIds |-> FALSE]

Next ==
    \/ \E t \in TaskIds : Open(t) \/ Report(t) \/ Revise(t) \/ Suspend(t)
    \/ Recover

Spec == Init /\ [][Next]_<<owner, status, crawldir>>
=============================================================================
