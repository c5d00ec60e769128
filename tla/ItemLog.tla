------------------------------ MODULE ItemLog ------------------------------
(***************************************************************************)
(* What a sink that keeps a batch until it is written (core/sinks/base.py) *)
(* promises of the items it is given: the target gets those of an attempt  *)
(* in their order and at least once.  An item may come again, with those   *)
(* after it, but none comes before all earlier ones are there.             *)
(***************************************************************************)
EXTENDS Naturals, Sequences, SequencesExt

CONSTANT Attempts

VARIABLES
    taken,  \* items the sink was given in each attempt, numbered from 1
    log     \* the items in the target, in the order of arrival

logVars == <<taken, log>>

Init == taken = [a \in Attempts |-> 0] /\ log = <<>>

Take == \E a \in Attempts : taken' = [taken EXCEPT ![a] = @ + 1] /\ UNCHANGED log

\* A run of successive items of an attempt arrives, which may begin with an
\* item that is there already but leaves none out.
Store ==
    \E a \in Attempts : \E first \in 1..taken[a] : \E final \in first..taken[a] :
        /\ first = 1 \/ <<a, first - 1>> \in ToSet(log)
        /\ log' = log \o [i \in 1..(final - first + 1) |-> <<a, first + i - 1>>]
        /\ UNCHANGED taken

Next == Take \/ Store

Spec == Init /\ [][Next]_logVars
=============================================================================
