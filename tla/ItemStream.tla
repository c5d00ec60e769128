----------------------------- MODULE ItemStream -----------------------------
(***************************************************************************)
(* What SpiderRunner._run relies on when it drains run_sandboxed           *)
(* (core/runner.py:126-137): the items a spider produces, numbered from 1, *)
(* come one at a time and in their order, none twice, though some may be   *)
(* missing, and the stream does not stay open for ever.                    *)
(***************************************************************************)
EXTENDS Naturals

CONSTANT MaxItems   \* bound: items the spider produces

VARIABLES
    open,   \* the generator may still yield
    last    \* the number of the last item it yielded, 0 for none

streamVars == <<open, last>>

Init == open = TRUE /\ last = 0

\* The generator yields an item the spider produced after the last one.
Yield ==
    /\ open
    /\ last' \in (last + 1)..MaxItems
    /\ UNCHANGED open

\* It returns, raises or is closed.
Close == open /\ open' = FALSE /\ UNCHANGED last

Next == Yield \/ Close

\* The part of the promise that a prefix of a run can break.
Safety == Init /\ [][Next]_streamVars

Spec == Safety /\ WF_streamVars(Next)
=============================================================================
