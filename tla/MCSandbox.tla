----------------------------- MODULE MCSandbox -----------------------------
(* TLC instances of Sandbox.                                               *)
EXTENDS Sandbox

\* run_sandboxed: "Yields: the data items the spider produces"
\* (core/sandbox_runner.py:80).  A batch pickle rejects is dropped, and the
\* run ends as drained.
YieldsEveryItem == gen = "ended" => delivered = 1..produced
=============================================================================
