--------------------------- MODULE MCDockerSandbox ---------------------------
(* TLC instances of DockerSandbox, and what the documents say of it where   *)
(* the code does otherwise.                                                 *)
EXTENDS DockerSandbox

\* run_sandboxed raises RuntimeError when the spider fails
\* (core/sandbox_runner.py:85).  A container that is killed ends as drained.
FailureIsRaised == gen = "ended" /\ ~broken => how = "ok"
==============================================================================
