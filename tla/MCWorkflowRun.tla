----------------------------- MODULE MCWorkflowRun -----------------------------
(* The instances of WorkflowRun that TLC checks. *)
EXTENDS WorkflowRun

MCPolicies == {"auto", "ask", "discard"}
MCCommands == {"run", "pause", "resume", "stop", "act"}

\* WorkflowRestart: nobody interferes with the run and its recovery.
MCAuto    == {"auto"}
MCRunOnly == {"run"}
===============================================================================
