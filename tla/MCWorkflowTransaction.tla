----------------------- MODULE MCWorkflowTransaction -----------------------
(* Two updates: u1 rewrites a file of the project, u2 also creates one. *)
EXTENDS WorkflowTransaction

MCUpdates == {"u1", "u2"}
MCWrites == [u \in MCUpdates |-> IF u = "u1" THEN {"a"} ELSE {"a", "b"}]
MCPaths == {"a", "b"}
MCPresent == {"a"}

Config(ask, commit, chat, rollback, squash) ==
  [ask |-> ask, commit |-> commit, chat |-> chat, rollback |-> rollback, squash |-> squash]

(* Updates reviewed and committed at the end, updates that undo themselves and ask for the commit
   with a message from the conversation, updates that commit and squash, and updates without git. *)
MCConfigs == {Config(TRUE, "final", FALSE, FALSE, FALSE), Config(FALSE, "ask", TRUE, TRUE, FALSE),
              Config(FALSE, "auto", FALSE, FALSE, TRUE), Config(FALSE, "none", FALSE, FALSE, FALSE)}
=============================================================================
