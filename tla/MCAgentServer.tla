--------------------------- MODULE MCAgentServer ---------------------------
(***************************************************************************)
(* TLC instance of AgentServer.  It stops for good when Stop has returned  *)
(* and the reader has left its loop, or when the process has panicked.     *)
(***************************************************************************)
EXTENDS AgentServer
=============================================================================
