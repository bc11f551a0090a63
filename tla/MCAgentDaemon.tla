---------------------------- MODULE MCAgentDaemon ----------------------------
(* AgentDaemon with the constants of the configuration MCAgentDaemon.cfg.  *)
EXTENDS AgentDaemon
=============================================================================
