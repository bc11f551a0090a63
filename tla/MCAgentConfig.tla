---------------------------- MODULE MCAgentConfig ----------------------------
(* AgentConfig with the constants of the configuration MCAgentConfig.cfg.  *)
EXTENDS AgentConfig
=============================================================================
