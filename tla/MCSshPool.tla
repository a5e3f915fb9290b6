----------------------------- MODULE MCSshPool -----------------------------
(* Instances of SshPool for TLC: a lane of the web terminals and one of the  *)
(* AI bridges (pool.mjs:143).  The users are not declared symmetric, since   *)
(* both runs check temporal formulas.                                        *)
EXTENDS SshPool

TwoLanes == {"terminal", "agent"}
AgentLane == {"agent"}
=============================================================================
