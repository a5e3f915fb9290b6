---------------------------- MODULE MCSshTerminal ----------------------------
(* Instances of SshTerminal for TLC: the policies of the reaper.             *)
EXTENDS SshTerminal

(* SESSION_POLICY_DEFAULT, and with the threshold for idle attached ones.    *)
DefaultPolicy == {"detachedIdleMin", "backendIdleMin"}
IdlePolicy == DefaultPolicy \union {"attachedIdleMin"}
=============================================================================
