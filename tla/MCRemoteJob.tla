---------------------------- MODULE MCRemoteJob ----------------------------
(* Small instances of RemoteJob; the bounds are in the .cfg files.          *)
EXTENDS RemoteJob
=============================================================================
