---- MODULE MCChatStream ----
(* ChatStream on a small instance.                                           *)
EXTENDS ChatStream, TLC
====
