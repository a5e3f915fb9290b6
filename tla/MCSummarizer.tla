---------------------------- MODULE MCSummarizer ----------------------------
(* Instances of Summarizer for TLC.                                          *)
EXTENDS Summarizer
=============================================================================
