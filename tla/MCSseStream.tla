---------------------------- MODULE MCSseStream -----------------------------
(* Instances of SseStream for model checking.  The code admits 50          *)
(* subscribers and queues 100 messages for each; here one, and two.        *)
EXTENDS SseStream
=============================================================================
