---------------------------- MODULE MCMemSystem ----------------------------
(* The memory system for TLC: the ways its memory may answer. *)
EXTENDS MemSystem

CommonAnswers == {{}, Channels}      \* one latency for all channels

=============================================================================
