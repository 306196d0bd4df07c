-------------------------- MODULE MCAmbSubscriptions --------------------------
(* Instances of AmbSubscriptions for TLC: one application channel with one  *)
(* listener beside the redirect channel.                                   *)
EXTENDS AmbSubscriptions

CONSTANTS meta, records, l1

MCChannels == <<records, meta>>

MCChannelOf == [l \in {l1} |-> records]
================================================================================
