--------------------------- MODULE MCRealtimeChannel ---------------------------
(* RealtimeChannel for TLC, with one push: pushes only meet in the buffer   *)
(* and the refs, and a symmetry of several is not sound for liveness.       *)
EXTENDS RealtimeChannel, TLC

(* A bound: from when the push is made, no sender reconnects and no removal *)
(* is suspended.  Either may be over by then.                               *)
PushAlone ==
  \/ \A p \in Pushes : resp[p] = "unused"
  \/ "remove" \notin tasks /\ \A s \in Senders : reconnects[s] = "no"

=============================================================================
