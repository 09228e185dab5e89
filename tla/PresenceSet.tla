------------------------------- MODULE PresenceSet -------------------------------
(****************************************************************************)
(* What a channel's presence promises of the messages it is given: the view *)
(* is a set of presences; a presence_state replaces it; a presence_diff     *)
(* adds its joins and takes away its leaves, all of them when each was      *)
(* known, and else some (realtime/_async/presence.py).  Messages are only   *)
(* lost when the channel goes down.                                         *)
(****************************************************************************)
EXTENDS Naturals, Sequences

VARIABLES
  inbox,     \* messages the server has sent on the channel
  view,      \* the presences the application sees
  up         \* the channel is joined, or joining

SetInit == inbox = <<>> /\ view = {} /\ up = FALSE

Arrives ==
  /\ Len(inbox') = Len(inbox) + 1 /\ SubSeq(inbox', 1, Len(inbox)) = inbox
  /\ UNCHANGED <<view, up>>

GoesUp == ~up /\ up' /\ UNCHANGED <<inbox, view>>
GoesDown == up /\ ~up' /\ Len(inbox') <= Len(inbox) /\ UNCHANGED view

Handle ==
  /\ inbox # <<>> /\ inbox' = Tail(inbox) /\ UNCHANGED up
  /\ LET m == Head(inbox) IN
     CASE m.kind = "state" -> view' = m.joins
       [] m.kind = "diff" ->
            LET all == view \cup m.joins IN
            /\ all \ m.leaves \subseteq view' /\ view' \subseteq all
            /\ m.leaves \subseteq all => view' = all \ m.leaves
       [] OTHER -> view' = view

SetNext == Arrives \/ GoesUp \/ GoesDown \/ Handle

SetSpec == SetInit /\ [][SetNext]_<<inbox, view, up>>

=============================================================================
