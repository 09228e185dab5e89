------------------------- MODULE MCRealtimeConnection -------------------------
(* RealtimeConnection for TLC: the application tasks are interchangeable,   *)
(* and so are the messages.                                                 *)
EXTENDS RealtimeConnection, TLC

ConnectionSymmetry == Permutations(Users) \union Permutations(Messages)

(* A bound of conn_safety: no message of the application is sent where a    *)
(* handler raises.  A join, which is sent the same way, may be.             *)
MessageOrRaise == asked = {} \/ deaf = {}

=============================================================================
