--------------------------- MODULE MCPostgrestQuery ---------------------------
(* PostgrestQuery for TLC                                                   *)
EXTENDS PostgrestQuery

(* No Prefer of the client's own, or one that asks for the count            *)
PreferNone == {}
PreferCount == {<<"count", "exact">>}
SomePrefers == {PreferNone, PreferCount}

=============================================================================
