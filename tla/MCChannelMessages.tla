--------------------------- MODULE MCChannelMessages ---------------------------
(* ChannelMessages for TLC                                                  *)
EXTENDS ChannelMessages, TLC

OneFeature == {{"presence"}, {"postgres"}}
Binding(event, table) == [event |-> event, table |-> table]
SomeBindings == {Binding("*", "a"), Binding("INSERT", "b")}
SomeChanges == {Binding("INSERT", "a"), Binding("DELETE", "b"), Binding("INSERT", "b")}

=============================================================================
