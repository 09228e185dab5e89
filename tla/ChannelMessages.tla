----------------------------- MODULE ChannelMessages -----------------------------
(****************************************************************************)
(* What a channel makes of the messages it is given once it is subscribed   *)
(* (realtime/_async/channel.py, _handle_message): the presence state of     *)
(* presence.py and the bindings of postgres_changes callbacks of types.py,  *)
(* across rejoins.  The server applies a batch of presence changes before   *)
(* it broadcasts it, so that a snapshot may be ahead of the diffs that      *)
(* follow it.  Names, metas and rows are left out: a presence is its key    *)
(* and its phx_ref, a binding its event and its table.                      *)
(****************************************************************************)
EXTENDS Naturals, Sequences, SequencesExt, FiniteSets

CONSTANTS
  Features,    \* what channels are used for: sets of "presence" and "postgres"
  Keys,
  None,
  Bindings,    \* [event, table] that callbacks are registered for
  Changes,     \* [event, table] of the rows changed
  MaxRefs,     \* bound: presences that join
  MaxWire,     \* bound: messages on their way
  MaxJoins,    \* bound: joins of the channel
  MaxBehind    \* bound: batches applied and not broadcast

VARIABLES
  uses,
  stage,       \* "out", "joining", "joined" or "left"
  joins,
  wire,        \* messages from the server, in order
  pending,     \* joins on their way to the server
  serves,      \* server: it has accepted a join, and the channel has not ended there
  \* presence
  members,     \* server: <<key, ref>> present
  refs,        \* server: refs given out
  behind,      \* server: batches applied, to be broadcast
  listed,      \* server: it has sent the snapshot of the join it accepted
  state,       \* presence.state
  ahead,       \* batches the last snapshot of this join was ahead of; None before it
  \* postgres_changes
  callbacks,   \* postgres_changes_callbacks: event, table, id or None
  requested,   \* the bindings of the join payload
  granted,     \* server: the bindings of the join it accepted, with their ids
  got          \* the last change handled: was the channel joined, which callbacks
               \* were called, which are registered for such a change

presenceVars == <<members, refs, behind, listed, state, ahead>>
bindingVars == <<callbacks, requested, granted, got>>
serverVars == <<pending, serves>>
channelVars == <<uses, stage, joins, wire, serverVars, presenceVars, bindingVars>>

Unbound(b) == [event |-> b.event, table |-> b.table, id |-> None]
Nothing == [joined |-> FALSE, called |-> {}, due |-> {}]

(* The application registers its callbacks before subscribe()               *)
MessagesInit ==
  /\ uses \in Features /\ stage = "out" /\ joins = 0 /\ wire = <<>>
  /\ pending = 0 /\ serves = FALSE
  /\ members = {} /\ refs = 0 /\ behind = <<>> /\ listed = FALSE
  /\ state = {} /\ ahead = None
  /\ \E n \in 0..(IF "postgres" \in uses THEN 2 ELSE 0) : \E bs \in [1..n -> Bindings] :
       requested = bs /\ callbacks = [i \in 1..n |-> Unbound(bs[i])]
  /\ granted = <<>> /\ got = Nothing

Message(kind, arrivals, leaves, bindings, change, lead) ==
  [kind |-> kind, joins |-> arrivals, leaves |-> leaves, bindings |-> bindings,
   change |-> change, ahead |-> lead]
SendWire(m) == Len(wire) < MaxWire /\ wire' = Append(wire, m)

Ignored == Message("ignored", {}, {}, <<>>, None, 0)

-----------------------------------------------------------------------------
(* The server.  It goes on with a join it has accepted whatever the channel *)
(* made of its answer: until the connection is lost, the channel fails      *)
(* there, or the next join comes.                                           *)

(* It answers a join: the bindings as asked with new ids, or others.  Only  *)
(* the last join, if it has not timed out, waits for the answer.            *)
Numbered(bs, ids) == [i \in DOMAIN bs |-> [event |-> bs[i].event, table |-> bs[i].table, id |-> ids[i]]]
AcceptJoin ==
  /\ pending > 0 /\ pending' = pending - 1
  /\ \E bs \in {requested, Reverse(requested), <<>>} : \E ids \in {<<0, 1>>, <<2, 1>>} :
       /\ granted' = Numbered(bs, ids)
       /\ SendWire(IF stage = "joining" /\ pending = 1
                     THEN Message("reply", {}, {}, granted', None, 0) ELSE Ignored)
  /\ serves' = TRUE /\ listed' = ("presence" \notin uses)
  /\ UNCHANGED <<uses, stage, joins, members, refs, behind, state, ahead, callbacks, requested, got>>

(* The snapshot that follows a join                                         *)
SendState ==
  /\ serves /\ ~listed /\ listed' = TRUE
  /\ SendWire(Message("state", members, {}, <<>>, None, Len(behind)))
  /\ UNCHANGED <<uses, stage, joins, serverVars, members, refs, behind, state, ahead, bindingVars>>

(* Presences come and go, and the server knows it at once                   *)
ChangeMembers ==
  /\ "presence" \in uses /\ Len(behind) < MaxBehind
  /\ \E new \in {{}} \cup {{<<k, refs + 1>>} : k \in Keys} : \E gone \in SUBSET members :
       /\ new \cup gone # {} /\ refs + Cardinality(new) <= MaxRefs
       /\ refs' = refs + Cardinality(new)
       /\ members' = (members \ gone) \cup new
       /\ behind' = Append(behind, [joins |-> new, leaves |-> gone])
  /\ UNCHANGED <<uses, stage, joins, wire, serverVars, listed, state, ahead, bindingVars>>

(* The diff of a batch                                                      *)
Broadcast ==
  /\ behind # <<>> /\ behind' = Tail(behind)
  /\ IF serves
     THEN SendWire(Message("diff", Head(behind).joins, Head(behind).leaves, <<>>, None, 0))
     ELSE UNCHANGED wire
  /\ UNCHANGED <<uses, stage, joins, serverVars, members, refs, listed, state, ahead, bindingVars>>

(* A row changes, for the ids of the bindings it matches                    *)
Matches(b, change) == b.table = change.table /\ b.event \in {"*", change.event}
ChangeRow ==
  /\ serves
  /\ \E change \in Changes :
       LET due == {b \in Range(granted) : Matches(b, change)} IN
       /\ due # {}
       /\ SendWire(Message("change", {}, {}, due, change, 0))
  /\ UNCHANGED <<uses, stage, joins, serverVars, presenceVars, bindingVars>>

-----------------------------------------------------------------------------
(* The channel                                                              *)

(* subscribe() and _rejoin(): the same join payload                         *)
Join ==
  /\ stage = "out" /\ joins < MaxJoins /\ joins' = joins + 1
  /\ stage' = "joining" /\ pending' = pending + 1
  /\ UNCHANGED <<uses, wire, serves, presenceVars, bindingVars>>

(* A join that timed out waits for its reply no more (AsyncPush's timeout)  *)
Outdated(sent) == [i \in DOMAIN sent |-> IF sent[i].kind = "reply" THEN Ignored ELSE sent[i]]

(* The channel fails: a join times out, or a system error comes; or it has  *)
(* failed at the server; or the connection is lost, and what was sent.      *)
Fail ==
  /\ stage \in {"joining", "joined"} /\ stage' = "out"
  /\ \/ wire' = Outdated(wire) /\ UNCHANGED <<serverVars, listed>>
     \/ wire' \in {Outdated(wire), <<>>} /\ pending' = 0 /\ serves' = FALSE /\ listed' = TRUE
  /\ UNCHANGED <<uses, joins, members, refs, behind, state, ahead, bindingVars>>

(* on_postgres_changes on a channel subscribed already                      *)
AddCallback ==
  /\ "postgres" \in uses /\ stage = "joined" /\ Len(callbacks) < 3
  /\ \E b \in Bindings : callbacks' = Append(callbacks, Unbound(b))
  /\ UNCHANGED <<uses, stage, joins, wire, serverVars, presenceVars, requested, granted, got>>

Received(kind) == wire # <<>> /\ Head(wire).kind = kind /\ wire' = Tail(wire)

(* Mutant: the ids are taken by position, whatever the binding.             *)
SameBindingUnchecked(i, offer) == i <= Len(offer)
SameBinding(i, offer) ==
  i <= Len(offer) /\ offer[i].event = callbacks[i].event /\ offer[i].table = callbacks[i].table

(* on_join_push_ok: each callback takes the id of the binding at its place; *)
(* a mismatch unsubscribes, an empty answer drops every callback            *)
JoinAnswered ==
  /\ Received("reply")
  /\ LET offer == Head(wire).bindings
         first == {i \in DOMAIN callbacks : \A j \in 1..i : SameBinding(j, offer)} IN
     IF offer = <<>>
     THEN callbacks' = <<>> /\ stage' = "joined"
     ELSE /\ callbacks' = [i \in DOMAIN callbacks |->
                             IF i \in first THEN [callbacks[i] EXCEPT !.id = offer[i].id] ELSE callbacks[i]]
          /\ stage' = IF first = DOMAIN callbacks THEN "joined" ELSE "left"
  /\ ahead' = None
  /\ UNCHANGED <<uses, joins, serverVars, members, refs, behind, listed, state, requested, granted, got>>

(* _handle_message: the reply to a push that does not wait for it           *)
IgnoreReply ==
  /\ Received("ignored")
  /\ UNCHANGED <<uses, stage, joins, serverVars, presenceVars, bindingVars>>

(* PostgresChangesCallback.__call__: an id that is None or 0 never matches  *)
Called(cb, m) ==
  /\ cb.id \notin {None, 0}
  /\ \E b \in m.bindings : b.id = cb.id
  /\ cb.event \in {"*", m.change.event}

(* Whatever the state of the channel                                        *)
PostgresChange ==
  /\ Received("change")
  /\ LET m == Head(wire) IN
     got' = [joined |-> stage = "joined",
             called |-> {i \in DOMAIN callbacks : Called(callbacks[i], m)},
             due |-> {i \in DOMAIN callbacks : Matches(callbacks[i], m.change)}]
  /\ UNCHANGED <<uses, stage, joins, serverVars, presenceVars, callbacks, requested, granted>>

(* The joins of _sync_diff: beside the presences the key has                *)
JoinedPresences(present, arrivals) == present \cup arrivals

(* Mutant: the presences that left are looked for by key alone.             *)
LeftPresencesByKey(present, leaves, ks) == {p \in present : p[1] \notin ks}
(* The leaves of _sync_diff, for the keys it comes to                       *)
LeftPresences(present, leaves, ks) == present \ {p \in leaves : p[1] \in ks}

(* _sync_diff: the loop over leaves ends at a key with nobody present, so   *)
(* it may come to any of the others                                         *)
SyncDiff(arrivals, leaves) ==
  LET present == JoinedPresences(state, arrivals)
      leaving == {p[1] : p \in leaves}
      known == {k \in leaving : \E p \in present : p[1] = k} IN
  \E ks \in IF known = leaving THEN {leaving} ELSE SUBSET known :
    state' = LeftPresences(present, leaves, ks)

PresenceDiff ==
  /\ Received("diff")
  /\ SyncDiff(Head(wire).joins, Head(wire).leaves)
  /\ UNCHANGED <<uses, stage, joins, serverVars, members, refs, behind, listed, ahead, bindingVars>>

(* Mutant: of a key in both, those that left stay.                          *)
GoneKeysOnly(new) == {p \in state : \A n \in new : n[1] # p[1]}
(* _sync_state: what the state has and the snapshot has not                 *)
Gone(new) == state \ new

PresenceState ==
  /\ Received("state")
  /\ LET new == Head(wire).joins IN SyncDiff(new \ state, Gone(new))
  /\ ahead' = Head(wire).ahead
  /\ UNCHANGED <<uses, stage, joins, serverVars, members, refs, behind, listed, bindingVars>>

MessagesNext ==
  \/ AcceptJoin \/ SendState \/ ChangeMembers \/ Broadcast \/ ChangeRow
  \/ Join \/ Fail \/ AddCallback
  \/ JoinAnswered \/ IgnoreReply \/ PostgresChange \/ PresenceDiff \/ PresenceState

MessagesSpec == MessagesInit /\ [][MessagesNext]_channelVars

-----------------------------------------------------------------------------
(* The presences known are ones the server gave out.                        *)
TypeOK ==
  /\ uses \in Features /\ stage \in {"out", "joining", "joined", "left"} /\ joins \in 0..MaxJoins
  /\ pending \in 0..MaxJoins /\ serves \in BOOLEAN
  /\ Len(wire) <= MaxWire /\ Len(behind) <= MaxBehind
  /\ members \subseteq Keys \X (1..refs) /\ state \subseteq Keys \X (1..refs)
  /\ ahead \in {None} \cup 0..MaxBehind
  /\ \A i \in DOMAIN callbacks : callbacks[i].id \in {None, 0, 1, 2}

(* Once the snapshot of the join and all that followed it are handled,      *)
(* everyone present is in the state; and nobody else, if the snapshot was   *)
(* ahead of one batch at most (presence.py:61-138).                         *)
PresenceFollows ==
  stage = "joined" /\ ahead # None /\ wire = <<>> /\ behind = <<>> =>
    /\ members \subseteq state
    /\ ahead <= 1 => state = members

(* The presence state is the set that presence promises.                    *)
Promise == INSTANCE PresenceSet WITH
  inbox <- wire, view <- state, up <- stage \in {"joining", "joined"}
KeepsPromise == Promise!SetSpec

(* A joined channel calls for a change only callbacks registered for such a *)
(* change, whatever ids the joins so far were given; and an id that one of  *)
(* its callbacks has is the one this join gave its binding (types.py:141,   *)
(* channel.py:226-252).  A channel that is not joined may call others: ids  *)
(* of a join that timed out or did not match are matched all the same       *)
(* (channel.py:247, 564).                                                   *)
RightCallback ==
  /\ got.joined => got.called \subseteq got.due
  /\ stage = "joined" => \A i \in DOMAIN callbacks : callbacks[i].id # None =>
       \E j \in DOMAIN granted : granted[j] = callbacks[i]

=============================================================================
