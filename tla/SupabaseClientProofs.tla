-------------------------- MODULE SupabaseClientProofs --------------------------
(****************************************************************************)
(* Proofs about SupabaseClient: whose token the clients and the channels    *)
(* carry as the auth client tells of sessions.                              *)
(****************************************************************************)
EXTENDS SupabaseClient, FiniteSetTheorems, SequenceTheorems, TLAPS

(* The tokens of sessions that some client's headers carry.                 *)
InUse == (Range(sub) \cup {options, auth}) \cap Tokens

(* Types, as far as the proofs need them; the session is known to           *)
(* everyone from the last event on.                                         *)
Typed ==
  /\ stage \in {"creating", "ready"} /\ suspends \in BOOLEAN
  /\ given \in {None, Given} /\ stored \in Tokens \cup {None}
  /\ options \in Headers /\ auth \in Headers
  /\ sub \in [Clients -> Headers \cup {None}]

(* While create() awaits the session no client has been made, and the       *)
(* token in the headers, if any, is that of the session.                    *)
CreatingInvariant ==
  stage = "creating" =>
    /\ \A c \in Clients : sub[c] = None
    /\ {options, auth} \cap Tokens \subseteq {stored}
    /\ told.event # "none" => told.event = "TOKEN_REFRESHED" /\ told.token = stored /\ options = stored

(* One token of a session at most is in use; after a sign-in or a refresh   *)
(* it is the one told, after a sign-out there is none.                      *)
IdentityInvariant ==
  /\ \E x \in Tokens \cup {None} : InUse \subseteq {x}
  /\ told.event \in {"SIGNED_IN", "TOKEN_REFRESHED"} => InUse \subseteq {told.token}
  /\ told.event = "SIGNED_OUT" => InUse = {}

ClientInvariant == Typed /\ CreatingInvariant /\ IdentityInvariant

-----------------------------------------------------------------------------
LEMMA OneAtMost == ASSUME NEW S, NEW x, S \subseteq {x} PROVE Cardinality(S) <= 1
<1>1. S = {} \/ S = {x}
  OBVIOUS
<1>2. Cardinality({}) = 0
  BY FS_EmptySet
<1>3. Cardinality({x}) = 1
  BY FS_Singleton, Zenon
<1> QED
  BY <1>1, <1>2, <1>3

LEMMA ClientInvariantAlways == ClientSpec => []ClientInvariant
<1> USE HeadersAssumption, ClientsAssumption
<1>1. ClientInit => ClientInvariant
  <2> SUFFICES ASSUME ClientInit PROVE ClientInvariant
    OBVIOUS
  <2>1. options \in {Key, Given} /\ auth = options
    BY DEF ClientInit, OrElse
  <2>2. Typed
    BY <2>1 DEF ClientInit, Typed, Headers
  <2>3. InUse = {}
    BY <2>1, <2>2 DEF ClientInit, InUse, Range
  <2> QED
    BY <2>1, <2>2, <2>3 DEF ClientInit, ClientInvariant, CreatingInvariant, IdentityInvariant
<1>2. ClientInvariant /\ [ClientNext]_clientVars => ClientInvariant'
  <2> SUFFICES ASSUME ClientInvariant, [ClientNext]_clientVars PROVE ClientInvariant'
    OBVIOUS
  <2>0. Typed /\ CreatingInvariant /\ IdentityInvariant
    BY DEF ClientInvariant
  <2>1. CASE Create
    <3>1. /\ stage = "creating" /\ stage' = "ready"
          /\ options' = options \/ options' = stored
          /\ options' \in Headers
          /\ UNCHANGED <<given, stored, auth, sub, suspends, told>>
      BY <2>0, <2>1 DEF Create, Typed, OrElse, realtimeVars, Headers
    <3>2. Typed'
      BY <2>0, <3>1 DEF Typed
    <3>3. InUse' \subseteq {stored}
      BY <2>0, <3>1 DEF InUse, Range, CreatingInvariant, Typed
    <3> QED
      BY <2>0, <3>1, <3>2, <3>3 DEF ClientInvariant, CreatingInvariant, IdentityInvariant, Typed
  <2>2. CASE Tell
    <3>1. PICK event \in ResetEvents \cup OtherEvents, session \in Tokens \cup {None} :
            /\ stage = "creating" => event = "TOKEN_REFRESHED" /\ stored # None
            /\ session = None <=> event = "SIGNED_OUT"
            /\ stored' = session
            /\ ListenToAuthEvents(event, session)
            /\ UNCHANGED <<stage, given, suspends>>
      BY <2>2 DEF Tell
    <3> DEFINE token == IF event \in ResetEvents THEN OrElse(session, Key) ELSE Key
    <3>2. /\ options' = token /\ auth' = token
          /\ sub' = KeptClients(event)
          /\ told' = [event |-> event, token |-> session]
      BY <3>1 DEF ListenToAuthEvents
    <3>3. token \in Headers /\ {token} \cap Tokens \subseteq {session}
      BY DEF OrElse, Headers
    <3>4. told'.event = event /\ told'.token = session
      BY <3>2
    <3>5. CASE event \in ResetEvents
      <4>1. sub' = [c \in Clients |-> None]
        BY <3>2, <3>5 DEF KeptClients
      <4>2. Typed'
        BY <2>0, <3>1, <3>2, <3>3, <4>1 DEF Typed
      <4>3. InUse' \subseteq {session} /\ InUse' \subseteq {token}
        BY <3>2, <3>3, <4>1 DEF InUse, Range
      <4>4. session # None => token = session
        BY <3>5 DEF OrElse
      <4>5. InUse' \subseteq Tokens
        BY DEF InUse
      <4>6. IdentityInvariant'
        BY <3>1, <3>4, <4>3, <4>5 DEF IdentityInvariant
      <4>7. CreatingInvariant'
        BY <3>1, <3>2, <3>3, <3>4, <4>1, <4>4 DEF CreatingInvariant
      <4> QED
        BY <4>2, <4>6, <4>7 DEF ClientInvariant
    <3>6. CASE event \notin ResetEvents
      <4>1. sub' = sub /\ token = Key
        BY <3>2, <3>6 DEF KeptClients
      <4>2. Typed'
        BY <2>0, <3>1, <3>2, <3>3, <4>1 DEF Typed
      <4>3. InUse' \subseteq InUse
        BY <3>2, <4>1 DEF InUse
      <4>4. event \notin {"SIGNED_IN", "TOKEN_REFRESHED", "SIGNED_OUT"}
        BY <3>6 DEF ResetEvents
      <4>5. IdentityInvariant'
        BY <2>0, <3>4, <4>3, <4>4 DEF IdentityInvariant
      <4> QED
        BY <3>1, <4>2, <4>4, <4>5 DEF ClientInvariant, CreatingInvariant
    <3> QED
      BY <3>5, <3>6
  <2>3. ASSUME NEW c \in Clients, Obtain(c) \/ SetOwnAuth(c) PROVE ClientInvariant'
    <3>1. /\ sub' = [sub EXCEPT ![c] = options] \/ sub' = [sub EXCEPT ![c] = Given]
          /\ UNCHANGED <<stage, given, stored, options, auth, told, suspends>>
          /\ stage # "creating"
      BY <2>0, <2>3 DEF Obtain, SetOwnAuth, MadeWith, realtimeVars, CreatingInvariant
    <3>2. Typed'
      BY <2>0, <3>1 DEF Typed, Headers
    <3>3. InUse' \subseteq InUse
      BY <2>0, <3>1 DEF InUse, Range, Typed
    <3> QED
      BY <2>0, <3>1, <3>2, <3>3 DEF ClientInvariant, CreatingInvariant, IdentityInvariant
  <2>4. CASE Invoke
    <3>1. /\ sub' = [sub EXCEPT !["functions"] = Given] \/ sub' = sub
          /\ UNCHANGED <<stage, given, stored, options, auth, told, suspends>>
          /\ stage # "creating"
      BY <2>4 DEF Invoke, realtimeVars
    <3>2. Typed'
      BY <2>0, <3>1 DEF Typed, Headers
    <3>3. InUse' \subseteq InUse
      BY <2>0, <3>1 DEF InUse, Range, Typed
    <3> QED
      BY <2>0, <3>1, <3>2, <3>3 DEF ClientInvariant, CreatingInvariant, IdentityInvariant
  <2>5. CASE UNCHANGED <<stage, authVars, suspends>>
    BY <2>0, <2>5 DEF authVars, ClientInvariant, Typed, CreatingInvariant, IdentityInvariant, InUse
  <2>6. CASE StartSetAuth \/ \E i \in DOMAIN pushing : ResumeSetAuth(i)
    BY <2>5, <2>6 DEF StartSetAuth, ResumeSetAuth
  <2>7. ASSUME NEW t \in Topics,
               \/ Channel(t) \/ Subscribe(t) \/ JoinOk(t) \/ ChannelError(t) \/ Rejoin(t)
               \/ Unsubscribe(t) \/ RemoveChannel(t)
        PROVE  ClientInvariant'
    BY <2>5, <2>7 DEF Channel, Subscribe, JoinOk, ChannelError, Rejoin, Unsubscribe, RemoveChannel, ChannelStep
  <2> QED
    BY <2>1, <2>2, <2>3, <2>4, <2>5, <2>6, <2>7 DEF ClientNext, clientVars, realtimeVars
<1> QED
  BY <1>1, <1>2, PTL DEF ClientSpec

(* No two clients speak for two users, whatever the order of events and of  *)
(* the first use of each client.                                            *)
THEOREM OneIdentityAlways == ClientSpec => []OneIdentity
<1>1. ClientInvariant => OneIdentity
  BY OneAtMost DEF ClientInvariant, IdentityInvariant, OneIdentity, InUse
<1> QED
  BY <1>1, ClientInvariantAlways, PTL

-----------------------------------------------------------------------------
(* The last of the set_auth tasks that have not started, or realtime itself *)
(* when there is none, has the token of the options' headers.               *)
FollowsInvariant ==
  /\ tasks \in Seq(Bearers) /\ access \in Bearers
  /\ told.event # "none" => IF tasks = <<>> THEN access = options ELSE tasks[Len(tasks)] = options

LEMMA WithoutProperties ==
  ASSUME NEW S, NEW s \in Seq(S), NEW i \in 1..Len(s)
  PROVE  /\ Without(s, i) \in Seq(S) /\ Len(Without(s, i)) = Len(s) - 1
         /\ \A j \in 1..(Len(s) - 1) : Without(s, i)[j] = IF j < i THEN s[j] ELSE s[j + 1]
<1>1. Len(s) \in Nat /\ \A j \in 1..Len(s) : s[j] \in S
  BY LenProperties
<1> DEFINE before == SubSeq(s, 1, i - 1)
           after  == SubSeq(s, i + 1, Len(s))
<1>2. /\ before \in Seq(S) /\ Len(before) = i - 1
      /\ \A j \in 1..(i - 1) : before[j] = s[j]
  <2>1. \A j \in 1..(i - 1) : s[j] \in S
    BY <1>1
  <2>2. /\ before \in Seq(S) /\ Len(before) = IF 1 <= i - 1 THEN (i - 1) - 1 + 1 ELSE 0
        /\ \A j \in 1..((i - 1) - 1 + 1) : before[j] = s[1 + j - 1]
    BY <1>1, <2>1, SubSeqProperties
  <2> QED
    BY <1>1, <2>2
<1>3. /\ after \in Seq(S) /\ Len(after) = Len(s) - i
      /\ \A j \in 1..(Len(s) - i) : after[j] = s[i + j]
  <2>1. \A j \in (i + 1)..Len(s) : s[j] \in S
    BY <1>1
  <2>2. /\ after \in Seq(S) /\ Len(after) = IF i + 1 <= Len(s) THEN Len(s) - (i + 1) + 1 ELSE 0
        /\ \A j \in 1..(Len(s) - (i + 1) + 1) : after[j] = s[(i + 1) + j - 1]
    BY <1>1, <2>1, SubSeqProperties
  <2> QED
    BY <1>1, <2>2
<1> HIDE DEF before, after
<1>4. /\ before \o after \in Seq(S) /\ Len(before \o after) = Len(before) + Len(after)
      /\ \A j \in 1..(Len(before) + Len(after)) :
           (before \o after)[j] = IF j <= Len(before) THEN before[j] ELSE after[j - Len(before)]
  BY <1>2, <1>3, ConcatProperties
<1>5. Without(s, i) = before \o after
  BY DEF Without, before, after
<1>6. ASSUME NEW j \in 1..(Len(s) - 1)
      PROVE  Without(s, i)[j] = IF j < i THEN s[j] ELSE s[j + 1]
  <2>1. CASE j < i
    BY <1>1, <1>2, <1>3, <1>4, <1>5, <2>1
  <2>2. CASE ~(j < i)
    <3>1. j - (i - 1) \in 1..(Len(s) - i) /\ i + (j - (i - 1)) = j + 1
      BY <1>1, <2>2
    <3>2. j \in 1..(Len(before) + Len(after)) /\ ~(j <= Len(before)) /\ j - Len(before) = j - (i - 1)
      BY <1>1, <1>2, <1>3, <2>2
    <3>3. Without(s, i)[j] = after[j - (i - 1)]
      BY <1>4, <1>5, <3>2
    <3>4. after[j - (i - 1)] = s[i + (j - (i - 1))]
      BY <1>3, <3>1
    <3> QED
      BY <2>2, <3>1, <3>3, <3>4
  <2> QED
    BY <2>1, <2>2
<1>7. Without(s, i) \in Seq(S)
  BY <1>4, <1>5
<1>8. Len(Without(s, i)) = Len(s) - 1
  <2>1. Len(Without(s, i)) = (i - 1) + (Len(s) - i)
    BY <1>2, <1>3, <1>4, <1>5
  <2> QED
    BY <1>1, <2>1
<1> QED
  BY <1>6, <1>7, <1>8

LEMMA WithoutFirst ==
  ASSUME NEW S, NEW s \in Seq(S), s # <<>>
  PROVE  /\ Without(s, 1) \in Seq(S) /\ s[1] \in S
         /\ Without(s, 1) = <<>> => s[1] = s[Len(s)]
         /\ Without(s, 1) # <<>> => Without(s, 1)[Len(Without(s, 1))] = s[Len(s)]
<1>1. Len(s) \in Nat \ {0} /\ s[1] \in S
  BY EmptySeq, LenProperties
<1>2. /\ Without(s, 1) \in Seq(S) /\ Len(Without(s, 1)) = Len(s) - 1
      /\ \A j \in 1..(Len(s) - 1) : Without(s, 1)[j] = s[j + 1]
  BY <1>1, WithoutProperties
<1>3. Without(s, 1) = <<>> <=> Len(s) = 1
  BY <1>1, <1>2, EmptySeq
<1> QED
  BY <1>1, <1>2, <1>3

LEMMA FollowsInvariantAlways == ClientSpec => []FollowsInvariant
<1> USE HeadersAssumption
<1>1. ClientInit => FollowsInvariant
  BY DEF ClientInit, FollowsInvariant, Bearers
<1>2. ClientInvariant /\ FollowsInvariant /\ [ClientNext]_clientVars => FollowsInvariant'
  <2> SUFFICES ASSUME ClientInvariant, FollowsInvariant, [ClientNext]_clientVars PROVE FollowsInvariant'
    OBVIOUS
  <2>1. CASE Create
    <3>1. /\ stage = "creating" /\ UNCHANGED <<tasks, access, told>>
          /\ options' = options \/ options' = stored
      BY <2>1 DEF Create, realtimeVars, OrElse
    <3> QED
      BY <3>1 DEF FollowsInvariant, ClientInvariant, CreatingInvariant
  <2>2. CASE Tell
    <3>1. PICK event \in ResetEvents \cup OtherEvents, session \in Tokens \cup {None} :
            ListenToAuthEvents(event, session) /\ access' = access
      BY <2>2 DEF Tell
    <3> DEFINE token == IF event \in ResetEvents THEN OrElse(session, Key) ELSE Key
    <3>2. options' = token /\ tasks' = Append(tasks, token) /\ token \in Bearers
      BY <3>1 DEF ListenToAuthEvents, OrElse, Bearers
    <3> HIDE DEF token
    <3>3. tasks' \in Seq(Bearers) /\ Len(tasks') = Len(tasks) + 1 /\ tasks'[Len(tasks')] = token /\ tasks' # <<>>
      BY <3>2, AppendProperties DEF FollowsInvariant
    <3> QED
      BY <3>1, <3>2, <3>3 DEF FollowsInvariant
  <2>3. CASE StartSetAuth
    <3>1. /\ tasks # <<>> /\ access' = tasks[1] /\ tasks' = Without(tasks, 1)
          /\ UNCHANGED <<options, told>>
      BY <2>3 DEF StartSetAuth, NextTask, authVars
    <3> QED
      BY <3>1, WithoutFirst DEF FollowsInvariant
  <2>4. CASE UNCHANGED <<tasks, access, options, told>>
    BY <2>4 DEF FollowsInvariant
  <2>5. CASE Invoke \/ (\E c \in Clients : Obtain(c) \/ SetOwnAuth(c)) \/ (\E i \in DOMAIN pushing : ResumeSetAuth(i))
    BY <2>4, <2>5 DEF Invoke, Obtain, SetOwnAuth, ResumeSetAuth, authVars, realtimeVars
  <2>6. ASSUME NEW t \in Topics,
               \/ Channel(t) \/ Subscribe(t) \/ JoinOk(t) \/ ChannelError(t) \/ Rejoin(t)
               \/ Unsubscribe(t) \/ RemoveChannel(t)
        PROVE  FollowsInvariant'
    BY <2>4, <2>6
      DEF Channel, Subscribe, JoinOk, ChannelError, Rejoin, Unsubscribe, RemoveChannel, ChannelStep, authVars
  <2> QED
    BY <2>1, <2>2, <2>3, <2>4, <2>5, <2>6 DEF ClientNext, clientVars, authVars, realtimeVars
<1> QED
  BY <1>1, <1>2, ClientInvariantAlways, PTL DEF ClientSpec

(* With no set_auth to start, realtime has the token of the last event,     *)
(* however many events came before the first task started.                  *)
THEOREM RealtimeFollowsAlways == ClientSpec => []RealtimeFollows
<1>1. FollowsInvariant => RealtimeFollows
  BY DEF FollowsInvariant, RealtimeFollows
<1> QED
  BY <1>1, FollowsInvariantAlways, PTL

-----------------------------------------------------------------------------
(* What the client has in channels is every channel that is in use, and     *)
(* while sending does not suspend no set_auth is left in the middle of its  *)
(* loop: a joined channel has the token of the last one, or its join's.     *)
ChannelRecords == [state : States, join : Bearers \cup {None}, server : Bearers \cup {None}]

SetAuthCalls == [token : Bearers, done : SUBSET Topics, size : Nat]

ChannelsTyped ==
  order \in Seq(Topics) /\ chan \in [Topics -> ChannelRecords] /\ pushing \in Seq(SetAuthCalls)

ListedInvariant == \A t \in Topics : chan[t].state # "closed" => \E i \in 1..Len(order) : order[i] = t

PushedInvariant ==
  ~suspends =>
    /\ DOMAIN pushing = {}
    /\ \A t \in Topics : chan[t].state = "joined" => chan[t].server \in {access, chan[t].join}

ChannelsInvariant == ChannelsTyped /\ ListedInvariant /\ PushedInvariant

LEMMA StateSet ==
  ASSUME NEW r \in ChannelRecords, NEW s \in States
  PROVE  /\ [r EXCEPT !.state = s] \in ChannelRecords /\ [r EXCEPT !.state = s].state = s
         /\ [r EXCEPT !.state = s].join = r.join /\ [r EXCEPT !.state = s].server = r.server
BY DEF ChannelRecords

LEMMA JoinSet ==
  ASSUME NEW r \in ChannelRecords, NEW x \in Bearers \cup {None}
  PROVE  /\ [r EXCEPT !.join = x] \in ChannelRecords /\ [r EXCEPT !.join = x].join = x
         /\ [r EXCEPT !.join = x].state = r.state /\ [r EXCEPT !.join = x].server = r.server
BY DEF ChannelRecords

LEMMA ServerSet ==
  ASSUME NEW r \in ChannelRecords, NEW x \in Bearers \cup {None}
  PROVE  /\ [r EXCEPT !.server = x] \in ChannelRecords /\ [r EXCEPT !.server = x].server = x
         /\ [r EXCEPT !.server = x].state = r.state /\ [r EXCEPT !.server = x].join = r.join
BY DEF ChannelRecords

LEMMA JoinTyped == \A r \in ChannelRecords : r.join \in Bearers \cup {None}
BY DEF ChannelRecords

LEMMA DoneSet ==
  ASSUME NEW c \in SetAuthCalls, NEW D \in SUBSET Topics
  PROVE  [c EXCEPT !.done = D] \in SetAuthCalls
BY DEF SetAuthCalls

LEMMA CallFields == \A c \in SetAuthCalls : c.token \in Bearers /\ c.done \in SUBSET Topics
BY DEF SetAuthCalls

LEMMA NewChannelIs ==
  NewChannel \in ChannelRecords /\ NewChannel.state = "closed"
BY DEF NewChannel, ChannelRecords, States

(* Every action on a channel leaves the others alone.                       *)
LEMMA OneChannelMoves ==
  ASSUME ChannelsInvariant, NEW t \in Topics, NEW r \in ChannelRecords,
         chan' = [chan EXCEPT ![t] = r],
         order' \in Seq(Topics),
         \A i \in 1..Len(order) : order[i] # t => \E j \in 1..Len(order') : order'[j] = order[i],
         r.state # "closed" => \E i \in 1..Len(order') : order'[i] = t,
         suspends' = suspends, access' = access,
         pushing' \in Seq(SetAuthCalls), DOMAIN pushing' = DOMAIN pushing,
         ~suspends /\ r.state = "joined" => r.server \in {access, r.join}
  PROVE  ChannelsInvariant'
<1>1. chan'[t] = r /\ \A u \in Topics : u # t => chan'[u] = chan[u]
  BY DEF ChannelsInvariant, ChannelsTyped
<1>2. ChannelsTyped'
  BY DEF ChannelsInvariant, ChannelsTyped
<1>3. ListedInvariant'
  BY <1>1 DEF ChannelsInvariant, ListedInvariant
<1>4. PushedInvariant'
  BY <1>1 DEF ChannelsInvariant, PushedInvariant
<1> QED
  BY <1>2, <1>3, <1>4 DEF ChannelsInvariant

LEMMA OneTokenPushed ==
  ASSUME ChannelsInvariant, NEW call \in SetAuthCalls, NEW rest \in Seq(SetAuthCalls),
         PushToken(call, rest), suspends
  PROVE  /\ chan' \in [Topics -> ChannelRecords] /\ pushing' \in Seq(SetAuthCalls)
         /\ \A t \in Topics : chan'[t].state = chan[t].state
<1>1. chan \in [Topics -> ChannelRecords] /\ \A i \in DOMAIN order : order[i] \in Topics
  BY LenProperties DEF ChannelsInvariant, ChannelsTyped
<1>2. CASE chan' = chan /\ pushing' = rest
  BY <1>1, <1>2
<1>3. ASSUME NEW first \in DOMAIN order, 1..first \subseteq DOMAIN order,
             chan' = [chan EXCEPT ![order[first]].server = call.token],
             pushing' = Append(rest, [call EXCEPT !.done = @ \cup {order[i] : i \in 1..first}])
      PROVE  /\ chan' \in [Topics -> ChannelRecords] /\ pushing' \in Seq(SetAuthCalls)
             /\ \A u \in Topics : chan'[u].state = chan[u].state
  <2> DEFINE t == order[first]
             done == call.done \cup {order[i] : i \in 1..first}
  <2>1. chan' = [chan EXCEPT ![t] = [chan[t] EXCEPT !.server = call.token]]
    BY <1>3
  <2>2. t \in Topics /\ call.token \in Bearers /\ done \in SUBSET Topics
    BY <1>1, <1>3, CallFields
  <2>3. /\ [chan[t] EXCEPT !.server = call.token] \in ChannelRecords
        /\ [chan[t] EXCEPT !.server = call.token].state = chan[t].state
    BY <1>1, <2>2, ServerSet
  <2>4. pushing' = Append(rest, [call EXCEPT !.done = done])
    BY <1>3
  <2>5. [call EXCEPT !.done = done] \in SetAuthCalls
    BY <2>2, DoneSet
  <2> HIDE DEF t, done
  <2>6. pushing' \in Seq(SetAuthCalls)
    BY <2>4, <2>5, AppendProperties
  <2> QED
    BY <1>1, <2>1, <2>2, <2>3, <2>6
<1>4. \A i \in DOMAIN order : 1..i \subseteq DOMAIN order
  BY LenProperties DEF ChannelsInvariant, ChannelsTyped
<1> QED
  BY <1>2, <1>3, <1>4 DEF PushToken

(* The loop of set_auth: with sends that do not suspend it reaches every    *)
(* joined channel in one step.                                              *)
LEMMA TokenPushed ==
  ASSUME ChannelsInvariant, NEW call, NEW rest, call.token \in Bearers, call.done = {},
         call.size = Len(order), PushToken(call, rest), ~suspends
  PROVE  /\ chan' \in [Topics -> ChannelRecords] /\ pushing' = rest
         /\ \A t \in Topics : /\ chan'[t].state = chan[t].state /\ chan'[t].join = chan[t].join
                              /\ chan[t].state = "joined" => chan'[t].server = call.token
<1> DEFINE joined == {i \in DOMAIN order : order[i] \notin call.done /\ chan[order[i]].state = "joined"}
<1>1. chan \in [Topics -> ChannelRecords] /\ DOMAIN order = 1..Len(order)
  BY LenProperties DEF ChannelsInvariant, ChannelsTyped
<1>2. \A t \in Topics : chan[t].state = "joined" => \E i \in joined : order[i] = t
  BY <1>1 DEF ChannelsInvariant, ListedInvariant
<1>3. CASE joined = {} /\ pushing' = rest /\ UNCHANGED chan
  BY <1>1, <1>2, <1>3
<1>4. CASE /\ pushing' = rest
           /\ chan' = [t \in Topics |-> IF \E i \in joined : order[i] = t THEN [chan[t] EXCEPT !.server = call.token] ELSE chan[t]]
  <2> SUFFICES ASSUME NEW t \in Topics
               PROVE  /\ chan'[t] \in ChannelRecords /\ chan'[t].state = chan[t].state /\ chan'[t].join = chan[t].join
                      /\ chan[t].state = "joined" => chan'[t].server = call.token
    BY <1>4
  <2>2. LET q == [chan[t] EXCEPT !.server = call.token] IN
          q \in ChannelRecords /\ q.state = chan[t].state /\ q.join = chan[t].join /\ q.server = call.token
    BY <1>1, ServerSet
  <2>3. CASE \E i \in joined : order[i] = t
    <3>1. chan'[t] = [chan[t] EXCEPT !.server = call.token]
      BY <1>4, <2>3
    <3> QED
      BY <2>2, <3>1
  <2>4. CASE ~ \E i \in joined : order[i] = t
    <3>1. chan'[t] = chan[t]
      BY <1>4, <2>4
    <3> QED
      BY <1>1, <1>2, <2>4, <3>1
  <2> QED
    BY <2>3, <2>4
<1> QED
  BY <1>3, <1>4 DEF PushToken

LEMMA ChannelsInvariantAlways == ClientSpec => []ChannelsInvariant
<1>1. ClientInit => ChannelsInvariant
  <2> SUFFICES ASSUME ClientInit PROVE ChannelsInvariant
    OBVIOUS
  <2>1. /\ order = <<>> /\ chan = [t \in Topics |-> NewChannel] /\ DOMAIN pushing = {}
        /\ \A t \in Topics : chan[t].state = "closed"
    BY NewChannelIs DEF ClientInit
  <2> QED
    BY <2>1, NewChannelIs, EmptySeq
      DEF ChannelsInvariant, ChannelsTyped, ListedInvariant, PushedInvariant
<1>2. FollowsInvariant /\ ChannelsInvariant /\ [ClientNext]_clientVars => ChannelsInvariant'
  <2> SUFFICES ASSUME FollowsInvariant, ChannelsInvariant, [ClientNext]_clientVars PROVE ChannelsInvariant'
    OBVIOUS
  <2>1. /\ order \in Seq(Topics) /\ chan \in [Topics -> ChannelRecords]
        /\ Len(order) \in Nat /\ DOMAIN order = 1..Len(order)
        /\ pushing \in Seq(SetAuthCalls) /\ DOMAIN pushing = 1..Len(pushing)
        /\ \A i \in DOMAIN pushing : pushing[i] \in SetAuthCalls
    BY LenProperties DEF ChannelsInvariant, ChannelsTyped
  <2>2. access \in Bearers /\ tasks \in Seq(Bearers)
    BY DEF FollowsInvariant
  <2>3. CASE UNCHANGED <<order, chan, pushing, suspends, access>>
    BY <2>3 DEF ChannelsInvariant, ChannelsTyped, ListedInvariant, PushedInvariant
  <2>4. CASE Create \/ Tell \/ Invoke \/ \E c \in Clients : Obtain(c) \/ SetOwnAuth(c)
    BY <2>3, <2>4 DEF Create, Tell, Invoke, Obtain, SetOwnAuth, realtimeVars
  <2>5. CASE StartSetAuth
    <3> DEFINE call == [token |-> tasks[1], done |-> {}, size |-> Len(order)]
    <3>1. /\ tasks # <<>> /\ access' = tasks[1] /\ PushToken(call, pushing)
          /\ order' = order /\ suspends' = suspends
      BY <2>5 DEF StartSetAuth, NextTask
    <3>2. tasks[1] \in Bearers
      BY <2>2, <3>1, WithoutFirst
    <3>3. CASE suspends
      <4>1. call \in SetAuthCalls
        BY <2>1, <3>2 DEF SetAuthCalls
      <4> HIDE DEF call
      <4>2. /\ chan' \in [Topics -> ChannelRecords] /\ pushing' \in Seq(SetAuthCalls)
            /\ \A t \in Topics : chan'[t].state = chan[t].state
        BY <2>1, <3>1, <3>3, <4>1, OneTokenPushed
      <4> QED
        BY <2>1, <3>1, <3>3, <4>2 DEF ChannelsInvariant, ChannelsTyped, ListedInvariant, PushedInvariant
    <3>4. CASE ~suspends
      <4>1. call.token = tasks[1] /\ call.done = {} /\ call.size = Len(order)
        OBVIOUS
      <4> HIDE DEF call
      <4>2. /\ chan' \in [Topics -> ChannelRecords] /\ pushing' = pushing
            /\ \A t \in Topics : /\ chan'[t].state = chan[t].state
                                 /\ chan[t].state = "joined" => chan'[t].server = tasks[1]
        BY <3>1, <3>2, <3>4, <4>1, TokenPushed
      <4> QED
        BY <3>1, <4>2 DEF ChannelsInvariant, ChannelsTyped, ListedInvariant, PushedInvariant
    <3> QED
      BY <3>3, <3>4
  <2>6. ASSUME NEW i \in DOMAIN pushing, ResumeSetAuth(i)
        PROVE  ChannelsInvariant'
    <3>1. suspends
      BY <2>6 DEF ChannelsInvariant, PushedInvariant
    <3>2. /\ chan' \in [Topics -> ChannelRecords] /\ pushing' \in Seq(SetAuthCalls)
          /\ \A t \in Topics : chan'[t].state = chan[t].state
      <4>1. pushing[i] \in SetAuthCalls /\ Without(pushing, i) \in Seq(SetAuthCalls)
        BY <2>1, WithoutProperties
      <4> QED
        BY <2>6, <3>1, <4>1, OneTokenPushed DEF ResumeSetAuth
    <3> QED
      BY <2>6, <3>1, <3>2 DEF ResumeSetAuth, ChannelsInvariant, ChannelsTyped, ListedInvariant, PushedInvariant
  <2>7. ASSUME NEW t \in Topics,
               \/ Channel(t) \/ Subscribe(t) \/ JoinOk(t) \/ ChannelError(t) \/ Rejoin(t)
               \/ Unsubscribe(t) \/ RemoveChannel(t)
        PROVE  ChannelsInvariant'
    <3>1. UNCHANGED <<suspends, access>> /\ chan[t] \in ChannelRecords
      BY <2>1, <2>7
        DEF Channel, Subscribe, JoinOk, ChannelError, Rejoin, Unsubscribe, RemoveChannel, ChannelStep
    <3>2. CASE Channel(t)
      <4>1. /\ order' \in Seq(Topics)
            /\ \A i \in 1..Len(order) : \E j \in 1..Len(order') : order'[j] = order[i]
            /\ \E i \in 1..Len(order') : order'[i] = t
        <5>1. CASE InOrder(t)
          BY <2>1, <3>2, <5>1 DEF Channel, InOrder
        <5>2. CASE ~InOrder(t)
          BY <2>1, <3>2, <5>2, AppendProperties DEF Channel
        <5> QED
          BY <5>1, <5>2
      <4> QED
        BY <2>1, <3>1, <3>2, <4>1, NewChannelIs, OneChannelMoves DEF Channel
    <3>3. CASE RemoveChannel(t)
      <4>1. PICK i \in DOMAIN order : order[i] = t /\ order' = Without(order, i)
        BY <3>3 DEF RemoveChannel
      <4>2. /\ order' \in Seq(Topics) /\ Len(order') = Len(order) - 1
            /\ \A j \in 1..(Len(order) - 1) : order'[j] = IF j < i THEN order[j] ELSE order[j + 1]
        BY <2>1, <4>1, WithoutProperties
      <4>3. ASSUME NEW k \in 1..Len(order), order[k] # t
            PROVE  \E j \in 1..Len(order') : order'[j] = order[k]
        <5>1. CASE k < i
          BY <2>1, <4>2, <5>1
        <5>2. CASE k > i
          <6>1. i \in 1..Len(order)
            BY <2>1
          <6>2. k - 1 \in 1..Len(order') /\ ~(k - 1 < i) /\ (k - 1) + 1 = k
            BY <2>1, <4>2, <5>2, <6>1
          <6>3. order'[k - 1] = order[(k - 1) + 1]
            BY <4>2, <6>2
          <6> QED
            BY <6>2, <6>3
        <5> QED
          BY <2>1, <4>1, <4>3, <5>1, <5>2
      <4>4. pushing' \in Seq(SetAuthCalls) /\ DOMAIN pushing' = DOMAIN pushing
        <5>1. pushing' = [k \in 1..Len(pushing) |-> [pushing[k] EXCEPT !.done = pushing[k].done \ {t}]]
          BY <2>1, <3>3 DEF RemoveChannel
        <5>2. \A k \in 1..Len(pushing) : [pushing[k] EXCEPT !.done = pushing[k].done \ {t}] \in SetAuthCalls
          BY <2>1, CallFields, DoneSet
        <5>3. pushing' \in [1..Len(pushing) -> SetAuthCalls] /\ Len(pushing) \in Nat
          BY <2>1, <5>1, <5>2, LenProperties
        <5> QED
          BY <2>1, <5>3, SeqDef
      <4> QED
        BY <2>1, <3>1, <3>3, <4>2, <4>3, <4>4, NewChannelIs, OneChannelMoves DEF RemoveChannel
    <3>4. CASE Subscribe(t) \/ JoinOk(t) \/ ChannelError(t) \/ Rejoin(t) \/ Unsubscribe(t)
      <4>1. PICK r \in ChannelRecords :
              /\ chan' = [chan EXCEPT ![t] = r]
              /\ r.state = "joined" => r.server = r.join
              /\ r.state # "closed" => chan[t].state # "closed" \/ InOrder(t)
        <5>1. CASE Subscribe(t)
          <6> DEFINE q == [chan[t] EXCEPT !.state = "joining"]
                     r == [q EXCEPT !.join = access]
          <6>1. chan' = [chan EXCEPT ![t] = r]
            BY <2>1, <5>1 DEF Subscribe
          <6>2. "joining" \in States /\ "joining" # "joined"
            BY DEF States
          <6>3. q \in ChannelRecords /\ q.state = "joining"
            BY <3>1, <6>2, StateSet
          <6> HIDE DEF q
          <6>4. r \in ChannelRecords /\ r.state = "joining"
            BY <2>2, <6>3, JoinSet
          <6> QED
            BY <5>1, <6>1, <6>2, <6>4 DEF Subscribe
        <5>2. CASE JoinOk(t)
          <6> DEFINE q == [chan[t] EXCEPT !.state = "joined"]
                     r == [q EXCEPT !.server = chan[t].join]
          <6>1. chan' = [chan EXCEPT ![t] = r] /\ chan[t].state # "closed"
            BY <2>1, <5>2 DEF JoinOk
          <6>2. q \in ChannelRecords /\ q.join = chan[t].join
            BY <3>1, StateSet DEF States
          <6>3. chan[t].join \in Bearers \cup {None}
            BY <3>1, JoinTyped
          <6> HIDE DEF q
          <6>4. r \in ChannelRecords /\ r.server = r.join
            BY <6>2, <6>3, ServerSet
          <6> QED
            BY <6>1, <6>4
        <5>3. CASE ChannelError(t) \/ Unsubscribe(t)
          <6>1. PICK s \in {"errored", "leaving"} :
                  chan' = [chan EXCEPT ![t].state = s, ![t].server = None] /\ chan[t].state # "closed"
            BY <5>3 DEF ChannelError, Unsubscribe
          <6> DEFINE q == [chan[t] EXCEPT !.state = s]
                     r == [q EXCEPT !.server = None]
          <6>2. chan' = [chan EXCEPT ![t] = r]
            BY <2>1, <6>1
          <6>3. q \in ChannelRecords /\ q.state = s
            <7>1. s \in States /\ s # "joined"
              BY DEF States
            <7> QED
              BY <3>1, <7>1, StateSet
          <6> HIDE DEF q
          <6>4. r \in ChannelRecords /\ r.state # "joined"
            BY <6>3, ServerSet
          <6> QED
            BY <6>1, <6>2, <6>4
        <5>4. CASE Rejoin(t)
          <6> DEFINE r == [chan[t] EXCEPT !.state = "joining"]
          <6>1. chan' = [chan EXCEPT ![t] = r] /\ chan[t].state # "closed"
            BY <2>1, <5>4 DEF Rejoin
          <6>2. r \in ChannelRecords /\ r.state # "joined"
            BY <3>1, StateSet DEF States
          <6> QED
            BY <6>1, <6>2
        <5> QED
          BY <3>4, <5>1, <5>2, <5>3, <5>4
      <4>2. UNCHANGED <<order, pushing>>
        BY <3>4 DEF Subscribe, JoinOk, ChannelError, Rejoin, Unsubscribe
      <4>3. r.state # "closed" => \E i \in 1..Len(order) : order[i] = t
        BY <2>1, <4>1 DEF ChannelsInvariant, ListedInvariant, InOrder
      <4> QED
        BY <2>1, <3>1, <4>1, <4>2, <4>3, OneChannelMoves
    <3> QED
      BY <2>7, <3>2, <3>3, <3>4
  <2> QED
    BY <2>3, <2>4, <2>5, <2>6, <2>7 DEF ClientNext, clientVars, realtimeVars
<1> QED
  BY <1>1, <1>2, FollowsInvariantAlways, PTL DEF ClientSpec

(* If sending does not suspend, what the server has for a joined channel is *)
(* the token of the last set_auth or that of the channel's own subscribe.   *)
THEOREM JoinedHaveTokenAlways == ClientSpec => []JoinedHaveToken
<1>1. ChannelsInvariant => JoinedHaveToken
  BY DEF ChannelsInvariant, PushedInvariant, JoinedHaveToken
<1> QED
  BY <1>1, ChannelsInvariantAlways, PTL

=============================================================================
