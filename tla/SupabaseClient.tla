----------------------------- MODULE SupabaseClient -----------------------------
(****************************************************************************)
(* The client that owns the others (supabase/_async/client.py): which       *)
(* Authorization its options, its auth client and its PostgREST, storage    *)
(* and functions clients carry as the auth client tells of sessions, and    *)
(* which access token realtime pushes to its channels                       *)
(* (realtime/_async/client.py, set_auth).  The socket is connected          *)
(* throughout; "Bearer " in front of a token is left out.                   *)
(****************************************************************************)
EXTENDS Naturals, Sequences, SequencesExt, FiniteSets, Functions

CONSTANTS
  Tokens,      \* access tokens of sessions
  Key,         \* the API key, the token of nobody
  Given,       \* an Authorization header the application wrote itself
  None,
  Clients,     \* of the clients made on demand: "postgrest", "storage", "functions"
  Topics,
  CallHeaders, \* headers that invocations ask for
  MaxTold,     \* bound: auth events
  MaxAhead     \* bound: set_auth calls not ended

ASSUME HeadersAssumption == Key \notin Tokens /\ Given \notin Tokens \cup {Key} /\ None \notin Tokens \cup {Key, Given}
ASSUME ClientsAssumption == "functions" \in Clients /\ Clients \subseteq {"postgrest", "storage", "functions"}

ResetEvents == {"SIGNED_IN", "TOKEN_REFRESHED", "SIGNED_OUT"}
OtherEvents == {"USER_UPDATED", "MFA_CHALLENGE_VERIFIED", "PASSWORD_RECOVERY"}
States == {"closed", "joining", "joined", "errored", "leaving"}
Headers == Tokens \cup {Key, Given}
Bearers == Tokens \cup {Key}

VARIABLES
  stage,     \* "creating" while create() awaits get_session
  given,     \* Authorization of the options the caller passed, or None
  stored,    \* the access token of the auth client's session, or None
  options,   \* Authorization of self.options.headers
  auth,      \* Authorization of self.auth._headers, shared with the admin API
  sub,       \* Authorization of _postgrest, _storage and _functions, or None
  left,      \* headers that invocations left in _functions.headers
  sent,      \* per-call headers of the last invocation: asked for, and sent
  told,      \* the last event and its access token
  events,
  tasks,     \* set_auth tasks not started, in order
  pushing,   \* set_auth calls suspended in a push
  suspends,  \* whether sending on the socket suspends
  access,    \* realtime.access_token
  order,     \* the topics in realtime.channels, in order
  chan       \* per topic: state, token of the join payload, token the server has for it while joined

authVars == <<given, stored, options, auth, sub, left, sent, told, events>>
realtimeVars == <<tasks, pushing, suspends, access, order, chan>>
clientVars == <<stage, authVars, realtimeVars>>

NewChannel == [state |-> "closed", join |-> None, server |-> None]
OrElse(token, other) == IF token = None THEN other ELSE token

(* __init__: the options' headers are copied, their Authorization kept      *)
ClientInit ==
  /\ stage \in {"creating", "ready"}
  /\ given \in {None, Given}
  /\ stored \in Tokens \cup {None}
  /\ options = OrElse(given, Key) /\ auth = options
  /\ sub = [c \in Clients |-> None]
  /\ left = {} /\ sent = [asked |-> {}, headers |-> {}]
  /\ told = [event |-> "none", token |-> None] /\ events = 0
  /\ tasks = <<>> /\ pushing = <<>> /\ suspends \in BOOLEAN
  /\ access = Key
  /\ order = <<>> /\ chan = [t \in Topics |-> NewChannel]

-----------------------------------------------------------------------------
(* create(): after get_session, which may fail or find no session           *)
Create ==
  /\ stage = "creating"
  /\ stage' = "ready"
  /\ \/ given # None /\ UNCHANGED options
     \/ given = None /\ \E session \in {stored, None} : options' = OrElse(session, options)
  /\ UNCHANGED <<given, stored, auth, sub, left, sent, told, events, realtimeVars>>

(* Mutant: the functions client is not dropped with the others.             *)
KeptClientsFunctions(event) ==
  IF event \in ResetEvents THEN [c \in Clients |-> IF c = "functions" THEN sub[c] ELSE None] ELSE sub
KeptClients(event) == IF event \in ResetEvents THEN [c \in Clients |-> None] ELSE sub

(* _listen_to_auth_events: the token of the session counts for three events *)
ListenToAuthEvents(event, session) ==
  LET token == IF event \in ResetEvents THEN OrElse(session, Key) ELSE Key IN
  /\ sub' = KeptClients(event)
  /\ left' = IF event \in ResetEvents THEN {} ELSE left
  /\ options' = token /\ auth' = token
  /\ tasks' = Append(tasks, token)
  /\ told' = [event |-> event, token |-> session]

(* What the auth client tells: get_session, in create(), only refreshes     *)
Tell ==
  /\ events < MaxTold /\ events' = events + 1
  /\ Len(tasks) + Len(pushing) < MaxAhead
  /\ \E event \in ResetEvents \cup OtherEvents : \E session \in Tokens \cup {None} :
       /\ stage = "creating" => event = "TOKEN_REFRESHED" /\ stored # None
       /\ session = None <=> event = "SIGNED_OUT"
       /\ event = "USER_UPDATED" => session = stored
       /\ event \in {"TOKEN_REFRESHED", "MFA_CHALLENGE_VERIFIED"} => stored # None /\ session # stored
       /\ event = "PASSWORD_RECOVERY" => told = [event |-> "SIGNED_IN", token |-> session]
       /\ stored' = session
       /\ ListenToAuthEvents(event, session)
  /\ UNCHANGED <<stage, given, sent, pushing, suspends, access, order, chan>>

(* _init_storage_client, _init_postgrest_client: with the headers of now    *)
MadeWith == options

(* The properties postgrest, storage and functions: made with the options'  *)
(* headers when there is none                                               *)
Obtain(c) ==
  /\ stage = "ready" /\ sub[c] = None
  /\ sub' = [sub EXCEPT ![c] = MadeWith]
  /\ UNCHANGED <<stage, given, stored, options, auth, left, sent, told, events, realtimeVars>>

(* functions.invoke: the client's own headers object takes the headers of   *)
(* the call, its region and content type, and _request sends it; what the   *)
(* function answers (a relay or HTTP error too) changes none of it          *)
Invoke ==
  /\ stage = "ready" /\ sub["functions"] # None
  /\ \E own \in BOOLEAN : \E asked \in SUBSET CallHeaders :
       /\ left' = left \cup asked
       /\ sent' = [asked |-> asked, headers |-> left']
       /\ sub' = IF own THEN [sub EXCEPT !["functions"] = Given] ELSE sub
  /\ UNCHANGED <<stage, given, stored, options, auth, told, events, realtimeVars>>

(* postgrest.auth(token) and functions.set_auth(token)                      *)
SetOwnAuth(c) ==
  /\ sub[c] # None /\ c \in {"postgrest", "functions"}
  /\ sub' = [sub EXCEPT ![c] = Given]
  /\ UNCHANGED <<stage, given, stored, options, auth, left, sent, told, events, realtimeVars>>

-----------------------------------------------------------------------------
(* realtime.set_auth                                                        *)

Without(s, i) == SubSeq(s, 1, i - 1) \o SubSeq(s, i + 1, Len(s))
InOrder(t) == \E i \in DOMAIN order : order[i] = t

(* Its loop over the channels, from those not done: RuntimeError when the   *)
(* dict changed size, else the token to the joined ones, with a suspension  *)
(* after each if sending suspends                                           *)
(* Mutant: the loop ends at the first channel that has not joined.          *)
PushTokenBreaks(call, rest) ==
  LET run == {i \in DOMAIN order : \A j \in 1..i : chan[order[j]].state = "joined"} IN
  /\ chan' = [t \in Topics |-> IF \E i \in run : order[i] = t THEN [chan[t] EXCEPT !.server = call.token] ELSE chan[t]]
  /\ pushing' = rest
PushToken(call, rest) ==
  LET joined == {i \in DOMAIN order : order[i] \notin call.done /\ chan[order[i]].state = "joined"}
      ends == call.size # Len(order) \/ joined = {} IN
  \/ ends /\ pushing' = rest /\ UNCHANGED chan
  \/ /\ ~ends /\ ~suspends
     /\ pushing' = rest
     /\ chan' = [t \in Topics |-> IF \E i \in joined : order[i] = t THEN [chan[t] EXCEPT !.server = call.token] ELSE chan[t]]
  \/ /\ ~ends /\ suspends
     /\ \E first \in joined :
          /\ \A i \in joined : first <= i
          /\ chan' = [chan EXCEPT ![order[first]].server = call.token]
          /\ pushing' = Append(rest, [call EXCEPT !.done = @ \cup {order[i] : i \in 1..first}])

(* Mutant: the last task made starts first.                                 *)
NextTaskLast == Len(tasks)
NextTask == 1

StartSetAuth ==
  /\ tasks # <<>>
  /\ access' = tasks[NextTask] /\ tasks' = Without(tasks, NextTask)
  /\ PushToken([token |-> tasks[NextTask], done |-> {}, size |-> Len(order)], pushing)
  /\ UNCHANGED <<stage, authVars, suspends, order>>

ResumeSetAuth(i) ==
  /\ PushToken(pushing[i], Without(pushing, i))
  /\ UNCHANGED <<stage, authVars, suspends, order, tasks, access>>

-----------------------------------------------------------------------------
(* The channels, as far as their tokens go (RealtimeChannel has the rest)   *)

ChannelStep == stage = "ready" /\ UNCHANGED <<stage, authVars, tasks, suspends, access>>

(* channel(): a channel of the same topic is replaced                       *)
Channel(t) ==
  /\ ChannelStep
  /\ order' = IF InOrder(t) THEN order ELSE Append(order, t)
  /\ chan' = [chan EXCEPT ![t] = NewChannel]
  /\ UNCHANGED pushing

(* subscribe: once, with the token realtime has now in the join payload     *)
Subscribe(t) ==
  /\ ChannelStep /\ InOrder(t) /\ chan[t].join = None
  /\ chan' = [chan EXCEPT ![t].state = "joining", ![t].join = access]
  /\ UNCHANGED <<order, pushing>>

JoinOk(t) ==
  /\ ChannelStep /\ chan[t].state = "joining"
  /\ chan' = [chan EXCEPT ![t].state = "joined", ![t].server = chan[t].join]
  /\ UNCHANGED <<order, pushing>>

ChannelError(t) ==
  /\ ChannelStep /\ chan[t].state \in {"joining", "joined"}
  /\ chan' = [chan EXCEPT ![t].state = "errored", ![t].server = None]
  /\ UNCHANGED <<order, pushing>>

(* _rejoin resends the join payload as it is                                *)
Rejoin(t) ==
  /\ ChannelStep /\ chan[t].state = "errored"
  /\ chan' = [chan EXCEPT ![t].state = "joining"]
  /\ UNCHANGED <<order, pushing>>

Unsubscribe(t) ==
  /\ ChannelStep /\ InOrder(t) /\ chan[t].state \in {"joining", "joined", "errored"}
  /\ chan' = [chan EXCEPT ![t].state = "leaving", ![t].server = None]
  /\ UNCHANGED <<order, pushing>>

(* _remove_channel; a topic added again is visited again by a loop          *)
RemoveChannel(t) ==
  /\ ChannelStep /\ InOrder(t) /\ chan[t].state = "leaving"
  /\ \E i \in DOMAIN order : order[i] = t /\ order' = Without(order, i)
  /\ chan' = [chan EXCEPT ![t] = NewChannel]
  /\ pushing' = [i \in DOMAIN pushing |-> [pushing[i] EXCEPT !.done = @ \ {t}]]

-----------------------------------------------------------------------------
ClientNext ==
  \/ Create
  \/ Tell
  \/ \E c \in Clients : Obtain(c) \/ SetOwnAuth(c)
  \/ Invoke
  \/ StartSetAuth
  \/ \E i \in DOMAIN pushing : ResumeSetAuth(i)
  \/ \E t \in Topics :
       \/ Channel(t) \/ Subscribe(t) \/ JoinOk(t) \/ ChannelError(t) \/ Rejoin(t)
       \/ Unsubscribe(t) \/ RemoveChannel(t)

ClientSpec == ClientInit /\ [][ClientNext]_clientVars

-----------------------------------------------------------------------------
(* Every header is one the client can have been given, and a channel that   *)
(* has joined once has a token in its join payload.                         *)
TypeOK ==
  /\ stage \in {"creating", "ready"} /\ suspends \in BOOLEAN
  /\ given \in {None, Given} /\ stored \in Tokens \cup {None}
  /\ options \in Headers /\ auth \in Headers
  /\ sub \in [Clients -> Headers \cup {None}]
  /\ left \subseteq CallHeaders
  /\ told.token \in Tokens \cup {None} /\ events \in 0..MaxTold
  /\ tasks \in Seq(Bearers) /\ Len(tasks) + Len(pushing) <= MaxAhead
  /\ access \in Bearers
  /\ \A i \in DOMAIN pushing : pushing[i].token \in Bearers /\ pushing[i].done \subseteq Topics
  /\ IsInjective(order) /\ Range(order) \subseteq Topics
  /\ \A t \in Topics :
       /\ chan[t].state \in States
       /\ chan[t].join = None <=> chan[t].state = "closed"
       /\ chan[t].state = "joined" => chan[t].server \in Bearers

(* No two clients speak for two users: the tokens of sessions in the        *)
(* headers of the options, the auth client and the clients made so far are  *)
(* one at most; after a sign-in or a refresh it is the new one, and after a *)
(* sign-out there is none (_listen_to_auth_events, client.py:335-348).      *)
OneIdentity ==
  LET tokens == (Range(sub) \cup {options, auth}) \cap Tokens IN
  /\ Cardinality(tokens) <= 1
  /\ told.event \in {"SIGNED_IN", "TOKEN_REFRESHED"} => tokens \subseteq {told.token}
  /\ told.event = "SIGNED_OUT" => tokens = {}

(* With no set_auth to start, realtime has the token of the last event, the *)
(* one the options' headers have (client.py:345-348).                       *)
RealtimeFollows == tasks = <<>> /\ told.event # "none" => access = options

(* When sending does not suspend, the server has for a joined channel the   *)
(* token of the last set_auth, or that of the channel's subscribe, when it  *)
(* was not joined as set_auth ran or has joined again since                 *)
(* (realtime/_async/client.py:332-337, channel.py:215-218): never one of    *)
(* another user in between.                                                 *)
JoinedHaveToken ==
  ~suspends => \A t \in Topics : chan[t].state = "joined" => chan[t].server \in {access, chan[t].join}

(* An invocation sends the headers it is asked to, region and content type  *)
(* among them, and no earlier one's: functions_client.py:133 "`headers`:    *)
(* object representing the headers to send with the request".               *)
InvokeOwnHeaders == sent.headers = sent.asked

=============================================================================
