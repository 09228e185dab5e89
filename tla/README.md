# A formal model of supabase-py

TLA+ modules for the stateful parts of `supabase-py`, the TLC runs that check
them on small instances, and the theorems TLAPS proves about them for every
value of the constants. Every definition is translated from the Python source
under `src/src/`; `PROJECT.json` names the lines each one stands for.

1. [The system](#1-the-system)
2. [The modules](#2-the-modules)
3. [The runs](#3-the-runs)
4. [Fairness](#4-fairness)
5. [The proofs](#5-the-proofs)
6. [Where the code and its documentation part](#6-where-the-code-and-its-documentation-part)
7. [What is not modelled](#7-what-is-not-modelled)
8. [Plan](#8-plan)

## 1. The system

`supabase-py` is a workspace of six Python packages. `supabase` composes the
other five; each talks to its own server over HTTP or, `realtime`, over one
websocket. All the state that lives longer than a call is in `realtime` and
`supabase_auth`; the others build one request per call. The asynchronous
clients run on one asyncio event loop: code between two `await`s is atomic, and
everything else may interleave. The synchronous twins (`_sync/`) are generated
from the asynchronous ones, except that the auth timer is a thread there and
that the realtime client is a stub.

| Component | State | Operations | Talks to | What is hard |
|---|---|---|---|---|
| Realtime channel (`realtime/_async/channel.py`, `push.py`, `timer.py`) | `state`, `_joined_once`, `push_buffer`, `messages_waiting_for_ack`, the join push with its ref, response and timeout, the rejoin timer | `subscribe`, `unsubscribe`, `push`, `on_*`, `_rejoin`, `_handle_message`, timeouts | the connection; the server's replies, errors and closes | replies in flight across a leave or a rejoin; a timeout against a late answer; several parties that may rejoin |
| Realtime connection (`realtime/_async/client.py`) | `_ws_connection`, `_listen_task`, `_heartbeat_task`, `send_buffer`, `channels`, `access_token` | `connect`, `close`, `send`, `_listen`, `_heartbeat`, `_reconnect`, `channel`, `remove_channel`, `set_auth` | the socket; every channel | three or more tasks inside `connect` at once, one of which the new connection cancels; a socket lost between two awaits |
| Realtime presence (`presence.py`) | the presences of each key | `_on_state_event`, `_on_diff_event` | the channel; the application's callbacks | diffs against a state that is not the one they were made for |
| Realtime bindings (`channel.py`, `types.py`) | the callbacks and the server's ids | `on_postgres_changes`, the join reply | the channel | matching by position, across rejoins |
| Auth session (`supabase_auth/_async/gotrue_client.py`, `timer.py`) | the session in storage or memory, `_refresh_token_timer`, `_network_retries`, subscribers | sign-ins, `refresh_session`, `update_user`, `_verify`, `sign_out`, `initialize`, the automatic refresh | the auth server; a storage the application gives; the subscribers | a refresh token good for one use; a refresh in flight while another call replaces or removes the session; a timer that cancels the task it runs in |
| Auth PKCE (`gotrue_client.py`) | one code verifier in storage | `sign_in_with_oauth`, `link_identity`, `exchange_code_for_session`, `initialize_from_url` | a browser between the two halves | one slot for every flow in progress |
| Auth JWT claims (`gotrue_client.py`, `get_claims`) | `_jwks`, `_jwks_cached_at` | `get_claims`, `_fetch_jwks` | the auth server's keys | keys withdrawn while cached; two calls that fetch at once |
| Auth MFA, admin (`gotrue_mfa_api.py`, `gotrue_admin_*.py`) | none of their own; the admin API shares the auth headers | one request each; `verify` and `unenroll` change the session | the auth server | the session may be another's by the time of the answer |
| PostgREST (`postgrest/`) | one request being built, shared by every builder made from it | filters, modifiers, `execute` with retries | the database API | builders used again; a retry of what a proxy hid |
| Storage, vectors, analytics (`storage3/`) | headers; the caller's options and open file | one request each | the storage API | options and files used for several calls; a request that failed half way |
| Functions (`supabase_functions/`) | the client's headers | `invoke`, `set_auth` | the functions API | headers of one call left for the next |
| Supabase client (`supabase/_async/client.py`) | `options.headers`, the lazily made sub-clients | properties that make sub-clients, `_listen_to_auth_events` | all of the above | which token each sub-client uses after each auth event |

What makes each correct:

- *Channel.* A channel that fails is retried; one that was left or closed stays
  away, unless a sender's reconnect had found it joined; a push is handed to
  `client.send` once, not after a timeout reported while the channel held it,
  and is not forgotten before; the reply to the current join can be matched.
- *Connection.* The socket in use has its own heartbeat task and no listen task
  but its own, which only an exception ends; a lost socket is noticed; a working
  one is not given up but by `close` and by a send that learns late of an
  earlier loss; what was buffered is written; no call hangs.
- *Messages.* Once everything is handled the presence state is who is present;
  a change of a row calls, on a joined channel, callbacks registered for such a
  change and no other.
- *Session.* There is one refresh at a time and it is for the session that is
  stored; subscribers know that session; it is not left to expire unnoticed.
- *Flows and claims.* A code is refused only when another flow overtook it; a withdrawn key is not
  trusted for longer than the cache and one request last.
- *PostgREST.* The request carries what was asked for and is read as what it
  is; a query that writes is applied once however often its answer is lost.
- *Storage.* Nothing is overwritten unasked; the options of one call are those
  of that call; a failed upload can be tried again.
- *Client.* After an auth event no two users' tokens are in use at once, and
  realtime's joined channels have the last one.

The full list of hazards, each at its line with the properties that guard it or
why none does, is in `PROJECT.json`.

## 2. The modules

### RealtimeChannel (`MCRealtimeChannel`, `RealtimeChannelProofs`)

One channel on the client's one socket. The server is an environment that
answers frames in any order, late or never, refuses, sends errors and closes,
and drops the socket. One action is one handler or coroutine that does not
really suspend; where it does (a `connect`, a `ws.send` under backpressure) the
coroutine is split at that await.

| In the model | In the code |
|---|---|
| `ws`, `sendBuffer`, `registered` | `_ws_connection` (`"dead"`: set, but closed), `send_buffer`, `topic in channels` |
| `read` | the socket the listen task is at: none, an open one, or one that failed and of which no task has learnt |
| `late` | a send may still be suspended on a socket that was lost |
| `connecting` | the application is inside `connect()` |
| `reconnects` | who is inside `_reconnect`, and whether its `to_rejoin` has the channel: `"listen"` is the client's own (of its listen or heartbeat task, which `_on_connect` and `close` cancel), the `Senders` are tasks whose send met the loss, which nothing cancels |
| `dropped` | a reconnect died that was to rejoin the channel |
| `wire` | frames the server has and has not answered |
| `state`, `joinedOnce`, `rejoinTimer`, `pushBuffer`, `waiting` | the channel's attributes; `messages_waiting_for_ack` as pairs of ref and push |
| `join` | `ref`, `received_resp`, `timeout_task` of the join push |
| `resp`, `sends`, `flushing` | the application's pushes: their response, how often each was given to `client.send`, whether `on_join_push_ok` made a task for it |
| `tasks` | the other tasks created and not yet run |
| `Subscribe`, `SubscribeConnected` | `subscribe` up to and after its `connect()` |
| `Unsubscribe`, `Resubscribe`, `OnPresence` | `unsubscribe`, `_resubscribe`, `on_presence_*` |
| `RemoveChannel`, `RemoveSuspended`, `RemoveResumed` | `client.remove_channel`, whole or split at its await |
| `Push`, `FlushPush` | `channel.push`; the task of a buffered push |
| `JoinOk`, `JoinRefused`, `LeaveAnswered`, `PushAnswered`, `ReplyDropped`, `ServerError`, `ServerClose` | `_handle_message` with the callbacks of each push |
| `JoinTimeout`, `LeaveTimeout`, `PushTimeout` | the timeout task of `AsyncPush` |
| `RejoinTimerFires`, `RejoinTask`, `RejoinSkipped` | `_rejoin_until_connected`; the task a `_reconnect` makes, or does not as the client is not connected |
| `SocketFails`, `ConnectionLost`, `SendMetLoss`, `NormalClose` | the network; the listen task's `except`, that of `send_message`; the end of `_listen` |
| `Reconnected`, `SenderReconnected`, `ReconnectCut`, `ReconnectFailed` | the end of the `connect()` inside a `_reconnect`; its flush cut short |
| `Connect`, `UserConnected`, `UserConnectFailed`, `Close` | `connect` and `close` of the application |

### RealtimeConnection (`MCRealtimeConnection`, `RealtimeConnectionProofs`)

The tasks of `client.py` in detail: each asyncio task is a stack of the calls it
is inside of, and the running one moves step by step to its next suspension.
`current`, `listenTask` and `heartbeatTask` are `_ws_connection`,
`_listen_task` and `_heartbeat_task` by the number of the socket they were made
with; `buffers` are the list objects `send_buffer` has been (a flush iterates
over the object it began with while a nested flush may replace the attribute).
`doomed` is the running task having cancelled itself: `_on_connect` cancels the
old listen and heartbeat tasks, and a reconnect runs in one of them.
`ListenStep`, `HeartbeatStep`, `SendStep`, `SubscribeStep`, `JoinStep`,
`PostStep`, `ConnectStep`, `ConnectFails`, `FlushStep`, `ReconnectStep`,
`WaitStep` and `CloseStep` are the methods' stretches between awaits; `Unwind`
is an exception on its way out; `HandlerRaises` one that ends the listen task,
which catches `ConnectionClosedError` only; `deaf` are the sockets it happened
to; `SocketEnds` is the network. One channel stands
for all in `_reconnect`'s list of channels to rejoin.

`RealtimeChannel` is the view of this one channel has: it keeps one connect of
the application, the client's own reconnects as one and those of senders each by
itself, and leaves heartbeats out.

### ChannelMessages (`MCChannelMessages`, `ChannelMessagesProofs`) and PresenceSet

`_handle_message` on a subscribed channel as far as it feeds callbacks, beside
the life cycle of `RealtimeChannel`, of which `stage` is the abstraction.

| In the model | In the code |
|---|---|
| `state` | `AsyncRealtimePresence.state`, as pairs of key and `phx_ref` |
| `callbacks`, `requested` | `postgres_changes_callbacks`; the bindings in the join payload |
| `members`, `behind` | the server: who is present, batches it has applied and not broadcast |
| `pending`, `serves`, `granted`, `listed` | the server: joins on their way to it, whether it goes on with one it accepted, the ids it gave that one, whether its snapshot is sent |
| `PresenceState`, `PresenceDiff` | `_on_state_event` with `_sync_state`, `_on_diff_event` with `_sync_diff`; `SyncDiff` has the `break` of `presence.py:120` |
| `JoinAnswered`, `AddCallback`, `PostgresChange` | `on_join_push_ok`, `on_postgres_changes`, the callbacks' `__call__` |
| `Fail`, `IgnoreReply` | `on_error`, `on_join_push_timeout`; a reply that comes for a join that timed out (`Outdated`), which `_handle_message` finds nobody waiting for |

The server goes on with a join it has accepted whatever the channel made of the
answer: also after the join timed out, or did not match, it sends snapshots,
diffs and changes, and the channel handles them in any state
(`channel.py:564-575`). A join that is sent again while still unanswered is in
`RealtimeChannel`, not here.

The server applies a batch before it broadcasts it, so a snapshot may be ahead
of diffs that follow. `PresenceSet` is what presence promises: a set changed
only by handling the oldest message, by a snapshot to exactly its content, by a
diff to the set with the joins and without the leaves as long as those leaving
were there. `KeepsPromise` is the refinement of it by `ChannelMessages`.

### SupabaseClient (`MCSupabaseClient`, `SupabaseClientProofs`)

The client that owns the others. `options`, `auth`, `sub` and `access` are the
tokens of `options.headers`, `auth._headers`, each lazily made client and
`realtime.access_token`; `given` is an `Authorization` the application passed
itself. `Create` is the end of `create()`, `ListenToAuthEvents` is
`_listen_to_auth_events` for any legal event, `Obtain` a property that makes a
client on first use, `Invoke` and `SetOwnAuth` are of the functions client.
`tasks` and `pushing` are the `set_auth` coroutines it starts: each walks over
`realtime.channels` in order and pushes the token to those joined, and may
suspend in a push while channels join, fail, rejoin, are removed or another
`set_auth` begins.

### GoTrueSession, AuthFlows, AuthClaims: the auth client three ways

`GoTrueSession` (next) is time, the timer and the storage; `AuthFlows`
(`MCAuth`, `AuthProofs`) has every call with its arguments, who the session is for and
what may go on between a call's request and its answer, in a storage that does
not suspend. There a token is the account it is for, and code and verifier are
the number of their flow. A call is an action that ends in a request (`Ask`)
and another that goes on from the answer; `Fails` is any request that does not
succeed. The MFA and admin calls are here.

`AuthClaims` (`MCAuth`, `AuthProofs`) is `get_claims` and `_fetch_jwks`
against a server that publishes and withdraws keys while time passes in ticks; a
request takes up to `MaxDelay`, as httpx gives up then. `Callers` are the calls
of `get_claims` in progress and `lookup` is where each one is.

### GoTrueSession (`MCGoTrueSession`, `GoTrueSessionProofs`)

The same task stacks for the auth client. A session is the number of its
refresh token, `0` for None. `slot` is the session in storage, or
`_in_memory_session` when `storage = "none"`, and then `kept` is what an
earlier run left in the storage; `storage` is chosen at the start
among those the run allows, one that answers at once (`"prompt"`, as the
default `AsyncMemoryStorage` does) or one that suspends. `timer` is
`_refresh_token_timer` and a timer's task sleeps, then runs `auto_refresh`
(`refresh_token_function`) or `recover` (the retry of `_recover_and_refresh`).
The server accepts a refresh token once; `age` of a session is fresh, within
`EXPIRY_MARGIN` of its end, or expired, and passes at any time. `told` is what
the subscribers last heard, `lapsed` records that the client itself decided to
hold a session with no timer (it gave up on an error, or was given an expired
one to store).
`GetSession`, `CallRefreshToken`, `SaveSession`, `RemoveSession`, `SignIn`,
`RefreshSession`, `Change` (`update_user`, `_verify`), `SignOut`, `Recover`,
`AutoRefreshToken` are the methods; `Unwind` says which of them catches what.

### PostgrestRetry and PostgrestQuery (`MCPostgrestQuery`, `PostgrestQueryProofs`)

`PostgrestRetry` is `execute()` of a request builder: the request, the answer
(of the server, or of a proxy that hides whether the server did it),
`should_retry`, the retry count header. The builder may be executed by several
tasks.

`PostgrestQuery` extends it with what comes before and after: the builders that
share one `RequestConfig` and its headers (`heap` holds the two `Headers`
objects, so that an alias shows; the header's preferences are a set), the
parameters, the negation pending in a builder, and the reading of the answer.
Any builder made so far may be called again, also while it is executed. Values,
column lists and referenced tables are abstracted. `asked` is what the calls
asked for, in their order: `Places` are the calls that asked for one key, and
the value the `n`th of them asked for has to be the `n`th of that parameter
(`Rank`). `asked.skipped` is whether an `or_` or a `text_search` has passed over
the negation of a `not_`.

### StorageApi (`MCStorageApi`, `StorageApiProofs`)

Files, buckets, vectors and analytics. `options` is a dict of file options of
the caller's, which calls change in place and which may be given to several
calls, `asked` the same dict as the caller made it, `reader` an open file of
theirs; `objects` and `tokens` are the server's. `Request` is `_request` with
every way it fails: refused with the documented body or another, failed in
httpx, or done with its answer lost or unreadable: the caller's file is closed
before the body of the answer is read, so that an upload may raise with the
object stored and the file closed. Each call says which errors it lets
through, `Exists` and `GetOrNone` which they hide.

The `MC` modules add symmetry sets and the values of constants that a cfg
cannot write.

## 3. The runs

| Run | Bounds | Shows |
|---|---|---|
| `channel` | one push, or one sender's reconnect beside the client's own, 3 refs, sends that suspend | `TypeOK`, `TimerIdle`, `NoStrandedError`, `JoinCanBeAnswered`, `HandedOnce`, `NoStrandedPush`, `ExpiredNotHanded`, `GoneForGood` over 2.7 million states |
| `channel_live` | no push, one sender's reconnect, 4 refs, sends that do not suspend, fair scheduling | `ErroredRetries` |
| `conn_safety` | two application tasks, one message, 2 sockets, 2 attempts, sends that suspend | `CurrentServed`, `OneListener`, `KeepsWorkingSocket` over 1.1 million states |
| `conn_liveness` | one application task, one message, 2 sockets, 2 attempts, sends that do not suspend | `LossIsNoticed`, `CallsReturn`, `BufferedIsSent` |
| `session_calls` | one application task with every call, 2 sessions, all kinds of storage and of failure | `OneRefresher`, `KeptFresh`, `ToldIsStored` |
| `session_overlap` | two application tasks that sign in and out, 2 sessions, a storage that does not suspend, fair scheduling | `TimerIsForStored`, `Refreshed` |
| `query` | one query of up to three calls on any of its builders, two columns, five methods, 3 retries as in the code | `TypeOK`, `WritesOnce`, `AskedIsSent`, `ShapeFits`, `CountsUp`, `ClientHeadersKept` |
| `client` | two sessions, two auth events, two channels, storage and functions clients | `OneIdentity`, `RealtimeFollows`, `JoinedHaveToken` |
| `functions_invoke` | two invocations of one function | `InvokeOwnHeaders` fails |
| `messages` | two keys, 3 presences, 3 messages on their way, two callbacks and one added, two joins | `PresenceFollows`, `RightCallback`, `KeepsPromise` |
| `storage` | two objects, one of four dicts of options given to two calls (among them one with an `x-upsert` of the caller's own and one with `headers`), one signed upload | `NoSilentOverwrite`, `FailedCanRetry` |
| `auth` | two tasks; two accounts, two redirects, either flow type; two keys, five ticks, cache and requests of two ticks each | `RefusedIfOvertaken`, `ClaimsAreRecent`, `RefusedKeyUnknown` |

Why the bounds are enough:

- `MaxRef` numbers the frames of a channel. Three allow a join, a push and a
  rejoin or a leave in every order. One sender's reconnect meets the client's
  own, a connect of the application and the rejoin timer. From
  when the push is made no sender reconnects and no removal is suspended
  (`PushAlone`, the run's constraint; either may be over by then): the proofs are
  for any number of all of them at once and every bound (section 5).
- `MaxSockets = 2` allows a loss and a reconnect, and two connects racing for
  the second socket. `MaxRetries = 2` lets `connect` try again after an attempt
  or the flush after it failed, and give up after that. In
  `conn_safety` no message of the application is sent where a handler raises
  (`MessageOrRaise`, its constraint): joins, which are sent the same way, are,
  and `conn_liveness` has both.
- `MaxTokens = 2`: one session replaced by a refresh or another sign-in. Two
  `Timers`: a timer's task that replaces its own timer needs a second one; a
  third never lives beside them, or `Arm` would block and the deadlock be
  reported.
- `MaxCalls = 3`: a request, a call on its builder and one on either builder
  after it, so that a pending negation, a repeated key and a changed `Accept`
  meet another call.
- `client`: two events allow a `set_auth` overtaken by another; two channels let
  one join or leave while a call is suspended on the other. PostgREST and
  storage are handled alike, so that storage stands for both.
- `messages`: two keys are needed for a diff whose first key stops the loop
  before the second; two batches for a snapshot ahead of more than one.
- `auth`, the claims: with a time to live and a delay of two ticks, the bounds of
  `ClaimsAreRecent` are reached exactly: one tick less is violated. Five ticks
  hold a fetch, its life and a request begun at its end.
- `auth`, the flows: two redirects, so that one overtakes the other; two tasks, so that one
  may begin, exchange or sign out between the other's request and its answer.
  Flows and claims share no variable, and `MCAuth` takes the steps of one of them
  only, where the product of both would have the same states side by side.
- `auto_reconnect = False` is not among the runs: a lost socket then is a
  `"dead"` one, as after a normal close, which `channel` has. The proofs are for
  both values.

`messages` is the one run without the check for deadlock: a channel that has
left, with its bounds reached, has nothing more to do.

Each property of a passing run has a mutant in `PROJECT.json`: a plausible bug
in a definition of the model, kept beside it as an operator of its own, under
which TLC finds the property violated. The `TypeOK` of the modules where no run
lists it document the state; the proofs have typings of their own, which say as
much as the argument needs and hold without the bounds.

Every invariant and every action property of the passing runs is also proved
for all values of the constants (section 5). What the runs then add is the liveness, the evidence
that the interesting cases do happen (the mutants), and the counterexamples that
shaped the invariants: each strengthening below was checked by TLC on the
instance of its run before it was proved.

## 4. Fairness

- `RealtimeChannel!LiveSpec`: weak fairness of what the event loop and its
  timers do by themselves (tasks created, timeouts, the rejoin timer, the end of
  a `connect`, the resumption of a `subscribe` that waits for one). None of the
  server, which may stay silent for ever, and none of what the application calls.
- `RealtimeConnection!LiveSpec` and `GoTrueSession!LiveSpec`: strong fairness of
  each task's steps. asyncio's ready queue is first in, first out, so a task
  that is ready again and again, though others make it wait in between, gets
  its turn. Requests end because httpx has timeouts, attempts to connect
  because `open_timeout` does.
- `PostgrestRetry!LiveSpec` and `PostgrestQuery!QuerySpec`: requests are
  answered. No liveness property is claimed of them.
- The other modules have none: what is stated of them is safety. "Once
  everything is handled" in `PresenceFollows` and `RealtimeFollows` is a
  condition of the state.

Liveness in the channel is claimed up to `MaxRef`, where every model stops.

## 5. The proofs

Eight modules hold the theorems. What is common to them: a typing that is no
stronger than needed, an inductive invariant as a conjunction of named parts,
one step of the proof for each action, and lemmas for what the model's helpers
do (`Send`, `Continue`, `Return`, `SyncDiff`, ...), so that an action that is
made of them needs no more than their names. Sequences are reasoned about by
index (`SequenceAppend`, `SequenceTail`) and by the places they have
(`PlacesAppend`), never by induction.

### The channel: `RealtimeChannelProofs`

For every set of pushes, every number of sends that reconnect, every bound and
every option, the safety that `channel` checks on one instance.

- *TypeCorrect* is the base: refs that are buffered, on the wire or awaited are
  refs the client has made (`SendPushRefs`, `RejoinTypes`, `LeaveTypes` say so
  of the helpers), with one step per action.
- *TimerIdleAlways* is inductive. `RejoinOwned` says of the client's own
  reconnect that it is in `connect()` only while nothing is read, and never has
  a closed channel on its list: no frame can close a channel it holds.
- *NoStrandedErrorAlways* rests on it: a loss that the listen task sees finds no
  reconnect of the client's own in progress whose list it would forget. Every
  action that sets ERRORED arms the timer or lists the channel
  (`ReconnectLists`), and what takes it off a list is noticed (`OwnCancelled`,
  `StillListed`).
- *JoinCanBeAnsweredAlways*: the ref the join push holds is the last it was
  sent with, and only its own answer or timeout removes it
  (`RejoinAnswerable`, `StillAnswerable`). The timeout case needs that a timeout
  sets `received_resp`.
- *HandedOnceAlways* is not inductive: a push handed over once might still be in
  the buffer. `PushLedger` adds where an unsent push may be: an unused push
  nowhere, a buffered or flushing one unsent and not both. *ExpiredNotHandedAlways*
  follows from the ledger and from which actions send at all (`WhoSends`). Both
  are about `client.send`; what happens in its buffer is in section 6.
- *NoStrandedPushAlways* uses the ledger and `AckedOnSocket` (an accepted join
  is a join on an open socket): with the socket in use nothing is buffered again.
- *GoneForGoodAlways* is about steps: no timer by *TimerIdleAlways* and no
  reconnect of the client's own by `RejoinOwned`. The rejoin task of a sender's
  reconnect is the exception the property states.

### The connection: `RealtimeConnectionProofs`

For any number of application tasks, sockets, messages and attempts, and for
stacks of calls of any depth.

- *OneListenerAlways* from `TasksInvariant`: a listen or heartbeat task that has
  not ended is the one the client holds, or is the running task and has
  cancelled itself. The last clause is what `_on_connect` does to the task a
  reconnect runs in; it dies at its next suspension.
- *CurrentServedAlways* from `ServedInvariant`: while the socket in use works,
  its listen task is in `recv` or was ended by an exception, its heartbeat task
  sleeps or writes, and neither is in a call that could make another connection.
- *KeepsWorkingSocketAlways* is about steps, whether sends suspend or not.
  `CallsInvariant` says what may be inside of what: `close()` and `_listen` are
  alone on their stacks. A step that forgets the socket in use is then one of
  `close()`, or of a task at the top of which a `ws.send` on another socket was
  suspended; the rest of the proof is that the listen task is that of the socket
  in use and waits for it.

### Messages: `ChannelMessagesProofs`

For any keys, bindings and changes and all bounds.

- *KeepsPromiseAlways*, the refinement: each action of `ChannelMessages` is an
  arrival, a snapshot, a diff or a loss of `PresenceSet`, or a stutter. It rests
  on `WireInvariant` (only a channel that is joining has a reply on its way, and
  one only; then, and while it is joined, the server goes on with its last join) and on what `SyncDiff` may do (`DiffPromised`).
- *RightCallbackAlways*: a message is `Fresh` if, when it is handled, the
  channel is joined by its last join: it is joined, or the reply is ahead of the
  message. `ChangeInvariant` says of each fresh change that it is for bindings
  of its table that the last join was granted, and since ids are granted once
  each (`GrantedInvariant`) and a joined channel's callbacks have granted ids,
  an id that is given again by a later join is harmless. Changes that are not
  fresh may be anything.
- *PresenceFollowsAlways*, the property that is furthest from inductive. The
  invariant is about everything on its way at once, the messages on the wire and
  the batches not broadcast yet (`Queued`). `Ledger`: a presence joins in one
  batch and leaves in one, not before it joined, and is there at the end or
  leaves if it joined. `Leads(seen, ahead, ...)`: from the presences `seen` the
  batches on their way lead to those there are; if the snapshot was ahead of one
  batch at most, the first batch that has not been seen finds exactly the state
  it was made for. It holds of the state once a snapshot is handled and of each
  fresh snapshot on its way. Sending, broadcasting and handling a message only move
  what is on its way (`Moved`, `MovedLeads`, `Inserted`), a new batch extends it
  (`BatchedLeads`), and handling one is a step along it (`Handled`), the
  `break` in the loop over leaves included.

### The client: `SupabaseClientProofs`

For any sessions, sub-clients, channels and order of events.

- *OneIdentityAlways* from `IdentityInvariant`: at most one session's token is in
  use by any client, after a sign-in or refresh the one told, after a sign-out
  none; `CreatingInvariant` is the same while `create()` waits.
- *RealtimeFollowsAlways* from `FollowsInvariant`: the youngest `set_auth` task
  that has not begun carries the options' token, or else realtime has it.
- *JoinedHaveTokenAlways* from `ChannelsInvariant`: `order` lists every channel
  that is not closed, so that the loop of a `set_auth` that does not suspend
  reaches each one that is joined.

### The session: `GoTrueSessionProofs`

For any tasks, timers and sessions.

- *OneRefresherAlways* from `OneRefresherInvariant`: a timer's task that runs or
  waits is the client's timer, or runs and has cancelled itself. It holds for
  every storage.
- The three others are claimed, and hold, for storages that do not suspend
  (section 6). They rest on *PromptAlways*: every stack is one that the calls
  can make (`StackOf`: what calls what, and what waits for a request), and where
  the running call goes on it believes what is stored (`GoesOn`: just saved is
  stored, just removed is not, just read is current).
- *ToldIsStoredAlways* follows from it, with the one exception the property
  states (`initialize` without `persist_session`); *TimerIsForStoredAlways* from
  `SleepsForStored`, which says what a timer sleeps for in the two places where
  storage and timer differ (between storing a session and arming its timer,
  between removing one and cancelling it); *KeptFreshAlways* from `LookedAfter`,
  where the point is that a task that stores a session is not itself the one
  counted on to refresh it.

### Claims and flows: `AuthProofs`

- *ClaimsAreRecentAlways* for every time to live and every longest request, from
  `Dated`: withdrawn keys and requests are dated in the past, and a cached key
  was published at most a request's delay before its stamp, since the cache is
  stamped with the time of the answer. *RefusedKeyUnknownAlways* from
  `MissingNoted`.
- *RefusedIfOvertakenAlways* from `FlowsInvariant`: a flow is in one place at a time, and while it may yet
  be exchanged its verifier is stored or the flow has been overtaken.

### Queries: `PostgrestQueryProofs`

- The loop: *TypeCorrect* and *CountsUpAlways* from its counters,
  *WritesOnceAlways* from `NothingApplied` (a writing query that is not done has
  been applied to nothing yet), as only reads go round; for any `MAX_RETRIES`.
- *QueryRetries*: `PostgrestQuery` implements `PostgrestRetry`, for any columns,
  calls and executions. Before there is a request nothing is executed
  (`Untouched`, the invariant of the argument), making it is `Prepare`,
  `retry(enabled)` is `SetRetry`, every other builder call a stutter, and each
  step of an execution is one of the loop. *QueryWritesOnce* and *QueryCountsUp*
  carry the loop's theorems over to queries whose builders go on being called.
- *ClientHeadersKeptAlways* from `HeadersInvariant`: from its first call on a
  query has a `Headers` object of its own. *ShapeFitsAlways* from
  `ShapeInvariant`: in a chain of calls what was executed on the last builder
  was sent with an `Accept` that fits it.
- *AskedIsSentAlways*, for any number of calls on any builders, by two
  invariants. `ParamsInvariant`: the parameters `Fits` what was asked for so far,
  so many values for a key as calls asked for it, and at the rank of a call the
  value it asked for; and as long as nothing was skipped, the builder's pending
  negation is the application's. That a call takes a place after all others and
  moves none (`PlacesAppend`) makes each step local: a new request (`NewFits`)
  or one `add` (`AddFits`), `match` and `range` two of them, `order` a `set`
  (`SetFits`). `PrefsInvariant`: the preferences sent are those asked for, with
  one for each name but `max-affected`. That needs two facts about the code's
  other preferences: `handling` is only ever `strict`, and a request of `rpc`
  has no `return` but the one its `select` adds.

### Storage: `StorageApiProofs`

For any paths, any dicts of options and any number of calls with one of them.
`StorageInvariant` has besides the types that no call leaves a header in the
session the calls share, that a dict asks for upsert as it did when the caller
made it, in whichever of the two entries (an upload pops one and sets the other,
`PoppedAsks`), and that a dict not used yet is as it was made. `StepsOfStorage`
sorts the calls: the uploads, which are given the options and may store an
object (`Uploads`), and the others, which are not, and put an object only where
there is none (`Leaves`).

- *NoSilentOverwriteAlways*: what `upload` replaces, the caller's own dict asked
  it to, however many calls popped entries of it before.
- *FailedCanRetryAlways*: after an upload that raised, either the file is as open
  as it was or the object is stored; and the dict still asks for upsert if it
  did, unless it did so in its entry `headers`, which the first call popped.

### Assumptions, and what is not proved

The proofs assume what the `ASSUME`s of the modules say, and TLC evaluates those
in every run: distinct pushes; bounds that are numbers and options that are
Booleans; the verbs among the methods; columns that are not named like a
parameter of PostgREST's own (`select`, `order`, `or`, ...); tasks, timers and
sockets' tasks that are different things; an absent value that is no key,
account, option or number; a time to live of at least one tick (it is ten
minutes).

Only model-checked is the liveness, `ErroredRetries`, `LossIsNoticed`, `CallsReturn`, `BufferedIsSent` and `Refreshed`: fairness and
ENABLED are beyond the prover.

`InvokeOwnHeaders` is false of the code (section 6).

## 6. Where the code and its documentation part

One disagreement has a run of its own: in `functions_invoke` TLC finds an
invocation that sends the region and the content type of an earlier one, since
`invoke` updates the client's own headers (`functions_client.py:139-163`).

Others were met on the way. The models have the behaviour, no property claims
the contrary, and the claims made are worded around it.

Realtime (`realtime/_async`, `types.py`):

- Adding a presence callback to a joined channel leaves the topic and then
  raises instead of joining again: `subscribe` refuses a second call
  (`channel.py:515`, `459`).
- A join reply in flight when the application unsubscribes sets a LEAVING
  channel back to JOINED (`channel.py:115`).
- A join push that has timed out once has no timeout any more (`push.py:105`): a
  later join on a silent server stays JOINING.
- A normal close by the server ends the listen loop and nothing reconnects
  (`client.py:109`); the status CLOSED is never reported to the subscribe
  callback (`channel.py:134`).
- `_on_connect` cancels the task a reconnect runs in. If a send of the flush
  then suspends, the rest of `send_buffer` stays unsent on a live socket
  (`client.py:200`), which is why `BufferedIsSent` is checked with sends that do
  not suspend. If another task's connect comes first, the channels the
  reconnect was to rejoin stay ERRORED (`dropped` in `ErroredRetries` and
  `NoStrandedError`). With no channel to rejoin, `asyncio.wait` is given an empty
  list and raises (`client.py:139`).
- `send_buffer` is emptied only after all of it was written: a flush that is cut
  leaves frames there that the next `_on_connect` writes again, and it knows no
  timeouts: a frame whose push was reported timed out meanwhile is written all
  the same (`client.py:225-229`, `382`). `HandedOnce` and `ExpiredNotHanded`
  therefore end at `client.send`.
- A send that meets the loss of a socket reconnects in its own task, which no
  `_on_connect` and no `close` cancels (`client.py:374-375`). The channels it has
  listed it rejoins when its `connect` succeeds, also one that was closed
  meanwhile over another connection, as `_rejoin` looks for LEAVING only
  (`client.py:135-139`, `channel.py:523`): the exception in `GoneForGood`.
- A send that was suspended on a socket and learns of its loss after another
  was opened reconnects all the same: `_reconnect` forgets the socket in use,
  which works, and opens a third (`client.py:374-375`, `125`). The second is
  not closed. `KeepsWorkingSocket` excepts this case.
- An exception out of a callback or of a channel's own handling ends the listen
  task (`client.py:119` catches `ConnectionClosedError` only). The socket stays
  in use and nothing is received any more, until a heartbeat meets its loss or
  the application closes it.
- A socket that a concurrent connect replaces is never closed (`client.py:171`),
  and a frame in hand when the connection closes with an error is dropped
  (`client.py:373`).
- The wait between connection attempts passes the documented 60 seconds from
  the seventh retry on (`client.py:184`).
- A channel object that `channel()` replaced still sends and rejoins
  (`client.py:286`); `remove_channel` of one already gone raises `KeyError`
  (`client.py:304`).
- `set_auth` iterates over `channels` across its pushes: a channel made or
  removed meanwhile ends it with a `RuntimeError`, the rest keeping the old
  token; channels that are joining are passed over; a rejoin sends the token of
  the subscribe (`channel.py:216`). `JoinedHaveToken` says what is left.
- Changes of rows are dispatched in any state of the channel, by ids that an
  earlier join gave (`channel.py:564`, `types.py:146`). After a rejoin that timed
  out here and was accepted there, or whose bindings did not match
  (`channel.py:247`), the ids the server uses are not those the callbacks have,
  and a callback may be given a change of another table: `RightCallback` claims
  it of joined channels only.
- A snapshot of presences that is ahead of several diffs leaves someone in the
  state who has gone, since a key nobody has ends the loop over leaves with
  `break` (`presence.py:120`): hence `ahead <= 1` in `PresenceFollows` and the
  freedom of a diff in `PresenceSet`.
- A join reply with no bindings drops every postgres callback
  (`channel.py:226`), a binding with id 0 never matches (`types.py:141`), and a
  callback added to a joined channel makes the next rejoin a mismatch that
  unsubscribes.

Auth (`supabase_auth`):

- `initialize()` reads the storage whatever `persist_session` is, and without it
  tells `SIGNED_IN` of a session it then does not keep, in memory or otherwise
  (`gotrue_client.py:1043`, `1073-1075`): the exception in `ToldIsStored`.
- `update_user` stores again the session it began with (`gotrue_client.py:712`):
  after a refresh meanwhile its token is spent, and no property says otherwise.
- A refresh in flight while the user signs out stores a session afterwards
  (`gotrue_client.py:1083`, `787`), so a sign-out may be undone.
- `initialize()` with an expired stored session refreshes it, tells
  `TOKEN_REFRESHED`, and removes the new session (`gotrue_client.py:1071`,
  `654`).
- The automatic refresh cancels itself as it arms the next timer
  (`timer.py:34-37`): with a storage that suspends, the storage keeps the old
  session, whose token is spent. `TimerIsForStored`, `KeptFresh`, `ToldIsStored`
  and `Refreshed` are therefore claimed for storages that do not suspend.
- An automatic refresh that fails in httpx rather than at the server is not
  tried again (`gotrue_client.py:1127`): one of the cases `lapsed` records.
- Two `get_session` of an expired session send the same token twice
  (`gotrue_client.py:676`), and one that was suspended removes a session saved
  since (`664`).
- `sign_out` lets every error but `AuthApiError` through and then keeps the
  session (`gotrue_client.py:796`).
- `link_identity` overwrites the verifier before it asks the server, so that a
  refused link loses the flow in progress (`gotrue_client.py:475`); it and
  `sign_in_with_oauth` write into the caller's `query_params` (`472`).
- Subscribers are told in a loop over the dict that `unsubscribe` changes
  (`gotrue_client.py:1142`).
- `mfa.list_factors` is documented to use what is cached and asks the server.

PostgREST, functions, storage, client:

- A `HEAD` request is not tried again: the code compares with `"HTTP"`
  (`base_request_builder.py:102`).
- `or_` and `text_search` do not use the negation of `not_`, which falls on the
  filter after them (`base_request_builder.py:287`, `437`): `asked.skipped`.
- An error whose body is not the documented one raises something else than
  `StorageApiError` (`file_api.py:88`); `exists()` is False and a vectors
  `get_*` is None after any error; an upload pops the entries of the caller's
  options, so a second one lacks them, `headers` with an `x-upsert` in it
  included (the exception in `FailedCanRetry`); an upload closes the caller's
  file before it reads the answer, and raises if that is not the JSON it expects
  (`file_api.py:92`, `572-574`);
  `upload_to_signed_url` adds `max-age=` in front of what is there and sends
  `metadata` as a header value, which raises.
- `create()` with a stored session gives PostgREST, storage and functions its
  token and leaves realtime and the auth headers with the API key;
  `ClientOptions.replace` takes its default for a timeout it is not given.

## 7. What is not modelled

- *Realtime*: the `_sync` client, whose methods raise `NotImplementedError`;
  parsing of wire messages by pydantic (what a channel uses of each message is
  in `ChannelMessages`); `remove_all_channels`, which unsubscribes each and closes;
  the deprecated `listen` and raw `join`; callbacks of broadcast and
  system events, which keep no state.
- *Auth*: the threads of the synchronous client (`threading.Timer`), whose steps
  interleave more finely than the stretches between awaits of `GoTrueSession`;
  sessions without `expires_at`; `__del__`; decoding and signature checks, which
  libraries do.
- *PostgREST*: values, column lists and referenced tables; `auth()` and
  `schema()` of the client, which copy or replace headers once.
- *Storage*: transforms, paths and URLs; the paging of lists.
- *Supabase*: the hand-over of values in `create()` beyond the token,
  `ClientOptions.replace`, `schema()`.
- The synchronous twins of PostgREST, storage, functions and the client are
  generated from the asynchronous ones and share their model as far as one
  caller goes.
- *Build, docs, tests, infrastructure*: not part of the running program.

## 8. Plan

The components with state of the asynchronous packages are modelled, but for
what section 7 lists, and all safety that the runs state is proved. What could
follow:

1. The negation that `or_` and `text_search` skip: `AskedIsSent` says nothing of
   negations once one was skipped; it could say which filter they fall on.
2. The threads of the synchronous auth client, as a refinement of
   `GoTrueSession` with finer steps.
3. Liveness stays with TLC.
