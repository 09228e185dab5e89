---------------------------- MODULE RealtimeChannel ----------------------------
(****************************************************************************)
(* One channel of the realtime client (realtime/_async/channel.py with its  *)
(* pushes, push.py, and its rejoin timer, timer.py) on the client's one     *)
(* websocket (client.py).                                                   *)
(*                                                                          *)
(* The server is an environment: it answers a frame at any time, in any     *)
(* order, with any status, or never, and may close the socket.  The asyncio *)
(* tasks the code creates and has not yet run are the elements of `tasks`.  *)
(* A coroutine that never really suspends is one action.                    *)
(*                                                                          *)
(* Several tasks may be inside _reconnect at once: the client's own, which  *)
(* connect() and close() cancel, and tasks whose send met the loss of a     *)
(* socket, which nothing cancels.  Each has a to_rejoin list of its own.    *)
(****************************************************************************)
EXTENDS Naturals, FiniteSets

CONSTANTS
  Pushes,          \* the pushes the application makes (channel.push)
  Join, Leave,     \* the channel's join push; any of its leave pushes
  Senders,         \* bound on the sends inside a reconnect at once
  MaxRef,          \* bound on client.ref: how many frames are numbered
  AutoReconnect,   \* the client's auto_reconnect option
  Backpressure     \* ws.send may suspend (transport buffer over its limit)

ASSUME PushesAssumption == Join # Leave /\ Join \notin Pushes /\ Leave \notin Pushes
ASSUME SendersAssumption == "listen" \notin Senders
ASSUME BoundAssumption == MaxRef \in Nat
ASSUME FlagsAssumption == {AutoReconnect, Backpressure} \subseteq BOOLEAN

VARIABLES
  \* client.py
  ws,          \* _ws_connection: None, a socket, or one that is dead for good
  read,        \* the socket the listen task reads: none, an open or a lost one
  late,        \* sends may still be suspended on a socket that was lost
  connecting,  \* the application is inside connect()
  reconnects,  \* who is inside _reconnect, and whether it is to rejoin this
               \*   channel or has made the task to do so
  dropped,     \* a reconnect that was to rejoin the channel died
  sendBuffer,  \* refs of the frames in send_buffer
  wire,        \* refs of the frames the server got on this socket, unanswered
  lastRef,     \* client.ref
  registered,  \* client.channels still holds the channel
  \* channel.py
  state, joinedOnce, rejoinTimer, waiting, pushBuffer,
  \* push.py
  join,        \* the join push: ref, received_resp, timeout_task
  resp,        \* received_resp of each application push
  sends,       \* how often each application push was given to client.send
  \* asyncio
  flushing,    \* pushes whose send() was put in a task by on_join_push_ok
  tasks,       \* the other tasks and suspended coroutines
  acked        \* a join was accepted on the current socket

socket == <<ws, read, late, acked>>
rejoins == <<reconnects, dropped>>
frames == <<sendBuffer, wire>>
client == <<socket, connecting, rejoins, frames, registered>>
channel == <<state, joinedOnce, rejoinTimer, pushBuffer>>
pushes == <<resp, sends, flushing>>
vars == <<client, channel, pushes, lastRef, waiting, join, tasks>>

States == {"closed", "joining", "joined", "errored", "leaving"}
Refs == 1..MaxRef
TaskNames == {"join", "unsubscribe", "resubscribe", "remove"}

(* The client's listen task, for its heartbeat task too, and the sends      *)
Reconnectors == {"listen"} \union Senders

-----------------------------------------------------------------------------
(* A channel made by client.channel(topic): registered, never joined.       *)

Init ==
  /\ ws = "none" /\ read = "no" /\ late = FALSE /\ acked = FALSE
  /\ connecting = FALSE
  /\ reconnects = [w \in Reconnectors |-> "no"] /\ dropped = FALSE
  /\ sendBuffer = {} /\ wire = {} /\ lastRef = 0 /\ registered = TRUE
  /\ state = "closed" /\ joinedOnce = FALSE /\ rejoinTimer = "idle"
  /\ waiting = {} /\ pushBuffer = {}
  /\ join = [ref |-> 0, resp |-> "none", task |-> "none"]
  /\ resp = [p \in Pushes |-> "unused"]
  /\ sends = [p \in Pushes |-> 0]
  /\ flushing = {} /\ tasks = {}

-----------------------------------------------------------------------------
(* push.py and client.send                                                  *)

(* AsyncRealtimeClient.send: to the socket, or to send_buffer when there is *)
(* none.  A socket that is dead or lost swallows the frame, and so does a   *)
(* task that is cancelled while it waits for the socket.  On a lost socket  *)
(* ws.send awaits the end of the connection before it raises: that the      *)
(* sender then reconnects is an action of its own, SendMetLoss.             *)
Transmit(r, cut) ==
  /\ wire' = IF ws = "open" /\ read = "open" /\ ~cut THEN wire \union {r} ELSE wire
  /\ sendBuffer' = IF ws = "none" THEN sendBuffer \union {r} ELSE sendBuffer

(* Mutant: the push waits under the ref of the frame before.                *)
AwaitPreviousRef(q) == waiting' = waiting \union {<<lastRef, q>>}

(* messages_waiting_for_ack[self.ref] = self                                *)
AwaitReply(q) == waiting' = waiting \union {<<lastRef + 1, q>>}

(* AsyncPush.send past its Timeout check: a new ref, registered as waiting  *)
(* for its reply, then the frame is sent.                                   *)
SendPush(q, cut) ==
  /\ lastRef < MaxRef
  /\ lastRef' = lastRef + 1
  /\ AwaitReply(q)
  /\ Transmit(lastRef + 1, cut)

(* start_timeout does nothing if there is a timeout task, running or fired: *)
(* only cancelling forgets it.                                              *)
StartTimeout(task) == IF task = "none" THEN "running" ELSE task

(* Mutant: the join is sent again under a new ref its timeout does not know *)
ResendOldRef == join' = [join EXCEPT !.resp = "none", !.task = StartTimeout(@)]

(* join_push.resend: the response is forgotten, the ref is the new one.     *)
Resend ==
  join' = [ref |-> lastRef + 1, resp |-> "none", task |-> StartTimeout(join.task)]

(* Mutant: a channel rejoins whatever its state.                            *)
RejoinAlways(cut) ==
  SendPush(Join, cut) /\ state' = "joining" /\ Resend

(* _rejoin: a channel that is leaving stays so.                             *)
Rejoin(cut) ==
  IF state = "leaving"
    THEN UNCHANGED <<state, join, lastRef, waiting, frames>>
    ELSE SendPush(Join, cut) /\ state' = "joining" /\ Resend

(* Mutant: unsubscribe leaves the rejoin timer running.                     *)
LeaveTopicTimerRuns ==
  /\ state' = "leaving"
  /\ UNCHANGED rejoinTimer
  /\ join' = [join EXCEPT !.task = "none"]
  /\ SendPush(Leave, FALSE)

(* unsubscribe: the rejoin timer and the join push's timeout are stopped,   *)
(* the join's ref stays in messages_waiting_for_ack.                        *)
LeaveTopic ==
  /\ state' = "leaving"
  /\ rejoinTimer' = "idle"
  /\ join' = [join EXCEPT !.task = "none"]
  /\ SendPush(Leave, FALSE)

(* Mutant: the channel fails and nobody is to rejoin it.                    *)
FailForGood == state' = "errored" /\ UNCHANGED rejoinTimer

(* ERRORED, and rejoin_timer.schedule_timeout()                             *)
FailAndRetry == state' = "errored" /\ rejoinTimer' = "armed"

(* Mutant: the buffered pushes are thrown away.                             *)
FlushDropsBuffer == pushBuffer' = {} /\ UNCHANGED flushing

(* A task that sends it for every buffered push; the buffer is emptied.     *)
FlushBuffer == flushing' = flushing \union pushBuffer /\ pushBuffer' = {}

(* Mutant: a push is sent whether or not it has timed out.                  *)
NeverExpires(p) == FALSE

(* The check AsyncPush.send begins with                                     *)
Expired(p) == resp[p] = "timeout"

(* start_timeout was called for the push and no reply cancelled the task;   *)
(* channel.push calls it for a buffered push too.                           *)
TimeoutRuns(p) == resp[p] = "none"

(* on_close                                                                 *)
CloseChannel ==
  /\ state' = "closed"
  /\ rejoinTimer' = "idle"
  /\ registered' = FALSE

(* The socket in use failed, and no task knows yet.                         *)
Lost == ws = "open" /\ read = "lost"

(* The socket that was read is gone, and with it every answer still to come *)
StopReading(as) ==
  /\ read' = as
  /\ wire' = {}
  /\ acked' = FALSE

(* A reconnect in the listen or heartbeat task dies with its task, and the  *)
(* channels it was to rejoin are forgotten.                                 *)
CancelOwn ==
  /\ reconnects' = [reconnects EXCEPT !["listen"] = IF @ = "rejoins" THEN @ ELSE "no"]
  /\ dropped' = (dropped \/ reconnects["listen"] = "due")

-----------------------------------------------------------------------------
(* The application                                                          *)

(* subscribe past connect(): only the first call goes on to join.           *)
JoinTopic ==
  /\ joinedOnce' = TRUE
  /\ Rejoin(FALSE)

(* subscribe                                                                *)
Subscribe ==
  /\ registered /\ ~joinedOnce /\ "join" \notin tasks
  /\ \/ /\ ws # "none"
        /\ JoinTopic
        /\ UNCHANGED <<connecting, tasks>>
     \/ /\ ws = "none"
        /\ connecting' = TRUE
        /\ tasks' = tasks \union {"join"}
        /\ UNCHANGED <<joinedOnce, state, join, lastRef, waiting, frames>>
  /\ UNCHANGED <<socket, rejoins, registered, rejoinTimer, pushBuffer, pushes>>

(* subscribe, resumed after its connect(); it raises if already joined once *)
SubscribeReady == "join" \in tasks /\ ~connecting

SubscribeConnected ==
  /\ SubscribeReady
  /\ tasks' = tasks \ {"join"}
  /\ IF joinedOnce
       THEN UNCHANGED <<joinedOnce, state, join, lastRef, waiting, frames>>
       ELSE JoinTopic
  /\ UNCHANGED <<socket, connecting, rejoins, registered, rejoinTimer, pushBuffer, pushes>>

(* unsubscribe, by the application or by the task a binding mismatch made   *)
Unsubscribe ==
  /\ LeaveTopic
  /\ \/ registered /\ tasks' = tasks
     \/ "unsubscribe" \in tasks /\ tasks' = tasks \ {"unsubscribe"}
  /\ UNCHANGED <<socket, connecting, rejoins, registered, joinedOnce, pushBuffer, pushes>>

(* on_presence_sync, on_presence_join, on_presence_leave                    *)
OnPresence ==
  /\ state = "joined"
  /\ tasks' = tasks \union {"resubscribe"}
  /\ UNCHANGED <<client, channel, pushes, lastRef, waiting, join>>

(* _resubscribe: unsubscribe, then a subscribe that connects if need be and *)
(* raises, since the channel has joined once.                               *)
Resubscribe ==
  /\ "resubscribe" \in tasks
  /\ tasks' = tasks \ {"resubscribe"}
  /\ LeaveTopic
  /\ connecting' = (connecting \/ ws = "none")
  /\ UNCHANGED <<socket, rejoins, registered, joinedOnce, pushBuffer, pushes>>

(* The end of client.remove_channel: forget the channel, and close the      *)
(* socket (close) unless the client has other channels.                     *)
Unregister ==
  /\ registered' = FALSE
  /\ \/ UNCHANGED <<ws, read, acked, rejoins>>
     \/ ws' = "none" /\ read' = "no" /\ acked' = FALSE /\ CancelOwn

(* client.remove_channel, its unsubscribe not suspended                     *)
RemoveChannel ==
  /\ registered /\ ~(AutoReconnect /\ Lost)
  /\ LeaveTopic
  /\ Unregister
  /\ UNCHANGED <<late, connecting, joinedOnce, pushBuffer, pushes, tasks>>

(* client.remove_channel suspended in the send of its unsubscribe ...       *)
RemoveSuspended ==
  /\ registered /\ "remove" \notin tasks /\ ws = "open"
  /\ Backpressure \/ (AutoReconnect /\ Lost)
  /\ LeaveTopic
  /\ tasks' = tasks \union {"remove"}
  /\ UNCHANGED <<socket, connecting, rejoins, registered, joinedOnce, pushBuffer, pushes>>

(* ... and resumed.  `del` raises if the channel closed meanwhile, and so   *)
(* does a reconnect the send has been in if it fails or rejoins nobody.     *)
RemoveResumed ==
  /\ "remove" \in tasks
  /\ tasks' = tasks \ {"remove"}
  /\ \/ registered /\ Unregister
     \/ UNCHANGED <<registered, ws, read, acked, rejoins>> /\ (registered => late \/ Lost)
  /\ UNCHANGED <<late, connecting, state, joinedOnce, rejoinTimer, pushBuffer, pushes,
                 frames, lastRef, waiting, join>>

(* Mutant: a push that is sent is buffered as well.                         *)
PushBuffered(p) ==
  /\ joinedOnce /\ resp[p] = "unused"
  /\ resp' = [resp EXCEPT ![p] = "none"]
  /\ pushBuffer' = pushBuffer \union {p}
  /\ IF ws # "none"
       THEN SendPush(p, FALSE) /\ sends' = [sends EXCEPT ![p] = @ + 1]
       ELSE UNCHANGED <<lastRef, waiting, frames, sends>>
  /\ UNCHANGED <<socket, connecting, rejoins, registered, state, joinedOnce, rejoinTimer,
                 flushing, join, tasks>>

(* push: straight to the socket when the client is connected, joined or not *)
Push(p) ==
  /\ joinedOnce /\ resp[p] = "unused"
  /\ resp' = [resp EXCEPT ![p] = "none"]
  /\ \/ /\ ws # "none"
        /\ SendPush(p, FALSE)
        /\ sends' = [sends EXCEPT ![p] = @ + 1]
        /\ UNCHANGED pushBuffer
     \/ /\ ws = "none"
        /\ pushBuffer' = pushBuffer \union {p}
        /\ UNCHANGED <<lastRef, waiting, frames, sends>>
  /\ UNCHANGED <<socket, connecting, rejoins, registered, state, joinedOnce, rejoinTimer,
                 flushing, join, tasks>>

-----------------------------------------------------------------------------
(* The server.  Its frames reach the channel through the listen loop.       *)

(* The loop gets nothing before what connect() was awaited for has run, the *)
(* rest of subscribe or the rejoin task of a reconnect, unless the flush    *)
(* suspended between them; that ends a reconnect of the client's own.       *)
Turn ==
  /\ reconnects["listen"] # "rejoins"
  /\ SubscribeReady \/ (\E s \in Senders : reconnects[s] = "rejoins") => Backpressure

Listening == read = "open" /\ Turn

(* _handle_message: a reply to ref r is for the push q waiting for it       *)
Answers(r, q) ==
  /\ Listening /\ registered
  /\ r \in wire /\ <<r, q>> \in waiting
  /\ wire' = wire \ {r}
  /\ waiting' = waiting \ {<<r, q>>}

(* ... and is dropped when none is, or the channel is not registered        *)
ReplyDropped(r) ==
  /\ Listening /\ r \in wire
  /\ ~registered \/ \A w \in waiting : w[1] # r
  /\ wire' = wire \ {r}
  /\ UNCHANGED <<socket, connecting, rejoins, sendBuffer, registered, channel, pushes,
                 lastRef, waiting, join, tasks>>

(* An ok reply to the join push: both on_join_push_ok callbacks.  `matched` *)
(* is whether the server's postgres bindings are the channel's.  What the   *)
(* subscribe callback is told is left out, here and below.                  *)
JoinOk(r, matched) ==
  /\ Answers(r, Join)
  /\ state' = "joined"
  /\ rejoinTimer' = "idle"
  /\ FlushBuffer
  /\ join' = [join EXCEPT !.resp = "ok", !.task = "none"]
  /\ tasks' = IF matched THEN tasks ELSE tasks \union {"unsubscribe"}
  /\ acked' = (ws = "open")
  /\ UNCHANGED <<ws, read, late, connecting, rejoins, sendBuffer, registered, joinedOnce,
                 resp, sends, lastRef>>

(* An error reply to the join push only tells the application.              *)
JoinRefused(r) ==
  /\ Answers(r, Join)
  /\ join' = [join EXCEPT !.resp = "error", !.task = "none"]
  /\ UNCHANGED <<socket, connecting, rejoins, sendBuffer, registered, channel, pushes,
                 lastRef, tasks>>

(* Any reply to a leave push closes the channel.                            *)
LeaveAnswered(r) ==
  /\ Answers(r, Leave)
  /\ CloseChannel
  /\ UNCHANGED <<socket, connecting, rejoins, sendBuffer, joinedOnce, pushBuffer, pushes,
                 lastRef, join, tasks>>

PushAnswered(r, p) ==
  /\ Answers(r, p)
  /\ \E status \in {"ok", "error"} : resp' = [resp EXCEPT ![p] = status]
  /\ UNCHANGED <<socket, connecting, rejoins, sendBuffer, registered, channel, sends,
                 flushing, lastRef, join, tasks>>

(* phx_error or a failed system message: on_error.  The server sends these  *)
(* only for a topic it was asked to join.                                   *)
ServerError ==
  /\ Listening /\ registered /\ joinedOnce /\ state \notin {"leaving", "closed"}
  /\ FailAndRetry
  /\ UNCHANGED <<client, joinedOnce, pushBuffer, pushes, lastRef, waiting, join, tasks>>

(* phx_close: on_close                                                      *)
ServerClose ==
  /\ Listening /\ registered /\ joinedOnce
  /\ CloseChannel
  /\ UNCHANGED <<socket, connecting, rejoins, frames, joinedOnce, pushBuffer, pushes,
                 lastRef, waiting, join, tasks>>

-----------------------------------------------------------------------------
(* Timeouts and tasks                                                       *)

(* The join push's timeout: both on_join_push_timeout callbacks, then the   *)
(* current ref is taken out of the waiting ones.                            *)
JoinTimeout ==
  /\ join.task = "running"
  /\ join' = [join EXCEPT !.resp = "timeout", !.task = "fired"]
  /\ waiting' = waiting \ {<<join.ref, Join>>}
  /\ IF state = "joining"
       THEN FailAndRetry
       ELSE UNCHANGED <<state, rejoinTimer>>
  /\ UNCHANGED <<client, joinedOnce, pushBuffer, pushes, lastRef, tasks>>

(* A leave push's timeout has no callback: only the ref goes.               *)
LeaveTimeout(r) ==
  /\ <<r, Leave>> \in waiting
  /\ waiting' = waiting \ {<<r, Leave>>}
  /\ UNCHANGED <<client, channel, pushes, lastRef, join, tasks>>

(* An application push's timeout, sent or still buffered.                   *)
PushTimeout(p) ==
  /\ TimeoutRuns(p)
  /\ resp' = [resp EXCEPT ![p] = "timeout"]
  /\ waiting' = {w \in waiting : w[2] # p}
  /\ UNCHANGED <<client, channel, sends, flushing, lastRef, join, tasks>>

(* The task on_join_push_ok made for a buffered push.                       *)
FlushPush(p) ==
  /\ p \in flushing
  /\ flushing' = flushing \ {p}
  /\ IF Expired(p)
       THEN UNCHANGED <<lastRef, waiting, frames, sends>>
       ELSE SendPush(p, FALSE) /\ sends' = [sends EXCEPT ![p] = @ + 1]
  /\ UNCHANGED <<socket, connecting, rejoins, registered, channel, resp, join, tasks>>

(* _rejoin_until_connected: the timer is armed again first, which cancels   *)
(* the very task this runs in; that bites if the send then suspends.        *)
RejoinTimerFires ==
  /\ rejoinTimer = "armed" /\ ws # "none"
  /\ \E cut \in {FALSE, Backpressure} : Rejoin(cut)
  /\ dropped' = FALSE
  /\ UNCHANGED <<socket, connecting, reconnects, registered, joinedOnce, rejoinTimer,
                 pushBuffer, pushes, tasks>>

(* The task the reconnect of w made to rejoin the channel.                  *)
RejoinTask(w) ==
  /\ reconnects[w] = "rejoins"
  /\ reconnects' = [reconnects EXCEPT ![w] = "no"]
  /\ Rejoin(FALSE)
  /\ dropped' = FALSE
  /\ UNCHANGED <<socket, connecting, registered, joinedOnce, rejoinTimer, pushBuffer,
                 pushes, tasks>>

(* When the flush had suspended and the socket went meanwhile, _reconnect   *)
(* finds the client not connected and makes no task.                        *)
RejoinSkipped(w) ==
  /\ Backpressure /\ w # "listen" /\ ws = "none"
  /\ reconnects[w] = "rejoins"
  /\ reconnects' = [reconnects EXCEPT ![w] = "no"]
  /\ dropped' = TRUE
  /\ UNCHANGED <<socket, connecting, frames, registered, channel, pushes, lastRef,
                 waiting, join, tasks>>

-----------------------------------------------------------------------------
(* The connection                                                           *)

(* Mutant: a reconnect marks the channel and does not list it.              *)
ReconnectForgets(w) ==
  /\ ws' = "none"
  /\ state' = IF registered /\ state \in {"joined", "joining"} THEN "errored" ELSE state
  /\ reconnects' = [reconnects EXCEPT ![w] = "connects"]
  /\ UNCHANGED dropped

(* _reconnect of task w, up to connect(): it forgets the socket in use,     *)
(* whichever it is, and lists the channel if it is joined or joining.       *)
Reconnect(w) ==
  LET active == registered /\ state \in {"joined", "joining"} IN
  /\ ws' = "none"
  /\ state' = IF active THEN "errored" ELSE state
  /\ reconnects' = [reconnects EXCEPT ![w] = IF active THEN "due" ELSE "connects"]
  /\ dropped' = (dropped /\ ~active)

(* The socket that is read fails.                                           *)
SocketFails ==
  /\ read = "open"
  /\ StopReading("lost")
  /\ late' = (late \/ Backpressure)
  /\ UNCHANGED <<ws, connecting, rejoins, sendBuffer, registered, channel, pushes,
                 lastRef, waiting, join, tasks>>

(* _listen sees ConnectionClosedError, or _heartbeat does.  Without         *)
(* auto_reconnect the dead socket stays in use.                             *)
ConnectionLost ==
  /\ read = "lost" /\ Turn
  /\ read' = "no" /\ acked' = FALSE
  /\ IF AutoReconnect
       THEN Reconnect("listen")
       ELSE /\ ws' = IF ws = "open" THEN "dead" ELSE ws
            /\ UNCHANGED <<state, rejoins>>
  /\ UNCHANGED <<late, connecting, frames, registered, joinedOnce, rejoinTimer,
                 pushBuffer, pushes, lastRef, waiting, join, tasks>>

(* A send, of this channel or another, meets the loss of the socket: of the *)
(* one in use, or, if it was suspended, of an earlier one.  The listen task *)
(* goes on with what it reads.                                              *)
SendMetLoss(s) ==
  /\ AutoReconnect /\ (Lost \/ late)
  /\ reconnects[s] = "no"
  /\ Reconnect(s)
  /\ acked' = FALSE
  /\ UNCHANGED <<read, late, connecting, frames, registered, joinedOnce, rejoinTimer,
                 pushBuffer, pushes, lastRef, waiting, join, tasks>>

(* The server closes the socket normally: the listen loop just ends, and    *)
(* the dead socket stays in use.                                            *)
NormalClose ==
  /\ Listening
  /\ StopReading("no")
  /\ ws' = IF ws = "open" THEN "dead" ELSE ws
  /\ UNCHANGED <<late, connecting, rejoins, sendBuffer, registered, channel, pushes,
                 lastRef, waiting, join, tasks>>

(* The application calls client.connect()                                   *)
Connect ==
  /\ ws = "none" /\ ~connecting
  /\ connecting' = TRUE
  /\ UNCHANGED <<socket, rejoins, frames, registered, channel, pushes, lastRef, waiting,
                 join, tasks>>

(* A new socket replaces whatever there was; the frames in send_buffer are  *)
(* sent on it.                                                              *)
OpenSocket ==
  /\ ws' = "open" /\ read' = "open" /\ acked' = FALSE
  /\ wire' = sendBuffer
  /\ sendBuffer' = {}

(* connect() of the application: _on_connect cancels the listen task.       *)
UserConnected ==
  /\ connecting
  /\ OpenSocket
  /\ connecting' = FALSE
  /\ CancelOwn
  /\ UNCHANGED <<late, registered, channel, pushes, lastRef, waiting, join, tasks>>

(* What becomes of a reconnect when its connect() succeeds: it makes a task *)
(* for the channel if that is on its list.                                  *)
Past(stage) == IF stage = "due" THEN "rejoins" ELSE "no"

(* connect() of a reconnect of the client's own.  The other of its own two  *)
(* tasks may have listed the channel: it dies with its list.                *)
Reconnected ==
  /\ reconnects["listen"] \in {"connects", "due"}
  /\ OpenSocket
  /\ \/ /\ reconnects' = [reconnects EXCEPT !["listen"] = Past(@)]
        /\ UNCHANGED dropped
     \/ CancelOwn
  /\ UNCHANGED <<late, connecting, registered, channel, pushes, lastRef, waiting, join,
                 tasks>>

(* connect() of a sender's reconnect; the client's own are cancelled.       *)
SenderReconnected(s) ==
  /\ reconnects[s] \in {"connects", "due"}
  /\ OpenSocket
  /\ reconnects' = [w \in Reconnectors |->
       CASE w = s -> Past(reconnects[w])
         [] w = "listen" -> IF reconnects[w] = "rejoins" THEN "rejoins" ELSE "no"
         [] OTHER -> reconnects[w]]
  /\ dropped' = (dropped \/ reconnects["listen"] = "due")
  /\ UNCHANGED <<late, connecting, registered, channel, pushes, lastRef, waiting, join,
                 tasks>>

(* Reconnected, but the flush of send_buffer suspends in the task that      *)
(* _on_connect has cancelled: this ends flush and _reconnect.               *)
ReconnectCut ==
  /\ Backpressure /\ reconnects["listen"] \in {"connects", "due"} /\ sendBuffer # {}
  /\ ws' = "open" /\ read' = "open" /\ acked' = FALSE
  /\ \E n \in 0..lastRef : wire' = {r \in sendBuffer : r <= n}
  /\ CancelOwn
  /\ UNCHANGED <<late, connecting, sendBuffer, registered, channel, pushes, lastRef,
                 waiting, join, tasks>>

(* connect() gives up after max_retries attempts and raises.                *)
UserConnectFailed ==
  /\ connecting
  /\ connecting' = FALSE
  /\ tasks' = tasks \ {"join"}
  /\ UNCHANGED <<socket, rejoins, frames, registered, channel, pushes, lastRef, waiting,
                 join>>

ReconnectFailed(w) ==
  /\ reconnects[w] \in {"connects", "due"}
  /\ reconnects' = [reconnects EXCEPT ![w] = "no"]
  /\ dropped' = (dropped \/ reconnects[w] = "due")
  /\ UNCHANGED <<socket, connecting, frames, registered, channel, pushes, lastRef,
                 waiting, join, tasks>>

(* client.close()                                                           *)
Close ==
  /\ ws # "none" \/ read # "no" \/ reconnects["listen"] \in {"connects", "due"}
  /\ ws' = "none" /\ StopReading("no")
  /\ CancelOwn
  /\ UNCHANGED <<late, connecting, sendBuffer, registered, channel, pushes, lastRef,
                 waiting, join, tasks>>

-----------------------------------------------------------------------------
Application ==
  \/ Subscribe \/ SubscribeConnected \/ Unsubscribe
  \/ OnPresence \/ Resubscribe
  \/ RemoveChannel \/ RemoveSuspended \/ RemoveResumed
  \/ \E p \in Pushes : Push(p)

Server ==
  \/ \E r \in Refs : \/ ReplyDropped(r)
                     \/ \E matched \in BOOLEAN : JoinOk(r, matched)
                     \/ JoinRefused(r)
                     \/ LeaveAnswered(r)
                     \/ \E p \in Pushes : PushAnswered(r, p)
  \/ ServerError \/ ServerClose

Timers ==
  \/ JoinTimeout
  \/ \E r \in Refs : LeaveTimeout(r)
  \/ \E p \in Pushes : PushTimeout(p) \/ FlushPush(p)
  \/ RejoinTimerFires
  \/ \E w \in Reconnectors : RejoinTask(w) \/ RejoinSkipped(w)

Connection ==
  \/ SocketFails \/ ConnectionLost \/ NormalClose
  \/ \E s \in Senders : SendMetLoss(s) \/ SenderReconnected(s)
  \/ Connect \/ UserConnected \/ Reconnected \/ ReconnectCut
  \/ UserConnectFailed \/ \E w \in Reconnectors : ReconnectFailed(w)
  \/ Close

Next == Application \/ Server \/ Timers \/ Connection

Spec == Init /\ [][Next]_vars

(* The event loop runs every task that is ready and every sleep that is     *)
(* over, the listen task learns of a loss, and connect() gives up after     *)
(* max_retries attempts.  Nothing is assumed of the server or of the        *)
(* application.                                                             *)
Fairness ==
  /\ WF_vars(JoinTimeout) /\ WF_vars(RejoinTimerFires)
  /\ \A w \in Reconnectors : WF_vars(RejoinTask(w) \/ RejoinSkipped(w))
  /\ WF_vars(SubscribeConnected) /\ WF_vars(ConnectionLost)
  /\ WF_vars(UserConnected \/ UserConnectFailed)
  /\ WF_vars(Reconnected \/ ReconnectCut \/ ReconnectFailed("listen"))
  /\ \A s \in Senders : WF_vars(SenderReconnected(s) \/ ReconnectFailed(s))

LiveSpec == Spec /\ Fairness

-----------------------------------------------------------------------------
(* What should hold                                                         *)

(* The values of the variables; refs are those already made, and what waits *)
(* for a reply is a push of this channel.                                   *)
RefTypes ==
  /\ lastRef \in 0..MaxRef
  /\ sendBuffer \subseteq 1..lastRef
  /\ wire \subseteq 1..lastRef
  /\ waiting \subseteq (1..lastRef) \X (Pushes \union {Join, Leave})
  /\ join \in [ref : 0..lastRef, resp : {"none", "ok", "error", "timeout"},
               task : {"none", "running", "fired"}]

StateTypes ==
  /\ ws \in {"none", "open", "dead"}
  /\ read \in {"no", "open", "lost"}
  /\ {late, connecting, dropped} \subseteq BOOLEAN
  /\ reconnects \in [Reconnectors -> {"no", "connects", "due", "rejoins"}]
  /\ registered \in BOOLEAN
  /\ state \in States
  /\ joinedOnce \in BOOLEAN
  /\ rejoinTimer \in {"idle", "armed"}
  /\ tasks \subseteq TaskNames
  /\ acked \in BOOLEAN

PushTypes ==
  /\ pushBuffer \subseteq Pushes
  /\ flushing \subseteq Pushes
  /\ resp \in [Pushes -> {"unused", "none", "ok", "error", "timeout"}]
  /\ sends \in [Pushes -> Nat]

TypeOK == RefTypes /\ StateTypes /\ PushTypes

(* A channel that is joined, leaving or closed has no rejoin timer running: *)
(* a timer left from an earlier failure would make it join again.           *)
TimerIdle == state \in {"joined", "leaving", "closed"} => rejoinTimer = "idle"

(* A channel in ERRORED is not forgotten: its rejoin timer runs, or a       *)
(* reconnect is to rejoin it.  The one way out is the death of that         *)
(* reconnect (it gave up, was closed or was cancelled).                     *)
NoStrandedError ==
  state = "errored" =>
    \/ rejoinTimer = "armed" \/ dropped
    \/ \E w \in Reconnectors : reconnects[w] \in {"due", "rejoins"}

(* A push is given to client.send at most once, however often the channel   *)
(* joins and the buffered pushes are flushed.  (What client.send puts in    *)
(* send_buffer may be written twice, by a flush that is cut.)               *)
HandedOnce == \A p \in Pushes : sends[p] <= 1

(* A push that has not been sent or resolved is not lost: it is buffered    *)
(* or a task is about to send it; and it is not left in the buffer of a     *)
(* channel whose join was accepted on the current socket.                   *)
NoStrandedPush ==
  \A p \in Pushes :
    /\ resp[p] = "none" /\ sends[p] = 0 => p \in pushBuffer \union flushing
    /\ state = "joined" /\ acked => p \notin pushBuffer

(* While a join is unanswered its reply can still be matched: no timeout,   *)
(* refusal or earlier attempt took its ref out of the waiting ones.         *)
JoinCanBeAnswered ==
  state = "joining" /\ join.resp = "none" => <<join.ref, Join>> \in waiting

(* A push whose timeout was reported while the channel still held it, in    *)
(* its buffer or in a task of the flush, is not given to client.send later. *)
ExpiredNotHanded ==
  [][\A p \in Pushes : sends'[p] > sends[p] => resp'[p] = "none"]_vars

(* Once a subscribed channel is closed, or is removed while leaving, no     *)
(* timer and no reconnect of the client's own makes it join again.  The     *)
(* reconnect of a sender, which nothing cancels, may: it found the channel  *)
(* joined before.                                                           *)
GoneForGood ==
  [][joinedOnce /\ (state = "closed" \/ (state = "leaving" /\ ~registered))
       => \/ state' \in {"closed", "leaving"}
          \/ \E s \in Senders : reconnects[s] = "rejoins" /\ reconnects'[s] = "no"]_vars

(* On a socket that stays, a channel in ERRORED tries to join again, unless *)
(* the reconnect that was to rejoin it died.  (MaxRef ends every model.)    *)
ErroredRetries ==
  state = "errored" ~>
    \/ state # "errored" \/ ws = "none" \/ lastRef = MaxRef
    \/ dropped /\ rejoinTimer = "idle"

=============================================================================
