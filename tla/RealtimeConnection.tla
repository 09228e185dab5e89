-------------------------- MODULE RealtimeConnection --------------------------
(****************************************************************************)
(* The realtime client's connection (realtime/_async/client.py): who may be *)
(* inside connect() and _reconnect() at once, and what that does to the     *)
(* listen and heartbeat tasks, to the sockets and to send_buffer.           *)
(*                                                                          *)
(* Every asyncio task has a stack of the calls it is inside of, innermost   *)
(* last.  The event loop resumes one task at a time; that task is `running` *)
(* and moves by steps of its own until it suspends, so code between two     *)
(* awaits is never interleaved.  Nothing catches CancelledError: cancelling *)
(* a suspended task ends it, and a task that cancels itself, as a reconnect *)
(* in the listen or heartbeat task does, ends when it next suspends.        *)
(****************************************************************************)
EXTENDS Naturals, Sequences

CONSTANTS
  Users,          \* application tasks that call the client
  Messages,       \* what they send, each once
  MaxSockets,     \* bound on the sockets ever opened
  MaxRetries,     \* the client's max_retries
  AutoReconnect,  \* the client's auto_reconnect
  Backpressure,   \* ws.send may suspend
  Nobody          \* no task is running

ASSUME BoundsAssumption == MaxSockets \in Nat /\ MaxRetries \in Nat \ {0}
ASSUME OptionsAssumption == AutoReconnect \in BOOLEAN /\ Backpressure \in BOOLEAN

Sockets == 1..MaxSockets
Listen(s) == <<"listen", s>>
Heartbeat(s) == <<"heartbeat", s>>
Rejoin(n) == <<"rejoin", n>>
Tasks == Users \union ({"listen", "heartbeat", "rejoin"} \X Sockets)

(* The application's tasks are none of the client's.                        *)
ASSUME TasksAssumption ==
  Users \cap ({"listen", "heartbeat", "rejoin"} \X Sockets) = {} /\ Nobody \notin Tasks

VARIABLES
  current,        \* _ws_connection: the number of a socket, 0 for None
  socket,         \* what became of each socket
  listenTask,     \* _listen_task and _heartbeat_task: both are made with a
  heartbeatTask,  \*   socket and bear its number; 0 for None
  buffers,        \* the list objects send_buffer has been; the last is current
  chan,           \* the one channel; JOINED is as good as JOINING here
  rejoins,        \* how many rejoin tasks were made
  stack, running,
  doomed,         \* the running task has cancelled itself
  exc,            \* what it is raising
  deaf,           \* sockets whose listen task an exception ended
  asked,          \* messages given to client.send
  sent            \* messages given to a socket that was open

attributes == <<current, listenTask, heartbeatTask>>
loop == <<stack, running, doomed, exc>>
vars == <<attributes, socket, buffers, chan, rejoins, loop, deaf, asked, sent>>

Init ==
  /\ current = 0 /\ listenTask = 0 /\ heartbeatTask = 0
  /\ socket = [s \in Sockets |-> "unused"]
  /\ buffers = << <<>> >>
  /\ chan = "closed" /\ rejoins = 0
  /\ stack = [t \in Tasks |-> <<>>]
  /\ running = Nobody /\ doomed = FALSE /\ exc = "none"
  /\ deaf = {} /\ asked = {} /\ sent = {}

-----------------------------------------------------------------------------
(* What the running task t does next; st is what is left of its stack       *)

Top(t) == stack[t][Len(stack[t])]
Below(t) == SubSeq(stack[t], 1, Len(stack[t]) - 1)
Call(st, frame) == Append(st, frame)

(* It goes on, raising e or not, unless nothing is left or only the sleep   *)
(* between two heartbeats.                                                  *)
Continue(t, st, e) ==
  LET runs == st # <<>> /\ (e # "none" \/ st[Len(st)].fn # "heartbeat") IN
  /\ stack' = [stack EXCEPT ![t] = IF doomed /\ ~runs THEN <<>> ELSE st]
  /\ running' = IF runs THEN t ELSE Nobody
  /\ doomed' = (doomed /\ runs)
  /\ exc' = IF runs THEN e ELSE "none"

(* It suspends in the innermost call of st.                                 *)
Await(t, st) ==
  /\ stack' = [stack EXCEPT ![t] = IF doomed THEN <<>> ELSE st]
  /\ running' = Nobody /\ doomed' = FALSE /\ exc' = "none"

(* Attempt number tries+1 of connect(), after the sleep before it           *)
Attempt(t, st, tries) == Await(t, Call(st, [fn |-> "connect", tries |-> tries]))

(* Mutant: _reconnect does not forget the socket it replaces.               *)
ConnectionErrorKeepsSocket(t, st) ==
  IF AutoReconnect
    THEN LET active == chan = "joining" IN
         /\ chan' = IF active THEN "errored" ELSE chan
         /\ Attempt(t, Call(st, [fn |-> "reconnect", rejoin |-> active]), 0)
         /\ UNCHANGED current
    ELSE Continue(t, st, "none") /\ UNCHANGED <<current, chan>>

(* _on_connect_error, and _reconnect up to its await of connect()           *)
ConnectionError(t, st) ==
  IF AutoReconnect
    THEN LET active == chan = "joining" IN
         /\ current' = 0
         /\ chan' = IF active THEN "errored" ELSE chan
         /\ Attempt(t, Call(st, [fn |-> "reconnect", rejoin |-> active]), 0)
    ELSE Continue(t, st, "none") /\ UNCHANGED <<current, chan>>

(* ws.send has run: a socket that was closed swallows the message, and so   *)
(* does one that failed, but then the sender reconnects.                    *)
Written(t, st, m, s) ==
  /\ sent' = IF socket[s] = "open" THEN sent \union ({m} \intersect Messages) ELSE sent
  /\ IF socket[s] = "lost"
       THEN ConnectionError(t, st)
       ELSE Continue(t, st, "none") /\ UNCHANGED <<current, chan>>

SendMessage(t, st, m) ==
  \/ Written(t, st, m, current)
  \/ /\ Backpressure /\ socket[current] = "open"
     /\ Await(t, Call(st, [fn |-> "send", message |-> m, on |-> current]))
     /\ \/ sent' = sent
        \/ doomed /\ sent' = sent \union ({m} \intersect Messages)
     /\ UNCHANGED <<current, chan>>

(* client.send                                                              *)
Send(t, st, m) ==
  IF current # 0
    THEN SendMessage(t, st, m) /\ UNCHANGED buffers
    ELSE /\ buffers' = [buffers EXCEPT ![Len(buffers)] = Append(@, m)]
         /\ Continue(t, st, "none")
         /\ UNCHANGED <<current, chan, sent>>

(* Mutant: a task of the socket before lives on.                            *)
OldTasksButListen == {Heartbeat(heartbeatTask)} \intersect Tasks

(* The tasks _on_connect and close cancel                                   *)
OldTasks == {Listen(listenTask), Heartbeat(heartbeatTask)} \intersect Tasks

-----------------------------------------------------------------------------
(* The application, from a task that is in no call of the client            *)

Free(u) == running = Nobody /\ stack[u] = <<>>

UserConnect(u) ==
  /\ Free(u) /\ current = 0
  /\ Attempt(u, <<>>, 0)
  /\ UNCHANGED <<attributes, socket, buffers, chan, rejoins, deaf, asked, sent>>

UserSend(u, m) ==
  /\ Free(u) /\ m \notin asked
  /\ asked' = asked \union {m}
  /\ Send(u, <<>>, m)
  /\ UNCHANGED <<listenTask, heartbeatTask, socket, rejoins, deaf>>

(* channel.subscribe connects if need be ...                                *)
UserSubscribe(u) ==
  /\ Free(u) /\ chan = "closed"
  /\ LET st == Call(<<>>, [fn |-> "subscribe"]) IN
     IF current = 0 THEN Attempt(u, st, 0) ELSE Continue(u, st, "none")
  /\ UNCHANGED <<attributes, socket, buffers, chan, rejoins, deaf, asked, sent>>

(* close(): with a socket it awaits ws.close() first.                       *)
UserClose(u) ==
  /\ Free(u)
  /\ LET st == Call(<<>>, [fn |-> "close"]) IN
     IF current = 0
       THEN Continue(u, st, "none") /\ UNCHANGED socket
       ELSE /\ Await(u, st)
            /\ socket' = [socket EXCEPT ![current] = IF @ = "open" THEN "closed" ELSE @]
  /\ UNCHANGED <<attributes, buffers, chan, rejoins, deaf, asked, sent>>

-----------------------------------------------------------------------------
(* The event loop resumes a task that has what it awaits, and its steps run *)
(* until it suspends.                                                       *)

Awaited(t) ==
  LET top == Top(t) IN
  CASE top.fn = "listen" /\ top.on # 0 -> socket[top.on] # "open"
    [] top.fn = "wait" -> stack[Rejoin(top.task)] = <<>>
    [] OTHER -> TRUE

In(t, fn) ==
  /\ stack[t] # <<>> /\ Top(t).fn = fn
  /\ \/ running = t /\ exc = "none"
     \/ running = Nobody /\ Awaited(t)

(* _listen: it reads the socket it finds when it first runs, until that is  *)
(* closed or lost.                                                          *)
ListenStep(t) ==
  /\ In(t, "listen")
  /\ LET on == Top(t).on IN
     \/ /\ on = 0 /\ current = 0
        /\ Continue(t, <<>>, "none")
        /\ UNCHANGED <<current, chan>>
     \/ /\ on = 0 /\ current # 0
        /\ Await(t, Call(<<>>, [fn |-> "listen", on |-> current]))
        /\ UNCHANGED <<current, chan>>
     \/ /\ on # 0 /\ socket[on] = "lost"
        /\ ConnectionError(t, <<>>)
     \/ /\ on # 0 /\ socket[on] = "closed"
        /\ Continue(t, <<>>, "none")
        /\ UNCHANGED <<current, chan>>
  /\ UNCHANGED <<listenTask, heartbeatTask, socket, buffers, rejoins, deaf, asked, sent>>

(* A callback raises, or the channel's own handling of a message does: only *)
(* ConnectionClosedError is caught in _listen, so the task ends and the     *)
(* socket stays in use.                                                     *)
HandlerRaises(t) ==
  /\ running = Nobody
  /\ stack[t] # <<>> /\ Top(t).fn = "listen" /\ Top(t).on # 0
  /\ deaf' = deaf \union {Top(t).on}
  /\ stack' = [stack EXCEPT ![t] = <<>>]
  /\ UNCHANGED <<attributes, socket, buffers, chan, rejoins, running, doomed, exc,
                 asked, sent>>

(* _heartbeat: send and sleep while there is a socket, whichever it is      *)
HeartbeatStep(t) ==
  /\ In(t, "heartbeat")
  /\ IF current = 0
       THEN Continue(t, <<>>, "none") /\ UNCHANGED <<current, chan, sent>>
       ELSE SendMessage(t, stack[t], "heartbeat")
  /\ UNCHANGED <<listenTask, heartbeatTask, socket, buffers, rejoins, deaf, asked>>

(* ws.send goes on after it was suspended.                                  *)
SendStep(t) ==
  /\ In(t, "send")
  /\ Written(t, Below(t), Top(t).message, Top(t).on)
  /\ UNCHANGED <<listenTask, heartbeatTask, socket, buffers, rejoins, deaf, asked>>

(* ... and then joins, unless another call already has.                     *)
SubscribeStep(t) ==
  /\ In(t, "subscribe")
  /\ IF chan = "closed" THEN Continue(t, Call(Below(t), [fn |-> "join"]), "none")
                        ELSE Continue(t, Below(t), "SubscribedTwice")
  /\ UNCHANGED <<attributes, socket, buffers, chan, rejoins, deaf, asked, sent>>

(* _rejoin: the channel asks to join.                                       *)
JoinStep(t) ==
  /\ In(t, "join")
  /\ chan' = "joining"
  /\ Continue(t, Call(Below(t), [fn |-> "post", message |-> "join"]), "none")
  /\ UNCHANGED <<attributes, socket, buffers, rejoins, deaf, asked, sent>>

PostStep(t) ==
  /\ In(t, "post")
  /\ Send(t, Below(t), Top(t).message)
  /\ UNCHANGED <<listenTask, heartbeatTask, socket, rejoins, deaf, asked>>

(* Mutant: a buffer with one frame is taken for an empty one.               *)
ToFlushButOne(k) == Len(buffers[k]) > 1

(* _flush_send_buffer has something to do.                                  *)
ToFlush(k) == buffers[k] # <<>>

(* A socket is open: _on_connect replaces the tasks, perhaps the one it     *)
(* runs in among them, and flushes send_buffer.                             *)
ConnectStep(t) ==
  /\ In(t, "connect")
  /\ \E s \in Sockets :
       /\ socket[s] = "unused" /\ \A r \in 1..(s-1) : socket[r] # "unused"
       /\ socket' = [socket EXCEPT ![s] = "open"]
       /\ current' = s /\ listenTask' = s /\ heartbeatTask' = s
       /\ LET k == Len(buffers)
              st == IF ToFlush(k)
                      THEN Call(Below(t), [fn |-> "flush", list |-> k, i |-> 1,
                                           tries |-> Top(t).tries])
                      ELSE Below(t) IN
          /\ stack' = [x \in Tasks |->
               CASE x = t -> st
                 [] x = Listen(s) -> Call(<<>>, [fn |-> "listen", on |-> 0])
                 [] x = Heartbeat(s) -> Call(<<>>, [fn |-> "heartbeat"])
                 [] x \in OldTasks \ {t} -> <<>>
                 [] OTHER -> stack[x]]
          /\ running' = IF st = <<>> THEN Nobody ELSE t
          /\ doomed' = (st # <<>> /\ (doomed \/ t \in OldTasks))
  /\ UNCHANGED <<buffers, chan, rejoins, exc, deaf, asked, sent>>

(* Mutant: the attempts are not counted.                                    *)
RetryForever(t, st, tries, e) == Attempt(t, st, tries)

(* An attempt failed: connect() sleeps and tries again, or raises.          *)
Retry(t, st, tries, e) ==
  IF tries + 1 < MaxRetries /\ AutoReconnect
    THEN Attempt(t, st, tries + 1)
    ELSE Continue(t, st, e)

ConnectFails(t) ==
  /\ In(t, "connect")
  /\ Retry(t, Below(t), Top(t).tries, "ConnectError")
  /\ UNCHANGED <<attributes, socket, buffers, chan, rejoins, deaf, asked, sent>>

(* _flush_send_buffer: over one list object, to which a send may append and *)
(* which a flush inside this one may already have dropped.                  *)
FlushStep(t) ==
  /\ In(t, "flush")
  /\ LET top == Top(t)
         next == Call(Below(t), [top EXCEPT !.i = @ + 1]) IN
     \/ /\ top.i > Len(buffers[top.list])
        /\ buffers' = Append(buffers, <<>>)
        /\ Continue(t, Below(t), "none")
        /\ UNCHANGED <<current, chan, sent>>
     \/ /\ top.i <= Len(buffers[top.list]) /\ current = 0
        /\ Continue(t, stack[t], "NotConnectedError")
        /\ UNCHANGED <<current, chan, sent, buffers>>
     \/ /\ top.i <= Len(buffers[top.list]) /\ current # 0
        /\ SendMessage(t, next, buffers[top.list][top.i])
        /\ UNCHANGED buffers
  /\ UNCHANGED <<listenTask, heartbeatTask, socket, rejoins, deaf, asked>>

(* _reconnect after connect(): a task to rejoin each channel it found       *)
(* active, and asyncio.wait, which raises if there is none.                 *)
ReconnectStep(t) ==
  /\ In(t, "reconnect")
  /\ \/ /\ current = 0
        /\ Continue(t, Below(t), "none")
        /\ UNCHANGED rejoins
     \/ /\ current # 0 /\ ~Top(t).rejoin
        /\ Continue(t, Below(t), "ValueError")
        /\ UNCHANGED rejoins
     \/ /\ current # 0 /\ Top(t).rejoin
        /\ rejoins' = rejoins + 1
        /\ stack' = [stack EXCEPT
              ![t] = IF doomed THEN <<>>
                     ELSE Call(Below(t), [fn |-> "wait", task |-> rejoins + 1]),
              ![Rejoin(rejoins + 1)] = Call(<<>>, [fn |-> "join"])]
        /\ running' = Nobody /\ doomed' = FALSE
        /\ UNCHANGED exc
  /\ UNCHANGED <<attributes, socket, buffers, chan, deaf, asked, sent>>

WaitStep(t) ==
  /\ In(t, "wait")
  /\ Continue(t, Below(t), "none")
  /\ UNCHANGED <<attributes, socket, buffers, chan, rejoins, deaf, asked, sent>>

(* Mutant: close() drops the tasks and keeps the socket.                    *)
CloseKeepsSocket(t) ==
  /\ In(t, "close")
  /\ listenTask' = 0 /\ heartbeatTask' = 0
  /\ stack' = [x \in Tasks |-> IF x \in OldTasks \union {t} THEN <<>> ELSE stack[x]]
  /\ running' = Nobody /\ doomed' = FALSE
  /\ UNCHANGED <<current, socket, buffers, chan, rejoins, exc, deaf, asked, sent>>

(* close() after ws.close(): whatever socket is in use by now is dropped.   *)
CloseStep(t) ==
  /\ In(t, "close")
  /\ current' = 0 /\ listenTask' = 0 /\ heartbeatTask' = 0
  /\ stack' = [x \in Tasks |-> IF x \in OldTasks \union {t} THEN <<>> ELSE stack[x]]
  /\ running' = Nobody /\ doomed' = FALSE
  /\ UNCHANGED <<socket, buffers, chan, rejoins, exc, deaf, asked, sent>>

(* An exception: connect() takes one of its flush for a failed attempt, and *)
(* nothing else catches any.                                                *)
Unwind(t) ==
  /\ running = t /\ exc # "none"
  /\ IF Top(t).fn = "flush"
       THEN Retry(t, Below(t), Top(t).tries, exc)
       ELSE Continue(t, Below(t), exc)
  /\ UNCHANGED <<attributes, socket, buffers, chan, rejoins, deaf, asked, sent>>

-----------------------------------------------------------------------------
(* The network                                                              *)

SocketEnds(s, how) ==
  /\ running = Nobody /\ socket[s] = "open"
  /\ socket' = [socket EXCEPT ![s] = how]
  /\ UNCHANGED <<attributes, buffers, chan, rejoins, loop, deaf, asked, sent>>

-----------------------------------------------------------------------------
Application(u) ==
  \/ UserConnect(u) \/ UserSubscribe(u) \/ UserClose(u)
  \/ \E m \in Messages : UserSend(u, m)

Step(t) ==
  \/ ListenStep(t) \/ HeartbeatStep(t)
  \/ SendStep(t) \/ SubscribeStep(t) \/ JoinStep(t) \/ PostStep(t)
  \/ ConnectStep(t) \/ ConnectFails(t) \/ FlushStep(t)
  \/ ReconnectStep(t) \/ WaitStep(t) \/ CloseStep(t) \/ Unwind(t)

Next ==
  \/ \E u \in Users : Application(u)
  \/ \E t \in Tasks : Step(t) \/ HandlerRaises(t)
  \/ \E s \in Sockets : SocketEnds(s, "lost") \/ SocketEnds(s, "closed")

Spec == Init /\ [][Next]_vars

(* A task runs on to its next suspension, and the event loop's queue gives  *)
(* every task that can go on its turn, however busy the others keep it.  A  *)
(* frame that waits for the transport is written in the end, or its socket  *)
(* is lost.                                                                 *)
Fairness == \A t \in Tasks : SF_vars(Step(t))

LiveSpec == Spec /\ Fairness

-----------------------------------------------------------------------------
(* What should hold                                                         *)

Frames ==
  {"listen", "heartbeat", "send", "subscribe", "join", "post", "connect", "flush",
   "reconnect", "wait", "close"}

(* The values of the variables                                              *)
TypeOK ==
  /\ {current, listenTask, heartbeatTask, rejoins} \subseteq 0..MaxSockets
  /\ socket \in [Sockets -> {"unused", "open", "closed", "lost"}]
  /\ chan \in {"closed", "joining", "errored"}
  /\ DOMAIN stack = Tasks
  /\ \A t \in Tasks : \A i \in 1..Len(stack[t]) : stack[t][i].fn \in Frames
  /\ running = Nobody \/ (running \in Tasks /\ stack[running] # <<>>)
  /\ doomed \in BOOLEAN
  /\ exc \in {"none", "NotConnectedError", "ValueError", "ConnectError",
             "SubscribedTwice"}
  /\ deaf \subseteq Sockets /\ asked \subseteq Messages /\ sent \subseteq asked
  /\ \A k \in 1..Len(buffers) : \A i \in 1..Len(buffers[k]) :
       buffers[k][i] \in asked \union {"join"}

Alive(t) == stack[t] # <<>> /\ ~(running = t /\ doomed)

(* A socket in use that works has its own listen task and its own heartbeat *)
(* task, and neither is about to be cancelled: no other connect, reconnect  *)
(* or close, at whatever point it suspends, takes them away.  Only what     *)
(* handles a message may have ended the listen task, by raising.            *)
CurrentServed ==
  current # 0 /\ socket[current] = "open" =>
    /\ listenTask = current /\ heartbeatTask = current
    /\ Alive(Listen(current)) \/ current \in deaf
    /\ Alive(Heartbeat(current))

(* However many tasks connect at once, the listen task the client holds is  *)
(* the only one left: no frame reaches a channel twice.                     *)
OneListener == \A s \in Sockets : Alive(Listen(s)) => listenTask = s

(* t was suspended in ws.send on an earlier socket, and learns only now     *)
(* that this was lost.                                                      *)
LearnsLate(t) ==
  /\ stack[t] # <<>> /\ Top(t).fn = "send"
  /\ Top(t).on # current /\ socket[Top(t).on] = "lost"
  /\ stack'[t] # stack[t]

(* A socket that works is not given up without another one: no listen or    *)
(* heartbeat task of a socket before, no connect and no reconnect does it.  *)
(* Only close() does, and a send that was suspended on an earlier socket,   *)
(* whose _on_connect_error forgets whatever socket is in use by then.       *)
KeepsWorkingSocket ==
  [][current # 0 /\ socket[current] = "open" /\ current' = 0
       => \/ \E u \in Users : stack[u] = << [fn |-> "close"] >> /\ stack'[u] = <<>>
          \/ \E t \in Tasks : LearnsLate(t)]_vars

(* A lost socket is not kept.                                               *)
LossIsNoticed ==
  AutoReconnect /\ current # 0 /\ socket[current] = "lost" ~>
    current = 0 \/ socket[current] # "lost"

(* connect, send, subscribe and close return or raise.                      *)
CallsReturn == \A u \in Users : stack[u] # <<>> ~> stack[u] = <<>>

(* client.py:348 "If the connection is not currently established, the       *)
(* message will be buffered and sent once the connection is re-established" *)
(* (it is while no send suspends: otherwise the flush may be cancelled).    *)
BufferedIsSent ==
  \A m \in Messages :
    /\ current # 0 /\ socket[current] = "open"
    /\ \E k \in 1..Len(buffers) : \E i \in 1..Len(buffers[k]) : buffers[k][i] = m
    ~> m \in sent \/ current = 0 \/ socket[current] # "open"

=============================================================================
