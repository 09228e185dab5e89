------------------------ MODULE RealtimeConnectionProofs ------------------------
(* The listen and heartbeat tasks, for any number of tasks and sockets      *)
EXTENDS RealtimeConnection, SequenceTheorems, TLAPS

Own(s) == {Listen(s), Heartbeat(s)}

(* A listen or heartbeat task that has not ended is the one the client      *)
(* holds, or has cancelled itself and runs until it suspends; and no task   *)
(* is made before its socket.                                               *)
TasksInvariant ==
  /\ stack = [t \in Tasks |-> stack[t]] /\ socket = [s \in Sockets |-> socket[s]]
  /\ running \in Tasks \cup {Nobody} /\ doomed \in BOOLEAN
  /\ IF running = Nobody THEN doomed = FALSE ELSE stack[running] # <<>>
  /\ current \in Sockets \cup {0}
  /\ listenTask = heartbeatTask /\ (listenTask \in Sockets => socket[listenTask] # "unused")
  /\ \A s \in Sockets : \A t \in Own(s) :
       stack[t] # <<>> =>
         /\ listenTask = s \/ (running = t /\ doomed)
         /\ socket[s] # "unused"

-----------------------------------------------------------------------------
(* What the moves of a task do                                              *)

(* A step of task t that leaves the other tasks and the sockets alone       *)
Moves(t) ==
  /\ stack' = [u \in Tasks |-> stack'[u]] /\ \A u \in Tasks \ {t} : stack'[u] = stack[u]
  /\ running' \in {Nobody, t}
  /\ IF running' = Nobody THEN doomed' = FALSE /\ (doomed => stack'[t] = <<>>)
                         ELSE doomed' = doomed /\ stack'[t] # <<>>
  /\ current' \in {0, current}
  /\ UNCHANGED <<listenTask, heartbeatTask>>

Ready(t) == running \in {Nobody, t} /\ (t \in Users \/ stack[t] # <<>>)

LEMMA TasksDiffer ==
  /\ \A s \in Sockets : \A t \in Own(s) : t \in Tasks /\ t \notin Users /\ t # Nobody
  /\ \A s, r \in Sockets : \A t \in Own(s) : t \in Own(r) => s = r
  /\ \A s, n : \A t \in Own(s) : t # Rejoin(n)
BY TasksAssumption DEF Own, Listen, Heartbeat, Rejoin, Tasks

LEMMA ContinueMoves ==
  ASSUME NEW t \in Tasks, NEW st, NEW e, TasksInvariant, Continue(t, st, e),
         current' \in {0, current}, UNCHANGED <<listenTask, heartbeatTask>>
  PROVE  Moves(t)
<1> DEFINE runs == st # <<>> /\ (e # "none" \/ st[Len(st)].fn # "heartbeat")
<1>1. /\ stack' = [stack EXCEPT ![t] = IF doomed /\ ~runs THEN <<>> ELSE st]
      /\ running' = (IF runs THEN t ELSE Nobody) /\ doomed' = (doomed /\ runs)
  BY DEF Continue
<1>2. doomed \in BOOLEAN /\ stack = [u \in Tasks |-> stack[u]] /\ t # Nobody
  BY TasksAssumption DEF TasksInvariant
<1>3. CASE runs
  <2>1. st # <<>> /\ stack' = [stack EXCEPT ![t] = st] /\ running' = t /\ doomed' = doomed
    BY <1>1, <1>2, <1>3
  <2> QED
    BY <1>2, <2>1 DEF Moves
<1>4. CASE ~runs
  <2>1. stack' = [stack EXCEPT ![t] = IF doomed THEN <<>> ELSE st] /\ running' = Nobody /\ doomed' = FALSE
    BY <1>1, <1>4
  <2> QED
    BY <1>2, <2>1 DEF Moves
<1> QED
  BY <1>3, <1>4

LEMMA AwaitMoves ==
  ASSUME NEW t \in Tasks, NEW st, TasksInvariant, Await(t, st),
         current' \in {0, current}, UNCHANGED <<listenTask, heartbeatTask>>
  PROVE  Moves(t)
BY TasksAssumption DEF TasksInvariant, Await, Moves

LEMMA ConnectionErrorMoves ==
  ASSUME NEW t \in Tasks, NEW st, TasksInvariant, ConnectionError(t, st),
         UNCHANGED <<listenTask, heartbeatTask>>
  PROVE  Moves(t)
BY ContinueMoves, AwaitMoves DEF ConnectionError, Attempt

LEMMA SendMoves ==
  ASSUME NEW t \in Tasks, NEW st, NEW m, NEW s, TasksInvariant,
         Written(t, st, m, s) \/ SendMessage(t, st, m) \/ Send(t, st, m),
         UNCHANGED <<listenTask, heartbeatTask>>
  PROVE  Moves(t)
BY ContinueMoves, AwaitMoves, ConnectionErrorMoves DEF Written, SendMessage, Send

LEMMA MovesKeepTasks ==
  ASSUME NEW t \in Tasks, TasksInvariant, Ready(t), Moves(t),
         socket' = [s \in Sockets |-> socket'[s]],
         \A s \in Sockets : socket[s] # "unused" => socket'[s] # "unused"
  PROVE  TasksInvariant'
<1>1. /\ stack' = [u \in Tasks |-> stack'[u]] /\ socket' = [s \in Sockets |-> socket'[s]]
      /\ running' \in Tasks \cup {Nobody} /\ doomed' \in BOOLEAN
      /\ IF running' = Nobody THEN doomed' = FALSE ELSE stack'[running'] # <<>>
      /\ current' \in Sockets \cup {0}
      /\ listenTask' = heartbeatTask' /\ (listenTask' \in Sockets => socket'[listenTask'] # "unused")
  BY TasksAssumption DEF TasksInvariant, Moves
<1>2. ASSUME NEW s \in Sockets, NEW x \in Own(s), stack'[x] # <<>>
      PROVE  (listenTask' = s \/ (running' = x /\ doomed')) /\ socket'[s] # "unused"
  <2>1. x \in Tasks /\ x \notin Users /\ x # Nobody
    BY TasksDiffer
  <2>2. stack[x] # <<>>
    BY <1>2, <2>1 DEF Moves, Ready
  <2>3. (listenTask = s \/ (running = x /\ doomed)) /\ socket[s] # "unused"
    BY <2>2 DEF TasksInvariant
  <2>4. running = x => x = t
    BY <2>1 DEF Ready
  <2> QED
    BY <1>2, <2>3, <2>4 DEF Moves
<1> QED
  BY <1>1, <1>2 DEF TasksInvariant

(* All steps but these are moves of one task.                               *)
LEMMA StepsMove ==
  ASSUME NEW t \in Tasks, TasksInvariant, Step(t)
  PROVE  \/ ConnectStep(t) \/ CloseStep(t)
         \/ ReconnectStep(t) /\ rejoins' = rejoins + 1
         \/ Moves(t) /\ Ready(t) /\ UNCHANGED socket
<1> USE DEF attributes
<1>1. CASE ListenStep(t)
  BY <1>1, ContinueMoves, AwaitMoves, ConnectionErrorMoves DEF ListenStep, In, Ready
<1>2. CASE HeartbeatStep(t)
  BY <1>2, ContinueMoves, SendMoves DEF HeartbeatStep, In, Ready
<1>3. CASE SendStep(t)
  BY <1>3, SendMoves DEF SendStep, In, Ready
<1>4. CASE SubscribeStep(t)
  BY <1>4, ContinueMoves DEF SubscribeStep, In, Ready
<1>5. CASE JoinStep(t)
  BY <1>5, ContinueMoves DEF JoinStep, In, Ready
<1>6. CASE PostStep(t)
  BY <1>6, SendMoves DEF PostStep, In, Ready
<1>7. CASE ConnectFails(t)
  BY <1>7, ContinueMoves, AwaitMoves DEF ConnectFails, Retry, Attempt, In, Ready
<1>8. CASE FlushStep(t)
  BY <1>8, ContinueMoves, SendMoves DEF FlushStep, In, Ready
<1>9. CASE ReconnectStep(t)
  BY <1>9, ContinueMoves DEF ReconnectStep, In, Ready
<1>10. CASE WaitStep(t)
  BY <1>10, ContinueMoves DEF WaitStep, In, Ready
<1>11. CASE Unwind(t)
  <2>1. Ready(t)
    BY <1>11, TasksAssumption DEF Unwind, TasksInvariant, Ready
  <2> QED
    BY <1>11, <2>1, ContinueMoves, AwaitMoves DEF Unwind, Retry, Attempt
<1> QED
  BY <1>1, <1>2, <1>3, <1>4, <1>5, <1>6, <1>7, <1>8, <1>9, <1>10, <1>11 DEF Step

LEMMA RaisingMoves ==
  ASSUME NEW t \in Tasks, TasksInvariant, HandlerRaises(t)
  PROVE  Moves(t) /\ Ready(t) /\ UNCHANGED <<current, socket>>
BY DEF HandlerRaises, TasksInvariant, Moves, Ready, attributes

(* The application's calls are, but for the socket close() closes.          *)
LEMMA CallsMove ==
  ASSUME NEW u \in Users, TasksInvariant, Application(u)
  PROVE  /\ Moves(u) /\ Ready(u) /\ u \in Tasks
         /\ UNCHANGED socket \/ (UserClose(u) /\ current # 0)
<1> USE DEF attributes
<1>1. u \in Tasks /\ Ready(u)
  BY DEF Tasks, Application, UserConnect, UserSubscribe, UserClose, UserSend, Free, Ready
<1>2. Moves(u)
  BY <1>1, ContinueMoves, AwaitMoves, SendMoves
    DEF Application, UserConnect, UserSubscribe, UserClose, UserSend, Attempt
<1>3. UNCHANGED socket \/ (UserClose(u) /\ current # 0)
  BY DEF Application, UserConnect, UserSubscribe, UserClose, UserSend
<1> QED
  BY <1>1, <1>2, <1>3

LEMMA ConnectKeepsTasks ==
  ASSUME NEW t \in Tasks, TasksInvariant, ConnectStep(t)
  PROVE  TasksInvariant'
<1> DEFINE k == Len(buffers)
           st == IF ToFlush(k)
                   THEN Call(Below(t), [fn |-> "flush", list |-> k, i |-> 1, tries |-> Top(t).tries])
                   ELSE Below(t)
<1>1. stack[t] # <<>> /\ running \in {Nobody, t}
  BY DEF ConnectStep, In
<1>2. PICK s \in Sockets :
        /\ socket[s] = "unused" /\ socket' = [socket EXCEPT ![s] = "open"] /\ current' = s
        /\ listenTask' = s /\ heartbeatTask' = s
        /\ stack' = [x \in Tasks |->
             CASE x = t -> st
               [] x = Listen(s) -> Call(<<>>, [fn |-> "listen", on |-> 0])
               [] x = Heartbeat(s) -> Call(<<>>, [fn |-> "heartbeat"])
               [] x \in OldTasks \ {t} -> <<>>
               [] OTHER -> stack[x]]
        /\ running' = IF st = <<>> THEN Nobody ELSE t
        /\ doomed' = (st # <<>> /\ (doomed \/ t \in OldTasks))
  BY DEF ConnectStep
<1> HIDE DEF st
<1>3. t \notin Own(s)
  BY <1>1, <1>2 DEF TasksInvariant
<1>4. stack' = [x \in Tasks |-> stack'[x]] /\ stack'[t] = st
  BY <1>2, <1>3 DEF Own
<1>5. IF stack'[t] = <<>> THEN running' = Nobody /\ doomed' = FALSE
                         ELSE running' = t /\ doomed' = (doomed \/ t \in OldTasks)
  BY <1>2, <1>4
<1>6. ASSUME NEW x \in Tasks \ {t}, x \notin Own(s)
      PROVE  stack'[x] = IF x \in OldTasks THEN <<>> ELSE stack[x]
  BY <1>2, <1>6 DEF Own
<1>7. ASSUME NEW r \in Sockets, NEW x \in Own(r), stack'[x] # <<>>, r # s
      PROVE  x = t /\ running' = x /\ doomed' = TRUE /\ socket'[r] # "unused"
  <2>1. x \in Tasks /\ x \notin Own(s)
    BY <1>7, TasksDiffer
  <2>2. listenTask = r => x \in OldTasks
    BY <2>1 DEF OldTasks, Own, TasksInvariant
  <2>3. stack[x] # <<>>
    BY <1>1, <1>6, <1>7, <2>1
  <2>4. socket[r] # "unused" /\ (listenTask = r \/ (running = x /\ doomed))
    BY <2>3 DEF TasksInvariant
  <2>5. x = t
    BY <1>1, <1>6, <1>7, <2>1, <2>2, <2>4, TasksDiffer
  <2>6. socket'[r] # "unused"
    BY <1>2, <2>4 DEF TasksInvariant
  <2> QED
    BY <1>5, <1>7, <2>2, <2>4, <2>5, <2>6
<1>8. /\ current' = s /\ listenTask' = s /\ heartbeatTask' = s /\ socket'[s] # "unused"
      /\ socket' = [r \in Sockets |-> socket'[r]]
  BY <1>2 DEF TasksInvariant
<1>9. /\ running' \in Tasks \cup {Nobody} /\ doomed' \in BOOLEAN
      /\ IF running' = Nobody THEN doomed' = FALSE ELSE stack'[running'] # <<>>
  BY <1>5, TasksAssumption
<1>10. ASSUME NEW r \in Sockets, NEW x \in Own(r), stack'[x] # <<>>
       PROVE  (listenTask' = r \/ (running' = x /\ doomed')) /\ socket'[r] # "unused"
  BY <1>7, <1>8, <1>10
<1> QED
  BY <1>4, <1>8, <1>9, <1>10 DEF TasksInvariant

LEMMA NotOldTasks ==
  ASSUME NEW s \in Sockets, NEW x \in Own(s), x \in OldTasks, TasksInvariant
  PROVE  listenTask = s
BY DEF OldTasks, Own, Listen, Heartbeat, TasksInvariant

LEMMA TasksInvariantAlways == Spec => []TasksInvariant
<1>0. 0 \notin Sockets
  BY DEF Sockets
<1>1. Init => TasksInvariant
  <2> SUFFICES ASSUME Init PROVE TasksInvariant
    OBVIOUS
  <2>1. \A s \in Sockets : \A t \in Own(s) : stack[t] = <<>>
    BY TasksDiffer DEF Init
  <2> QED
    BY <1>0, <2>1 DEF Init, TasksInvariant
<1>2. TasksInvariant /\ [Next]_vars => TasksInvariant'
  <2> SUFFICES ASSUME TasksInvariant, [Next]_vars
               PROVE  TasksInvariant'
    OBVIOUS
  <2>1. ASSUME NEW u \in Users, Application(u)
        PROVE  TasksInvariant'
    <3>1. Moves(u) /\ Ready(u) /\ u \in Tasks /\ (UNCHANGED socket \/ UserClose(u))
      BY <2>1, CallsMove
    <3>2. UserClose(u) => socket' = socket \/ \E e : socket' = [socket EXCEPT ![current] = e]
                                          /\ (current \in Sockets => e # "unused" \/ socket[current] = "unused")
      BY DEF UserClose
    <3>3. /\ socket' = [s \in Sockets |-> socket'[s]]
          /\ \A s \in Sockets : socket[s] # "unused" => socket'[s] # "unused"
      BY <3>1, <3>2 DEF TasksInvariant
    <3> QED
      BY <3>1, <3>3, MovesKeepTasks
  <2>2. ASSUME NEW t \in Tasks, CloseStep(t)
        PROVE  TasksInvariant'
    <3>1. /\ stack' = [x \in Tasks |-> IF x \in OldTasks \cup {t} THEN <<>> ELSE stack[x]]
          /\ running' = Nobody /\ doomed' = FALSE /\ current' = 0 /\ listenTask' = 0 /\ heartbeatTask' = 0
          /\ running \in {Nobody, t} /\ UNCHANGED socket
      BY <2>2 DEF CloseStep, In
    <3>2. ASSUME NEW s \in Sockets, NEW x \in Own(s)
          PROVE  stack'[x] = <<>>
      <4>1. x \in Tasks /\ (listenTask = s => x \in OldTasks)
        BY TasksDiffer DEF OldTasks, Own, TasksInvariant
      <4>2. x # Nobody
        BY TasksDiffer
      <4>3. stack[x] # <<>> => listenTask = s \/ x = t
        BY <3>1, <4>2 DEF TasksInvariant
      <4> QED
        BY <3>1, <4>1, <4>3
    <3> QED
      BY <1>0, <3>1, <3>2 DEF TasksInvariant
  <2>3. ASSUME NEW t \in Tasks, ReconnectStep(t), rejoins' = rejoins + 1, ~(Moves(t) /\ Ready(t) /\ UNCHANGED socket)
        PROVE  TasksInvariant'
    <3> DEFINE new == IF doomed THEN <<>> ELSE Call(Below(t), [fn |-> "wait", task |-> rejoins + 1])
               join == Call(<<>>, [fn |-> "join"])
    <3>1. /\ stack[t] # <<>> /\ running \in {Nobody, t} /\ UNCHANGED <<current, listenTask, heartbeatTask, socket>>
          /\ running' = Nobody /\ doomed' = FALSE
          /\ stack' = [stack EXCEPT ![t] = new, ![Rejoin(rejoins + 1)] = join]
      BY <2>3, ContinueMoves DEF ReconnectStep, In, Ready, attributes
    <3>2. doomed => new = <<>>
      OBVIOUS
    <3> HIDE DEF new, join
    <3>3. /\ stack' = [u \in Tasks |-> stack'[u]]
          /\ \A u \in Tasks : u # Rejoin(rejoins + 1) => stack'[u] = IF u = t THEN new ELSE stack[u]
      BY <3>1 DEF TasksInvariant
    <3>4. ASSUME NEW s \in Sockets, NEW x \in Own(s), stack'[x] # <<>>
          PROVE  listenTask = s /\ socket[s] # "unused"
      <4>1. x \in Tasks /\ x # Rejoin(rejoins + 1) /\ x # Nobody
        BY TasksDiffer
      <4>2. stack[x] # <<>> /\ (x = t => ~doomed)
        BY <3>1, <3>2, <3>3, <3>4, <4>1
      <4> QED
        BY <3>1, <4>1, <4>2 DEF TasksInvariant
    <3> QED
      BY <3>1, <3>3, <3>4 DEF TasksInvariant
  <2>4. ASSUME NEW t \in Tasks, Step(t)
        PROVE  TasksInvariant'
    <3>1. socket' = socket => /\ socket' = [s \in Sockets |-> socket'[s]]
                              /\ \A s \in Sockets : socket[s] # "unused" => socket'[s] # "unused"
      BY DEF TasksInvariant
    <3> QED
      BY <2>2, <2>3, <2>4, <3>1, StepsMove, MovesKeepTasks, ConnectKeepsTasks
  <2>7. ASSUME NEW t \in Tasks, HandlerRaises(t)
        PROVE  TasksInvariant'
    <3>1. Moves(t) /\ Ready(t) /\ socket' = socket
      BY <2>7, RaisingMoves
    <3>2. /\ socket' = [s \in Sockets |-> socket'[s]]
          /\ \A s \in Sockets : socket[s] # "unused" => socket'[s] # "unused"
      BY <3>1 DEF TasksInvariant
    <3> QED
      BY <3>1, <3>2, MovesKeepTasks
  <2>5. ASSUME NEW s \in Sockets, NEW how \in {"lost", "closed"}, SocketEnds(s, how)
        PROVE  TasksInvariant'
    BY <2>5, TasksDiffer DEF SocketEnds, TasksInvariant, attributes, loop
  <2>6. CASE UNCHANGED vars
    BY <2>6 DEF vars, TasksInvariant, attributes, loop
  <2> QED
    BY <2>1, <2>4, <2>5, <2>6, <2>7 DEF Next
<1> QED
  BY <1>1, <1>2, PTL DEF Spec

(* However many tasks connect at once, the listen task the client holds is  *)
(* the only one left.                                                       *)
THEOREM OneListenerAlways == Spec => []OneListener
<1>1. TasksInvariant => OneListener
  BY DEF TasksInvariant, OneListener, Alive, Own
<1> QED
  BY <1>1, TasksInvariantAlways, PTL

-----------------------------------------------------------------------------
(* The tasks of a socket in use that works                                  *)

Listening(on) == [fn |-> "listen", on |-> on]
Beating == [fn |-> "heartbeat"]
SendingBeat(s) == [fn |-> "send", message |-> "heartbeat", on |-> s]

Works(s) == s # 0 /\ socket[s] = "open"

(* While the socket in use works its listen task reads it, is yet to start  *)
(* or was ended by an exception, and its heartbeat task sleeps, or writes to it: neither is in a   *)
(* call that could replace it, and neither can have cancelled itself.       *)
Served(s) ==
  /\ s \in Sockets /\ listenTask = s /\ running \notin Own(s)
  /\ \/ \E on \in {0, s} : stack[Listen(s)] = <<Listening(on)>>
     \/ s \in deaf /\ stack[Listen(s)] = <<>>
  /\ stack[Heartbeat(s)] \in {<<Beating>>, <<Beating, SendingBeat(s)>>}

ServedInvariant == Works(current) => Served(current)

LEMMA PushedOnOne ==
  ASSUME NEW f, NEW g
  PROVE  Append(<<f>>, g) = <<f, g>>
<1>1. <<f>> \in Seq({f, g}) /\ <<f, g>> \in Seq({f, g}) /\ g \in {f, g}
  OBVIOUS
<1>2. Len(<<f, g>>) = 2 /\ <<f, g>>[1] = f /\ <<f, g>>[2] = g /\ Len(<<f>>) = 1 /\ <<f>>[1] = f
  OBVIOUS
<1>3. /\ Append(<<f>>, g) \in Seq({f, g}) /\ Len(Append(<<f>>, g)) = 2
      /\ Append(<<f>>, g)[1] = f /\ Append(<<f>>, g)[2] = g
  BY <1>1, <1>2, AppendProperties
<1>4. \A i \in 1..2 : Append(<<f>>, g)[i] = <<f, g>>[i]
  BY <1>2, <1>3
<1> QED
  BY <1>1, <1>2, <1>3, <1>4, SeqEqual

LEMMA PoppedFromTwo ==
  ASSUME NEW f, NEW g
  PROVE  SubSeq(<<f, g>>, 1, Len(<<f, g>>) - 1) = <<f>>
<1> DEFINE q == <<f, g>>
<1>1. q \in Seq({f, g}) /\ Len(q) = 2 /\ q[1] = f
  OBVIOUS
<1> HIDE DEF q
<1>2. Len(SubSeq(q, 1, 1)) = 1 /\ SubSeq(q, 1, 1) \in Seq({f, g}) /\ SubSeq(q, 1, 1)[1] = f
  BY <1>1
<1>3. ASSUME NEW r \in Seq({f, g}), Len(r) = 1
      PROVE  r = <<r[1]>>
  <2>1. <<r[1]>> \in Seq({f, g}) /\ Len(<<r[1]>>) = 1 /\ <<r[1]>>[1] = r[1]
    BY <1>3, ElementOfSeq
  <2> QED
    BY <1>3, <2>1, SeqEqual
<1>4. SubSeq(q, 1, Len(q) - 1) = SubSeq(q, 1, 1)
  BY <1>1
<1>5. SubSeq(q, 1, 1) = <<SubSeq(q, 1, 1)[1]>>
  BY <1>2, <1>3
<1> QED
  BY <1>2, <1>4, <1>5 DEF q

LEMMA DeafStay ==
  /\ \A t \in Tasks : Step(t) => deaf' = deaf
  /\ \A u \in Users : Application(u) => deaf' = deaf
<1>1. ASSUME NEW t \in Tasks, Step(t)
      PROVE  deaf' = deaf
  BY <1>1
    DEF Step, ListenStep, HeartbeatStep, SendStep, SubscribeStep, JoinStep, PostStep, ConnectStep, ConnectFails,
        FlushStep, ReconnectStep, WaitStep, CloseStep, Unwind
<1>2. ASSUME NEW u \in Users, Application(u)
      PROVE  deaf' = deaf
  BY <1>2 DEF Application, UserConnect, UserSubscribe, UserClose, UserSend
<1> QED
  BY <1>1, <1>2

(* Other tasks' moves leave them alone.                                     *)
LEMMA OthersServe ==
  ASSUME NEW t \in Tasks, Moves(t), Served(current), t \notin Own(current),
         UNCHANGED <<current, deaf>>
  PROVE  Served(current)'
<1>1. \A x \in Own(current) : x \in Tasks /\ x # Nobody
  BY TasksDiffer DEF Served
<1> QED
  BY <1>1 DEF Moves, Served, Own

(* The listen task waits for a frame or the end of the socket.              *)
LEMMA ListenServes ==
  ASSUME TasksInvariant, Works(current), Served(current), Step(Listen(current))
  PROVE  Moves(Listen(current)) /\ current' = current /\ Served(current)'
<1> DEFINE t == Listen(current)
<1>0. running # t
  BY DEF Served, Own
<1>11. stack[t] # <<>>
  BY <1>0
    DEF Step, ListenStep, HeartbeatStep, SendStep, SubscribeStep, JoinStep, PostStep, ConnectStep, ConnectFails,
        FlushStep, ReconnectStep, WaitStep, CloseStep, Unwind, In
<1>1. PICK on \in {0, current} : stack[t] = <<Listening(on)>>
  BY <1>11 DEF Served
<1>2. stack[t] # <<>> /\ Top(t) = Listening(on) /\ Top(t).fn = "listen" /\ Top(t).on = on
  BY <1>1 DEF Top, Listening
<1>3. running # t /\ t \in Tasks /\ t # Heartbeat(current) /\ t # Nobody
  BY TasksDiffer DEF Served, Own, Listen, Heartbeat
<1> HIDE DEF t
<1>4. ListenStep(t)
  BY <1>2, <1>3
    DEF Step, t, HeartbeatStep, SendStep, SubscribeStep, JoinStep, PostStep, ConnectStep, ConnectFails, FlushStep,
        ReconnectStep, WaitStep, CloseStep, Unwind, In
<1>5. running = Nobody /\ Awaited(t)
  BY <1>3, <1>4 DEF ListenStep, In
<1>6. on = 0
  BY <1>2, <1>5 DEF Awaited, Works
<1>7. doomed = FALSE
  BY <1>5 DEF TasksInvariant
<1>8. /\ Await(t, Call(<<>>, [fn |-> "listen", on |-> current]))
      /\ UNCHANGED <<current, listenTask, heartbeatTask>>
  BY <1>2, <1>4, <1>6 DEF ListenStep, Works
<1>9. stack' = [stack EXCEPT ![t] = <<Listening(current)>>] /\ running' = Nobody
  BY <1>7, <1>8 DEF Await, Call, Listening
<1>10. Moves(t)
  BY <1>3, <1>8, AwaitMoves
<1> QED
  BY <1>3, <1>8, <1>9, <1>10, TasksDiffer DEF Served, TasksInvariant, t, Own, Listening

(* The heartbeat task writes to the socket and sleeps.                      *)
LEMMA HeartbeatServes ==
  ASSUME TasksInvariant, Works(current), Served(current), Step(Heartbeat(current))
  PROVE  Moves(Heartbeat(current)) /\ current' = current /\ Served(current)'
<1> DEFINE t == Heartbeat(current)
<1>1. running # t /\ t \in Tasks /\ t # Listen(current) /\ t # Nobody /\ deaf' = deaf
  BY TasksDiffer, DeafStay DEF Served, Own, Listen, Heartbeat
<1>2. doomed = FALSE \/ running # Nobody
  BY DEF TasksInvariant
<1>3. ASSUME Continue(t, <<Beating>>, "none"), running = Nobody, UNCHANGED <<current, listenTask, heartbeatTask>>
      PROVE  Moves(t) /\ current' = current /\ Served(current)'
  <2>1. Moves(t)
    BY <1>1, <1>3, ContinueMoves
  <2>2. stack' = [stack EXCEPT ![t] = <<Beating>>] /\ running' = Nobody
    BY <1>2, <1>3 DEF Continue, Beating
  <2> QED
    BY <1>1, <1>3, <2>1, <2>2, TasksDiffer DEF Served, TasksInvariant, Own
<1>4. ASSUME NEW m, Written(t, <<Beating>>, m, current), running = Nobody, UNCHANGED <<listenTask, heartbeatTask>>
      PROVE  Moves(t) /\ current' = current /\ Served(current)'
  BY <1>3, <1>4 DEF Written, Works
<1>5. CASE stack[t] = <<Beating>>
  <2>1. stack[t] # <<>> /\ Top(t).fn = "heartbeat"
    BY <1>5 DEF Top, Beating
  <2> HIDE DEF t
  <2>2. HeartbeatStep(t) /\ running = Nobody
    BY <1>1, <2>1
      DEF Step, t, ListenStep, SendStep, SubscribeStep, JoinStep, PostStep, ConnectStep, ConnectFails, FlushStep,
          ReconnectStep, WaitStep, CloseStep, Unwind, In, HeartbeatStep
  <2>3. SendMessage(t, <<Beating>>, "heartbeat") /\ UNCHANGED <<listenTask, heartbeatTask>>
    BY <1>5, <2>2 DEF HeartbeatStep, Works
  <2>4. CASE /\ Await(t, Call(<<Beating>>, [fn |-> "send", message |-> "heartbeat", on |-> current]))
             /\ UNCHANGED current
    <3>1. Moves(t)
      BY <1>1, <2>3, <2>4, AwaitMoves
    <3>2. stack' = [stack EXCEPT ![t] = <<Beating, SendingBeat(current)>>] /\ running' = Nobody
      BY <1>2, <2>2, <2>4, PushedOnOne DEF Await, Call, SendingBeat
    <3> QED
      BY <1>1, <2>3, <2>4, <3>1, <3>2, TasksDiffer DEF Served, TasksInvariant, Own, t
  <2> QED
    BY <1>4, <2>2, <2>3, <2>4 DEF SendMessage, t
<1>6. CASE stack[t] = <<Beating, SendingBeat(current)>>
  <2>1. /\ stack[t] # <<>> /\ Top(t).fn = "send" /\ Top(t).on = current
        /\ Below(t) = <<Beating>>
    BY <1>6, PoppedFromTwo DEF Top, Below, SendingBeat
  <2> HIDE DEF t
  <2>2. SendStep(t) /\ running = Nobody
    BY <1>1, <2>1
      DEF Step, t, ListenStep, HeartbeatStep, SubscribeStep, JoinStep, PostStep, ConnectStep, ConnectFails, FlushStep,
          ReconnectStep, WaitStep, CloseStep, Unwind, In, SendStep
  <2> QED
    BY <1>4, <2>1, <2>2 DEF SendStep, t
<1> QED
  BY <1>5, <1>6 DEF Served

(* A step of any task that is not a connection leaves a socket that works   *)
(* with its tasks, or is not its own and gives the socket up.               *)
LEMMA StepsServe ==
  ASSUME NEW t \in Tasks, TasksInvariant, Works(current), Served(current), Moves(t), deaf' = deaf,
         Step(t) \/ t \in Users
  PROVE  current' = 0 \/ (current' = current /\ Served(current)')
<1>1. CASE t \in Own(current)
  <2>1. t \notin Users
    BY <1>1, TasksDiffer DEF Served
  <2> QED
    BY <1>1, <2>1, ListenServes, HeartbeatServes DEF Own
<1>2. CASE t \notin Own(current)
  BY <1>2, OthersServe DEF Moves
<1> QED
  BY <1>1, <1>2

LEMMA ServedInvariantAlways == Spec => []ServedInvariant
<1>1. Init => ServedInvariant
  BY DEF Init, ServedInvariant, Works
<1>2. TasksInvariant /\ ServedInvariant /\ [Next]_vars => ServedInvariant'
  <2> SUFFICES ASSUME TasksInvariant, ServedInvariant, [Next]_vars, Works(current)'
               PROVE  Served(current)'
    BY DEF ServedInvariant
  <2>1. ASSUME NEW t \in Tasks, Moves(t), Step(t) \/ t \in Users, deaf' = deaf,
               socket'[current'] = "open" => socket[current'] = "open"
        PROVE  Served(current)'
    <3>1. current' = current /\ Works(current)
      BY <2>1 DEF Works, Moves
    <3> QED
      BY <2>1, <3>1, StepsServe DEF Works, ServedInvariant
  <2>2. ASSUME NEW u \in Users, Application(u)
        PROVE  Served(current)'
    <3>1. /\ Moves(u) /\ u \in Tasks
          /\ UNCHANGED socket \/ (UserClose(u) /\ current # 0)
      BY <2>2, CallsMove
    <3>2. UserClose(u) /\ current # 0 => socket' = [socket EXCEPT ![current] = IF @ = "open" THEN "closed" ELSE @]
      BY DEF UserClose
    <3>3. socket'[current'] = "open" => socket[current'] = "open"
      BY <3>1, <3>2 DEF TasksInvariant, Works, Moves
    <3> QED
      BY <2>1, <2>2, <3>1, <3>3, DeafStay
  <2>3. ASSUME NEW t \in Tasks, ConnectStep(t)
        PROVE  Served(current)'
    <3> DEFINE k == Len(buffers)
               st == IF ToFlush(k)
                       THEN Call(Below(t), [fn |-> "flush", list |-> k, i |-> 1, tries |-> Top(t).tries])
                       ELSE Below(t)
    <3>1. PICK s \in Sockets :
            /\ socket[s] = "unused" /\ current' = s /\ listenTask' = s
            /\ stack' = [x \in Tasks |->
                 CASE x = t -> st
                   [] x = Listen(s) -> Call(<<>>, [fn |-> "listen", on |-> 0])
                   [] x = Heartbeat(s) -> Call(<<>>, [fn |-> "heartbeat"])
                   [] x \in OldTasks \ {t} -> <<>>
                   [] OTHER -> stack[x]]
      BY <2>3 DEF ConnectStep
    <3> HIDE DEF st
    <3>2. stack[t] # <<>> /\ running' \in {Nobody, t}
      BY <2>3 DEF ConnectStep, In
    <3>3. /\ Listen(s) # t /\ Heartbeat(s) # t /\ Own(s) \subseteq Tasks /\ Nobody \notin Own(s)
          /\ Listen(s) # Heartbeat(s)
      BY <3>1, <3>2, TasksDiffer DEF TasksInvariant, Own, Listen, Heartbeat
    <3>4. Listen(s) \notin OldTasks /\ Heartbeat(s) \notin OldTasks
      BY <3>1, NotOldTasks DEF TasksInvariant, Own
    <3>5. stack'[Listen(s)] = <<Listening(0)>> /\ stack'[Heartbeat(s)] = <<Beating>>
      BY <3>1, <3>3, <3>4 DEF Own, Call, Listening, Beating
    <3> QED
      BY <3>1, <3>2, <3>3, <3>5 DEF Served, Own
  <2>4. ASSUME NEW t \in Tasks, ReconnectStep(t), rejoins' = rejoins + 1,
               ~(Moves(t) /\ Ready(t) /\ UNCHANGED socket)
        PROVE  Served(current)'
    <3>1. /\ stack[t] # <<>> /\ UNCHANGED <<listenTask, current, socket>> /\ running' = Nobody
          /\ \A u \in Tasks : u # t /\ u # Rejoin(rejoins + 1) => stack'[u] = stack[u]
      BY <2>4, ContinueMoves DEF ReconnectStep, In, Ready, attributes, TasksInvariant
    <3>2. Works(current) /\ Served(current)
      BY <3>1 DEF ServedInvariant, Works
    <3>3. t \notin Own(current)
      BY <2>4, <3>2 DEF ReconnectStep, In, Served, Own, Top, Listening, Beating, SendingBeat
    <3>4. \A x \in Own(current) : x \in Tasks /\ x # Rejoin(rejoins + 1) /\ x # Nobody
      BY <3>2, TasksDiffer DEF Served
    <3>5. deaf' = deaf
      BY <2>4 DEF ReconnectStep
    <3> QED
      BY <3>1, <3>2, <3>3, <3>4, <3>5 DEF Served, Own
  <2>5. ASSUME NEW t \in Tasks, Step(t)
        PROVE  Served(current)'
    <3>1. ~CloseStep(t)
      BY DEF CloseStep, Works
    <3> QED
      BY <2>1, <2>3, <2>4, <2>5, <3>1, StepsMove, DeafStay
  <2>6. ASSUME NEW s \in Sockets, NEW how \in {"lost", "closed"}, SocketEnds(s, how)
        PROVE  Served(current)'
    <3>1. Works(current) /\ UNCHANGED <<listenTask, current, running, stack, deaf>>
      BY <2>6 DEF SocketEnds, TasksInvariant, attributes, loop, Works
    <3> QED
      BY <3>1 DEF ServedInvariant, Served
  <2>8. ASSUME NEW t \in Tasks, HandlerRaises(t)
        PROVE  Served(current)'
    <3>1. /\ stack[t] # <<>> /\ running = Nobody /\ Top(t).fn = "listen" /\ deaf' = deaf \cup {Top(t).on}
          /\ stack' = [stack EXCEPT ![t] = <<>>] /\ Top(t).on # 0 /\ UNCHANGED <<attributes, socket, running>>
      BY <2>8 DEF HandlerRaises
    <3>2. Works(current) /\ Served(current)
      BY <3>1 DEF ServedInvariant, Works, attributes
    <3>3. \A x \in Own(current) : x \in Tasks
      BY <3>2, TasksDiffer DEF Served
    <3>4. t # Heartbeat(current)
      BY <3>1, <3>2 DEF Served, Top, Beating, SendingBeat
    <3>5. CASE t = Listen(current)
      <4>1. Top(t).on = current
        BY <3>1, <3>2, <3>5 DEF Served, Top, Listening
      <4> QED
        BY <3>1, <3>2, <3>3, <3>4, <3>5, <4>1 DEF Served, Own, attributes, TasksInvariant
    <3>6. CASE t # Listen(current)
      BY <3>1, <3>2, <3>3, <3>4, <3>6 DEF Served, Own, attributes, TasksInvariant
    <3> QED
      BY <3>5, <3>6
  <2>7. CASE UNCHANGED vars
    BY <2>7 DEF vars, ServedInvariant, Served, Works, attributes, loop
  <2> QED
    BY <2>2, <2>5, <2>6, <2>7, <2>8 DEF Next
<1> QED
  BY <1>1, <1>2, TasksInvariantAlways, PTL DEF Spec

(* A socket in use that works has its own listen task and its own heartbeat *)
(* task, and neither is about to be cancelled, however many tasks connect,  *)
(* reconnect and close at once; only an exception may have ended the first. *)
THEOREM CurrentServedAlways == Spec => []CurrentServed
<1>1. TasksInvariant /\ ServedInvariant => CurrentServed
  <2> SUFFICES ASSUME TasksInvariant, Served(current)
               PROVE  /\ listenTask = current /\ heartbeatTask = current
                      /\ Alive(Listen(current)) \/ current \in deaf
                      /\ Alive(Heartbeat(current))
    BY DEF ServedInvariant, Works, CurrentServed
  <2>1. (stack[Listen(current)] # <<>> \/ current \in deaf) /\ stack[Heartbeat(current)] # <<>>
    BY DEF Served
  <2> QED
    BY <2>1 DEF Served, TasksInvariant, Alive, Own
<1> QED
  BY <1>1, TasksInvariantAlways, ServedInvariantAlways, PTL

-----------------------------------------------------------------------------
(* What calls what                                                          *)

(* The frames of q are of calls that are inside of others, or may be.       *)
Inner(q) ==
  /\ q \in Seq({q[i] : i \in 1..Len(q)})
  /\ \A i \in 1..Len(q) : q[i].fn \notin {"close", "listen"}

Closing == [fn |-> "close"]

(* close() is called by the application and calls nothing that suspends but *)
(* the socket; _listen is the only call of a listen task that waits in it.  *)
CallsOf(t, q) ==
  \/ Inner(q)
  \/ t \in Users /\ q = <<Closing>>
  \/ running # t /\ \E s \in Sockets : \E on \in Sockets \cup {0} : t = Listen(s) /\ q = <<Listening(on)>>

CallsInvariant == \A t \in Tasks : CallsOf(t, stack[t])

LEMMA EmptyInner == Inner(<<>>)
BY EmptySeq DEF Inner

(* A sequence is one of its own elements.                                   *)
LEMMA OfItsElements ==
  ASSUME NEW S, NEW q \in Seq(S)
  PROVE  q \in Seq({q[i] : i \in 1..Len(q)})
<1> DEFINE R == {q[i] : i \in 1..Len(q)}
<1>1. Len(q) \in Nat /\ q = [i \in 1..Len(q) |-> q[i]]
  BY LenProperties, SeqDef
<1>2. q \in [1..Len(q) -> R]
  BY <1>1
<1> QED
  BY <1>1, <1>2, SeqDef

LEMMA PushedInner ==
  ASSUME NEW q, Inner(q), NEW f, f.fn \notin {"close", "listen"}
  PROVE  Inner(Append(q, f))
<1> DEFINE S == {q[i] : i \in 1..Len(q)}
           a == Append(q, f)
<1>1. q \in Seq(S \cup {f}) /\ Len(q) \in Nat /\ f \in S \cup {f}
  BY SeqMonotonic, LenProperties DEF Inner
<1>2. /\ a \in Seq(S \cup {f}) /\ Len(a) = Len(q) + 1 /\ a[Len(q) + 1] = f
      /\ \A i \in 1..Len(q) : a[i] = q[i]
  BY <1>1, AppendProperties
<1>3. \A i \in 1..Len(a) : a[i].fn \notin {"close", "listen"}
  BY <1>1, <1>2 DEF Inner
<1>4. a \in Seq({a[i] : i \in 1..Len(a)})
  BY <1>2, OfItsElements
<1> QED
  BY <1>3, <1>4 DEF Inner

LEMMA PoppedInner ==
  ASSUME NEW t, NEW q, CallsOf(t, q), q # <<>>
  PROVE  Inner(SubSeq(q, 1, Len(q) - 1))
<1> DEFINE r == SubSeq(q, 1, Len(q) - 1)
<1>1. CASE Inner(q)
  <2> DEFINE S == {q[i] : i \in 1..Len(q)}
  <2>1. q \in Seq(S) /\ Len(q) \in Nat \ {0}
    BY <1>1, EmptySeq DEF Inner
  <2>2. \A i \in 1..(Len(q) - 1) : q[i] \in S
    BY <2>1
  <2>3. r \in Seq(S) /\ \A i \in 1..(Len(q) - 1 - 1 + 1) : r[i] = q[1 + i - 1]
    BY <2>1, <2>2, SubSeqProperties
  <2>4. Len(r) = IF 1 <= Len(q) - 1 THEN Len(q) - 1 - 1 + 1 ELSE 0
    BY <2>1, <2>2, SubSeqProperties
  <2>5. Len(r) = Len(q) - 1
    <3>1. ASSUME NEW n \in Nat \ {0}
          PROVE  (IF 1 <= n - 1 THEN n - 1 - 1 + 1 ELSE 0) = n - 1
      BY <3>1
    <3> QED
      BY <2>1, <2>4, <3>1
  <2>6. \A i \in 1..Len(r) : r[i].fn \notin {"close", "listen"}
    <3> SUFFICES ASSUME NEW i \in 1..(Len(q) - 1)
                 PROVE  r[i].fn \notin {"close", "listen"}
      BY <2>5
    <3>1. i \in 1..(Len(q) - 1 - 1 + 1) /\ 1 + i - 1 = i /\ i \in 1..Len(q)
      BY <2>1
    <3>2. r[i] = q[i]
      BY <2>3, <3>1
    <3> QED
      BY <1>1, <3>1, <3>2 DEF Inner
  <2> HIDE DEF r
  <2>7. r \in Seq({r[i] : i \in 1..Len(r)})
    BY <2>3, OfItsElements
  <2> QED
    BY <2>6, <2>7 DEF Inner, r
<1>2. ASSUME NEW f, q = <<f>>
      PROVE  r = <<>>
  <2>1. Len(q) = 1 /\ q \in Seq({f})
    BY <1>2
  <2> QED
    BY <2>1, SubSeqEmpty
<1> QED
  BY <1>1, <1>2, EmptyInner DEF CallsOf

LEMMA ContinueInner ==
  ASSUME NEW t \in Tasks, NEW st, NEW e, TasksInvariant, Inner(st), Continue(t, st, e)
  PROVE  Inner(stack'[t])
<1>1. stack'[t] \in {<<>>, st}
  BY DEF Continue, TasksInvariant
<1> QED
  BY <1>1, EmptyInner

LEMMA AttemptInner ==
  ASSUME NEW t \in Tasks, NEW st, NEW tries, TasksInvariant, Inner(st), Attempt(t, st, tries)
  PROVE  Inner(stack'[t])
<1> DEFINE f == [fn |-> "connect", tries |-> tries]
<1>1. stack'[t] \in {<<>>, Append(st, f)}
  BY DEF Attempt, Await, Call, TasksInvariant
<1>2. f.fn = "connect"
  OBVIOUS
<1> HIDE DEF f
<1> QED
  BY <1>1, <1>2, EmptyInner, PushedInner

LEMMA ConnectionErrorInner ==
  ASSUME NEW t \in Tasks, NEW st, TasksInvariant, Inner(st), ConnectionError(t, st)
  PROVE  Inner(stack'[t])
<1> DEFINE f == [fn |-> "reconnect", rejoin |-> chan = "joining"]
<1>1. f.fn = "reconnect"
  OBVIOUS
<1>2. Continue(t, st, "none") \/ Attempt(t, Append(st, f), 0)
  BY DEF ConnectionError, Call
<1> HIDE DEF f
<1> QED
  BY <1>1, <1>2, ContinueInner, AttemptInner, PushedInner

LEMMA SendInner ==
  ASSUME NEW t \in Tasks, NEW st, NEW m, NEW s, TasksInvariant, Inner(st),
         Written(t, st, m, s) \/ SendMessage(t, st, m) \/ Send(t, st, m)
  PROVE  Inner(stack'[t])
<1>1. ASSUME NEW x, NEW y, Written(t, st, x, y)
      PROVE  Inner(stack'[t])
  BY <1>1, ContinueInner, ConnectionErrorInner DEF Written
<1>2. ASSUME NEW x, SendMessage(t, st, x)
      PROVE  Inner(stack'[t])
  <2> DEFINE f == [fn |-> "send", message |-> x, on |-> current]
  <2>1. f.fn = "send"
    OBVIOUS
  <2>2. Written(t, st, x, current) \/ Await(t, Append(st, f))
    BY <1>2 DEF SendMessage, Call
  <2> HIDE DEF f
  <2>3. Await(t, Append(st, f)) => stack'[t] \in {<<>>, Append(st, f)}
    BY DEF Await, TasksInvariant
  <2> QED
    BY <1>1, <2>1, <2>2, <2>3, EmptyInner, PushedInner
<1> QED
  BY <1>1, <1>2, ContinueInner DEF Send

(* What a task is at the top of                                             *)
LEMMA TopCalls ==
  ASSUME NEW t \in Tasks, CallsOf(t, stack[t]), stack[t] # <<>>
  PROVE  /\ Inner(Below(t))
         /\ Top(t).fn = "close" => t \in Users /\ stack[t] = <<Closing>>
         /\ Top(t).fn = "listen" => running # t /\ \E s \in Sockets : t = Listen(s)
         /\ Top(t).fn \notin {"close", "listen"} => Inner(stack[t])
<1>1. Inner(Below(t))
  BY PoppedInner DEF Below
<1>2. CASE Inner(stack[t])
  <2>1. Len(stack[t]) \in Nat \ {0}
    BY <1>2, EmptySeq DEF Inner
  <2>2. Top(t).fn \notin {"close", "listen"}
    BY <1>2, <2>1 DEF Inner, Top
  <2> QED
    BY <1>1, <1>2, <2>2
<1>3. CASE t \in Users /\ stack[t] = <<Closing>>
  BY <1>1, <1>3 DEF Top, Closing
<1>4. CASE running # t /\ \E s \in Sockets : \E on \in Sockets \cup {0} : t = Listen(s) /\ stack[t] = <<Listening(on)>>
  <2>1. Top(t).fn = "listen"
    BY <1>4 DEF Top, Listening
  <2> QED
    BY <1>1, <1>4, <2>1
<1> QED
  BY <1>2, <1>3, <1>4 DEF CallsOf

(* What a step of task t leaves of its own calls                            *)
LEMMA StepCalls ==
  ASSUME NEW t \in Tasks, TasksInvariant, CallsOf(t, stack[t]), Step(t)
  PROVE  Inner(stack'[t]) \/ (running' # t /\ \E s, on \in Sockets : t = Listen(s) /\ stack'[t] = <<Listening(on)>>)
<1> USE ContinueInner, AttemptInner DEF In, Call
<1>1. ASSUME stack[t] # <<>>
      PROVE  /\ Inner(Below(t))
             /\ Top(t).fn = "listen" => \E s \in Sockets : t = Listen(s)
             /\ Top(t).fn \notin {"close", "listen"} => Inner(stack[t])
  BY <1>1, TopCalls
<1>2. CASE ListenStep(t)
  <2>1. (\E s \in Sockets : t = Listen(s)) /\ t # Nobody /\ current \in Sockets \cup {0}
    BY <1>1, <1>2, TasksAssumption DEF ListenStep, TasksInvariant
  <2>2. ASSUME current # 0, Await(t, Append(<<>>, [fn |-> "listen", on |-> current]))
        PROVE  /\ running' # t
               /\ stack'[t] = <<>> \/ \E on \in Sockets : stack'[t] = <<Listening(on)>>
    BY <2>1, <2>2 DEF Await, TasksInvariant, Listening
  <2> QED
    BY <1>2, <2>1, <2>2, EmptyInner, ConnectionErrorInner DEF ListenStep
<1>3. CASE HeartbeatStep(t)
  BY <1>1, <1>3, EmptyInner, SendInner DEF HeartbeatStep
<1>4. CASE SendStep(t)
  BY <1>1, <1>4, SendInner DEF SendStep
<1>5. CASE SubscribeStep(t)
  <2>1. [fn |-> "join"].fn = "join"
    OBVIOUS
  <2> QED
    BY <1>1, <1>5, <2>1, PushedInner DEF SubscribeStep
<1>6. CASE JoinStep(t)
  <2>1. [fn |-> "post", message |-> "join"].fn = "post"
    OBVIOUS
  <2> QED
    BY <1>1, <1>6, <2>1, PushedInner DEF JoinStep
<1>7. CASE PostStep(t)
  BY <1>1, <1>7, SendInner DEF PostStep
<1>8. CASE ConnectStep(t)
  <2> DEFINE k == Len(buffers)
             f == [fn |-> "flush", list |-> k, i |-> 1, tries |-> Top(t).tries]
             st == IF ToFlush(k) THEN Append(Below(t), f) ELSE Below(t)
  <2>1. f.fn = "flush"
    OBVIOUS
  <2> HIDE DEF f
  <2>2. Inner(st)
    BY <1>1, <1>8, <2>1, PushedInner DEF ConnectStep
  <2>3. PICK s \in Sockets :
          /\ socket[s] = "unused"
          /\ stack' = [x \in Tasks |->
               CASE x = t -> st
                 [] x = Listen(s) -> Append(<<>>, [fn |-> "listen", on |-> 0])
                 [] x = Heartbeat(s) -> Append(<<>>, [fn |-> "heartbeat"])
                 [] x \in OldTasks \ {t} -> <<>>
                 [] OTHER -> stack[x]]
    BY <1>8 DEF ConnectStep, f
  <2> HIDE DEF st
  <2>4. t \notin Own(s)
    BY <1>8, <2>3 DEF TasksInvariant, ConnectStep
  <2>5. stack'[t] = st
    BY <2>3, <2>4 DEF Own
  <2> QED
    BY <2>2, <2>5
<1>9. CASE ConnectFails(t)
  BY <1>1, <1>9 DEF ConnectFails, Retry
<1>10. CASE FlushStep(t)
  <2> DEFINE f == [Top(t) EXCEPT !.i = @ + 1]
  <2>1. Top(t).fn = "flush" /\ stack[t] # <<>> /\ Inner(stack[t]) /\ Inner(Below(t))
    BY <1>1, <1>10 DEF FlushStep
  <2>2. f.fn = Top(t).fn
    OBVIOUS
  <2> HIDE DEF f
  <2>3. Inner(Append(Below(t), f))
    BY <2>1, <2>2, PushedInner
  <2>4. \/ \E e : Continue(t, Below(t), e) \/ Continue(t, stack[t], e)
        \/ \E m : SendMessage(t, Append(Below(t), f), m)
    BY <1>10 DEF FlushStep, f
  <2> QED
    BY <2>1, <2>3, <2>4, SendInner
<1>11. CASE ReconnectStep(t)
  <2> DEFINE f == [fn |-> "wait", task |-> rejoins + 1]
  <2>1. f.fn = "wait"
    OBVIOUS
  <2> HIDE DEF f
  <2>2. \/ \E e : Continue(t, Below(t), e)
        \/ stack' = [stack EXCEPT ![t] = IF doomed THEN <<>> ELSE Append(Below(t), f),
                                 ![Rejoin(rejoins + 1)] = Append(<<>>, [fn |-> "join"])]
    BY <1>11 DEF ReconnectStep, f
  <2>3. [fn |-> "join"].fn = "join"
    OBVIOUS
  <2>4. Inner(Append(Below(t), f)) /\ Inner(Append(<<>>, [fn |-> "join"])) /\ Inner(Below(t)) /\ Inner(<<>>)
    BY <1>1, <1>11, <2>1, <2>3, PushedInner, EmptyInner DEF ReconnectStep
  <2> QED
    BY <2>2, <2>4 DEF TasksInvariant
<1>12. CASE WaitStep(t)
  BY <1>1, <1>12 DEF WaitStep
<1>13. CASE CloseStep(t)
  <2>1. stack'[t] = <<>>
    BY <1>13 DEF CloseStep
  <2> QED
    BY <2>1, EmptyInner
<1>14. CASE Unwind(t)
  <2>1. stack[t] # <<>>
    BY <1>14, TasksAssumption DEF Unwind, TasksInvariant
  <2> QED
    BY <1>1, <1>14, <2>1 DEF Unwind, Retry
<1> QED
  BY <1>2, <1>3, <1>4, <1>5, <1>6, <1>7, <1>8, <1>9, <1>10, <1>11, <1>12, <1>13, <1>14 DEF Step

(* What a call of the application leaves of its own calls                   *)
LEMMA ApplicationCalls ==
  ASSUME NEW u \in Users, TasksInvariant, Application(u)
  PROVE  Inner(stack'[u]) \/ stack'[u] = <<Closing>>
<1> USE ContinueInner, AttemptInner DEF Call
<1>1. u \in Tasks /\ Inner(<<>>)
  BY EmptyInner DEF Tasks
<1>2. CASE UserConnect(u)
  BY <1>1, <1>2 DEF UserConnect
<1>3. CASE UserSubscribe(u)
  <2>1. [fn |-> "subscribe"].fn = "subscribe"
    OBVIOUS
  <2> QED
    BY <1>1, <1>3, <2>1, PushedInner DEF UserSubscribe
<1>4. CASE UserClose(u)
  <2>1. \/ Continue(u, Append(<<>>, Closing), "none") \/ Await(u, Append(<<>>, Closing))
    BY <1>4 DEF UserClose, Closing
  <2>2. stack'[u] \in {<<>>, <<Closing>>}
    BY <1>1, <2>1 DEF Continue, Await, TasksInvariant
  <2> QED
    BY <1>1, <2>2
<1>5. ASSUME NEW m \in Messages, UserSend(u, m)
      PROVE  Inner(stack'[u])
  BY <1>1, <1>5, SendInner DEF UserSend
<1> QED
  BY <1>2, <1>3, <1>4, <1>5 DEF Application

LEMMA CallsInvariantAlways == Spec => []CallsInvariant
<1>1. Init => CallsInvariant
  BY EmptyInner DEF Init, CallsInvariant, CallsOf
<1>2. TasksInvariant /\ TasksInvariant' /\ CallsInvariant /\ [Next]_vars => CallsInvariant'
  <2> SUFFICES ASSUME TasksInvariant, CallsInvariant, [Next]_vars, NEW x \in Tasks
               PROVE  CallsOf(x, stack[x])'
    BY DEF CallsInvariant
  <2>1. \A t \in Tasks : CallsOf(t, stack[t])
    BY DEF CallsInvariant
  <2>2. ASSUME stack'[x] = stack[x], running' # running => running' # x
        PROVE  CallsOf(x, stack[x])'
    BY <2>1, <2>2 DEF CallsOf
  <2>3. ASSUME \/ Inner(stack'[x])
               \/ x \in Users /\ stack'[x] = <<Closing>>
               \/ running' # x /\ \E s \in Sockets : \E on \in Sockets \cup {0} : x = Listen(s) /\ stack'[x] = <<Listening(on)>>
        PROVE  CallsOf(x, stack[x])'
    BY <2>3 DEF CallsOf
  <2>4. ASSUME NEW u \in Users, Application(u)
        PROVE  CallsOf(x, stack[x])'
    <3>1. Moves(u) /\ u \in Tasks
      BY <2>4, CallsMove
    <3>2. CASE x = u
      BY <2>3, <2>4, <3>2, ApplicationCalls
    <3>3. CASE x # u
      <4>1. stack'[x] = stack[x] /\ running' # x
        BY <3>1, <3>3, TasksAssumption DEF Moves
      <4> QED
        BY <2>2, <4>1
    <3> QED
      BY <3>2, <3>3
  <2>5. ASSUME NEW t \in Tasks, Step(t)
        PROVE  CallsOf(x, stack[x])'
    <3>1. CASE x = t
      BY <2>1, <2>3, <2>5, <3>1, StepCalls
    <3>2. CASE x # t /\ Moves(t)
      <4>1. stack'[x] = stack[x] /\ running' # x
        BY <3>2, TasksAssumption DEF Moves
      <4> QED
        BY <2>2, <4>1
    <3>3. CASE x # t /\ ConnectStep(t)
      <4>1. running' # x
        BY <3>3, TasksAssumption DEF ConnectStep
      <4>2. \/ stack'[x] \in {<<>>, stack[x], Append(<<>>, Beating)}
            \/ \E s \in Sockets : x = Listen(s) /\ stack'[x] = Append(<<>>, Listening(0))
        <5> DEFINE k == Len(buffers)
                   st == IF ToFlush(k)
                           THEN Call(Below(t), [fn |-> "flush", list |-> k, i |-> 1, tries |-> Top(t).tries])
                           ELSE Below(t)
        <5>1. PICK s \in Sockets :
                stack' = [y \in Tasks |->
                   CASE y = t -> st
                     [] y = Listen(s) -> Call(<<>>, [fn |-> "listen", on |-> 0])
                     [] y = Heartbeat(s) -> Call(<<>>, [fn |-> "heartbeat"])
                     [] y \in OldTasks \ {t} -> <<>>
                     [] OTHER -> stack[y]]
          BY <3>3 DEF ConnectStep
        <5> HIDE DEF st
        <5>2. CASE x = Listen(s)
          <6>1. x # Heartbeat(s)
            BY <5>2 DEF Listen, Heartbeat
          <6>2. x \in OldTasks => stack'[x] \in {<<>>, Append(<<>>, Listening(0))}
            BY <3>3, <5>1, <5>2, <6>1 DEF Call, Listening
          <6>3. x \notin OldTasks => stack'[x] = Append(<<>>, Listening(0))
            BY <3>3, <5>1, <5>2, <6>1 DEF Call, Listening
          <6> QED
            BY <5>2, <6>2, <6>3
        <5>3. CASE x = Heartbeat(s) /\ x # Listen(s)
          BY <3>3, <5>1, <5>3 DEF Call, Beating
        <5>4. CASE x # Heartbeat(s) /\ x # Listen(s)
          BY <3>3, <5>1, <5>4
        <5> QED
          BY <5>2, <5>3, <5>4
      <4>3. Inner(<<>>) /\ Inner(Append(<<>>, Beating))
        BY EmptyInner, PushedInner DEF Beating
      <4>4. CASE stack'[x] \in {<<>>, Append(<<>>, Beating)}
        BY <2>3, <4>3, <4>4
      <4>5. CASE stack'[x] = stack[x]
        BY <2>2, <4>1, <4>5
      <4>6. ASSUME NEW s \in Sockets, x = Listen(s), stack'[x] = Append(<<>>, Listening(0))
            PROVE  CallsOf(x, stack[x])'
        BY <2>3, <4>1, <4>6
      <4> QED
        BY <4>2, <4>4, <4>5, <4>6
    <3>4. CASE x # t /\ CloseStep(t)
      <4>1. running' # x /\ stack'[x] \in {<<>>, stack[x]}
        BY <3>4, TasksAssumption DEF CloseStep
      <4> QED
        BY <2>2, <2>3, <4>1, EmptyInner
    <3>5. CASE x # t /\ ReconnectStep(t) /\ ~Moves(t)
      <4>1. running' # x /\ stack'[x] \in {stack[x], Append(<<>>, [fn |-> "join"])}
        <5> DEFINE new == IF doomed THEN <<>> ELSE Call(Below(t), [fn |-> "wait", task |-> rejoins + 1])
        <5>1. /\ running' = Nobody
              /\ stack' = [stack EXCEPT ![t] = new, ![Rejoin(rejoins + 1)] = Append(<<>>, [fn |-> "join"])]
          BY <3>5, ContinueMoves DEF ReconnectStep, attributes, Call
        <5> HIDE DEF new
        <5> QED
          BY <3>5, <5>1, TasksAssumption DEF TasksInvariant
      <4>2. [fn |-> "join"].fn = "join"
        OBVIOUS
      <4>3. Inner(Append(<<>>, [fn |-> "join"]))
        BY <4>2, EmptyInner, PushedInner
      <4> QED
        BY <2>2, <2>3, <4>1, <4>3
    <3> QED
      BY <2>5, <3>1, <3>2, <3>3, <3>4, <3>5, StepsMove
  <2>6. CASE UNCHANGED loop
    BY <2>2, <2>6 DEF loop
  <2>7. ASSUME NEW t \in Tasks, HandlerRaises(t)
        PROVE  CallsOf(x, stack[x])'
    <3>1. running' = running /\ stack'[x] \in {<<>>, stack[x]}
      BY <2>7 DEF HandlerRaises, TasksInvariant
    <3> QED
      BY <2>2, <2>3, <3>1, EmptyInner
  <2> QED
    BY <2>4, <2>5, <2>6, <2>7 DEF Next, SocketEnds, vars
<1> QED
  BY <1>1, <1>2, TasksInvariantAlways, PTL DEF Spec

(* What a send that learns late of a loss leaves of its calls               *)
LEMMA LossEndsSend ==
  ASSUME NEW t \in Tasks, TasksInvariant, Inner(Below(t)), stack[t] # <<>>, Top(t).fn = "send",
         ConnectionError(t, Below(t)), current # 0, current' = 0
  PROVE  stack'[t] # stack[t]
<1> DEFINE f == [fn |-> "reconnect", rejoin |-> chan = "joining"]
           g == [fn |-> "connect", tries |-> 0]
           q == Append(Below(t), f)
<1>1. Attempt(t, q, 0)
  BY DEF ConnectionError, Call
<1>2. stack'[t] \in {<<>>, Append(q, g)}
  BY <1>1 DEF Attempt, Await, Call, TasksInvariant
<1>3. f.fn = "reconnect" /\ g.fn = "connect"
  OBVIOUS
<1> HIDE DEF f, g
<1>4. Inner(q)
  BY <1>3, PushedInner
<1> HIDE DEF q
<1>5. q \in Seq({q[i] : i \in 1..Len(q)} \cup {g}) /\ g \in {q[i] : i \in 1..Len(q)} \cup {g}
  BY <1>4, SeqMonotonic DEF Inner
<1>6. Append(q, g)[Len(Append(q, g))] = g
  BY <1>5, AppendProperties
<1> QED
  BY <1>2, <1>3, <1>6 DEF Top

(* A socket that works is given up without another one only by close() and  *)
(* by a send that was suspended on an earlier socket and learns late of its *)
(* loss, with any number of tasks and calls of any depth.                   *)
THEOREM KeepsWorkingSocketAlways == Spec => KeepsWorkingSocket
<1> DEFINE Excepted == \/ \E u \in Users : stack[u] = << [fn |-> "close"] >> /\ stack'[u] = <<>>
                       \/ \E t \in Tasks : LearnsLate(t)
           Gives == Works(current) /\ current' = 0 /\ ~Excepted
<1>1. TasksInvariant /\ ServedInvariant /\ CallsInvariant /\ [Next]_vars
        => [current # 0 /\ socket[current] = "open" /\ current' = 0
              => \/ \E u \in Users : stack[u] = << [fn |-> "close"] >> /\ stack'[u] = <<>>
                 \/ \E t \in Tasks : LearnsLate(t)]_vars
  <2> SUFFICES ASSUME TasksInvariant, ServedInvariant, CallsInvariant, Next, Gives
               PROVE  FALSE
    BY DEF Works
  <2>1. Served(current) /\ 0 \notin Sockets
    BY DEF ServedInvariant, Sockets
  <2>2. ASSUME NEW t \in Tasks, NEW st, NEW m, SendMessage(t, st, m) \/ Send(t, st, m)
        PROVE  FALSE
    BY <2>2 DEF Send, SendMessage, Written, Works
  <2>3. ASSUME NEW u \in Users, Application(u)
        PROVE  FALSE
    BY <2>2, <2>3 DEF Application, UserConnect, UserSubscribe, UserClose, UserSend, Tasks, attributes, Works
  <2>4. ASSUME NEW t \in Tasks, Step(t)
        PROVE  FALSE
    <3>1. stack[t] # <<>> => CallsOf(t, stack[t])
      BY DEF CallsInvariant
    <3>2. CASE ListenStep(t)
      <4>1. (\E s \in Sockets : t = Listen(s)) /\ running # t /\ stack[t] # <<>>
        BY <3>1, <3>2, TopCalls DEF ListenStep, In
      <4>2. t = Listen(current)
        BY <2>1, <4>1 DEF TasksInvariant, Served, Own
      <4> QED
        BY <2>1, <2>4, <4>2, ListenServes DEF Works
    <3>3. CASE HeartbeatStep(t) \/ PostStep(t) \/ FlushStep(t)
      BY <2>2, <3>3 DEF HeartbeatStep, PostStep, FlushStep, Works
    <3>4. CASE SendStep(t)
      <4>1. stack[t] # <<>> /\ Top(t).fn = "send" /\ Inner(Below(t))
        BY <3>1, <3>4, TopCalls DEF SendStep, In
      <4>2. ConnectionError(t, Below(t)) /\ socket[Top(t).on] = "lost"
        BY <3>4 DEF SendStep, Written, Works
      <4>3. Top(t).on # current
        BY <4>2 DEF Works
      <4>4. stack'[t] # stack[t]
        BY <4>1, <4>2, LossEndsSend DEF Works
      <4> QED
        BY <4>1, <4>2, <4>3, <4>4 DEF LearnsLate
    <3>5. CASE CloseStep(t)
      <4>1. t \in Users /\ stack[t] = <<Closing>> /\ stack'[t] = <<>>
        BY <3>1, <3>5, TopCalls DEF CloseStep, In
      <4> QED
        BY <4>1 DEF Closing
    <3>6. CASE ConnectStep(t)
      BY <2>1, <3>6 DEF ConnectStep
    <3> QED
      BY <2>4, <3>2, <3>3, <3>4, <3>5, <3>6
        DEF Step, SubscribeStep, JoinStep, ConnectFails, ReconnectStep, WaitStep, Unwind, attributes, Works
  <2>5. ASSUME NEW s \in Sockets, NEW how \in {"lost", "closed"}, SocketEnds(s, how)
        PROVE  FALSE
    BY <2>5 DEF SocketEnds, attributes, Works
  <2>6. ASSUME NEW t \in Tasks, HandlerRaises(t)
        PROVE  FALSE
    BY <2>6 DEF HandlerRaises, attributes, Works
  <2> QED
    BY <2>3, <2>4, <2>5, <2>6 DEF Next
<1> HIDE DEF Gives
<1> QED
  BY <1>1, TasksInvariantAlways, ServedInvariantAlways, CallsInvariantAlways, PTL DEF Spec, KeepsWorkingSocket

=============================================================================
