------------------------- MODULE RealtimeChannelProofs -------------------------
(* Proofs, for every set of pushes and every bound, of the invariants and   *)
(* action properties of RealtimeChannel.                                    *)
EXTENDS RealtimeChannel, TLAPS

-----------------------------------------------------------------------------
(* Lemmas about the helpers                                                 *)

(* Sending a push makes one ref and no other: everything that holds refs    *)
(* holds refs made by then.                                                 *)
LEMMA SendPushRefs ==
  ASSUME TypeOK, NEW q \in Pushes \union {Join, Leave}, NEW cut \in BOOLEAN,
         SendPush(q, cut)
  PROVE  /\ lastRef' = lastRef + 1 /\ lastRef' \in 1..MaxRef
         /\ sendBuffer' \subseteq 1..lastRef'
         /\ wire' \subseteq 1..lastRef'
         /\ waiting' \subseteq (1..lastRef') \X (Pushes \union {Join, Leave})
<1>1. lastRef \in Nat /\ MaxRef \in Nat /\ lastRef < MaxRef /\ lastRef' = lastRef + 1
  BY BoundAssumption DEF SendPush, TypeOK, RefTypes
<1>2. 1..lastRef \subseteq 1..lastRef' /\ lastRef + 1 \in 1..lastRef'
  BY <1>1
<1>3. sendBuffer' \subseteq 1..lastRef' /\ wire' \subseteq 1..lastRef'
  BY <1>2 DEF SendPush, Transmit, TypeOK, RefTypes
<1>4. waiting' \subseteq (1..lastRef') \X (Pushes \union {Join, Leave})
  BY <1>2 DEF SendPush, AwaitReply, TypeOK, RefTypes
<1> QED
  BY <1>1, <1>3, <1>4

(* A (re)join leaves the join push with the ref just made and a channel     *)
(* that is joining, or a leaving channel as it was.                         *)
LEMMA RejoinTypes ==
  ASSUME TypeOK, NEW cut \in BOOLEAN, Rejoin(cut)
  PROVE  /\ lastRef' \in 0..MaxRef
         /\ sendBuffer' \subseteq 1..lastRef'
         /\ wire' \subseteq 1..lastRef'
         /\ waiting' \subseteq (1..lastRef') \X (Pushes \union {Join, Leave})
         /\ state' \in States
         /\ join' \in [ref : 0..lastRef', resp : {"none", "ok", "error", "timeout"},
                       task : {"none", "running", "fired"}]
<1>1. CASE state = "leaving"
  BY <1>1 DEF Rejoin, frames, TypeOK, RefTypes, StateTypes
<1>2. CASE state # "leaving"
  <2>1. SendPush(Join, cut) /\ state' = "joining" /\ Resend
    BY <1>2 DEF Rejoin
  <2>2. /\ lastRef' = lastRef + 1 /\ lastRef' \in 1..MaxRef
        /\ sendBuffer' \subseteq 1..lastRef'
        /\ wire' \subseteq 1..lastRef'
        /\ waiting' \subseteq (1..lastRef') \X (Pushes \union {Join, Leave})
    BY <2>1, SendPushRefs
  <2>3. join.task \in {"none", "running", "fired"}
    BY DEF TypeOK, RefTypes
  <2>4. join' \in [ref : 0..lastRef', resp : {"none", "ok", "error", "timeout"},
                  task : {"none", "running", "fired"}]
    BY <2>1, <2>2, <2>3, BoundAssumption DEF Resend, StartTimeout
  <2> QED
    BY <2>1, <2>2, <2>4, BoundAssumption DEF States
<1> QED
  BY <1>1, <1>2

(* Leaving the topic, likewise.                                             *)
LEMMA LeaveTypes ==
  ASSUME TypeOK, LeaveTopic
  PROVE  /\ lastRef' \in 0..MaxRef
         /\ sendBuffer' \subseteq 1..lastRef'
         /\ wire' \subseteq 1..lastRef'
         /\ waiting' \subseteq (1..lastRef') \X (Pushes \union {Join, Leave})
         /\ state' = "leaving" /\ rejoinTimer' = "idle"
         /\ join' \in [ref : 0..lastRef', resp : {"none", "ok", "error", "timeout"},
                       task : {"none", "running", "fired"}]
<1>1. SendPush(Leave, FALSE) /\ join' = [join EXCEPT !.task = "none"]
  BY DEF LeaveTopic
<1>2. /\ lastRef' = lastRef + 1 /\ lastRef' \in 1..MaxRef
      /\ sendBuffer' \subseteq 1..lastRef'
      /\ wire' \subseteq 1..lastRef'
      /\ waiting' \subseteq (1..lastRef') \X (Pushes \union {Join, Leave})
  BY <1>1, SendPushRefs
<1>3. lastRef \in Nat /\ 0..lastRef \subseteq 0..lastRef'
  BY <1>2, BoundAssumption DEF TypeOK, RefTypes
<1>4. join' \in [ref : 0..lastRef', resp : {"none", "ok", "error", "timeout"},
                task : {"none", "running", "fired"}]
  BY <1>1, <1>3 DEF TypeOK, RefTypes
<1> QED
  BY <1>2, <1>4, BoundAssumption DEF LeaveTopic

(* Who is reconnecting, after the client's own reconnect died ...           *)
LEMMA CancelOwnTypes ==
  ASSUME StateTypes, CancelOwn
  PROVE  /\ reconnects' \in [Reconnectors -> {"no", "connects", "due", "rejoins"}]
         /\ dropped' \in BOOLEAN
  BY DEF StateTypes, CancelOwn, Reconnectors

(* ... and after another began.                                             *)
LEMMA ReconnectTypes ==
  ASSUME StateTypes, NEW w \in Reconnectors, Reconnect(w)
  PROVE  /\ reconnects' \in [Reconnectors -> {"no", "connects", "due", "rejoins"}]
         /\ dropped' \in BOOLEAN /\ state' \in States /\ ws' = "none"
  BY DEF StateTypes, Reconnect, States

-----------------------------------------------------------------------------
(* Type correctness                                                         *)

(* The variables have their values in every reachable state of a channel.   *)
THEOREM TypeCorrect == Spec => []TypeOK
<1>1. Init => TypeOK
  <2> SUFFICES ASSUME Init PROVE TypeOK
    OBVIOUS
  <2>1. state \in States /\ lastRef \in 0..MaxRef
    BY BoundAssumption DEF Init, States
  <2>2. join \in [ref : 0..lastRef, resp : {"none", "ok", "error", "timeout"},
                 task : {"none", "running", "fired"}]
    BY DEF Init
  <2>3. /\ resp \in [Pushes -> {"unused", "none", "ok", "error", "timeout"}]
        /\ sends \in [Pushes -> Nat]
    BY DEF Init
  <2> QED
    BY <2>1, <2>2, <2>3 DEF Init, TypeOK, RefTypes, StateTypes, PushTypes
<1>2. TypeOK /\ [Next]_vars => TypeOK'
  <2> SUFFICES ASSUME TypeOK, [Next]_vars PROVE TypeOK'
    OBVIOUS
  <2> USE DEF TypeOK
  <2>1. CASE Application
    <3>1. CASE Subscribe
      <4>1. RefTypes'
        BY <3>1, RejoinTypes DEF Subscribe, JoinTopic, socket, rejoins, frames, channel,
           client, RefTypes
      <4>2. StateTypes'
        BY <3>1, RejoinTypes DEF Subscribe, JoinTopic, socket, rejoins, channel, client,
           StateTypes, States, TaskNames
      <4>3. PushTypes'
        BY <3>1, RejoinTypes DEF Subscribe, JoinTopic, channel, pushes, PushTypes
      <4> QED
        BY <4>1, <4>2, <4>3 DEF TypeOK
    <3>2. CASE SubscribeConnected
      <4>1. RefTypes'
        BY <3>2, RejoinTypes DEF SubscribeConnected, JoinTopic, socket, rejoins, frames,
           channel, client, RefTypes
      <4>2. StateTypes'
        BY <3>2, RejoinTypes DEF SubscribeConnected, JoinTopic, socket, rejoins, channel,
           client, StateTypes, States, TaskNames
      <4>3. PushTypes'
        BY <3>2, RejoinTypes DEF SubscribeConnected, JoinTopic, channel, pushes, PushTypes
      <4> QED
        BY <4>1, <4>2, <4>3 DEF TypeOK
    <3>3. CASE Unsubscribe
      <4>1. RefTypes'
        BY <3>3, LeaveTypes DEF Unsubscribe, socket, rejoins, frames, channel, client, RefTypes
      <4>2. StateTypes'
        BY <3>3, LeaveTypes DEF Unsubscribe, socket, rejoins, channel, client, StateTypes,
           States, TaskNames
      <4>3. PushTypes'
        BY <3>3, LeaveTypes DEF Unsubscribe, channel, pushes, PushTypes
      <4> QED
        BY <4>1, <4>2, <4>3 DEF TypeOK
    <3>4. CASE OnPresence
      <4>1. RefTypes'
        BY <3>4 DEF OnPresence, socket, rejoins, frames, channel, client, RefTypes
      <4>2. StateTypes'
        BY <3>4 DEF OnPresence, socket, rejoins, channel, client, StateTypes, States, TaskNames
      <4>3. PushTypes'
        BY <3>4 DEF OnPresence, channel, pushes, PushTypes
      <4> QED
        BY <4>1, <4>2, <4>3 DEF TypeOK
    <3>5. CASE Resubscribe
      <4>1. RefTypes'
        BY <3>5, LeaveTypes DEF Resubscribe, socket, rejoins, frames, channel, client, RefTypes
      <4>2. StateTypes'
        BY <3>5, LeaveTypes DEF Resubscribe, socket, rejoins, channel, client, StateTypes,
           States, TaskNames
      <4>3. PushTypes'
        BY <3>5, LeaveTypes DEF Resubscribe, channel, pushes, PushTypes
      <4> QED
        BY <4>1, <4>2, <4>3 DEF TypeOK
    <3>6. CASE RemoveChannel
      <4>1. RefTypes'
        BY <3>6, LeaveTypes DEF RemoveChannel, Unregister, CancelOwn, socket, rejoins, frames,
           channel, client, RefTypes
      <4>2. StateTypes'
        BY <3>6, LeaveTypes, CancelOwnTypes DEF RemoveChannel, Unregister, socket, rejoins,
           channel, client, StateTypes, States, TaskNames
      <4>3. PushTypes'
        BY <3>6, LeaveTypes DEF RemoveChannel, Unregister, CancelOwn, channel, pushes, PushTypes
      <4> QED
        BY <4>1, <4>2, <4>3 DEF TypeOK
    <3>7. CASE RemoveSuspended
      <4>1. RefTypes'
        BY <3>7, LeaveTypes DEF RemoveSuspended, socket, rejoins, frames, channel, client, RefTypes
      <4>2. StateTypes'
        BY <3>7, LeaveTypes DEF RemoveSuspended, socket, rejoins, channel, client, StateTypes,
           States, TaskNames
      <4>3. PushTypes'
        BY <3>7, LeaveTypes DEF RemoveSuspended, channel, pushes, PushTypes
      <4> QED
        BY <4>1, <4>2, <4>3 DEF TypeOK
    <3>8. CASE RemoveResumed
      <4>1. RefTypes'
        BY <3>8 DEF RemoveResumed, Unregister, CancelOwn, socket, rejoins, frames, channel,
           client, RefTypes
      <4>2. StateTypes'
        BY <3>8, CancelOwnTypes DEF RemoveResumed, Unregister, socket, rejoins, channel,
           client, StateTypes, States, TaskNames
      <4>3. PushTypes'
        BY <3>8 DEF RemoveResumed, Unregister, CancelOwn, channel, pushes, PushTypes
      <4> QED
        BY <4>1, <4>2, <4>3 DEF TypeOK
    <3>9. CASE \E p \in Pushes : Push(p)
      <4> PICK p \in Pushes : Push(p)
        BY <3>9
      <4>1. RefTypes'
        <5>1. CASE ws # "none"
          <6>1. SendPush(p, FALSE) /\ UNCHANGED join
            BY <5>1 DEF Push
          <6>2. p \in Pushes \union {Join, Leave} /\ FALSE \in BOOLEAN
            OBVIOUS
          <6>3. /\ lastRef' = lastRef + 1 /\ lastRef' \in 1..MaxRef
                /\ sendBuffer' \subseteq 1..lastRef'
                /\ wire' \subseteq 1..lastRef'
                /\ waiting' \subseteq (1..lastRef') \X (Pushes \union {Join, Leave})
            BY <6>1, <6>2, SendPushRefs
          <6>4. lastRef' \in 0..MaxRef /\ 0..lastRef \subseteq 0..lastRef'
            BY <6>3, BoundAssumption DEF RefTypes
          <6> QED
            BY <6>1, <6>3, <6>4 DEF RefTypes
        <5>2. CASE ws = "none"
          BY <5>2 DEF Push, frames, RefTypes
        <5> QED
          BY <5>1, <5>2
      <4>2. StateTypes'
        BY DEF Push, socket, rejoins, StateTypes
      <4>3. PushTypes'
        <5>1. sends[p] \in Nat
          BY DEF PushTypes
        <5>2. sends' = sends \/ sends' = [sends EXCEPT ![p] = sends[p] + 1]
          BY DEF Push
        <5>3. sends' \in [Pushes -> Nat]
          BY <5>1, <5>2 DEF PushTypes
        <5> QED
          BY <5>3 DEF Push, PushTypes
      <4> QED
        BY <4>1, <4>2, <4>3 DEF TypeOK
    <3> QED
      BY <2>1, <3>1, <3>2, <3>3, <3>4, <3>5, <3>6, <3>7, <3>8, <3>9 DEF Application
  <2>2. CASE Server
    <3>1. CASE \E r \in Refs : ReplyDropped(r)
      <4>1. RefTypes'
        BY <3>1 DEF ReplyDropped, socket, rejoins, frames, channel, client, RefTypes
      <4>2. StateTypes'
        BY <3>1 DEF ReplyDropped, socket, rejoins, channel, client, StateTypes, States, TaskNames
      <4>3. PushTypes'
        BY <3>1 DEF ReplyDropped, channel, pushes, PushTypes
      <4> QED
        BY <4>1, <4>2, <4>3 DEF TypeOK
    <3>2. CASE \E r \in Refs, matched \in BOOLEAN : JoinOk(r, matched)
      <4>1. RefTypes'
        BY <3>2 DEF JoinOk, Answers, FlushBuffer, socket, rejoins, frames, channel, client, RefTypes
      <4>2. StateTypes'
        BY <3>2 DEF JoinOk, Answers, FlushBuffer, socket, rejoins, channel, client, StateTypes,
           States, TaskNames
      <4>3. PushTypes'
        BY <3>2 DEF JoinOk, Answers, FlushBuffer, channel, pushes, PushTypes
      <4> QED
        BY <4>1, <4>2, <4>3 DEF TypeOK
    <3>3. CASE \E r \in Refs : JoinRefused(r)
      <4>1. RefTypes'
        BY <3>3 DEF JoinRefused, Answers, socket, rejoins, frames, channel, client, RefTypes
      <4>2. StateTypes'
        BY <3>3 DEF JoinRefused, Answers, socket, rejoins, channel, client, StateTypes, States,
           TaskNames
      <4>3. PushTypes'
        BY <3>3 DEF JoinRefused, Answers, channel, pushes, PushTypes
      <4> QED
        BY <4>1, <4>2, <4>3 DEF TypeOK
    <3>4. CASE \E r \in Refs : LeaveAnswered(r)
      <4>1. RefTypes'
        BY <3>4 DEF LeaveAnswered, Answers, CloseChannel, socket, rejoins, frames, channel,
           client, RefTypes
      <4>2. StateTypes'
        BY <3>4 DEF LeaveAnswered, Answers, CloseChannel, socket, rejoins, channel, client,
           StateTypes, States, TaskNames
      <4>3. PushTypes'
        BY <3>4 DEF LeaveAnswered, Answers, CloseChannel, channel, pushes, PushTypes
      <4> QED
        BY <4>1, <4>2, <4>3 DEF TypeOK
    <3>5. CASE \E r \in Refs, p \in Pushes : PushAnswered(r, p)
      <4>1. RefTypes'
        BY <3>5 DEF PushAnswered, Answers, socket, rejoins, frames, channel, client, RefTypes
      <4>2. StateTypes'
        BY <3>5 DEF PushAnswered, Answers, socket, rejoins, channel, client, StateTypes,
           States, TaskNames
      <4>3. PushTypes'
        BY <3>5 DEF PushAnswered, Answers, channel, pushes, PushTypes
      <4> QED
        BY <4>1, <4>2, <4>3 DEF TypeOK
    <3>6. CASE ServerError
      <4>1. RefTypes'
        BY <3>6 DEF ServerError, FailAndRetry, socket, rejoins, frames, channel, client, RefTypes
      <4>2. StateTypes'
        BY <3>6 DEF ServerError, FailAndRetry, socket, rejoins, channel, client, StateTypes,
           States, TaskNames
      <4>3. PushTypes'
        BY <3>6 DEF ServerError, FailAndRetry, channel, pushes, PushTypes
      <4> QED
        BY <4>1, <4>2, <4>3 DEF TypeOK
    <3>7. CASE ServerClose
      <4>1. RefTypes'
        BY <3>7 DEF ServerClose, CloseChannel, socket, rejoins, frames, channel, client, RefTypes
      <4>2. StateTypes'
        BY <3>7 DEF ServerClose, CloseChannel, socket, rejoins, channel, client, StateTypes,
           States, TaskNames
      <4>3. PushTypes'
        BY <3>7 DEF ServerClose, CloseChannel, channel, pushes, PushTypes
      <4> QED
        BY <4>1, <4>2, <4>3 DEF TypeOK
    <3> QED
      BY <2>2, <3>1, <3>2, <3>3, <3>4, <3>5, <3>6, <3>7 DEF Server
  <2>3. CASE Timers
    <3>1. CASE JoinTimeout
      <4>1. RefTypes'
        BY <3>1 DEF JoinTimeout, FailAndRetry, socket, rejoins, frames, channel, client, RefTypes
      <4>2. StateTypes'
        BY <3>1 DEF JoinTimeout, FailAndRetry, socket, rejoins, channel, client, StateTypes,
           States, TaskNames
      <4>3. PushTypes'
        BY <3>1 DEF JoinTimeout, FailAndRetry, channel, pushes, PushTypes
      <4> QED
        BY <4>1, <4>2, <4>3 DEF TypeOK
    <3>2. CASE \E r \in Refs : LeaveTimeout(r)
      <4>1. RefTypes'
        BY <3>2 DEF LeaveTimeout, socket, rejoins, frames, channel, client, RefTypes
      <4>2. StateTypes'
        BY <3>2 DEF LeaveTimeout, socket, rejoins, channel, client, StateTypes, States, TaskNames
      <4>3. PushTypes'
        BY <3>2 DEF LeaveTimeout, channel, pushes, PushTypes
      <4> QED
        BY <4>1, <4>2, <4>3 DEF TypeOK
    <3>3. CASE \E p \in Pushes : PushTimeout(p)
      <4>1. RefTypes'
        BY <3>3 DEF PushTimeout, TimeoutRuns, socket, rejoins, frames, channel, client, RefTypes
      <4>2. StateTypes'
        BY <3>3 DEF PushTimeout, TimeoutRuns, socket, rejoins, channel, client, StateTypes,
           States, TaskNames
      <4>3. PushTypes'
        BY <3>3 DEF PushTimeout, TimeoutRuns, channel, pushes, PushTypes
      <4> QED
        BY <4>1, <4>2, <4>3 DEF TypeOK
    <3>4. CASE \E p \in Pushes : FlushPush(p)
      <4> PICK p \in Pushes : FlushPush(p)
        BY <3>4
      <4>1. RefTypes'
        <5>1. CASE ~Expired(p)
          <6>1. SendPush(p, FALSE) /\ UNCHANGED join
            BY <5>1 DEF FlushPush
          <6>2. p \in Pushes \union {Join, Leave} /\ FALSE \in BOOLEAN
            OBVIOUS
          <6>3. /\ lastRef' = lastRef + 1 /\ lastRef' \in 1..MaxRef
                /\ sendBuffer' \subseteq 1..lastRef'
                /\ wire' \subseteq 1..lastRef'
                /\ waiting' \subseteq (1..lastRef') \X (Pushes \union {Join, Leave})
            BY <6>1, <6>2, SendPushRefs
          <6>4. lastRef' \in 0..MaxRef /\ 0..lastRef \subseteq 0..lastRef'
            BY <6>3, BoundAssumption DEF RefTypes
          <6> QED
            BY <6>1, <6>3, <6>4 DEF RefTypes
        <5>2. CASE Expired(p)
          BY <5>2 DEF FlushPush, frames, RefTypes
        <5> QED
          BY <5>1, <5>2
      <4>2. StateTypes'
        BY DEF FlushPush, socket, rejoins, channel, StateTypes
      <4>3. PushTypes'
        <5>1. sends[p] \in Nat
          BY DEF PushTypes
        <5>2. sends' = sends \/ sends' = [sends EXCEPT ![p] = sends[p] + 1]
          BY DEF FlushPush
        <5>3. sends' \in [Pushes -> Nat]
          BY <5>1, <5>2 DEF PushTypes
        <5> QED
          BY <5>3 DEF FlushPush, channel, PushTypes
      <4> QED
        BY <4>1, <4>2, <4>3 DEF TypeOK
    <3>5. CASE RejoinTimerFires
      <4>1. RefTypes'
        BY <3>5, RejoinTypes, FlagsAssumption DEF RejoinTimerFires, socket, rejoins, frames,
           channel, client, RefTypes
      <4>2. StateTypes'
        BY <3>5, RejoinTypes, FlagsAssumption DEF RejoinTimerFires, socket, rejoins, channel,
           client, StateTypes, States, TaskNames
      <4>3. PushTypes'
        BY <3>5, RejoinTypes, FlagsAssumption DEF RejoinTimerFires, channel, pushes, PushTypes
      <4> QED
        BY <4>1, <4>2, <4>3 DEF TypeOK
    <3>6. CASE \E w \in Reconnectors : RejoinTask(w)
      <4>1. RefTypes'
        BY <3>6, RejoinTypes DEF RejoinTask, RefTypes
      <4>2. StateTypes'
        BY <3>6, RejoinTypes DEF RejoinTask, socket, StateTypes
      <4>3. PushTypes'
        BY <3>6, RejoinTypes DEF RejoinTask, pushes, PushTypes
      <4> QED
        BY <4>1, <4>2, <4>3 DEF TypeOK
    <3>7. CASE \E w \in Reconnectors : RejoinSkipped(w)
      <4>1. RefTypes'
        BY <3>7 DEF RejoinSkipped, frames, RefTypes
      <4>2. StateTypes'
        BY <3>7 DEF RejoinSkipped, socket, channel, StateTypes
      <4>3. PushTypes'
        BY <3>7 DEF RejoinSkipped, channel, pushes, PushTypes
      <4> QED
        BY <4>1, <4>2, <4>3 DEF TypeOK
    <3> QED
      BY <2>3, <3>1, <3>2, <3>3, <3>4, <3>5, <3>6, <3>7 DEF Timers
  <2>4. CASE Connection
    <3>1. CASE SocketFails
      <4>1. RefTypes'
        BY <3>1 DEF SocketFails, StopReading, socket, rejoins, frames, channel, client, RefTypes
      <4>2. StateTypes'
        BY <3>1 DEF SocketFails, StopReading, socket, rejoins, channel, client, StateTypes,
           TaskNames
      <4>3. PushTypes'
        BY <3>1 DEF SocketFails, channel, pushes, PushTypes
      <4> QED
        BY <4>1, <4>2, <4>3 DEF TypeOK
    <3>2. CASE ConnectionLost
      <4>1. RefTypes'
        BY <3>2 DEF ConnectionLost, socket, rejoins, frames, channel, client, RefTypes
      <4>2. StateTypes'
        BY <3>2, ReconnectTypes DEF ConnectionLost, Reconnectors, socket, rejoins, channel,
           client, StateTypes, TaskNames
      <4>3. PushTypes'
        BY <3>2 DEF ConnectionLost, channel, pushes, PushTypes
      <4> QED
        BY <4>1, <4>2, <4>3 DEF TypeOK
    <3>3. CASE NormalClose
      <4>1. RefTypes'
        BY <3>3 DEF NormalClose, StopReading, socket, rejoins, frames, channel, client, RefTypes
      <4>2. StateTypes'
        BY <3>3 DEF NormalClose, StopReading, socket, rejoins, channel, client, StateTypes,
           TaskNames
      <4>3. PushTypes'
        BY <3>3 DEF NormalClose, channel, pushes, PushTypes
      <4> QED
        BY <4>1, <4>2, <4>3 DEF TypeOK
    <3>4. CASE \E t \in Senders : SendMetLoss(t)
      <4>1. RefTypes'
        BY <3>4 DEF SendMetLoss, socket, rejoins, frames, channel, client, RefTypes
      <4>2. StateTypes'
        BY <3>4, ReconnectTypes DEF SendMetLoss, Reconnectors, socket, rejoins, channel,
           client, StateTypes, TaskNames
      <4>3. PushTypes'
        BY <3>4 DEF SendMetLoss, channel, pushes, PushTypes
      <4> QED
        BY <4>1, <4>2, <4>3 DEF TypeOK
    <3>5. CASE \E t \in Senders : SenderReconnected(t)
      <4>1. RefTypes'
        BY <3>5 DEF SenderReconnected, OpenSocket, socket, rejoins, frames, channel, client,
           RefTypes
      <4>2. StateTypes'
        BY <3>5 DEF SenderReconnected, OpenSocket, Past, Reconnectors, socket, rejoins,
           channel, client, StateTypes, TaskNames
      <4>3. PushTypes'
        BY <3>5 DEF SenderReconnected, channel, pushes, PushTypes
      <4> QED
        BY <4>1, <4>2, <4>3 DEF TypeOK
    <3>6. CASE Connect
      <4>1. RefTypes'
        BY <3>6 DEF Connect, socket, rejoins, frames, channel, client, RefTypes
      <4>2. StateTypes'
        BY <3>6 DEF Connect, socket, rejoins, channel, client, StateTypes, TaskNames
      <4>3. PushTypes'
        BY <3>6 DEF Connect, channel, pushes, PushTypes
      <4> QED
        BY <4>1, <4>2, <4>3 DEF TypeOK
    <3>7. CASE UserConnected
      <4>1. RefTypes'
        BY <3>7 DEF UserConnected, OpenSocket, socket, rejoins, frames, channel, client, RefTypes
      <4>2. StateTypes'
        BY <3>7, CancelOwnTypes DEF UserConnected, OpenSocket, socket, rejoins, channel,
           client, StateTypes, TaskNames
      <4>3. PushTypes'
        BY <3>7 DEF UserConnected, channel, pushes, PushTypes
      <4> QED
        BY <4>1, <4>2, <4>3 DEF TypeOK
    <3>8. CASE Reconnected
      <4>1. RefTypes'
        BY <3>8 DEF Reconnected, OpenSocket, socket, rejoins, frames, channel, client, RefTypes
      <4>2. StateTypes'
        BY <3>8, CancelOwnTypes DEF Reconnected, OpenSocket, Past, socket, rejoins, channel,
           client, StateTypes, TaskNames
      <4>3. PushTypes'
        BY <3>8 DEF Reconnected, channel, pushes, PushTypes
      <4> QED
        BY <4>1, <4>2, <4>3 DEF TypeOK
    <3>9. CASE ReconnectCut
      <4>1. RefTypes'
        BY <3>9 DEF ReconnectCut, socket, rejoins, frames, channel, client, RefTypes
      <4>2. StateTypes'
        BY <3>9, CancelOwnTypes DEF ReconnectCut, socket, rejoins, channel, client, StateTypes,
           TaskNames
      <4>3. PushTypes'
        BY <3>9 DEF ReconnectCut, channel, pushes, PushTypes
      <4> QED
        BY <4>1, <4>2, <4>3 DEF TypeOK
    <3>10. CASE UserConnectFailed
      <4>1. RefTypes'
        BY <3>10 DEF UserConnectFailed, socket, rejoins, frames, channel, client, RefTypes
      <4>2. StateTypes'
        BY <3>10 DEF UserConnectFailed, socket, rejoins, channel, client, StateTypes, TaskNames
      <4>3. PushTypes'
        BY <3>10 DEF UserConnectFailed, channel, pushes, PushTypes
      <4> QED
        BY <4>1, <4>2, <4>3 DEF TypeOK
    <3>11. CASE \E w \in Reconnectors : ReconnectFailed(w)
      <4>1. RefTypes'
        BY <3>11 DEF ReconnectFailed, socket, rejoins, frames, channel, client, RefTypes
      <4>2. StateTypes'
        BY <3>11 DEF ReconnectFailed, socket, rejoins, channel, client, StateTypes, TaskNames
      <4>3. PushTypes'
        BY <3>11 DEF ReconnectFailed, channel, pushes, PushTypes
      <4> QED
        BY <4>1, <4>2, <4>3 DEF TypeOK
    <3>12. CASE Close
      <4>1. RefTypes'
        BY <3>12 DEF Close, StopReading, socket, rejoins, frames, channel, client, RefTypes
      <4>2. StateTypes'
        BY <3>12, CancelOwnTypes DEF Close, StopReading, socket, rejoins, channel, client,
           StateTypes, TaskNames
      <4>3. PushTypes'
        BY <3>12 DEF Close, channel, pushes, PushTypes
      <4> QED
        BY <4>1, <4>2, <4>3 DEF TypeOK
    <3> QED
      BY <2>4, <3>1, <3>2, <3>3, <3>4, <3>5, <3>6, <3>7, <3>8, <3>9, <3>10, <3>11, <3>12
      DEF Connection
  <2>5. CASE UNCHANGED vars
    BY <2>5 DEF vars, socket, rejoins, frames, client, channel, pushes, RefTypes, StateTypes,
       PushTypes
  <2> QED
    BY <2>1, <2>2, <2>3, <2>4, <2>5 DEF Next
<1> QED
  BY <1>1, <1>2, PTL DEF Spec


-----------------------------------------------------------------------------
(* Who is to rejoin the channel                                             *)

(* The client's own reconnect is in connect() only while nothing is read,   *)
(* so no frame can close a channel it is to rejoin; a closed channel is on  *)
(* no list of it.                                                           *)
RejoinOwned ==
  /\ reconnects["listen"] \in {"connects", "due"} => read = "no"
  /\ state = "closed" /\ joinedOnce =>
       ~registered /\ reconnects["listen"] \notin {"due", "rejoins"}

(* A step in which the client's own reconnect comes no nearer to rejoining  *)
(* the channel, which does not close.                                       *)
LEMMA OwnedUntouched ==
  ASSUME RejoinOwned, reconnects'["listen"] \in {"no", reconnects["listen"]},
         read' = read \/ read' = "no", registered' => registered,
         state' # "closed" \/ (UNCHANGED <<state, joinedOnce>>) \/ ~joinedOnce'
  PROVE  RejoinOwned'
  BY DEF RejoinOwned

(* What becomes of it when it is cancelled, and that nobody forgets the     *)
(* channel on its list unnoticed.                                           *)
LEMMA OwnCancelled ==
  ASSUME StateTypes, CancelOwn
  PROVE  /\ reconnects'["listen"] \in {"no", reconnects["listen"]}
         /\ reconnects'["listen"] \notin {"connects", "due"}
         /\ \A w \in Reconnectors :
              reconnects[w] \in {"due", "rejoins"} =>
                dropped' \/ reconnects'[w] \in {"due", "rejoins"}
  BY DEF StateTypes, CancelOwn, Reconnectors

(* A step that gives the reconnect of one sender another stage.             *)
LEMMA SenderOnly ==
  ASSUME StateTypes, NEW t \in Senders, NEW stage, reconnects' = [reconnects EXCEPT ![t] = stage]
  PROVE  reconnects'["listen"] = reconnects["listen"] /\ reconnects'[t] = stage
  BY SendersAssumption DEF StateTypes, Reconnectors

LEMMA RejoinOwnedAlways == Spec => []RejoinOwned
<1>1. Init => RejoinOwned
  BY DEF Init, RejoinOwned, Reconnectors
<1>2. StateTypes /\ RejoinOwned /\ [Next]_vars => RejoinOwned'
  <2> SUFFICES ASSUME StateTypes, RejoinOwned, [Next]_vars PROVE RejoinOwned'
    OBVIOUS
  <2>1. CASE Application
    <3>1. CASE Subscribe \/ SubscribeConnected
      <4>1. UNCHANGED <<socket, rejoins, registered>>
        BY <3>1 DEF Subscribe, SubscribeConnected
      <4>2. state' # "closed" \/ (UNCHANGED <<state, joinedOnce>>)
        BY <3>1 DEF Subscribe, SubscribeConnected, JoinTopic, Rejoin
      <4> QED
        BY <4>1, <4>2, OwnedUntouched DEF socket, rejoins
    <3>2. CASE Unsubscribe \/ Resubscribe \/ RemoveSuspended
      <4>1. UNCHANGED <<read, reconnects, registered>>
        BY <3>2 DEF Unsubscribe, Resubscribe, RemoveSuspended, socket, rejoins
      <4>2. state' = "leaving"
        BY <3>2 DEF Unsubscribe, Resubscribe, RemoveSuspended, LeaveTopic
      <4> QED
        BY <4>1, <4>2, OwnedUntouched
    <3>3. CASE RemoveChannel \/ RemoveResumed
      <4>1. state' = "leaving" \/ (UNCHANGED <<state, joinedOnce>>)
        BY <3>3 DEF RemoveChannel, RemoveResumed, LeaveTopic
      <4>2. Unregister \/ UNCHANGED <<registered, ws, read, acked, rejoins>>
        BY <3>3 DEF RemoveChannel, RemoveResumed
      <4>3. /\ read' = read \/ read' = "no"
            /\ registered' => registered
            /\ rejoins' = rejoins \/ CancelOwn
        BY <4>2 DEF Unregister
      <4>4. reconnects'["listen"] \in {"no", reconnects["listen"]}
        BY <4>3, OwnCancelled DEF rejoins
      <4> QED
        BY <4>1, <4>3, <4>4, OwnedUntouched
    <3>4. CASE OnPresence \/ \E p \in Pushes : Push(p)
      <4>1. UNCHANGED <<read, reconnects, registered, state, joinedOnce>>
        BY <3>4 DEF OnPresence, Push, client, channel, socket, rejoins
      <4> QED
        BY <4>1, OwnedUntouched
    <3> QED
      BY <2>1, <3>1, <3>2, <3>3, <3>4 DEF Application
  <2>2. CASE Server
    <3>1. CASE ServerClose \/ \E r \in Refs : LeaveAnswered(r)
      <4>1. read = "open" /\ reconnects["listen"] # "rejoins"
        BY <3>1 DEF ServerClose, LeaveAnswered, Answers, Listening, Turn
      <4>2. registered' = FALSE /\ UNCHANGED <<read, reconnects>>
        BY <3>1 DEF ServerClose, LeaveAnswered, CloseChannel, socket, rejoins
      <4> QED
        BY <4>1, <4>2 DEF RejoinOwned
    <3>2. CASE ServerError \/ \E r \in Refs : \/ \E matched \in BOOLEAN : JoinOk(r, matched)
                                              \/ ReplyDropped(r) \/ JoinRefused(r)
                                              \/ \E p \in Pushes : PushAnswered(r, p)
      <4>1. UNCHANGED <<read, reconnects, registered>>
        BY <3>2 DEF ServerError, JoinOk, ReplyDropped, JoinRefused, PushAnswered, client,
           socket, rejoins
      <4>2. state' # "closed" \/ (UNCHANGED <<state, joinedOnce>>)
        BY <3>2 DEF ServerError, FailAndRetry, JoinOk, ReplyDropped, JoinRefused, PushAnswered,
           channel
      <4> QED
        BY <4>1, <4>2, OwnedUntouched
    <3> QED
      BY <2>2, <3>1, <3>2 DEF Server
  <2>3. CASE Timers
    <3>1. CASE RejoinTimerFires
      <4>1. UNCHANGED <<read, reconnects, registered>> /\ state' \in {"joining", "leaving"}
        BY <3>1 DEF RejoinTimerFires, Rejoin, socket
      <4> QED
        BY <4>1, OwnedUntouched
    <3>2. CASE \E w \in Reconnectors : RejoinTask(w) \/ RejoinSkipped(w)
      <4> PICK w \in Reconnectors : RejoinTask(w) \/ RejoinSkipped(w)
        BY <3>2
      <4>1. reconnects' = [reconnects EXCEPT ![w] = "no"] /\ UNCHANGED <<read, registered>>
        BY DEF RejoinTask, RejoinSkipped, socket
      <4>2. reconnects'["listen"] \in {"no", reconnects["listen"]}
        BY <4>1 DEF StateTypes, Reconnectors
      <4>3. state' \in {"joining", "leaving"} \/ (UNCHANGED <<state, joinedOnce>>)
        BY DEF RejoinTask, RejoinSkipped, Rejoin, channel
      <4> QED
        BY <4>1, <4>2, <4>3, OwnedUntouched
    <3>3. CASE JoinTimeout \/ (\E r \in Refs : LeaveTimeout(r))
                 \/ \E p \in Pushes : PushTimeout(p) \/ FlushPush(p)
      <4>1. UNCHANGED <<read, reconnects, registered, joinedOnce>>
        BY <3>3 DEF JoinTimeout, LeaveTimeout, PushTimeout, TimeoutRuns, FlushPush, client,
           channel, socket, rejoins
      <4>2. state' = "errored" \/ UNCHANGED state
        BY <3>3 DEF JoinTimeout, FailAndRetry, LeaveTimeout, PushTimeout, TimeoutRuns,
           FlushPush, channel
      <4> QED
        BY <4>1, <4>2, OwnedUntouched
    <3> QED
      BY <2>3, <3>1, <3>2, <3>3 DEF Timers
  <2>4. CASE Connection
    <3>1. CASE SocketFails \/ NormalClose
      BY <3>1, OwnedUntouched DEF SocketFails, NormalClose, Listening, StopReading, rejoins,
         channel,
                                  RejoinOwned
    <3>2. CASE ConnectionLost
      <4>1. read' = "no" /\ UNCHANGED <<registered, joinedOnce>>
        BY <3>2 DEF ConnectionLost
      <4>2. CASE AutoReconnect
        <5>1. Reconnect("listen")
          BY <3>2, <4>2 DEF ConnectionLost
        <5>2. CASE registered /\ state \in {"joined", "joining"}
          BY <4>1, <5>1, <5>2 DEF Reconnect, RejoinOwned
        <5>3. CASE ~(registered /\ state \in {"joined", "joining"})
          BY <4>1, <5>1, <5>3 DEF Reconnect, RejoinOwned, StateTypes, Reconnectors
        <5> QED
          BY <5>2, <5>3
      <4>3. CASE ~AutoReconnect
        BY <3>2, <4>1, <4>3, OwnedUntouched DEF ConnectionLost, rejoins
      <4> QED
        BY <4>2, <4>3
    <3>3. CASE \E t \in Senders : SendMetLoss(t)
      <4> PICK t \in Senders : SendMetLoss(t)
        BY <3>3
      <4>1. reconnects'["listen"] = reconnects["listen"]
        BY SenderOnly DEF SendMetLoss, Reconnect
      <4>2. UNCHANGED <<read, registered, joinedOnce>> /\ state' \in {"errored", state}
        BY DEF SendMetLoss, Reconnect
      <4> QED
        BY <4>1, <4>2, OwnedUntouched
    <3>4. CASE \E t \in Senders : SenderReconnected(t)
      <4> PICK t \in Senders : SenderReconnected(t)
        BY <3>4
      <4>1. reconnects'["listen"] = IF reconnects["listen"] = "rejoins" THEN "rejoins" ELSE "no"
        BY SendersAssumption DEF SenderReconnected, Reconnectors
      <4>2. UNCHANGED <<registered, state, joinedOnce>>
        BY DEF SenderReconnected, channel
      <4> QED
        BY <4>1, <4>2 DEF RejoinOwned
    <3>5. CASE UserConnected \/ ReconnectCut \/ Close
      <4>1. CancelOwn /\ UNCHANGED <<registered, state, joinedOnce>>
        BY <3>5 DEF UserConnected, ReconnectCut, Close, channel
      <4> QED
        BY <4>1, OwnCancelled DEF RejoinOwned
    <3>6. CASE Reconnected
      <4>1. UNCHANGED <<registered, state, joinedOnce>>
        BY <3>6 DEF Reconnected, channel
      <4>2. CASE CancelOwn
        BY <4>1, <4>2, OwnCancelled DEF RejoinOwned
      <4>3. CASE reconnects' = [reconnects EXCEPT !["listen"] = Past(@)]
        <5>1. reconnects'["listen"] = Past(reconnects["listen"])
          BY <4>3 DEF StateTypes, Reconnectors
        <5> QED
          BY <4>1, <5>1 DEF Past, RejoinOwned
      <4> QED
        BY <3>6, <4>2, <4>3 DEF Reconnected
    <3>7. CASE \E w \in Reconnectors : ReconnectFailed(w)
      <4> PICK w \in Reconnectors : ReconnectFailed(w)
        BY <3>7
      <4>1. reconnects'["listen"] \in {"no", reconnects["listen"]}
        BY DEF ReconnectFailed, StateTypes, Reconnectors
      <4> QED
        BY <4>1, OwnedUntouched DEF ReconnectFailed, socket, channel
    <3>8. CASE Connect \/ UserConnectFailed
      BY <3>8, OwnedUntouched DEF Connect, UserConnectFailed, socket, rejoins, channel
    <3> QED
      BY <2>4, <3>1, <3>2, <3>3, <3>4, <3>5, <3>6, <3>7, <3>8 DEF Connection
  <2>5. CASE UNCHANGED vars
    BY <2>5, OwnedUntouched DEF vars, client, channel, socket, rejoins
  <2> QED
    BY <2>1, <2>2, <2>3, <2>4, <2>5 DEF Next
<1> QED
  BY <1>1, <1>2, TypeCorrect, PTL DEF Spec, TypeOK

-----------------------------------------------------------------------------
(* The rejoin timer and the channels in ERRORED                             *)

(* No rejoin timer runs for a channel that is joined, leaving or closed:    *)
(* every way into these states stops it, and it is armed only on failure.   *)
THEOREM TimerIdleAlways == Spec => []TimerIdle
<1>1. Init => TimerIdle
  BY DEF Init, TimerIdle
<1>2. TimerIdle /\ [Next]_vars => TimerIdle'
  <2> SUFFICES ASSUME TimerIdle, [Next]_vars PROVE TimerIdle'
    OBVIOUS
  <2>1. CASE Application
    BY <2>1 DEF TimerIdle, Application, Subscribe, SubscribeConnected, JoinTopic, Rejoin,
       Unsubscribe,
           OnPresence, Resubscribe, RemoveChannel, RemoveSuspended, RemoveResumed, Push,
           LeaveTopic, channel
  <2>2. CASE Server
    BY <2>2 DEF TimerIdle, Server, ReplyDropped, JoinOk, JoinRefused, LeaveAnswered, PushAnswered,
           ServerError, ServerClose, CloseChannel, FailAndRetry, channel
  <2>3. CASE Timers
    BY <2>3 DEF TimerIdle, Timers, JoinTimeout, LeaveTimeout, PushTimeout, TimeoutRuns, FlushPush,
           RejoinTimerFires, RejoinTask, RejoinSkipped, Rejoin, FailAndRetry, channel
  <2>4. CASE Connection
    BY <2>4 DEF TimerIdle, Connection, SocketFails, ConnectionLost, NormalClose, SendMetLoss,
       Reconnect, Connect,
           UserConnected, Reconnected, SenderReconnected, ReconnectCut, UserConnectFailed,
           ReconnectFailed, Close, channel
  <2>5. CASE UNCHANGED vars
    BY <2>5 DEF TimerIdle, vars, client, channel, pushes
  <2> QED
    BY <2>1, <2>2, <2>3, <2>4, <2>5 DEF Next
<1> QED
  BY <1>1, <1>2, PTL DEF Spec

(* A reconnect that begins lists the channel it marks, and one that is      *)
(* already in ERRORED keeps whoever is to bring it back.                    *)
LEMMA ReconnectLists ==
  ASSUME StateTypes, NoStrandedError, NEW w \in Reconnectors, reconnects[w] = "no",
         Reconnect(w), UNCHANGED rejoinTimer
  PROVE  NoStrandedError'
<1>1. CASE registered /\ state \in {"joined", "joining"}
  <2>1. reconnects'[w] = "due"
    BY <1>1 DEF Reconnect, StateTypes
  <2> QED
    BY <2>1 DEF NoStrandedError
<1>2. CASE ~(registered /\ state \in {"joined", "joining"})
  <2>1. state' = state /\ dropped' = dropped
    BY <1>2 DEF Reconnect, StateTypes
  <2>2. \A v \in Reconnectors \ {w} : reconnects'[v] = reconnects[v]
    BY DEF Reconnect, StateTypes
  <2> QED
    BY <2>1, <2>2 DEF NoStrandedError
<1> QED
  BY <1>1, <1>2

(* A step in which every reconnect that is to rejoin the channel stays so,  *)
(* or its end is noticed.                                                   *)
LEMMA StillListed ==
  ASSUME NoStrandedError, UNCHANGED <<state, rejoinTimer>>, dropped => dropped',
         \A w \in Reconnectors : reconnects[w] \in {"due", "rejoins"} =>
           dropped' \/ reconnects'[w] \in {"due", "rejoins"}
  PROVE  NoStrandedError'
  BY DEF NoStrandedError

(* A channel in ERRORED has a rejoin timer, or a reconnect that is to       *)
(* rejoin it, or lost that reconnect.                                       *)
THEOREM NoStrandedErrorAlways == Spec => []NoStrandedError
<1>1. Init => NoStrandedError
  BY DEF Init, NoStrandedError
<1>2. StateTypes /\ RejoinOwned /\ NoStrandedError /\ [Next]_vars => NoStrandedError'
  <2> SUFFICES ASSUME StateTypes, RejoinOwned, NoStrandedError, [Next]_vars PROVE NoStrandedError'
    OBVIOUS
  <2>1. CASE Application
    <3>1. CASE RemoveResumed
      <4>1. rejoins' = rejoins \/ CancelOwn
        BY <3>1 DEF RemoveResumed, Unregister
      <4>2. UNCHANGED <<state, rejoinTimer>>
        BY <3>1 DEF RemoveResumed
      <4>3. dropped => dropped'
        BY <4>1 DEF rejoins, CancelOwn
      <4>4. CASE rejoins' = rejoins
        BY <4>2, <4>4 DEF rejoins, NoStrandedError
      <4>5. CASE CancelOwn
        BY <4>2, <4>3, <4>5, OwnCancelled, StillListed
      <4> QED
        BY <4>1, <4>4, <4>5
    <3>2. CASE Subscribe \/ SubscribeConnected \/ OnPresence \/ \E p \in Pushes : Push(p)
      <4>1. UNCHANGED rejoins
        BY <3>2 DEF Subscribe, SubscribeConnected, OnPresence, Push, client
      <4>2. state' = "joining" \/ (UNCHANGED <<state, rejoinTimer>>)
        BY <3>2 DEF Subscribe, SubscribeConnected, JoinTopic, Rejoin, OnPresence, Push, channel
      <4> QED
        BY <4>1, <4>2 DEF rejoins, NoStrandedError
    <3>3. CASE Unsubscribe \/ Resubscribe \/ RemoveChannel \/ RemoveSuspended
      BY <3>3 DEF Unsubscribe, Resubscribe, RemoveChannel, RemoveSuspended, LeaveTopic,
         NoStrandedError
    <3> QED
      BY <2>1, <3>1, <3>2, <3>3 DEF Application
  <2>2. CASE Server
    BY <2>2 DEF NoStrandedError, Server, ReplyDropped, JoinOk, JoinRefused, LeaveAnswered,
       PushAnswered,
           ServerError, ServerClose, CloseChannel, FailAndRetry, client, rejoins, channel
  <2>3. CASE Timers
    <3>1. CASE RejoinTimerFires \/ \E w \in Reconnectors : RejoinTask(w)
      BY <3>1 DEF RejoinTimerFires, RejoinTask, Rejoin, NoStrandedError
    <3>2. CASE \E w \in Reconnectors : RejoinSkipped(w)
      BY <3>2 DEF RejoinSkipped, NoStrandedError
    <3>3. CASE JoinTimeout \/ (\E r \in Refs : LeaveTimeout(r))
                 \/ \E p \in Pushes : PushTimeout(p) \/ FlushPush(p)
      BY <3>3 DEF JoinTimeout, FailAndRetry, LeaveTimeout, PushTimeout, TimeoutRuns, FlushPush,
                  NoStrandedError, client, rejoins, channel
    <3> QED
      BY <2>3, <3>1, <3>2, <3>3 DEF Timers
  <2>4. CASE Connection
    <3>1. CASE SocketFails \/ NormalClose \/ Connect \/ UserConnectFailed
      BY <3>1 DEF SocketFails, NormalClose, Connect, UserConnectFailed, rejoins, channel,
                  NoStrandedError
    <3>2. CASE ConnectionLost
      <4>1. reconnects["listen"] = "no" /\ "listen" \in Reconnectors
        BY <3>2 DEF ConnectionLost, Turn, RejoinOwned, StateTypes, Reconnectors
      <4>2. UNCHANGED rejoinTimer
        BY <3>2 DEF ConnectionLost
      <4>3. Reconnect("listen") \/ UNCHANGED <<state, rejoins>>
        BY <3>2 DEF ConnectionLost
      <4> QED
        BY <4>1, <4>2, <4>3, ReconnectLists DEF rejoins, NoStrandedError
    <3>3. CASE \E t \in Senders : SendMetLoss(t)
      BY <3>3, ReconnectLists DEF SendMetLoss, Reconnectors
    <3>4. CASE \E t \in Senders : SenderReconnected(t)
      <4> PICK t \in Senders : SenderReconnected(t)
        BY <3>4
      <4>1. \A w \in Reconnectors : reconnects[w] \in {"due", "rejoins"} =>
              dropped' \/ reconnects'[w] \in {"due", "rejoins"}
        BY DEF SenderReconnected, Past
      <4> QED
        BY <4>1, StillListed DEF SenderReconnected, channel
    <3>5. CASE UserConnected \/ ReconnectCut \/ Close
      <4>1. CancelOwn /\ UNCHANGED <<state, rejoinTimer>>
        BY <3>5 DEF UserConnected, ReconnectCut, Close, channel
      <4>2. dropped => dropped'
        BY <4>1 DEF CancelOwn
      <4> QED
        BY <4>1, <4>2, OwnCancelled, StillListed
    <3>6. CASE Reconnected
      <4>1. UNCHANGED <<state, rejoinTimer>>
        BY <3>6 DEF Reconnected, channel
      <4>2. CASE CancelOwn
        <5>1. dropped => dropped'
          BY <4>2 DEF CancelOwn
        <5> QED
          BY <4>1, <4>2, <5>1, OwnCancelled, StillListed
      <4>3. CASE reconnects' = [reconnects EXCEPT !["listen"] = Past(@)] /\ UNCHANGED dropped
        <5>1. \A w \in Reconnectors : reconnects[w] \in {"due", "rejoins"} =>
                dropped' \/ reconnects'[w] \in {"due", "rejoins"}
          BY <3>6, <4>3 DEF Reconnected, Past, StateTypes
        <5> QED
          BY <4>1, <4>3, <5>1, StillListed
      <4> QED
        BY <3>6, <4>2, <4>3 DEF Reconnected
    <3>7. CASE \E w \in Reconnectors : ReconnectFailed(w)
      <4> PICK w \in Reconnectors : ReconnectFailed(w)
        BY <3>7
      <4>1. \A v \in Reconnectors : reconnects[v] \in {"due", "rejoins"} =>
              dropped' \/ reconnects'[v] \in {"due", "rejoins"}
        BY DEF ReconnectFailed, StateTypes
      <4> QED
        BY <4>1, StillListed DEF ReconnectFailed, channel
    <3> QED
      BY <2>4, <3>1, <3>2, <3>3, <3>4, <3>5, <3>6, <3>7 DEF Connection
  <2>5. CASE UNCHANGED vars
    BY <2>5 DEF NoStrandedError, vars, client, rejoins, channel
  <2> QED
    BY <2>1, <2>2, <2>3, <2>4, <2>5 DEF Next
<1> QED
  BY <1>1, <1>2, TypeCorrect, RejoinOwnedAlways, PTL DEF Spec, TypeOK

-----------------------------------------------------------------------------
(* The join push                                                            *)

(* A join that is sent again waits for its reply under its new ref.         *)
LEMMA RejoinAnswerable ==
  ASSUME JoinCanBeAnswered, NEW cut, Rejoin(cut)
  PROVE  JoinCanBeAnswered'
<1>1. CASE state = "leaving"
  BY <1>1 DEF Rejoin, JoinCanBeAnswered
<1>2. CASE state # "leaving"
  <2>1. join'.ref = lastRef + 1
    BY <1>2 DEF Rejoin, Resend
  <2>2. waiting' = waiting \union {<<lastRef + 1, Join>>}
    BY <1>2 DEF Rejoin, SendPush, AwaitReply
  <2> QED
    BY <2>1, <2>2 DEF JoinCanBeAnswered
<1> QED
  BY <1>1, <1>2

(* A step that leaves channel and join push alone and takes no ref of the   *)
(* join push out of the waiting ones.                                       *)
LEMMA StillAnswerable ==
  ASSUME JoinCanBeAnswered, UNCHANGED <<state, join>>,
         \A r : <<r, Join>> \in waiting => <<r, Join>> \in waiting'
  PROVE  JoinCanBeAnswered'
  BY DEF JoinCanBeAnswered

(* While a join is unanswered its ref is among the waiting ones: what takes *)
(* refs out (replies, the timeouts of other pushes) takes other refs, or    *)
(* answers the join.                                                        *)
THEOREM JoinCanBeAnsweredAlways == Spec => []JoinCanBeAnswered
<1>1. Init => JoinCanBeAnswered
  BY DEF Init, JoinCanBeAnswered
<1>2. TypeOK /\ JoinCanBeAnswered /\ [Next]_vars => JoinCanBeAnswered'
  <2> SUFFICES ASSUME TypeOK, JoinCanBeAnswered, [Next]_vars PROVE JoinCanBeAnswered'
    OBVIOUS
  <2>1. CASE Application
    <3>1. CASE Subscribe \/ SubscribeConnected
      <4>1. Rejoin(FALSE) \/ UNCHANGED <<state, join, waiting>>
        BY <3>1 DEF Subscribe, SubscribeConnected, JoinTopic
      <4> QED
        BY <4>1, RejoinAnswerable, StillAnswerable
    <3>2. CASE Unsubscribe \/ Resubscribe \/ RemoveChannel \/ RemoveSuspended
      BY <3>2 DEF Unsubscribe, Resubscribe, RemoveChannel, RemoveSuspended, LeaveTopic,
                  JoinCanBeAnswered
    <3>3. CASE OnPresence \/ RemoveResumed
      BY <3>3, StillAnswerable DEF OnPresence, RemoveResumed, channel
    <3>4. CASE \E p \in Pushes : Push(p)
      BY <3>4, StillAnswerable DEF Push, SendPush, AwaitReply
    <3> QED
      BY <2>1, <3>1, <3>2, <3>3, <3>4 DEF Application
  <2>2. CASE Server
    <3>1. CASE \E r \in Refs, matched \in BOOLEAN : JoinOk(r, matched)
      BY <3>1 DEF JoinOk, JoinCanBeAnswered
    <3>2. CASE \E r \in Refs : JoinRefused(r)
      BY <3>2 DEF JoinRefused, JoinCanBeAnswered, TypeOK, RefTypes
    <3>3. CASE \E r \in Refs, p \in Pushes : PushAnswered(r, p)
      BY <3>3, StillAnswerable, PushesAssumption DEF PushAnswered, Answers, channel
    <3>4. CASE \E r \in Refs : ReplyDropped(r)
      BY <3>4, StillAnswerable DEF ReplyDropped, channel
    <3>5. CASE ServerError \/ ServerClose \/ \E r \in Refs : LeaveAnswered(r)
      BY <3>5 DEF ServerError, FailAndRetry, ServerClose, LeaveAnswered, CloseChannel,
                  JoinCanBeAnswered
    <3> QED
      BY <2>2, <3>1, <3>2, <3>3, <3>4, <3>5 DEF Server
  <2>3. CASE Timers
    <3>1. CASE JoinTimeout
      BY <3>1 DEF JoinTimeout, JoinCanBeAnswered, TypeOK, RefTypes
    <3>2. CASE \E r \in Refs : LeaveTimeout(r)
      BY <3>2, StillAnswerable, PushesAssumption DEF LeaveTimeout, channel
    <3>3. CASE \E p \in Pushes : PushTimeout(p)
      <4> PICK p \in Pushes : PushTimeout(p)
        BY <3>3
      <4>1. \A w \in waiting : w[2] = Join => w \in waiting'
        BY PushesAssumption DEF PushTimeout, TimeoutRuns
      <4>2. \A r : <<r, Join>> \in waiting => <<r, Join>> \in waiting'
        BY <4>1
      <4> QED
        BY <4>2, StillAnswerable DEF PushTimeout, TimeoutRuns, channel
    <3>4. CASE \E p \in Pushes : FlushPush(p)
      <4>1. waiting \subseteq waiting' /\ UNCHANGED <<state, join>>
        BY <3>4 DEF FlushPush, SendPush, AwaitReply, channel
      <4> QED
        BY <4>1, StillAnswerable
    <3>5. CASE RejoinTimerFires \/ \E w \in Reconnectors : RejoinTask(w)
      BY <3>5, RejoinAnswerable DEF RejoinTimerFires, RejoinTask
    <3>6. CASE \E w \in Reconnectors : RejoinSkipped(w)
      BY <3>6, StillAnswerable DEF RejoinSkipped, channel
    <3> QED
      BY <2>3, <3>1, <3>2, <3>3, <3>4, <3>5, <3>6 DEF Timers
  <2>4. CASE Connection
    BY <2>4 DEF JoinCanBeAnswered, Connection, SocketFails, ConnectionLost, NormalClose,
       SendMetLoss, Reconnect, Connect,
           UserConnected, Reconnected, SenderReconnected, ReconnectCut, UserConnectFailed,
           ReconnectFailed, Close, channel
  <2>5. CASE UNCHANGED vars
    BY <2>5 DEF JoinCanBeAnswered, vars, channel
  <2> QED
    BY <2>1, <2>2, <2>3, <2>4, <2>5 DEF Next
<1> QED
  BY <1>1, <1>2, TypeCorrect, PTL DEF Spec

-----------------------------------------------------------------------------
(* The application's pushes                                                 *)

(* Where a push is: not made; buffered or about to be sent by one task, but *)
(* not both, unsent and without an answer of the server; or sent once, and  *)
(* only then waiting for a reply.                                           *)
PushLedger ==
  \A p \in Pushes :
    /\ sends[p] \in {0, 1}
    /\ sends[p] = 0 => resp[p] \in {"unused", "none", "timeout"}
    /\ resp[p] = "unused" => sends[p] = 0 /\ p \notin pushBuffer \union flushing
    /\ p \in pushBuffer \union flushing => sends[p] = 0
    /\ p \notin pushBuffer \intersect flushing
    /\ \A r : <<r, p>> \in waiting => sends[p] = 1

(* The steps that do not touch the pushes take nothing but the refs of      *)
(* other pushes in and out of the waiting ones.                             *)
LEMMA LedgerUntouched ==
  ASSUME PushLedger, UNCHANGED <<resp, sends, flushing, pushBuffer>>,
         \A r, p : p \in Pushes /\ <<r, p>> \in waiting' => <<r, p>> \in waiting
  PROVE  PushLedger'
  BY DEF PushLedger

(* Sending the join push or a leave push.                                   *)
LEMMA OtherPushSent ==
  ASSUME NEW q \in {Join, Leave}, NEW cut, SendPush(q, cut)
  PROVE  \A r, p : p \in Pushes /\ <<r, p>> \in waiting' => <<r, p>> \in waiting
  BY PushesAssumption DEF SendPush, AwaitReply

(* Sending an application push that was never sent.                         *)
LEMMA PushSent ==
  ASSUME TypeOK, PushLedger, NEW p \in Pushes, NEW cut,
         SendPush(p, cut), sends' = [sends EXCEPT ![p] = @ + 1], sends[p] = 0
  PROVE  /\ sends'[p] = 1
         /\ \A o \in Pushes \ {p} : sends'[o] = sends[o]
         /\ \A r : \A o \in Pushes \ {p} : <<r, o>> \in waiting' => <<r, o>> \in waiting
  BY DEF SendPush, AwaitReply, TypeOK, PushTypes

LEMMA PushLedgerInit == Init => PushLedger
  BY DEF Init, PushLedger

LEMMA PushLedgerStep == TypeOK /\ PushLedger /\ [Next]_vars => PushLedger'
  <1> SUFFICES ASSUME TypeOK, PushLedger, [Next]_vars PROVE PushLedger'
    OBVIOUS
  <1>1. CASE Application
    <2>1. CASE Subscribe \/ SubscribeConnected
      <3>1. (\E cut : SendPush(Join, cut)) \/ UNCHANGED waiting
        BY <2>1 DEF Subscribe, SubscribeConnected, JoinTopic, Rejoin
      <3> QED
        BY <2>1, <3>1, OtherPushSent, LedgerUntouched DEF Subscribe, SubscribeConnected, pushes
    <2>2. CASE Unsubscribe \/ Resubscribe \/ RemoveChannel \/ RemoveSuspended
      <3>1. SendPush(Leave, FALSE)
        BY <2>2 DEF Unsubscribe, Resubscribe, RemoveChannel, RemoveSuspended, LeaveTopic
      <3> QED
        BY <2>2, <3>1, OtherPushSent, LedgerUntouched
        DEF Unsubscribe, Resubscribe, RemoveChannel, RemoveSuspended, pushes
    <2>3. CASE OnPresence \/ RemoveResumed
      BY <2>3, LedgerUntouched DEF OnPresence, RemoveResumed, channel, pushes
    <2>4. CASE \E p \in Pushes : Push(p)
      <3> PICK p \in Pushes : Push(p)
        BY <2>4
      <3>1. /\ resp[p] = "unused" /\ sends[p] = 0 /\ p \notin pushBuffer \union flushing
            /\ resp' = [resp EXCEPT ![p] = "none"] /\ flushing' = flushing
        BY DEF Push, PushLedger
      <3>2. resp'[p] = "none" /\ \A o \in Pushes \ {p} : resp'[o] = resp[o]
        BY <3>1 DEF TypeOK, PushTypes
      <3>3. CASE ws # "none"
        BY <3>1, <3>2, <3>3, PushSent DEF Push, PushLedger
      <3>4. CASE ws = "none"
        BY <3>1, <3>2, <3>4 DEF Push, PushLedger
      <3> QED
        BY <3>3, <3>4
    <2> QED
      BY <1>1, <2>1, <2>2, <2>3, <2>4 DEF Application
  <1>2. CASE Server
    <2>1. CASE \E r \in Refs, matched \in BOOLEAN : JoinOk(r, matched)
      BY <2>1 DEF JoinOk, Answers, FlushBuffer, PushLedger
    <2>2. CASE \E r \in Refs, p \in Pushes : PushAnswered(r, p)
      <3> PICK r \in Refs, p \in Pushes : PushAnswered(r, p)
        BY <2>2
      <3>1. sends[p] = 1 /\ waiting' \subseteq waiting
        BY DEF PushAnswered, Answers, PushLedger
      <3>2. /\ resp'[p] \in {"ok", "error"}
            /\ \A o \in Pushes \ {p} : resp'[o] = resp[o]
        BY DEF PushAnswered, TypeOK, PushTypes
      <3> QED
        BY <3>1, <3>2 DEF PushAnswered, PushLedger, channel
    <2>3. CASE ServerError \/ ServerClose \/ \E r \in Refs :
                 ReplyDropped(r) \/ JoinRefused(r) \/ LeaveAnswered(r)
      BY <2>3, LedgerUntouched
      DEF ServerError, ServerClose, ReplyDropped, JoinRefused, LeaveAnswered, Answers,
          channel, pushes
    <2> QED
      BY <1>2, <2>1, <2>2, <2>3 DEF Server
  <1>3. CASE Timers
    <2>1. CASE JoinTimeout \/ \E r \in Refs : LeaveTimeout(r)
      BY <2>1, LedgerUntouched DEF JoinTimeout, LeaveTimeout, channel, pushes
    <2>2. CASE \E p \in Pushes : PushTimeout(p)
      <3> PICK p \in Pushes : PushTimeout(p)
        BY <2>2
      <3>1. resp'[p] = "timeout" /\ \A o \in Pushes \ {p} : resp'[o] = resp[o]
        BY DEF PushTimeout, TimeoutRuns, TypeOK, PushTypes
      <3>2. waiting' \subseteq waiting
        BY DEF PushTimeout, TimeoutRuns
      <3> QED
        BY <3>1, <3>2 DEF PushTimeout, TimeoutRuns, PushLedger, channel
    <2>3. CASE \E p \in Pushes : FlushPush(p)
      <3> PICK p \in Pushes : FlushPush(p)
        BY <2>3
      <3>1. /\ flushing' = flushing \ {p} /\ sends[p] = 0 /\ p \notin pushBuffer
            /\ UNCHANGED <<resp, pushBuffer>> /\ resp[p] # "unused"
        BY DEF FlushPush, PushLedger, channel
      <3>2. CASE Expired(p)
        BY <3>1, <3>2 DEF FlushPush, PushLedger
      <3>3. CASE ~Expired(p)
        BY <3>1, <3>3, PushSent DEF FlushPush, PushLedger
      <3> QED
        BY <3>2, <3>3
    <2>4. CASE RejoinTimerFires \/ \E w \in Reconnectors : RejoinTask(w)
      <3>1. (\E cut : SendPush(Join, cut)) \/ UNCHANGED waiting
        BY <2>4 DEF RejoinTimerFires, RejoinTask, Rejoin
      <3> QED
        BY <2>4, <3>1, OtherPushSent, LedgerUntouched DEF RejoinTimerFires, RejoinTask, pushes
    <2>5. CASE \E w \in Reconnectors : RejoinSkipped(w)
      BY <2>5, LedgerUntouched DEF RejoinSkipped, channel, pushes
    <2> QED
      BY <1>3, <2>1, <2>2, <2>3, <2>4, <2>5 DEF Timers
  <1>4. CASE Connection
    BY <1>4, LedgerUntouched
    DEF Connection, SocketFails, ConnectionLost, NormalClose, SendMetLoss, Reconnect, Connect,
           UserConnected, Reconnected, SenderReconnected, ReconnectCut, UserConnectFailed,
           ReconnectFailed, Close, channel, pushes
  <1>5. CASE UNCHANGED vars
    BY <1>5, LedgerUntouched DEF vars, channel, pushes
  <1> QED
    BY <1>1, <1>2, <1>3, <1>4, <1>5 DEF Next

(* The pushes are where the ledger says they are.                           *)
LEMMA PushLedgerAlways == Spec => []PushLedger
  BY PushLedgerInit, PushLedgerStep, TypeCorrect, PTL DEF Spec

(* No push is given to the socket twice.                                    *)
THEOREM HandedOnceAlways == Spec => []HandedOnce
<1>1. PushLedger => HandedOnce
  BY DEF PushLedger, HandedOnce
<1> QED
  BY <1>1, PushLedgerAlways, PTL

(* Only push() and the tasks of on_join_push_ok give a push to the socket.  *)
LEMMA WhoSends ==
  [Next]_vars => UNCHANGED sends \/ \E p \in Pushes : Push(p) \/ FlushPush(p)
<1>1. Application => UNCHANGED sends \/ \E p \in Pushes : Push(p)
  BY DEF Application, Subscribe, SubscribeConnected, Unsubscribe, OnPresence, Resubscribe,
         RemoveChannel, RemoveSuspended, RemoveResumed, pushes
<1>2. Server => UNCHANGED sends
  BY DEF Server, ReplyDropped, JoinOk, JoinRefused, LeaveAnswered, PushAnswered, ServerError,
         ServerClose, pushes
<1>3. Timers => UNCHANGED sends \/ \E p \in Pushes : FlushPush(p)
  BY DEF Timers, JoinTimeout, LeaveTimeout, PushTimeout, TimeoutRuns, RejoinTimerFires,
     RejoinTask, RejoinSkipped, pushes
<1>4. Connection => UNCHANGED sends
  BY DEF Connection, SocketFails, ConnectionLost, NormalClose, SendMetLoss, Reconnect, Connect,
           UserConnected, Reconnected, SenderReconnected, ReconnectCut, UserConnectFailed,
           ReconnectFailed, Close, pushes
<1> QED
  BY <1>1, <1>2, <1>3, <1>4 DEF Next, vars, pushes

(* No push is sent after its Timeout.                                       *)
THEOREM ExpiredNotHandedAlways == Spec => ExpiredNotHanded
<1>1. ASSUME TypeOK, PushLedger, [Next]_vars, NEW p \in Pushes, sends'[p] > sends[p]
      PROVE  resp'[p] = "none"
  <2>1. sends[p] \in {0, 1}
    BY <1>1 DEF PushLedger
  <2>2. sends' # sends
    BY <1>1, <2>1
  <2>3. PICK o \in Pushes : Push(o) \/ FlushPush(o)
    BY <1>1, <2>2, WhoSends
  <2>4. o = p
    <3>1. sends' = sends \/ sends' = [sends EXCEPT ![o] = sends[o] + 1]
      BY <2>3 DEF Push, FlushPush
    <3>2. o # p => sends'[p] = sends[p]
      BY <1>1, <3>1 DEF TypeOK, PushTypes
    <3> QED
      BY <1>1, <2>1, <3>2
  <2>5. CASE Push(p)
    BY <1>1, <2>5 DEF Push, TypeOK, PushTypes
  <2>6. CASE FlushPush(p)
    <3>1. ~Expired(p) /\ p \in flushing /\ UNCHANGED resp
      BY <2>2, <2>6 DEF FlushPush
    <3>2. sends[p] = 0 /\ resp[p] # "unused"
      BY <1>1, <3>1 DEF PushLedger
    <3> QED
      BY <1>1, <3>1, <3>2 DEF PushLedger, Expired
  <2> QED
    BY <2>3, <2>4, <2>5, <2>6
<1>2. TypeOK /\ PushLedger /\ [Next]_vars =>
        [\A p \in Pushes : sends'[p] > sends[p] => resp'[p] = "none"]_vars
  BY <1>1
<1> QED
  BY <1>2, TypeCorrect, PushLedgerAlways, PTL DEF Spec, ExpiredNotHanded

(* The pushes that have not been sent or answered, and the buffer of a      *)
(* channel joined on this socket.                                           *)
AckedOnSocket == acked => ws = "open"

LEMMA AckedOnSocketAlways == Spec => []AckedOnSocket
<1>1. Init => AckedOnSocket
  BY DEF Init, AckedOnSocket
<1>2. AckedOnSocket /\ [Next]_vars => AckedOnSocket'
  <2> SUFFICES ASSUME AckedOnSocket, [Next]_vars PROVE AckedOnSocket'
    OBVIOUS
  <2>1. CASE Application
    BY <2>1 DEF AckedOnSocket, Application, Subscribe, SubscribeConnected, Unsubscribe, OnPresence,
           Resubscribe, RemoveChannel, RemoveSuspended, RemoveResumed, Unregister, Push,
           client, socket
  <2>2. CASE Server
    BY <2>2 DEF AckedOnSocket, Server, ReplyDropped, JoinOk, JoinRefused, LeaveAnswered,
           PushAnswered, Answers, Listening, ServerError, ServerClose, client, socket
  <2>3. CASE Timers
    BY <2>3 DEF AckedOnSocket, Timers, JoinTimeout, LeaveTimeout, PushTimeout, TimeoutRuns,
       FlushPush,
           RejoinTimerFires, RejoinTask, RejoinSkipped, client, socket
  <2>4. CASE Connection
    BY <2>4 DEF AckedOnSocket, Connection, SocketFails, ConnectionLost, NormalClose,
       SendMetLoss, Reconnect, Connect,
           UserConnected, Reconnected, SenderReconnected, ReconnectCut, UserConnectFailed,
           ReconnectFailed, Close, OpenSocket, StopReading, socket
  <2>5. CASE UNCHANGED vars
    BY <2>5 DEF AckedOnSocket, vars, client, socket
  <2> QED
    BY <2>1, <2>2, <2>3, <2>4, <2>5 DEF Next
<1> QED
  BY <1>1, <1>2, PTL DEF Spec

(* A step that leaves alone where the pushes are, and does not make the     *)
(* channel joined and acked.                                                *)
LEMMA StrandingUntouched ==
  ASSUME NoStrandedPush, UNCHANGED <<resp, sends, flushing, pushBuffer>>,
         state' = "joined" /\ acked' => state = "joined" /\ acked
  PROVE  NoStrandedPush'
  BY DEF NoStrandedPush

(* A push not yet sent or answered is buffered or in a task, and an         *)
(* accepted join empties the buffer: pushes are buffered only without a     *)
(* socket, and then the join that was accepted is over.                     *)
THEOREM NoStrandedPushAlways == Spec => []NoStrandedPush
<1>1. Init => NoStrandedPush
  BY DEF Init, NoStrandedPush
<1>2. TypeOK /\ PushLedger /\ AckedOnSocket /\ NoStrandedPush /\ [Next]_vars => NoStrandedPush'
  <2> SUFFICES ASSUME TypeOK, PushLedger, AckedOnSocket, NoStrandedPush, [Next]_vars
               PROVE  NoStrandedPush'
    OBVIOUS
  <2>1. CASE Application
    <3>1. CASE \E p \in Pushes : Push(p)
      <4> PICK p \in Pushes : Push(p)
        BY <3>1
      <4>1. /\ \A o \in Pushes \ {p} : resp'[o] = resp[o]
            /\ \A o \in Pushes \ {p} : sends'[o] = sends[o]
            /\ UNCHANGED <<flushing, state, acked>>
        BY DEF Push, socket, TypeOK, PushTypes
      <4>2. CASE ws # "none"
        <5>1. sends'[p] = 1 /\ UNCHANGED pushBuffer
          BY <4>2, PushSent DEF Push, PushLedger
        <5> QED
          BY <4>1, <5>1 DEF NoStrandedPush
      <4>3. CASE ws = "none"
        BY <4>1, <4>3 DEF Push, NoStrandedPush, AckedOnSocket
      <4> QED
        BY <4>2, <4>3
    <3>2. CASE Subscribe \/ SubscribeConnected \/ Unsubscribe \/ OnPresence \/ Resubscribe
               \/ RemoveChannel \/ RemoveSuspended \/ RemoveResumed
      <4>1. state' \in {"joining", "leaving", state}
        BY <3>2 DEF Subscribe, SubscribeConnected, JoinTopic, Rejoin, Unsubscribe, OnPresence,
                    Resubscribe, RemoveChannel, RemoveSuspended, RemoveResumed, LeaveTopic, channel
      <4>2. UNCHANGED <<resp, sends, flushing, pushBuffer>>
        BY <3>2 DEF Subscribe, SubscribeConnected, Unsubscribe, OnPresence, Resubscribe,
                    RemoveChannel, RemoveSuspended, RemoveResumed, channel, pushes
      <4>3. acked' => acked
        BY <3>2 DEF Subscribe, SubscribeConnected, Unsubscribe, OnPresence, Resubscribe,
                    RemoveChannel, RemoveSuspended, RemoveResumed, Unregister, client, socket
      <4> QED
        BY <4>1, <4>2, <4>3, StrandingUntouched
    <3> QED
      BY <2>1, <3>1, <3>2 DEF Application
  <2>2. CASE Server
    <3>1. CASE \E r \in Refs, matched \in BOOLEAN : JoinOk(r, matched)
      BY <3>1 DEF JoinOk, FlushBuffer, NoStrandedPush
    <3>2. CASE \E r \in Refs, p \in Pushes : PushAnswered(r, p)
      <4> PICK r \in Refs, p \in Pushes : PushAnswered(r, p)
        BY <3>2
      <4>1. /\ resp'[p] # "none" /\ \A o \in Pushes \ {p} : resp'[o] = resp[o]
            /\ UNCHANGED <<sends, flushing, pushBuffer, state, acked>>
        BY DEF PushAnswered, socket, channel, TypeOK, PushTypes
      <4> QED
        BY <4>1 DEF NoStrandedPush
    <3>3. CASE ServerError \/ ServerClose \/ \E r \in Refs :
                 ReplyDropped(r) \/ JoinRefused(r) \/ LeaveAnswered(r)
      BY <3>3, StrandingUntouched
      DEF ServerError, FailAndRetry, ServerClose, CloseChannel, ReplyDropped, JoinRefused,
          LeaveAnswered, client, socket, channel, pushes
    <3> QED
      BY <2>2, <3>1, <3>2, <3>3 DEF Server
  <2>3. CASE Timers
    <3>1. CASE \E p \in Pushes : PushTimeout(p)
      <4> PICK p \in Pushes : PushTimeout(p)
        BY <3>1
      <4>1. /\ resp'[p] # "none" /\ \A o \in Pushes \ {p} : resp'[o] = resp[o]
            /\ UNCHANGED <<sends, flushing, pushBuffer, state, acked>>
        BY DEF PushTimeout, TimeoutRuns, client, socket, channel, TypeOK, PushTypes
      <4> QED
        BY <4>1 DEF NoStrandedPush
    <3>2. CASE \E p \in Pushes : FlushPush(p)
      <4> PICK p \in Pushes : FlushPush(p)
        BY <3>2
      <4>1. flushing' = flushing \ {p} /\ UNCHANGED <<resp, pushBuffer, state, acked>>
        BY DEF FlushPush, socket, channel
      <4>2. CASE Expired(p)
        BY <4>1, <4>2 DEF FlushPush, Expired, NoStrandedPush
      <4>3. CASE ~Expired(p)
        <5>1. sends'[p] = 1 /\ \A o \in Pushes \ {p} : sends'[o] = sends[o]
          BY <4>3, PushSent DEF FlushPush, PushLedger
        <5> QED
          BY <4>1, <5>1 DEF NoStrandedPush
      <4> QED
        BY <4>2, <4>3
    <3>3. CASE JoinTimeout \/ RejoinTimerFires \/ (\E r \in Refs : LeaveTimeout(r))
                 \/ \E w \in Reconnectors : RejoinTask(w) \/ RejoinSkipped(w)
      <4>1. state' \in {"joining", "errored", state} /\ UNCHANGED acked
        BY <3>3 DEF JoinTimeout, FailAndRetry, RejoinTimerFires, RejoinTask, RejoinSkipped, Rejoin,
                    LeaveTimeout, client, socket, channel
      <4>2. UNCHANGED <<resp, sends, flushing, pushBuffer>>
        BY <3>3 DEF JoinTimeout, RejoinTimerFires, RejoinTask, RejoinSkipped, LeaveTimeout,
           channel, pushes
      <4> QED
        BY <4>1, <4>2, StrandingUntouched
    <3> QED
      BY <2>3, <3>1, <3>2, <3>3 DEF Timers
  <2>4. CASE Connection
    BY <2>4, StrandingUntouched
    DEF Connection, SocketFails, ConnectionLost, NormalClose, SendMetLoss, Reconnect, Connect,
           UserConnected, Reconnected, SenderReconnected, ReconnectCut, UserConnectFailed,
           ReconnectFailed, Close, OpenSocket, StopReading, client, socket, channel, pushes
  <2>5. CASE UNCHANGED vars
    BY <2>5, StrandingUntouched DEF vars, client, socket, channel, pushes
  <2> QED
    BY <2>1, <2>2, <2>3, <2>4, <2>5 DEF Next
<1> QED
  BY <1>1, <1>2, TypeCorrect, PushLedgerAlways, AckedOnSocketAlways, PTL DEF Spec

-----------------------------------------------------------------------------
(* Once closed, for good                                                    *)

(* Once closed or removed while leaving, a subscribed channel is made to    *)
(* join again by nothing but the rejoin task of a sender's reconnect.       *)
THEOREM GoneForGoodAlways == Spec => GoneForGood
<1>1. ASSUME StateTypes, TimerIdle, RejoinOwned, [Next]_vars, joinedOnce,
             state = "closed" \/ (state = "leaving" /\ ~registered)
      PROVE  \/ state' \in {"closed", "leaving"}
             \/ \E s \in Senders : reconnects[s] = "rejoins" /\ reconnects'[s] = "no"
  <2>1. CASE Application
    BY <1>1, <2>1 DEF Application, Subscribe, SubscribeConnected, Unsubscribe, OnPresence,
           Resubscribe, RemoveChannel, RemoveSuspended, RemoveResumed, LeaveTopic, Push, channel
  <2>2. CASE Server
    BY <1>1, <2>2 DEF RejoinOwned, Server, ReplyDropped, JoinOk, JoinRefused, LeaveAnswered,
           Answers, CloseChannel, PushAnswered, ServerError, ServerClose, channel
  <2>3. CASE Timers
    <3>1. CASE \E w \in Reconnectors : RejoinTask(w)
      <4> PICK w \in Reconnectors : RejoinTask(w)
        BY <3>1
      <4>1. CASE w = "listen"
        <5>1. state = "leaving"
          BY <1>1, <4>1 DEF RejoinTask, RejoinOwned
        <5> QED
          BY <5>1 DEF RejoinTask, Rejoin
      <4>2. CASE w \in Senders
        <5>1. reconnects[w] = "rejoins" /\ reconnects'[w] = "no"
          BY <1>1 DEF RejoinTask, StateTypes
        <5> QED
          BY <4>2, <5>1
      <4> QED
        BY <4>1, <4>2 DEF Reconnectors
    <3>2. CASE RejoinTimerFires
      <4>1. state = "leaving"
        BY <1>1, <3>2 DEF TimerIdle, RejoinTimerFires
      <4> QED
        BY <3>2, <4>1 DEF RejoinTimerFires, Rejoin
    <3>3. CASE JoinTimeout \/ (\E r \in Refs : LeaveTimeout(r))
                 \/ (\E q \in Pushes : PushTimeout(q) \/ FlushPush(q))
                 \/ \E w \in Reconnectors : RejoinSkipped(w)
      BY <1>1, <3>3 DEF JoinTimeout, LeaveTimeout, PushTimeout, TimeoutRuns, FlushPush,
                        RejoinSkipped, channel
    <3> QED
      BY <2>3, <3>1, <3>2, <3>3 DEF Timers
  <2>4. CASE Connection
    BY <1>1, <2>4 DEF Connection, SocketFails, ConnectionLost, NormalClose, SendMetLoss, Reconnect,
           Connect, UserConnected, Reconnected, SenderReconnected, ReconnectCut, UserConnectFailed,
           ReconnectFailed, Close, channel
  <2>5. CASE UNCHANGED vars
    BY <1>1, <2>5 DEF vars, channel
  <2> QED
    BY <1>1, <2>1, <2>2, <2>3, <2>4, <2>5 DEF Next
<1>2. StateTypes /\ TimerIdle /\ RejoinOwned /\ [Next]_vars =>
        [joinedOnce /\ (state = "closed" \/ (state = "leaving" /\ ~registered))
           => \/ state' \in {"closed", "leaving"}
              \/ \E s \in Senders : reconnects[s] = "rejoins" /\ reconnects'[s] = "no"]_vars
  BY <1>1
<1> QED
  BY <1>2, TypeCorrect, TimerIdleAlways, RejoinOwnedAlways, PTL DEF Spec, GoneForGood, TypeOK

=============================================================================
