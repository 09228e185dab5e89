------------------------- MODULE ChannelMessagesProofs -------------------------
(****************************************************************************)
(* Proofs about ChannelMessages: the presence state is at every step the    *)
(* set of presences that PresenceSet promises, a change calls the callbacks *)
(* it is for, and the state comes to be the presences that the server has.  *)
(****************************************************************************)
EXTENDS ChannelMessages, SequenceTheorems, FiniteSetTheorems, TLAPS

-----------------------------------------------------------------------------
(* Sequences, whatever their elements                                       *)

IsSequence(s) == s \in Seq({s[i] : i \in DOMAIN s})

LEMMA SomeSequence ==
  ASSUME NEW S, NEW s \in Seq(S)
  PROVE  IsSequence(s) /\ Len(s) \in Nat /\ DOMAIN s = 1..Len(s)
<1>1. Len(s) \in Nat /\ s \in [1..Len(s) -> S] /\ DOMAIN s = 1..Len(s)
  BY LenProperties
<1>2. s \in [1..Len(s) -> {s[i] : i \in DOMAIN s}]
  BY <1>1
<1> QED
  BY <1>1, <1>2, SeqDef DEF IsSequence

LEMMA SequenceLength ==
  ASSUME NEW s, IsSequence(s)
  PROVE  Len(s) \in Nat /\ DOMAIN s = 1..Len(s) /\ (s = <<>> <=> Len(s) = 0)
BY SomeSequence, EmptySeq DEF IsSequence

LEMMA EmptySequence == IsSequence(<<>>) /\ DOMAIN <<>> = {}
<1>1. <<>> \in Seq({}) /\ Len(<<>>) = 0
  BY EmptySeq
<1>2. IsSequence(<<>>) /\ DOMAIN <<>> = 1..0
  BY <1>1, SomeSequence
<1> QED
  BY <1>2

LEMMA SequenceAppend ==
  ASSUME NEW s, IsSequence(s), NEW m
  PROVE  /\ IsSequence(Append(s, m)) /\ Len(Append(s, m)) = Len(s) + 1
         /\ \A i \in 1..Len(s) : Append(s, m)[i] = s[i]
         /\ Append(s, m)[Len(s) + 1] = m
         /\ SubSeq(Append(s, m), 1, Len(s)) = s
<1> DEFINE S == {s[i] : i \in DOMAIN s} \cup {m}
           T == Append(s, m)
<1>1. s \in Seq({s[i] : i \in DOMAIN s}) /\ Len(s) \in Nat /\ s \in [1..Len(s) -> S]
  BY LenProperties DEF IsSequence
<1>2. s \in Seq(S) /\ m \in S
  BY <1>1, SeqDef
<1> HIDE DEF S
<1>3. /\ T \in Seq(S) /\ Len(T) = Len(s) + 1
      /\ \A i \in 1..Len(s) : T[i] = s[i]
      /\ T[Len(s) + 1] = m
  BY <1>2, AppendProperties
<1> HIDE DEF T
<1>4. /\ SubSeq(T, 1, Len(s)) \in Seq(S) /\ Len(SubSeq(T, 1, Len(s))) = Len(s)
      /\ \A i \in 1..Len(s) : SubSeq(T, 1, Len(s))[i] = s[i]
  <2>1. \A i \in 1..Len(s) : T[i] \in S
    BY <1>1, <1>2, <1>3
  <2>2. /\ SubSeq(T, 1, Len(s)) \in Seq(S)
        /\ Len(SubSeq(T, 1, Len(s))) = IF 1 <= Len(s) THEN Len(s) - 1 + 1 ELSE 0
        /\ \A i \in 1..(Len(s) - 1 + 1) : SubSeq(T, 1, Len(s))[i] = T[1 + i - 1]
    BY <1>1, <2>1, SubSeqProperties
  <2> QED
    BY <1>1, <1>3, <2>2
<1>5. SubSeq(T, 1, Len(s)) = s
  BY <1>1, <1>2, <1>4, SeqEqual
<1> QED
  BY <1>3, <1>5, SomeSequence DEF T

LEMMA SequenceTail ==
  ASSUME NEW s, IsSequence(s), s # <<>>
  PROVE  /\ IsSequence(Tail(s)) /\ Len(Tail(s)) = Len(s) - 1 /\ Head(s) = s[1]
         /\ \A i \in 1..Len(Tail(s)) : Tail(s)[i] = s[i + 1]
<1>1. s \in Seq({s[i] : i \in DOMAIN s})
  BY DEF IsSequence
<1>2. /\ Tail(s) \in Seq({s[i] : i \in DOMAIN s}) /\ Len(Tail(s)) = Len(s) - 1
      /\ \A i \in 1..Len(Tail(s)) : Tail(s)[i] = s[i + 1]
  BY <1>1, HeadTailProperties
<1>3. IsSequence(Tail(s))
  BY <1>2, SomeSequence
<1>4. Head(s) = s[1]
  BY <1>1
<1> QED
  BY <1>2, <1>3, <1>4

LEMMA SequenceOf ==
  ASSUME NEW n \in Nat, NEW s, DOMAIN s = 1..n, s = [i \in 1..n |-> s[i]]
  PROVE  IsSequence(s) /\ Len(s) = n
<1>1. s \in [1..n -> {s[i] : i \in DOMAIN s}]
  OBVIOUS
<1>2. s \in Seq({s[i] : i \in DOMAIN s})
  BY <1>1, SeqDef
<1> QED
  BY <1>2, SomeSequence DEF IsSequence

-----------------------------------------------------------------------------
(* The wire                                                                 *)

LEMMA MessageFields ==
  ASSUME NEW kind, NEW arrivals, NEW leaves, NEW bindings, NEW change, NEW lead
  PROVE  Message(kind, arrivals, leaves, bindings, change, lead).kind = kind
BY DEF Message

(* The server goes on with the last join that was sent.                     *)
ServesLast == pending = 0 /\ serves

(* Only a channel that is joining has a reply on its way, and one only; the *)
(* server then goes on with its last join, as it does for a joined channel. *)
WireInvariant ==
  /\ IsSequence(wire) /\ pending \in Nat
  /\ stage = "joined" => ServesLast
  /\ \A i \in DOMAIN wire : wire[i].kind = "reply" =>
       /\ stage = "joining" /\ ServesLast
       /\ \A j \in DOMAIN wire : wire[j].kind = "reply" => j = i

(* Message k is handled, if it is, by a channel joined by the last join.    *)
Fresh(k) == stage = "joined" \/ \E i \in DOMAIN wire : i < k /\ wire[i].kind = "reply"

LEMMA FreshServed ==
  ASSUME WireInvariant, NEW k, Fresh(k)
  PROVE  ServesLast
BY DEF WireInvariant, Fresh

LEMMA OutdatedWire ==
  ASSUME IsSequence(wire)
  PROVE  /\ IsSequence(Outdated(wire)) /\ Len(Outdated(wire)) = Len(wire)
         /\ \A i \in DOMAIN Outdated(wire) : Outdated(wire)[i].kind # "reply"
<1> DEFINE n == Len(wire)
           old == Outdated(wire)
<1>1. n \in Nat /\ DOMAIN wire = 1..n
  BY SequenceLength
<1>2. /\ old = [i \in 1..n |-> IF wire[i].kind = "reply" THEN Ignored ELSE wire[i]]
      /\ DOMAIN old = 1..n
  BY <1>1 DEF Outdated
<1>3. old = [i \in 1..n |-> old[i]]
  BY <1>2
<1>4. \A i \in 1..n : old[i].kind # "reply"
  BY <1>2, MessageFields DEF Ignored
<1> HIDE DEF old
<1>5. IsSequence(old) /\ Len(old) = n
  BY <1>1, <1>2, <1>3, SequenceOf
<1> QED
  BY <1>2, <1>4, <1>5 DEF old

SentLast(m) ==
  m.kind = "reply" => stage' = "joining" /\ ServesLast' /\ \A i \in DOMAIN wire : wire[i].kind # "reply"

LEMMA Sent ==
  ASSUME WireInvariant, NEW m, SendWire(m), SentLast(m), stage' = stage, pending' \in Nat,
         ServesLast => ServesLast'
  PROVE  /\ WireInvariant'
         /\ \A k \in 1..Len(wire') : Fresh(k)' => Fresh(k)
<1>1. /\ wire' = Append(wire, m) /\ Len(wire) \in Nat /\ DOMAIN wire = 1..Len(wire)
      /\ IsSequence(wire)
  BY SequenceLength DEF SendWire, WireInvariant
<1>2. /\ IsSequence(wire') /\ DOMAIN wire' = 1..(Len(wire) + 1) /\ Len(wire') = Len(wire) + 1
      /\ \A i \in 1..Len(wire) : wire'[i] = wire[i]
      /\ wire'[Len(wire) + 1] = m
  BY <1>1, SequenceAppend, SequenceLength
<1>3. WireInvariant'
  BY <1>1, <1>2 DEF WireInvariant, SentLast
<1>4. ASSUME NEW k \in 1..Len(wire'), Fresh(k)'
      PROVE  Fresh(k)
  <2>1. \A i \in DOMAIN wire' : i < k => i \in DOMAIN wire /\ wire'[i] = wire[i]
    BY <1>1, <1>2
  <2> QED
    BY <1>4, <2>1 DEF Fresh
<1> QED
  BY <1>3, <1>4

LEMMA Taken ==
  ASSUME WireInvariant, NEW kind, Received(kind), kind # "reply" => stage' = stage, UNCHANGED serverVars
  PROVE  /\ WireInvariant' /\ (kind = "reply" => stage = "joining")
         /\ \A k \in 1..Len(wire') : Fresh(k)' => Fresh(k + 1)
<1>1. /\ wire # <<>> /\ Head(wire).kind = kind /\ wire' = Tail(wire)
      /\ Len(wire) \in Nat /\ DOMAIN wire = 1..Len(wire) /\ Len(wire) # 0
  BY SequenceLength DEF Received, WireInvariant
<1>2. /\ IsSequence(wire') /\ DOMAIN wire' = 1..(Len(wire) - 1) /\ wire[1].kind = kind
      /\ \A i \in 1..(Len(wire) - 1) : wire'[i] = wire[i + 1]
  BY <1>1, SequenceTail, SequenceLength DEF WireInvariant
<1>3. 1 \in DOMAIN wire
  BY <1>1
<1>4. kind = "reply" => stage = "joining" /\ ServesLast
  BY <1>2, <1>3 DEF WireInvariant
<1>5. (ServesLast <=> ServesLast') /\ pending' = pending
  BY DEF serverVars, ServesLast
<1>6. \A i \in DOMAIN wire' : i + 1 \in DOMAIN wire /\ wire'[i] = wire[i + 1] /\ i + 1 # 1
  BY <1>1, <1>2
<1>7. WireInvariant'
  BY <1>2, <1>3, <1>4, <1>5, <1>6 DEF WireInvariant
<1>8. ASSUME NEW k \in 1..Len(wire'), Fresh(k)'
      PROVE  Fresh(k + 1)
  <2>1. k \in Nat /\ 1 < k + 1
    BY <1>1, <1>2, SequenceLength
  <2>2. CASE kind = "reply"
    BY <1>2, <1>3, <2>1, <2>2 DEF Fresh
  <2>3. CASE kind # "reply"
    <3>1. \A i \in DOMAIN wire' : i < k => i + 1 < k + 1
      BY <1>2, <2>1
    <3> QED
      BY <1>6, <1>8, <2>3, <3>1 DEF Fresh
  <2> QED
    BY <2>2, <2>3
<1> QED
  BY <1>4, <1>7, <1>8

(* Nothing is as yet sent to a channel that is to be joined by a join the   *)
(* server has just accepted, or not yet.                                    *)
LEMMA NoneFresh ==
  ASSUME WireInvariant, Join \/ Fail \/ AcceptJoin
  PROVE  /\ WireInvariant' /\ stage' # "joined"
         /\ \A k \in 1..Len(wire') : ~Fresh(k)'
         /\ AcceptJoin => stage # "joined" /\ \A i \in DOMAIN wire : wire[i].kind # "reply"
<1>0. IsSequence(wire) /\ pending \in Nat /\ Len(wire) \in Nat /\ DOMAIN wire = 1..Len(wire)
  BY SequenceLength DEF WireInvariant
<1>1. CASE Join
  <2>1. /\ stage = "out" /\ stage' = "joining" /\ wire' = wire /\ pending' \in Nat
        /\ \A i \in DOMAIN wire : wire[i].kind # "reply"
    BY <1>0, <1>1 DEF Join, WireInvariant
  <2>2. ~AcceptJoin
    BY <1>0, <1>1 DEF Join, AcceptJoin
  <2> QED
    BY <1>0, <2>1, <2>2 DEF WireInvariant, Fresh
<1>2. CASE Fail
  <2>1. stage' = "out" /\ wire' \in {Outdated(wire), <<>>} /\ pending' \in Nat
    BY <1>0, <1>2 DEF Fail, serverVars
  <2>2. IsSequence(wire') /\ \A i \in DOMAIN wire' : wire'[i].kind # "reply"
    BY <1>0, <2>1, OutdatedWire, EmptySequence
  <2>3. ~AcceptJoin
    BY <1>2 DEF Fail, AcceptJoin
  <2> QED
    BY <2>1, <2>2, <2>3 DEF WireInvariant, Fresh
<1>3. CASE AcceptJoin
  <2>1. /\ pending > 0 /\ pending' = pending - 1 /\ serves' = TRUE /\ stage' = stage /\ pending' \in Nat
    BY <1>0, <1>3 DEF AcceptJoin
  <2>2. ~ServesLast /\ (pending = 1 => ServesLast')
    BY <1>0, <2>1 DEF ServesLast
  <2>3. stage # "joined" /\ \A i \in DOMAIN wire : wire[i].kind # "reply"
    BY <2>2 DEF WireInvariant
  <2>4. PICK bindings :
          SendWire(IF stage = "joining" /\ pending = 1
                     THEN Message("reply", {}, {}, bindings, None, 0) ELSE Ignored)
    BY <1>3 DEF AcceptJoin
  <2> DEFINE m == IF stage = "joining" /\ pending = 1
                    THEN Message("reply", {}, {}, bindings, None, 0) ELSE Ignored
  <2>5. m.kind = "reply" => stage = "joining" /\ pending = 1
    BY MessageFields DEF Ignored
  <2> HIDE DEF m
  <2>6. SendWire(m) /\ SentLast(m)
    BY <2>1, <2>2, <2>3, <2>4, <2>5 DEF SentLast, m
  <2>7. WireInvariant' /\ \A k \in 1..Len(wire') : Fresh(k)' => Fresh(k)
    BY <2>1, <2>2, <2>6, Sent
  <2>8. \A k : ~Fresh(k)
    BY <2>3 DEF Fresh
  <2> QED
    BY <2>1, <2>3, <2>7, <2>8
<1> QED
  BY <1>1, <1>2, <1>3

-----------------------------------------------------------------------------
(* The invariant and the promise, one step at a time                        *)

LEMMA WireInvariantAlways == MessagesSpec => []WireInvariant
<1>1. MessagesInit => WireInvariant
  BY EmptySequence DEF MessagesInit, WireInvariant, ServesLast
<1>2. WireInvariant /\ [MessagesNext]_channelVars => WireInvariant'
  <2> SUFFICES ASSUME WireInvariant, [MessagesNext]_channelVars
               PROVE  WireInvariant'
    OBVIOUS
  <2>1. CASE UNCHANGED <<wire, stage, serverVars>>
    BY <2>1 DEF WireInvariant, ServesLast, serverVars
  <2>2. CASE AcceptJoin \/ Join \/ Fail
    BY <2>2, NoneFresh
  <2>3. CASE SendState \/ ChangeRow \/ (Broadcast /\ ~UNCHANGED wire)
    <3>1. PICK kind, arrivals, leaves, bindings, change, lead :
            /\ kind \in {"state", "change", "diff"} /\ UNCHANGED <<stage, serverVars>>
            /\ SendWire(Message(kind, arrivals, leaves, bindings, change, lead))
      BY <2>3 DEF SendState, ChangeRow, Broadcast
    <3>2. PICK m : SendWire(m) /\ m.kind # "reply"
      BY <3>1, MessageFields
    <3> QED
      BY <3>1, <3>2, Sent DEF SentLast, ServesLast, serverVars, WireInvariant
  <2>4. CASE JoinAnswered
    <3>1. Received("reply") /\ UNCHANGED serverVars
      BY <2>4 DEF JoinAnswered
    <3> QED
      BY <3>1, Taken
  <2>5. CASE IgnoreReply \/ PostgresChange \/ PresenceDiff \/ PresenceState
    <3>1. PICK kind \in {"ignored", "change", "diff", "state"} : Received(kind) /\ UNCHANGED <<stage, serverVars>>
      BY <2>5 DEF IgnoreReply, PostgresChange, PresenceDiff, PresenceState
    <3> QED
      BY <3>1, Taken
  <2>6. CASE ChangeMembers \/ AddCallback \/ (Broadcast /\ UNCHANGED wire)
    BY <2>1, <2>6 DEF ChangeMembers, AddCallback, Broadcast
  <2> QED
    BY <2>1, <2>2, <2>3, <2>4, <2>5, <2>6 DEF MessagesNext, channelVars
<1> QED
  BY <1>1, <1>2, PTL DEF MessagesSpec

(* A message is put behind those on the wire.                               *)
LEMMA SentArrives ==
  ASSUME WireInvariant, NEW m, SendWire(m), UNCHANGED <<state, stage>>
  PROVE  Promise!Arrives
<1>1. wire' = Append(wire, m) /\ IsSequence(wire)
  BY DEF SendWire, WireInvariant
<1>2. Len(wire') = Len(wire) + 1 /\ SubSeq(wire', 1, Len(wire)) = wire
  BY <1>1, SequenceAppend
<1> QED
  BY <1>2 DEF Promise!Arrives

(* The leaves of a diff are all taken away if each was known.               *)
LEMMA DiffPromised ==
  ASSUME NEW arrivals, NEW leaves, SyncDiff(arrivals, leaves)
  PROVE  LET all == state \cup arrivals IN
         /\ all \ leaves \subseteq state' /\ state' \subseteq all
         /\ leaves \subseteq all => state' = all \ leaves
BY DEF SyncDiff, JoinedPresences, LeftPresences

(* The presence state is at every step the set of presences the messages    *)
(* promise: a snapshot replaces it, a diff adds and takes away, and nothing *)
(* else changes it, across failures and rejoins (presence.py:47-138).       *)
THEOREM KeepsPromiseAlways == MessagesSpec => KeepsPromise
<1>1. MessagesInit => Promise!SetInit
  BY DEF MessagesInit, Promise!SetInit
<1>2. WireInvariant /\ [MessagesNext]_channelVars
        => [Promise!SetNext]_<<wire, state, stage \in {"joining", "joined"}>>
  <2> SUFFICES ASSUME WireInvariant, [MessagesNext]_channelVars
               PROVE  Promise!SetNext \/ UNCHANGED <<wire, state, stage>>
    OBVIOUS
  <2>1. CASE UNCHANGED channelVars \/ ChangeMembers \/ AddCallback \/ (Broadcast /\ UNCHANGED wire)
    BY <2>1 DEF channelVars, presenceVars, bindingVars, serverVars, ChangeMembers, AddCallback, Broadcast
  <2>2. CASE AcceptJoin \/ SendState \/ ChangeRow \/ (Broadcast /\ ~UNCHANGED wire)
    <3>1. PICK m : SendWire(m) /\ UNCHANGED <<state, stage>>
      <4>1. AcceptJoin => \E m : SendWire(m) /\ UNCHANGED <<state, stage>>
        BY DEF AcceptJoin
      <4>2. SendState \/ ChangeRow \/ (Broadcast /\ ~UNCHANGED wire) => \E m : SendWire(m) /\ UNCHANGED <<state, stage>>
        BY DEF SendState, ChangeRow, Broadcast, presenceVars
      <4> QED
        BY <2>2, <4>1, <4>2
    <3> QED
      BY <3>1, SentArrives DEF Promise!SetNext
  <2>3. CASE Join
    BY <2>3 DEF Join, presenceVars, Promise!SetNext, Promise!GoesUp
  <2>4. CASE Fail
    <3>1. Len(wire') <= Len(wire)
      <4>1. Len(wire) \in Nat /\ Len(<<>>) = 0 /\ Len(Outdated(wire)) = Len(wire)
        BY SequenceLength, OutdatedWire, EmptySeq DEF WireInvariant
      <4> QED
        BY <2>4, <4>1 DEF Fail
    <3>2. stage \in {"joining", "joined"} /\ stage' = "out" /\ UNCHANGED state
      BY <2>4 DEF Fail
    <3> QED
      BY <3>1, <3>2 DEF Promise!SetNext, Promise!GoesDown
  <2>5. CASE JoinAnswered
    <3>1. /\ stage = "joining" /\ stage' \in {"joined", "left"} /\ UNCHANGED state
          /\ wire # <<>> /\ Head(wire).kind = "reply" /\ wire' = Tail(wire)
      BY <2>5, Taken DEF JoinAnswered, Received
    <3>2. CASE stage' = "joined"
      BY <3>1, <3>2 DEF Promise!SetNext, Promise!Handle
    <3>3. CASE stage' = "left"
      <4>1. Len(wire') <= Len(wire)
        BY <3>1, SequenceTail, SequenceLength DEF WireInvariant
      <4> QED
        BY <3>1, <3>3, <4>1 DEF Promise!SetNext, Promise!GoesDown
    <3> QED
      BY <3>1, <3>2, <3>3
  <2>6. CASE IgnoreReply \/ PostgresChange
    BY <2>6 DEF IgnoreReply, PostgresChange, Received, presenceVars, Promise!SetNext, Promise!Handle
  <2>7. CASE PresenceDiff
    BY <2>7, DiffPromised DEF PresenceDiff, Received, Promise!SetNext, Promise!Handle
  <2>8. CASE PresenceState
    <3> DEFINE new == Head(wire).joins
    <3>1. SyncDiff(new \ state, state \ new) /\ Received("state") /\ UNCHANGED stage
      BY <2>8 DEF PresenceState, Gone
    <3>2. state' = new
      BY <3>1, DiffPromised
    <3> QED
      BY <3>1, <3>2 DEF Received, Promise!SetNext, Promise!Handle
  <2> QED
    BY <2>1, <2>2, <2>3, <2>4, <2>5, <2>6, <2>7, <2>8 DEF MessagesNext
<1> QED
  BY <1>1, <1>2, WireInvariantAlways, PTL DEF MessagesSpec, KeepsPromise, Promise!SetSpec

-----------------------------------------------------------------------------
(* The callbacks                                                            *)

IsCallback(r) == r = [event |-> r.event, table |-> r.table, id |-> r.id]

(* The bindings a join is granted have an id each.                          *)
GrantedInvariant ==
  /\ IsSequence(requested) /\ DOMAIN requested \subseteq {1, 2}
  /\ \A i \in DOMAIN granted : IsCallback(granted[i])
  /\ \A i, j \in DOMAIN granted : granted[i].id = granted[j].id => i = j

(* A reply carries what was granted.                                        *)
OfferInvariant == \A k \in DOMAIN wire : wire[k].kind = "reply" => wire[k].bindings = granted

(* A change that a joined channel is to handle is for bindings of the table *)
(* that its join was granted.                                               *)
ForTable(m) == \A b \in m.bindings : b.table = m.change.table /\ b \in Range(granted)
ChangeInvariant == \A k \in DOMAIN wire : wire[k].kind = "change" /\ Fresh(k) => ForTable(wire[k])

CallbacksTyped ==
  IsSequence(callbacks) /\ \A i \in DOMAIN callbacks : IsCallback(callbacks[i])

CallbackInvariant ==
  CallbacksTyped /\ GrantedInvariant /\ OfferInvariant /\ ChangeInvariant /\ RightCallback

LEMMA SentFits ==
  ASSUME WireInvariant, OfferInvariant, ChangeInvariant, NEW m, SendWire(m),
         UNCHANGED <<stage, serverVars, granted>>,
         m.kind # "reply", m.kind = "change" => ForTable(m)
  PROVE  OfferInvariant' /\ ChangeInvariant'
<1> DEFINE n == Len(wire)
<1>1. /\ wire' = Append(wire, m) /\ n \in Nat /\ DOMAIN wire = 1..n
      /\ IsSequence(wire)
  BY SequenceLength DEF SendWire, WireInvariant
<1>2. /\ DOMAIN wire' = 1..(n + 1) /\ Len(wire') = n + 1 /\ wire'[n + 1] = m
      /\ \A i \in 1..n : wire'[i] = wire[i]
  BY <1>1, SequenceAppend, SequenceLength
<1>3. \A k \in 1..Len(wire') : Fresh(k)' => Fresh(k)
  BY Sent DEF SentLast, ServesLast, serverVars, WireInvariant
<1> HIDE DEF n
<1>4. OfferInvariant'
  BY <1>1, <1>2 DEF OfferInvariant
<1>5. ASSUME NEW k \in DOMAIN wire', wire'[k].kind = "change", Fresh(k)'
      PROVE  ForTable(wire[k])'
  <2>1. k = n + 1 \/ k \in 1..n
    BY <1>1, <1>2
  <2>2. k = n + 1 => ForTable(m)
    BY <1>2, <1>5
  <2>3. k \in 1..n => ForTable(wire'[k])
    BY <1>1, <1>2, <1>3, <1>5 DEF ChangeInvariant
  <2> QED
    BY <1>2, <2>1, <2>2, <2>3 DEF ForTable
<1>6. ChangeInvariant'
  BY <1>5 DEF ChangeInvariant
<1> QED
  BY <1>4, <1>6

LEMMA TakenFits ==
  ASSUME WireInvariant, OfferInvariant, ChangeInvariant, NEW kind, Received(kind),
         kind # "reply" => stage' = stage, UNCHANGED <<serverVars, granted>>
  PROVE  /\ OfferInvariant' /\ ChangeInvariant'
         /\ kind = "reply" => Head(wire).bindings = granted
         /\ kind = "change" /\ stage = "joined" => ForTable(Head(wire))
<1> DEFINE n == Len(wire)
<1>1. /\ wire # <<>> /\ wire' = Tail(wire) /\ n \in Nat /\ DOMAIN wire = 1..n /\ n # 0
      /\ Head(wire).kind = kind
  BY SequenceLength DEF Received, WireInvariant
<1>2. /\ DOMAIN wire' = 1..(n - 1) /\ Len(wire') = n - 1 /\ Head(wire) = wire[1]
      /\ \A i \in 1..(n - 1) : wire'[i] = wire[i + 1] /\ i + 1 \in 1..n
  BY <1>1, SequenceTail, SequenceLength DEF WireInvariant
<1>3. \A k \in 1..Len(wire') : Fresh(k)' => Fresh(k + 1)
  BY Taken
<1> HIDE DEF n
<1>4. OfferInvariant'
  BY <1>1, <1>2 DEF OfferInvariant
<1>5. ASSUME NEW k \in DOMAIN wire', wire'[k].kind = "change", Fresh(k)'
      PROVE  ForTable(wire[k])'
  <2>1. k \in 1..Len(wire') /\ k + 1 \in DOMAIN wire /\ wire'[k] = wire[k + 1]
    BY <1>1, <1>2
  <2>2. Fresh(k + 1)
    BY <1>3, <1>5, <2>1
  <2>3. ForTable(wire'[k])
    BY <1>5, <2>1, <2>2 DEF ChangeInvariant
  <2> QED
    BY <2>3 DEF ForTable
<1>6. ChangeInvariant'
  BY <1>5 DEF ChangeInvariant
<1>7. 1 \in DOMAIN wire
  BY <1>1
<1>8. kind = "change" /\ stage = "joined" => ForTable(Head(wire))
  BY <1>1, <1>2, <1>7 DEF ChangeInvariant, Fresh
<1> QED
  BY <1>1, <1>2, <1>4, <1>6, <1>7, <1>8 DEF OfferInvariant

LEMMA IdSet ==
  ASSUME NEW r, IsCallback(r), NEW x
  PROVE  [r EXCEPT !.id = x] = [event |-> r.event, table |-> r.table, id |-> x]
BY DEF IsCallback

LEMMA NumberedIds ==
  ASSUME NEW bs, DOMAIN bs \subseteq {1, 2}, NEW ids \in {<<0, 1>>, <<2, 1>>}
  PROVE  /\ \A i \in DOMAIN Numbered(bs, ids) : IsCallback(Numbered(bs, ids)[i])
         /\ \A i, j \in DOMAIN Numbered(bs, ids) : Numbered(bs, ids)[i].id = Numbered(bs, ids)[j].id => i = j
<1>1. \A i \in DOMAIN Numbered(bs, ids) : /\ i \in {1, 2}
                                        /\ Numbered(bs, ids)[i] = [event |-> bs[i].event, table |-> bs[i].table, id |-> ids[i]]
  BY DEF Numbered
<1>2. ids[1] # ids[2]
  OBVIOUS
<1> QED
  BY <1>1, <1>2 DEF IsCallback

LEMMA CallbackInvariantInitially == MessagesInit => CallbackInvariant
<1> SUFFICES ASSUME MessagesInit PROVE CallbackInvariant
  OBVIOUS
<1>0. PICK n \in 0..2 : \E bs \in [1..n -> Bindings] :
        requested = bs /\ callbacks = [i \in 1..n |-> Unbound(bs[i])]
  <2> DEFINE most == IF "postgres" \in uses THEN 2 ELSE 0
  <2>1. \E n \in 0..most : \E bs \in [1..n -> Bindings] :
          requested = bs /\ callbacks = [i \in 1..n |-> Unbound(bs[i])]
    BY DEF MessagesInit
  <2>2. most \in {0, 2}
    OBVIOUS
  <2>3. \A n \in 0..most : n \in 0..2
    BY <2>2
  <2> HIDE DEF most
  <2> QED
    BY <2>1, <2>3
<1>1. PICK bs \in [1..n -> Bindings] :
        requested = bs /\ callbacks = [i \in 1..n |-> Unbound(bs[i])]
  BY <1>0
<1>2. IsSequence(requested) /\ DOMAIN requested \subseteq {1, 2}
  BY <1>1, SequenceOf
<1>3. \A i \in 1..n : IsCallback(Unbound(bs[i])) /\ Unbound(bs[i]).id = None
  BY DEF IsCallback, Unbound
<1>4. IsSequence(callbacks) /\ DOMAIN callbacks = 1..n /\ \A i \in 1..n : callbacks[i] = Unbound(bs[i])
  BY <1>1, SequenceOf
<1>5. DOMAIN wire = {} /\ DOMAIN granted = {} /\ stage = "out" /\ got.joined = FALSE
  BY EmptySequence DEF MessagesInit, Nothing
<1> QED
  BY <1>2, <1>3, <1>4, <1>5
    DEF CallbackInvariant, CallbacksTyped, GrantedInvariant, OfferInvariant, ChangeInvariant, RightCallback

LEMMA CallbackInvariantAlways == MessagesSpec => []CallbackInvariant
<1>1. WireInvariant /\ CallbackInvariant /\ [MessagesNext]_channelVars => CallbackInvariant'
  <2> SUFFICES ASSUME WireInvariant, CallbackInvariant, [MessagesNext]_channelVars
               PROVE  CallbackInvariant'
    OBVIOUS
  <2>0. CallbacksTyped /\ GrantedInvariant /\ OfferInvariant /\ ChangeInvariant /\ RightCallback
    BY DEF CallbackInvariant
  <2>1. CASE AcceptJoin
    <3>1. PICK bs \in {requested, Reverse(requested), <<>>}, ids \in {<<0, 1>>, <<2, 1>>} :
            /\ granted' = Numbered(bs, ids)
            /\ SendWire(IF stage = "joining" /\ pending = 1
                          THEN Message("reply", {}, {}, granted', None, 0) ELSE Ignored)
      BY <2>1 DEF AcceptJoin
    <3>2. DOMAIN bs \subseteq {1, 2}
      <4>1. DOMAIN Reverse(requested) = DOMAIN requested /\ DOMAIN <<>> = {}
        BY <2>0, SequenceLength, EmptySequence DEF Reverse, GrantedInvariant
      <4> QED
        BY <2>0, <4>1 DEF GrantedInvariant
    <3>3. UNCHANGED <<stage, callbacks, requested, got>>
      BY <2>1 DEF AcceptJoin
    <3>4. GrantedInvariant'
      BY <2>0, <3>1, <3>2, <3>3, NumberedIds DEF GrantedInvariant
    <3>5. /\ WireInvariant' /\ stage # "joined" /\ \A k \in 1..Len(wire') : ~Fresh(k)'
          /\ \A i \in DOMAIN wire : wire[i].kind # "reply"
      BY <2>1, NoneFresh
    <3> DEFINE m == IF stage = "joining" /\ pending = 1
                      THEN Message("reply", {}, {}, granted', None, 0) ELSE Ignored
    <3>6. SendWire(m) /\ (m.kind = "reply" => m.bindings = granted')
      BY <3>1 DEF Message, Ignored
    <3> HIDE DEF m
    <3>7. /\ DOMAIN wire' = 1..Len(wire') /\ Len(wire') = Len(wire) + 1 /\ wire'[Len(wire) + 1] = m
          /\ DOMAIN wire = 1..Len(wire) /\ Len(wire) \in Nat
          /\ \A i \in 1..Len(wire) : wire'[i] = wire[i]
      BY <3>5, <3>6, SequenceAppend, SequenceLength DEF SendWire, WireInvariant
    <3>8. \A k \in DOMAIN wire' : k \in DOMAIN wire \/ k = Len(wire) + 1
      BY <3>7
    <3>9. OfferInvariant' /\ ChangeInvariant'
      BY <3>5, <3>6, <3>7, <3>8 DEF OfferInvariant, ChangeInvariant
    <3> QED
      BY <2>0, <3>3, <3>4, <3>5, <3>9 DEF CallbackInvariant, CallbacksTyped, RightCallback
  <2>2. CASE ChangeRow
    <3>1. PICK change \in Changes :
            /\ SendWire(Message("change", {}, {}, {b \in Range(granted) : Matches(b, change)}, change, 0))
            /\ UNCHANGED <<stage, serverVars, bindingVars>>
      BY <2>2 DEF ChangeRow
    <3> DEFINE m == Message("change", {}, {}, {b \in Range(granted) : Matches(b, change)}, change, 0)
    <3>2. /\ m.kind = "change" /\ m.change = change
          /\ m.bindings = {b \in Range(granted) : Matches(b, change)}
      BY DEF Message
    <3>3. SendWire(m)
      BY <3>1
    <3> HIDE DEF m
    <3>4. ForTable(m)
      BY <3>2 DEF ForTable, Matches
    <3>5. OfferInvariant' /\ ChangeInvariant'
      BY <2>0, <3>1, <3>2, <3>3, <3>4, SentFits DEF bindingVars
    <3> QED
      BY <2>0, <3>1, <3>5 DEF bindingVars, CallbackInvariant, CallbacksTyped, GrantedInvariant, RightCallback
  <2>3. CASE SendState \/ (Broadcast /\ ~UNCHANGED wire)
    <3>1. PICK kind, arrivals, leaves, bindings, change, lead :
            /\ kind \in {"state", "diff"} /\ UNCHANGED <<stage, serverVars, bindingVars>>
            /\ SendWire(Message(kind, arrivals, leaves, bindings, change, lead))
      BY <2>3 DEF SendState, Broadcast
    <3>2. PICK m : SendWire(m) /\ m.kind \notin {"reply", "change"}
      BY <3>1, MessageFields
    <3>3. OfferInvariant' /\ ChangeInvariant'
      BY <2>0, <3>1, <3>2, SentFits DEF bindingVars
    <3> QED
      BY <2>0, <3>1, <3>3 DEF bindingVars, CallbackInvariant, CallbacksTyped, GrantedInvariant, RightCallback
  <2>4. CASE ChangeMembers \/ (Broadcast /\ UNCHANGED wire) \/ UNCHANGED channelVars
    <3>1. UNCHANGED <<wire, stage, bindingVars>>
      BY <2>4 DEF ChangeMembers, Broadcast, channelVars
    <3> QED
      BY <2>0, <3>1
        DEF bindingVars, CallbackInvariant, CallbacksTyped, GrantedInvariant, OfferInvariant, ChangeInvariant, ForTable,
            Fresh, RightCallback
  <2>5. CASE Join \/ Fail
    <3>1. UNCHANGED bindingVars /\ (Join => wire' = wire) /\ (Fail => wire' \in {Outdated(wire), <<>>})
      BY <2>5 DEF Join, Fail
    <3>2. WireInvariant' /\ stage' # "joined" /\ \A k \in 1..Len(wire') : ~Fresh(k)'
      BY <2>5, NoneFresh
    <3>3. ChangeInvariant'
      BY <3>2, SequenceLength DEF ChangeInvariant, WireInvariant
    <3>4. CASE Join
      BY <2>0, <3>1, <3>2, <3>3, <3>4
        DEF bindingVars, CallbackInvariant, CallbacksTyped, GrantedInvariant, OfferInvariant, RightCallback
    <3>5. CASE Fail
      <4>1. \A k \in DOMAIN wire' : wire'[k].kind # "reply"
        BY <3>1, <3>5, OutdatedWire, EmptySequence DEF WireInvariant
      <4> QED
        BY <2>0, <3>1, <3>2, <3>3, <4>1
          DEF bindingVars, CallbackInvariant, CallbacksTyped, GrantedInvariant, OfferInvariant, RightCallback
    <3> QED
      BY <2>5, <3>4, <3>5
  <2>6. CASE AddCallback
    <3>1. PICK b \in Bindings : callbacks' = Append(callbacks, Unbound(b)) /\ UNCHANGED <<stage, wire, requested, granted, got>>
      BY <2>6 DEF AddCallback
    <3>2. IsCallback(Unbound(b)) /\ Unbound(b).id = None
      BY DEF IsCallback, Unbound
    <3>3. /\ IsSequence(callbacks') /\ DOMAIN callbacks' = 1..(Len(callbacks) + 1) /\ DOMAIN callbacks = 1..Len(callbacks)
          /\ \A i \in 1..Len(callbacks) : callbacks'[i] = callbacks[i]
          /\ callbacks'[Len(callbacks) + 1] = Unbound(b) /\ Len(callbacks) \in Nat
      BY <2>0, <3>1, SequenceAppend, SequenceLength DEF CallbacksTyped
    <3>4. \A i \in DOMAIN callbacks' : callbacks'[i].id = None \/ (i \in DOMAIN callbacks /\ callbacks'[i] = callbacks[i])
      BY <3>2, <3>3
    <3>5. \A i \in DOMAIN callbacks' : IsCallback(callbacks'[i])
      BY <2>0, <3>2, <3>3 DEF CallbacksTyped
    <3>6. OfferInvariant' /\ ChangeInvariant'
      BY <2>0, <3>1 DEF OfferInvariant, ChangeInvariant, ForTable, Fresh
    <3> QED
      BY <2>0, <3>1, <3>3, <3>4, <3>5, <3>6 DEF CallbackInvariant, CallbacksTyped, GrantedInvariant, RightCallback
  <2>7. CASE JoinAnswered
    <3>1. Received("reply") /\ UNCHANGED <<serverVars, requested, granted, got>>
      BY <2>7 DEF JoinAnswered
    <3>2. Head(wire).bindings = granted /\ OfferInvariant' /\ ChangeInvariant'
      BY <2>0, <3>1, TakenFits
    <3> DEFINE first == {i \in DOMAIN callbacks : \A j \in 1..i : SameBinding(j, granted)}
    <3>4. CASE callbacks' = <<>>
      BY <2>0, <3>1, <3>2, <3>4, EmptySequence
        DEF CallbackInvariant, CallbacksTyped, GrantedInvariant, RightCallback
    <3>5. CASE /\ callbacks' = [i \in DOMAIN callbacks |->
                                 IF i \in first THEN [callbacks[i] EXCEPT !.id = granted[i].id] ELSE callbacks[i]]
               /\ stage' = IF first = DOMAIN callbacks THEN "joined" ELSE "left"
      <4>1. DOMAIN callbacks = 1..Len(callbacks) /\ Len(callbacks) \in Nat
        BY <2>0, SequenceLength DEF CallbacksTyped
      <4>2. \A i \in DOMAIN callbacks' : IsCallback(callbacks'[i])
        BY <2>0, <3>5, IdSet DEF CallbacksTyped, IsCallback
      <4>3. IsSequence(callbacks')
        BY <3>5, <4>1, SequenceOf
      <4>4. ASSUME stage' = "joined", NEW i \in DOMAIN callbacks'
            PROVE  \E j \in DOMAIN granted : granted[j] = callbacks'[i]
        <5>1. i \in first /\ i \in DOMAIN callbacks
          BY <3>5, <4>4
        <5>2. SameBinding(i, granted)
          BY <4>1, <5>1
        <5>3. i \in DOMAIN granted /\ granted[i].event = callbacks[i].event /\ granted[i].table = callbacks[i].table
          BY <5>2 DEF SameBinding
        <5>4. callbacks'[i] = [event |-> callbacks[i].event, table |-> callbacks[i].table, id |-> granted[i].id]
          BY <2>0, <3>5, <5>1, IdSet DEF CallbacksTyped
        <5> QED
          BY <2>0, <5>3, <5>4 DEF GrantedInvariant, IsCallback
      <4> QED
        BY <2>0, <3>1, <3>2, <4>2, <4>3, <4>4
          DEF CallbackInvariant, CallbacksTyped, GrantedInvariant, RightCallback
    <3> QED
      BY <2>7, <3>2, <3>4, <3>5 DEF JoinAnswered
  <2>8. CASE IgnoreReply \/ PresenceDiff \/ PresenceState
    <3>1. PICK kind : Received(kind) /\ UNCHANGED <<stage, serverVars, bindingVars>>
      BY <2>8 DEF IgnoreReply, PresenceDiff, PresenceState
    <3>2. OfferInvariant' /\ ChangeInvariant'
      BY <2>0, <3>1, TakenFits DEF bindingVars
    <3> QED
      BY <2>0, <3>1, <3>2 DEF bindingVars, CallbackInvariant, CallbacksTyped, GrantedInvariant, RightCallback
  <2>9. CASE PostgresChange
    <3> DEFINE m == Head(wire)
    <3>1. Received("change") /\ UNCHANGED <<stage, serverVars, callbacks, requested, granted>>
      BY <2>9 DEF PostgresChange
    <3>2. OfferInvariant' /\ ChangeInvariant' /\ (stage = "joined" => ForTable(m))
      BY <2>0, <3>1, TakenFits
    <3>3. /\ got'.joined = (stage = "joined")
          /\ got'.called = {i \in DOMAIN callbacks : Called(callbacks[i], m)}
          /\ got'.due = {i \in DOMAIN callbacks : Matches(callbacks[i], m.change)}
      BY <2>9 DEF PostgresChange
    <3> HIDE DEF m
    <3>4. ASSUME stage = "joined", NEW i \in DOMAIN callbacks, Called(callbacks[i], m)
          PROVE  Matches(callbacks[i], m.change)
      <4>1. PICK b \in m.bindings : b.id = callbacks[i].id
        BY <3>4 DEF Called
      <4>2. /\ callbacks[i].id # None /\ callbacks[i].event \in {"*", m.change.event}
            /\ b.table = m.change.table /\ b \in Range(granted)
        BY <3>2, <3>4, <4>1 DEF Called, ForTable
      <4>3. PICK j \in DOMAIN granted : granted[j] = callbacks[i]
        BY <2>0, <3>4, <4>2 DEF RightCallback
      <4>4. b = callbacks[i]
        BY <2>0, <4>1, <4>2, <4>3 DEF GrantedInvariant, Range
      <4> QED
        BY <4>2, <4>4 DEF Matches
    <3>5. got'.joined => got'.called \subseteq got'.due
      BY <3>3, <3>4
    <3> QED
      BY <2>0, <3>1, <3>2, <3>5 DEF CallbackInvariant, CallbacksTyped, GrantedInvariant, RightCallback
  <2> QED
    BY <2>1, <2>2, <2>3, <2>4, <2>5, <2>6, <2>7, <2>8, <2>9 DEF MessagesNext
<1> QED
  BY <1>1, CallbackInvariantInitially, WireInvariantAlways, PTL DEF MessagesSpec

(* A joined channel calls for a change only callbacks registered for such a *)
(* change, and they have ids of its last join only, for any bindings and    *)
(* changes, and any number of joins that the server accepted before, timed  *)
(* out or answered in another way (types.py:141, channel.py:226-252).       *)
THEOREM RightCallbackAlways == MessagesSpec => []RightCallback
<1>1. CallbackInvariant => RightCallback
  BY DEF CallbackInvariant
<1> QED
  BY <1>1, CallbackInvariantAlways, PTL

-----------------------------------------------------------------------------
(* Presences: the batches of changes on their way                           *)

Came(q, k, n) == UNION {q[i].joins : i \in (k + 1)..n}
Went(q, k, n) == UNION {q[i].leaves : i \in (k + 1)..n}

(* The batches q[k + 1], ..., q[n] lead to the presences `now`: a presence  *)
(* comes once, leaves once, later than it came, and is there or leaves if   *)
(* it came.                                                                 *)
Ledger(q, k, n, present) ==
  /\ \A i, j \in (k + 1)..n :
       /\ i # j => q[i].joins \cap q[j].joins = {} /\ q[i].leaves \cap q[j].leaves = {}
       /\ i <= j => q[i].leaves \cap q[j].joins = {}
  /\ \A i \in (k + 1)..n :
       /\ q[i].leaves \cap present = {}
       /\ q[i].joins \subseteq present \cup Went(q, i, n)

(* The presences that there were before them                                *)
Before(q, k, n, present) == (present \cup Went(q, k, n)) \ Came(q, k, n)

Empty(m) == m.joins = {} /\ m.leaves = {}

(* The presences `seen`, and the batches after k, lead to those there are.  *)
(* If the snapshot was ahead of one batch at most, that one, m, changes     *)
(* nothing any more, and the ones after it start from what was seen.        *)
Leads(seen, lead, q, k, n, present) ==
  /\ Ledger(q, k, n, present)
  /\ present \subseteq seen \cup Came(q, k, n)
  /\ lead <= 1 => \E m \in k..n :
       /\ \A i \in (k + 1)..(m - 1) : Empty(q[i])
       /\ m > k => q[m].joins \subseteq seen /\ q[m].leaves \cap seen = {}
       /\ seen = Before(q, m, n, present)

(* The messages on the wire and the batches not broadcast yet, in order     *)
Queued == [i \in 1..(Len(wire) + Len(behind)) |-> IF i <= Len(wire) THEN wire[i] ELSE behind[i - Len(wire)]]
Due == Len(wire) + Len(behind)
Snapshots == {k \in 1..Len(wire) : wire[k].kind = "state"}

GivenOut(presences) == \A p \in presences : p[2] \in 1..refs

PresencesTyped ==
  /\ IsSequence(behind) /\ refs \in Nat
  /\ GivenOut(members) /\ GivenOut(state)
  /\ \A i \in 1..Due : GivenOut(Queued[i].joins) /\ GivenOut(Queued[i].leaves)
  /\ \A i \in 1..Len(wire) : wire[i].kind \notin {"state", "diff"} => Empty(wire[i])

(* A join has one snapshot.                                                 *)
SnapshotInvariant ==
  /\ stage = "joined" /\ ahead # None => listed
  /\ \A k \in Snapshots : Fresh(k) =>
       /\ listed /\ (stage = "joined" => ahead = None)
       /\ \A l \in Snapshots : Fresh(l) => l = k

LeadsInvariant ==
  /\ Ledger(Queued, Len(wire), Due, members)
  /\ stage = "joined" /\ ahead # None => Leads(state, ahead, Queued, 0, Due, members)
  /\ \A k \in Snapshots : Fresh(k) => Leads(wire[k].joins, wire[k].ahead, Queued, k, Due, members)

PresenceInvariant == PresencesTyped /\ SnapshotInvariant /\ LeadsInvariant

LEMMA CameAndWent ==
  ASSUME NEW q, NEW k, NEW n
  PROVE  /\ \A p : p \in Came(q, k, n) <=> \E i \in (k + 1)..n : p \in q[i].joins
         /\ \A p : p \in Went(q, k, n) <=> \E i \in (k + 1)..n : p \in q[i].leaves
BY DEF Came, Went

(* What follows r[l] is what follows q[k].                                  *)
Follows(q, k, n, r, l, o) ==
  /\ k <= n /\ n - k = o - l
  /\ \A i \in 1..(n - k) : r[l + i].joins = q[k + i].joins /\ r[l + i].leaves = q[k + i].leaves

(* The messages that follow are what counts, not where they are.            *)
LEMMA Moved ==
  ASSUME NEW q, NEW k \in Nat, NEW n \in Nat, NEW r, NEW l \in Nat, NEW o \in Nat,
         Follows(q, k, n, r, l, o)
  PROVE  Came(r, l, o) = Came(q, k, n) /\ Went(r, l, o) = Went(q, k, n)
<1>1. ASSUME NEW i \in (l + 1)..o
      PROVE  i - l + k \in (k + 1)..n /\ r[i].joins = q[i - l + k].joins /\ r[i].leaves = q[i - l + k].leaves
  <2>1. i - l \in 1..(n - k) /\ l + (i - l) = i /\ k + (i - l) = i - l + k /\ i - l + k \in (k + 1)..n
    BY DEF Follows
  <2> QED
    BY <2>1 DEF Follows
<1>2. ASSUME NEW i \in (k + 1)..n
      PROVE  i - k + l \in (l + 1)..o /\ q[i].joins = r[i - k + l].joins /\ q[i].leaves = r[i - k + l].leaves
  <2>1. i - k \in 1..(n - k) /\ k + (i - k) = i /\ l + (i - k) = i - k + l /\ i - k + l \in (l + 1)..o
    BY DEF Follows
  <2> QED
    BY <2>1 DEF Follows
<1>3. ASSUME NEW p
      PROVE  (p \in Came(r, l, o) <=> p \in Came(q, k, n)) /\ (p \in Went(r, l, o) <=> p \in Went(q, k, n))
  BY <1>1, <1>2, CameAndWent
<1> QED
  BY <1>3

LEMMA MovedLedger ==
  ASSUME NEW q, NEW k \in Nat, NEW n \in Nat, NEW r, NEW l \in Nat, NEW o \in Nat,
         Follows(q, k, n, r, l, o),
         NEW present, Ledger(q, k, n, present)
  PROVE  Ledger(r, l, o, present)
<1> DEFINE at(i) == i - l + k
<1>1. ASSUME NEW i \in (l + 1)..o
      PROVE  /\ at(i) \in (k + 1)..n /\ r[i].joins = q[at(i)].joins /\ r[i].leaves = q[at(i)].leaves
             /\ Went(r, i, o) = Went(q, at(i), n)
  <2>1. i - l \in 1..(n - k) /\ l + (i - l) = i /\ k + (i - l) = at(i) /\ at(i) \in (k + 1)..n
    BY DEF Follows
  <2>2. r[i].joins = q[at(i)].joins /\ r[i].leaves = q[at(i)].leaves
    BY <2>1 DEF Follows
  <2>3. /\ i \in Nat /\ at(i) \in Nat /\ at(i) <= n /\ n - at(i) = o - i
    BY <2>1 DEF Follows
  <2>4. ASSUME NEW j \in 1..(n - at(i))
        PROVE  r[i + j].joins = q[at(i) + j].joins /\ r[i + j].leaves = q[at(i) + j].leaves
    <3>1. at(i) + j - k \in 1..(n - k) /\ l + (at(i) + j - k) = i + j /\ k + (at(i) + j - k) = at(i) + j
      BY <2>3
    <3> QED
      BY <3>1 DEF Follows
  <2> HIDE DEF at
  <2>5. Follows(q, at(i), n, r, i, o)
    BY <2>3, <2>4 DEF Follows
  <2>6. Went(r, i, o) = Went(q, at(i), n)
    BY <2>3, <2>5, Moved
  <2> QED
    BY <2>1, <2>2, <2>6
<1>2. \A i, j \in (l + 1)..o : (i # j => at(i) # at(j)) /\ (i <= j => at(i) <= at(j))
  OBVIOUS
<1> HIDE DEF at
<1> QED
  BY <1>1, <1>2 DEF Ledger

LEMMA MovedLeads ==
  ASSUME NEW q, NEW k \in Nat, NEW n \in Nat, NEW r, NEW l \in Nat, NEW o \in Nat,
         Follows(q, k, n, r, l, o),
         NEW seen, NEW lead, NEW present, Leads(seen, lead, q, k, n, present)
  PROVE  Leads(seen, lead, r, l, o, present)
<1>1. Ledger(r, l, o, present)
  BY MovedLedger DEF Leads
<1>2. present \subseteq seen \cup Came(r, l, o)
  BY Moved DEF Leads
<1>3. ASSUME NEW m \in k..n,
             \A i \in (k + 1)..(m - 1) : Empty(q[i]),
             m > k => q[m].joins \subseteq seen /\ q[m].leaves \cap seen = {},
             seen = Before(q, m, n, present)
      PROVE  \E m2 \in l..o :
               /\ \A i \in (l + 1)..(m2 - 1) : Empty(r[i])
               /\ m2 > l => r[m2].joins \subseteq seen /\ r[m2].leaves \cap seen = {}
               /\ seen = Before(r, m2, o, present)
  <2> DEFINE m2 == m - k + l
  <2>1. m2 \in l..o /\ m \in Nat /\ m2 \in Nat /\ m <= n /\ n - m = o - m2 /\ (m2 > l => m > k)
    BY DEF Follows
  <2>2. ASSUME NEW i \in (l + 1)..(m2 - 1)
        PROVE  Empty(r[i])
    <3>1. i - l \in 1..(n - k) /\ l + (i - l) = i /\ k + (i - l) \in (k + 1)..(m - 1)
      BY DEF Follows
    <3>2. r[l + (i - l)].joins = q[k + (i - l)].joins /\ r[l + (i - l)].leaves = q[k + (i - l)].leaves
      BY <3>1 DEF Follows
    <3>3. Empty(q[k + (i - l)])
      BY <1>3, <3>1
    <3> QED
      BY <3>1, <3>2, <3>3 DEF Empty
  <2>3. m2 > l => r[m2].joins \subseteq seen /\ r[m2].leaves \cap seen = {}
    <3>1. m2 > l => m - k \in 1..(n - k) /\ l + (m - k) = m2 /\ k + (m - k) = m
      OBVIOUS
    <3> HIDE DEF m2
    <3> QED
      BY <1>3, <2>1, <3>1 DEF Follows
  <2>4. ASSUME NEW j \in 1..(n - m)
        PROVE  r[m2 + j].joins = q[m + j].joins /\ r[m2 + j].leaves = q[m + j].leaves
    <3>1. m + j - k \in 1..(n - k) /\ l + (m + j - k) = m2 + j /\ k + (m + j - k) = m + j
      OBVIOUS
    <3> QED
      BY <3>1 DEF Follows
  <2> HIDE DEF m2
  <2>5. Follows(q, m, n, r, m2, o)
    BY <2>1, <2>4 DEF Follows
  <2>6. Came(r, m2, o) = Came(q, m, n) /\ Went(r, m2, o) = Went(q, m, n)
    BY <2>1, <2>5, Moved
  <2> QED
    BY <1>3, <2>1, <2>2, <2>3, <2>6 DEF Before
<1> QED
  BY <1>1, <1>2, <1>3 DEF Leads

(* A message without presences that is put in changes nothing.              *)
LEMMA Inserted ==
  ASSUME NEW q, NEW k \in Nat, NEW n \in Nat, NEW c \in k..n, NEW r,
         \A i \in 1..c : r[i].joins = q[i].joins /\ r[i].leaves = q[i].leaves,
         Empty(r[c + 1]),
         \A i \in (c + 1)..n : r[i + 1].joins = q[i].joins /\ r[i + 1].leaves = q[i].leaves,
         NEW seen, NEW lead, NEW present, Leads(seen, lead, q, k, n, present)
  PROVE  Leads(seen, lead, r, k, n + 1, present)
<1> DEFINE at(i) == IF i <= c THEN i ELSE i - 1
           to(i) == IF i <= c THEN i ELSE i + 1
<1>1. ASSUME NEW i \in 1..(n + 1)
      PROVE  \/ i = c + 1 /\ Empty(r[i])
             \/ i # c + 1 /\ at(i) \in 1..n /\ r[i].joins = q[at(i)].joins /\ r[i].leaves = q[at(i)].leaves
  <2>1. i > c + 1 => i - 1 \in (c + 1)..n /\ (i - 1) + 1 = i
    OBVIOUS
  <2> QED
    BY <2>1
<1>2. \A i \in 1..n : /\ to(i) \in 1..(n + 1) /\ to(i) # c + 1 /\ at(to(i)) = i
                      /\ r[to(i)].joins = q[i].joins /\ r[to(i)].leaves = q[i].leaves
  OBVIOUS
<1>3. ASSUME NEW m \in Nat, m <= n + 1
      PROVE  /\ Came(r, m, n + 1) = Came(q, IF m <= c THEN m ELSE m - 1, n)
             /\ Went(r, m, n + 1) = Went(q, IF m <= c THEN m ELSE m - 1, n)
  <2> DEFINE m2 == IF m <= c THEN m ELSE m - 1
  <2>1. \A i \in (m + 1)..(n + 1) : i \in 1..(n + 1) /\ (i # c + 1 => at(i) \in (m2 + 1)..n)
    OBVIOUS
  <2>2. \A i \in (m2 + 1)..n : i \in 1..n /\ to(i) \in (m + 1)..(n + 1)
    OBVIOUS
  <2> HIDE DEF m2, at, to
  <2>3. ASSUME NEW p PROVE p \in Came(r, m, n + 1) <=> p \in Came(q, m2, n)
    BY <1>1, <1>2, <2>1, <2>2, CameAndWent DEF Empty
  <2>4. ASSUME NEW p PROVE p \in Went(r, m, n + 1) <=> p \in Went(q, m2, n)
    BY <1>1, <1>2, <2>1, <2>2, CameAndWent DEF Empty
  <2> QED
    BY <2>3, <2>4 DEF m2
<1>4. Ledger(r, k, n + 1, present)
  <2>1. \A i, j \in (k + 1)..(n + 1) : i # c + 1 /\ j # c + 1 =>
          /\ at(i) \in (k + 1)..n
          /\ (i # j => at(i) # at(j)) /\ (i <= j => at(i) <= at(j))
    OBVIOUS
  <2>2. ASSUME NEW i \in (k + 1)..(n + 1), i # c + 1 PROVE Went(r, i, n + 1) = Went(q, at(i), n)
    BY <1>3, <2>2
  <2>3. \A i \in (k + 1)..(n + 1) : i \in 1..(n + 1)
    OBVIOUS
  <2> HIDE DEF at, to
  <2>4. ASSUME NEW i \in (k + 1)..(n + 1), NEW j \in (k + 1)..(n + 1)
        PROVE  /\ i # j => r[i].joins \cap r[j].joins = {} /\ r[i].leaves \cap r[j].leaves = {}
               /\ i <= j => r[i].leaves \cap r[j].joins = {}
    <3>1. CASE i = c + 1 \/ j = c + 1
      BY <3>1 DEF Empty
    <3>2. CASE i # c + 1 /\ j # c + 1
      <4>1. /\ r[i].joins = q[at(i)].joins /\ r[i].leaves = q[at(i)].leaves
            /\ r[j].joins = q[at(j)].joins /\ r[j].leaves = q[at(j)].leaves
        BY <1>1, <2>3, <3>2
      <4>2. /\ at(i) \in (k + 1)..n /\ at(j) \in (k + 1)..n
            /\ (i # j => at(i) # at(j)) /\ (i <= j => at(i) <= at(j))
        BY <2>1, <3>2
      <4> QED
        BY <4>1, <4>2 DEF Ledger, Leads
    <3> QED
      BY <3>1, <3>2
  <2>5. \A i \in (k + 1)..(n + 1) :
          /\ r[i].leaves \cap present = {}
          /\ r[i].joins \subseteq present \cup Went(r, i, n + 1)
    BY <1>1, <2>1, <2>2, <2>3 DEF Ledger, Leads, Empty
  <2> QED
    BY <2>4, <2>5 DEF Ledger
<1>5. present \subseteq seen \cup Came(r, k, n + 1)
  BY <1>3 DEF Leads
<1>6. ASSUME NEW m \in k..n,
             \A i \in (k + 1)..(m - 1) : Empty(q[i]),
             m > k => q[m].joins \subseteq seen /\ q[m].leaves \cap seen = {},
             seen = Before(q, m, n, present)
      PROVE  \E m2 \in k..(n + 1) :
               /\ \A i \in (k + 1)..(m2 - 1) : Empty(r[i])
               /\ m2 > k => r[m2].joins \subseteq seen /\ r[m2].leaves \cap seen = {}
               /\ seen = Before(r, m2, n + 1, present)
  <2>1. to(m) \in k..(n + 1) /\ to(m) \in Nat /\ to(m) <= n + 1 /\ (to(m) > k => m > k /\ m \in 1..n)
    OBVIOUS
  <2>2. (IF to(m) <= c THEN to(m) ELSE to(m) - 1) = m
    OBVIOUS
  <2>3. \A i \in (k + 1)..(to(m) - 1) : i \in 1..(n + 1) /\ (i # c + 1 => at(i) \in (k + 1)..(m - 1))
    OBVIOUS
  <2> HIDE DEF at, to
  <2>4. \A i \in (k + 1)..(to(m) - 1) : Empty(r[i])
    BY <1>1, <1>6, <2>3 DEF Empty
  <2>5. to(m) > k => r[to(m)].joins \subseteq seen /\ r[to(m)].leaves \cap seen = {}
    BY <1>2, <1>6, <2>1
  <2>6. Before(r, to(m), n + 1, present) = Before(q, m, n, present)
    BY <1>3, <2>1, <2>2 DEF Before
  <2> QED
    BY <1>6, <2>1, <2>4, <2>5, <2>6
<1> QED
  BY <1>4, <1>5, <1>6 DEF Leads

(* Presences come and go: one batch more.                                   *)
OneMore(q, k, n, r, present, new, gone) ==
  /\ \A i \in (k + 1)..n : r[i].joins = q[i].joins /\ r[i].leaves = q[i].leaves
  /\ r[n + 1].joins = new /\ r[n + 1].leaves = gone
  /\ gone \subseteq present /\ new \cap present = {}
  /\ \A i \in (k + 1)..n : new \cap (q[i].joins \cup q[i].leaves) = {}

Grown(q, k, n, r, present, new, gone) ==
  /\ Came(r, k, n + 1) = Came(q, k, n) \cup new
  /\ Went(r, k, n + 1) = Went(q, k, n) \cup gone
  /\ Before(r, k, n + 1, (present \ gone) \cup new) = Before(q, k, n, present)

LEMMA BatchedSets ==
  ASSUME NEW q, NEW k \in Nat, NEW n \in Nat, NEW r, NEW present, NEW new, NEW gone,
         OneMore(q, k, n, r, present, new, gone), NEW m \in k..n
  PROVE  Grown(q, m, n, r, present, new, gone)
<1>1. Came(r, m, n + 1) = Came(q, m, n) \cup new /\ Went(r, m, n + 1) = Went(q, m, n) \cup gone
  <2>1. \A i \in (m + 1)..(n + 1) : i = n + 1 \/ (i \in (m + 1)..n /\ i \in (k + 1)..n)
    OBVIOUS
  <2>2. \A i \in (m + 1)..n : i \in (m + 1)..(n + 1) /\ i \in (k + 1)..n
    OBVIOUS
  <2>3. n + 1 \in (m + 1)..(n + 1)
    OBVIOUS
  <2>4. ASSUME NEW p PROVE p \in Came(r, m, n + 1) <=> p \in Came(q, m, n) \cup new
    BY <2>1, <2>2, <2>3, CameAndWent DEF OneMore
  <2>5. ASSUME NEW p PROVE p \in Went(r, m, n + 1) <=> p \in Went(q, m, n) \cup gone
    BY <2>1, <2>2, <2>3, CameAndWent DEF OneMore
  <2> QED
    BY <2>4, <2>5
<1> DEFINE now == (present \ gone) \cup new
<1>2. Before(r, m, n + 1, now) = Before(q, m, n, present)
  <2>1. \A i \in (m + 1)..n : i \in (k + 1)..n
    OBVIOUS
  <2>2. new \cap Went(q, m, n) = {}
    BY <2>1, CameAndWent DEF OneMore
  <2>3. present \cup new = now \cup gone /\ new \cap present = {}
    BY DEF OneMore
  <2> QED
    BY <1>1, <2>2, <2>3 DEF Before
<1> QED
  BY <1>1, <1>2 DEF Grown

LEMMA BatchedLedger ==
  ASSUME NEW q, NEW k \in Nat, NEW n \in Nat, NEW r, NEW present, NEW new, NEW gone,
         OneMore(q, k, n, r, present, new, gone), Ledger(q, k, n, present)
  PROVE  Ledger(r, k, n + 1, (present \ gone) \cup new)
<1> DEFINE now == (present \ gone) \cup new
<1>1. ASSUME NEW m \in k..n
      PROVE  Came(r, m, n + 1) = Came(q, m, n) \cup new /\ Went(r, m, n + 1) = Went(q, m, n) \cup gone
  <2>1. Grown(q, m, n, r, present, new, gone)
    BY BatchedSets
  <2> QED
    BY <2>1 DEF Grown
<1>2. Ledger(r, k, n + 1, now)
  <2>1. \A i \in (k + 1)..(n + 1) : i = n + 1 \/ (i \in (k + 1)..n /\ i \in k..n)
    OBVIOUS
  <2>2. \A i \in (k + 1)..n : ~(n + 1 <= i)
    OBVIOUS
  <2>3. \A i \in (k + 1)..n : q[i].leaves \cap gone = {} /\ q[i].leaves \cap present = {}
    BY DEF Ledger, OneMore
  <2>4. new \cap gone = {}
    BY DEF OneMore
  <2>5. \A i, j \in (k + 1)..(n + 1) : i # j => r[i].joins \cap r[j].joins = {} /\ r[i].leaves \cap r[j].leaves = {}
    BY <2>1, <2>3 DEF Ledger, OneMore
  <2>6. \A i, j \in (k + 1)..(n + 1) : i <= j => r[i].leaves \cap r[j].joins = {}
    BY <2>1, <2>2, <2>4 DEF Ledger, OneMore
  <2>7. ASSUME NEW i \in (k + 1)..(n + 1)
        PROVE  r[i].leaves \cap now = {} /\ r[i].joins \subseteq now \cup Went(r, i, n + 1)
    <3>1. CASE i = n + 1
      BY <2>4, <3>1 DEF OneMore
    <3>2. CASE i \in (k + 1)..n /\ i \in k..n
      <4>1. q[i].joins \subseteq present \cup Went(q, i, n)
        BY <3>2 DEF Ledger
      <4> QED
        BY <1>1, <2>3, <3>2, <4>1 DEF OneMore
    <3> QED
      BY <2>1, <3>1, <3>2
  <2> QED
    BY <2>5, <2>6, <2>7 DEF Ledger
<1> QED
  BY <1>2

LEMMA BatchedLeads ==
  ASSUME NEW q, NEW k \in Nat, NEW n \in Nat, k <= n, NEW r, NEW present, NEW new, NEW gone,
         OneMore(q, k, n, r, present, new, gone),
         NEW seen, NEW lead, Leads(seen, lead, q, k, n, present)
  PROVE  Leads(seen, lead, r, k, n + 1, (present \ gone) \cup new)
<1> DEFINE now == (present \ gone) \cup new
<1>1. ASSUME NEW m \in k..n
      PROVE  Came(r, m, n + 1) = Came(q, m, n) \cup new /\ Before(r, m, n + 1, now) = Before(q, m, n, present)
  <2>1. Grown(q, m, n, r, present, new, gone)
    BY BatchedSets
  <2> QED
    BY <2>1 DEF Grown
<1>2. Ledger(r, k, n + 1, now)
  BY BatchedLedger DEF Leads
<1>3. now \subseteq seen \cup Came(r, k, n + 1)
  BY <1>1, k \in k..n DEF Leads, OneMore
<1>4. \A m \in k..n : /\ m \in k..(n + 1) /\ (m > k => m \in (k + 1)..n)
                      /\ \A i \in (k + 1)..(m - 1) : i \in (k + 1)..n
  OBVIOUS
<1> HIDE DEF now
<1>5. ASSUME NEW m \in k..n,
             \A i \in (k + 1)..(m - 1) : Empty(q[i]),
             m > k => q[m].joins \subseteq seen /\ q[m].leaves \cap seen = {},
             seen = Before(q, m, n, present)
      PROVE  \E m2 \in k..(n + 1) :
               /\ \A i \in (k + 1)..(m2 - 1) : Empty(r[i])
               /\ m2 > k => r[m2].joins \subseteq seen /\ r[m2].leaves \cap seen = {}
               /\ seen = Before(r, m2, n + 1, now)
  <2>1. ASSUME NEW i \in (k + 1)..(m - 1) PROVE Empty(r[i])
    <3>1. i \in (k + 1)..n /\ Empty(q[i])
      BY <1>4, <1>5
    <3>2. r[i].joins = q[i].joins /\ r[i].leaves = q[i].leaves
      BY <3>1 DEF OneMore
    <3> QED
      BY <3>1, <3>2 DEF Empty
  <2>2. m > k => r[m].joins \subseteq seen /\ r[m].leaves \cap seen = {}
    BY <1>4, <1>5 DEF OneMore
  <2>3. seen = Before(r, m, n + 1, now)
    BY <1>1, <1>5
  <2> QED
    BY <1>4, <2>1, <2>2, <2>3
<1>6. lead <= 1 => \E m \in k..(n + 1) :
        /\ \A i \in (k + 1)..(m - 1) : Empty(r[i])
        /\ m > k => r[m].joins \subseteq seen /\ r[m].leaves \cap seen = {}
        /\ seen = Before(r, m, n + 1, now)
  BY <1>5 DEF Leads
<1> QED
  BY <1>2, <1>3, <1>6 DEF Leads, now

(* The oldest batch is handled, where `after` is what a diff may make of    *)
(* the presences.                                                           *)
LEMMA Handled ==
  ASSUME NEW q, NEW n \in Nat, n >= 1, NEW present, NEW seen, NEW lead,
         Leads(seen, lead, q, 0, n, present),
         NEW after,
         (seen \cup q[1].joins) \ q[1].leaves \subseteq after, after \subseteq seen \cup q[1].joins,
         q[1].leaves \subseteq seen \cup q[1].joins => after = (seen \cup q[1].joins) \ q[1].leaves
  PROVE  Leads(after, lead, q, 1, n, present)
<1> DEFINE J == q[1].joins
           L == q[1].leaves
<1>1. 1 \in (0 + 1)..n /\ \A i \in (1 + 1)..n : i \in (0 + 1)..n /\ i # 1 /\ 1 <= i /\ ~(i <= 1)
  OBVIOUS
<1>2. \A i \in (0 + 1)..n : i = 1 \/ i \in (1 + 1)..n
  OBVIOUS
<1>3. Came(q, 0, n) = Came(q, 1, n) \cup J /\ Went(q, 0, n) = Went(q, 1, n) \cup L
  <2>1. ASSUME NEW p
        PROVE  (p \in Came(q, 0, n) <=> p \in Came(q, 1, n) \cup J) /\ (p \in Went(q, 0, n) <=> p \in Went(q, 1, n) \cup L)
    BY <1>1, <1>2, CameAndWent
  <2> QED
    BY <2>1
<1>4. /\ Ledger(q, 1, n, present)
      /\ L \cap present = {} /\ J \subseteq present \cup Went(q, 1, n) /\ L \cap J = {}
      /\ \A i \in (1 + 1)..n : J \cap q[i].joins = {} /\ L \cap q[i].leaves = {} /\ L \cap q[i].joins = {}
  BY <1>1 DEF Ledger, Leads
<1>5. J \cap Came(q, 1, n) = {} /\ L \cap Came(q, 1, n) = {} /\ L \cap Went(q, 1, n) = {}
  BY <1>4, CameAndWent
<1>6. present \subseteq after \cup Came(q, 1, n)
  BY <1>3, <1>4 DEF Leads
<1>7. ASSUME NEW m \in 0..n,
             \A i \in (0 + 1)..(m - 1) : Empty(q[i]),
             m > 0 => q[m].joins \subseteq seen /\ q[m].leaves \cap seen = {},
             seen = Before(q, m, n, present)
      PROVE  \E m2 \in 1..n :
               /\ \A i \in (1 + 1)..(m2 - 1) : Empty(q[i])
               /\ m2 > 1 => q[m2].joins \subseteq after /\ q[m2].leaves \cap after = {}
               /\ after = Before(q, m2, n, present)
  <2>1. CASE m = 0
    <3>1. seen = (present \cup Went(q, 1, n) \cup L) \ (Came(q, 1, n) \cup J)
      BY <1>3, <1>7, <2>1 DEF Before
    <3>2. L \subseteq seen
      BY <1>4, <1>5, <3>1
    <3>3. after = Before(q, 1, n, present)
      BY <1>4, <1>5, <3>1, <3>2 DEF Before
    <3>4. 1 \in 1..n /\ ~(1 > 1) /\ \A i \in (1 + 1)..(1 - 1) : FALSE
      OBVIOUS
    <3> QED
      BY <3>3, <3>4
  <2>2. CASE m = 1
    <3>1. after = seen
      BY <1>7, <2>2
    <3>2. 1 \in 1..n /\ ~(1 > 1) /\ \A i \in (1 + 1)..(1 - 1) : FALSE
      OBVIOUS
    <3> QED
      BY <1>7, <2>2, <3>1, <3>2
  <2>3. CASE m > 1
    <3>1. 1 \in (0 + 1)..(m - 1) /\ m \in 1..n /\ m > 0 /\ \A i \in (1 + 1)..(m - 1) : i \in (0 + 1)..(m - 1)
      BY <2>3
    <3>2. after = seen
      BY <1>7, <3>1 DEF Empty
    <3> QED
      BY <1>7, <3>1, <3>2
  <2> QED
    BY <2>1, <2>2, <2>3
<1> QED
  BY <1>4, <1>6, <1>7 DEF Leads

-----------------------------------------------------------------------------
(* The presence invariant, one step at a time                               *)

LEMMA PutQueued ==
  ASSUME IsSequence(wire), IsSequence(behind), NEW m, SendWire(m), behind' = behind
  PROVE  /\ IsSequence(wire') /\ IsSequence(behind') /\ Len(wire) \in Nat /\ Len(behind) \in Nat /\ Due \in Nat
         /\ Len(wire') = Len(wire) + 1 /\ Due' = Due + 1 /\ Len(wire) <= Due
         /\ \A i \in 1..Len(wire) : Queued'[i] = Queued[i] /\ wire'[i] = wire[i] /\ Queued[i] = wire[i]
         /\ Queued'[Len(wire) + 1] = m /\ wire'[Len(wire) + 1] = m
         /\ \A i \in (Len(wire) + 1)..Due : Queued'[i + 1] = Queued[i]
<1>1. /\ wire' = Append(wire, m) /\ Len(wire) \in Nat /\ Len(behind) \in Nat
      /\ IsSequence(Append(wire, m)) /\ Len(Append(wire, m)) = Len(wire) + 1
      /\ \A i \in 1..Len(wire) : Append(wire, m)[i] = wire[i]
      /\ Append(wire, m)[Len(wire) + 1] = m
  BY SequenceAppend, SequenceLength DEF SendWire
<1>2. /\ IsSequence(wire') /\ Len(wire') = Len(wire) + 1 /\ wire'[Len(wire) + 1] = m
      /\ \A i \in 1..Len(wire) : wire'[i] = wire[i]
  BY <1>1
<1>3. Due' = Due + 1 /\ Due \in Nat /\ Len(wire) <= Due
  BY <1>1, <1>2 DEF Due
<1>4. \A i \in 1..Len(wire) : Queued'[i] = wire[i] /\ Queued[i] = wire[i]
  BY <1>1, <1>2 DEF Queued
<1>5. Queued'[Len(wire) + 1] = m
  BY <1>1, <1>2 DEF Queued
<1>6. ASSUME NEW i \in (Len(wire) + 1)..Due
      PROVE  Queued'[i + 1] = Queued[i]
  <2>1. /\ i \in 1..(Len(wire) + Len(behind)) /\ ~(i <= Len(wire)) /\ i + 1 \in 1..(Len(wire) + 1 + Len(behind))
        /\ ~(i + 1 <= Len(wire) + 1) /\ i + 1 - (Len(wire) + 1) = i - Len(wire)
    BY <1>1 DEF Due
  <2>2. Queued[i] = behind[i - Len(wire)]
    BY <2>1 DEF Queued
  <2>3. Queued'[i + 1] = behind[i + 1 - (Len(wire) + 1)]
    BY <1>2, <2>1 DEF Queued
  <2> QED
    BY <2>1, <2>2, <2>3
<1> QED
  BY <1>1, <1>2, <1>3, <1>4, <1>5, <1>6

LEMMA TakeQueued ==
  ASSUME IsSequence(wire), IsSequence(behind), NEW kind, Received(kind), behind' = behind
  PROVE  /\ IsSequence(wire') /\ IsSequence(behind') /\ Len(wire) \in Nat \ {0} /\ Due \in Nat /\ Due >= 1
         /\ Len(wire') = Len(wire) - 1 /\ Due' = Due - 1 /\ Len(wire) <= Due
         /\ Head(wire) = wire[1] /\ wire[1].kind = kind
         /\ \A i \in 1..Len(wire) : Queued[i] = wire[i]
         /\ \A i \in 1..Len(wire') : wire'[i] = wire[i + 1]
         /\ \A i \in 1..Due' : Queued'[i] = Queued[i + 1]
<1>1. /\ wire # <<>> /\ wire' = Tail(wire) /\ Head(wire).kind = kind
      /\ Len(wire) \in Nat /\ Len(wire) # 0 /\ Len(behind) \in Nat
  BY SequenceLength DEF Received
<1>2. /\ IsSequence(wire') /\ Len(wire') = Len(wire) - 1 /\ Head(wire) = wire[1]
      /\ \A i \in 1..Len(wire') : wire'[i] = wire[i + 1]
  BY <1>1, SequenceTail
<1>3. Due \in Nat /\ Due >= 1 /\ Due' = Due - 1 /\ Len(wire) <= Due
  BY <1>1, <1>2 DEF Due
<1>4. \A i \in 1..Len(wire) : Queued[i] = wire[i]
  BY <1>1 DEF Queued
<1>5. ASSUME NEW i \in 1..Due'
      PROVE  Queued'[i] = Queued[i + 1]
  <2>1. /\ i \in 1..(Len(wire') + Len(behind)) /\ i + 1 \in 1..(Len(wire) + Len(behind))
        /\ i <= Len(wire') <=> i + 1 <= Len(wire)
        /\ i - Len(wire') = i + 1 - Len(wire)
    BY <1>1, <1>2 DEF Due
  <2>2. Queued'[i] = IF i <= Len(wire') THEN wire'[i] ELSE behind[i - Len(wire')]
    BY <2>1 DEF Queued
  <2>3. Queued[i + 1] = IF i + 1 <= Len(wire) THEN wire[i + 1] ELSE behind[i + 1 - Len(wire)]
    BY <2>1 DEF Queued
  <2>4. i <= Len(wire') => i \in 1..Len(wire')
    BY <1>1, <1>2
  <2> QED
    BY <1>2, <2>1, <2>2, <2>3, <2>4
<1> QED
  BY <1>1, <1>2, <1>3, <1>4, <1>5

LEMMA Untaken ==
  ASSUME IsSequence(behind), IsSequence(wire), behind # <<>>, behind' = Tail(behind)
  PROVE  /\ IsSequence(behind') /\ Len(behind) \in Nat \ {0} /\ Len(behind') = Len(behind) - 1
         /\ Head(behind) = behind[1] /\ \A i \in 1..Len(behind') : behind'[i] = behind[i + 1]
         /\ Len(wire) \in Nat /\ Due \in Nat /\ Len(wire) + 1 <= Due /\ Queued[Len(wire) + 1] = behind[1]
<1>1. /\ IsSequence(behind') /\ Len(behind) \in Nat /\ Len(behind) # 0 /\ Len(behind') = Len(behind) - 1
      /\ Head(behind) = behind[1] /\ \A i \in 1..Len(behind') : behind'[i] = behind[i + 1]
  BY SequenceTail, SequenceLength
<1>2. Len(wire) \in Nat
  BY SequenceLength
<1>3. Due \in Nat /\ Len(wire) + 1 <= Due /\ Len(wire) + 1 \in 1..(Len(wire) + Len(behind)) /\ ~(Len(wire) + 1 <= Len(wire)) /\ Len(wire) + 1 - Len(wire) = 1
  BY <1>1, <1>2 DEF Due
<1>4. Queued[Len(wire) + 1] = behind[1]
  BY <1>3 DEF Queued
<1> QED
  BY <1>1, <1>2, <1>3, <1>4

LEMMA DroppedQueued ==
  ASSUME IsSequence(wire), IsSequence(behind), behind # <<>>, behind' = Tail(behind), wire' = wire
  PROVE  /\ Due' = Due - 1
         /\ \A i \in 1..Len(wire) : Queued'[i] = Queued[i]
         /\ \A i \in (Len(wire) + 1)..Due' : Queued'[i] = Queued[i + 1]
<1>1. /\ Len(behind) \in Nat \ {0} /\ Len(behind') = Len(behind) - 1 /\ Len(wire) \in Nat
      /\ \A i \in 1..Len(behind') : behind'[i] = behind[i + 1]
  BY Untaken
<1>2. Due' = Due - 1
  BY <1>1 DEF Due
<1>3. \A i \in 1..Len(wire) : Queued'[i] = Queued[i]
  BY <1>1 DEF Queued
<1>4. ASSUME NEW i \in (Len(wire) + 1)..Due'
      PROVE  Queued'[i] = Queued[i + 1]
  <2>1. /\ i \in 1..(Len(wire) + Len(behind')) /\ i + 1 \in 1..(Len(wire) + Len(behind))
        /\ ~(i <= Len(wire)) /\ ~(i + 1 <= Len(wire))
        /\ i - Len(wire) \in 1..Len(behind') /\ i + 1 - Len(wire) = (i - Len(wire)) + 1
    BY <1>1 DEF Due
  <2>2. Queued'[i] = behind'[i - Len(wire)]
    BY <2>1 DEF Queued
  <2>3. Queued[i + 1] = behind[i + 1 - Len(wire)]
    BY <2>1 DEF Queued
  <2> QED
    BY <1>1, <2>1, <2>2, <2>3
<1> QED
  BY <1>2, <1>3, <1>4

(* A batch that is broadcast stays where it was.                            *)
LEMMA BroadcastQueued ==
  ASSUME IsSequence(wire), IsSequence(behind), behind # <<>>, behind' = Tail(behind),
         SendWire(Message("diff", Head(behind).joins, Head(behind).leaves, <<>>, None, 0))
  PROVE  /\ IsSequence(wire') /\ Due' = Due /\ Len(wire') = Len(wire) + 1
         /\ \A i \in 1..Len(wire) : wire'[i] = wire[i]
         /\ wire'[Len(wire) + 1].kind = "diff"
         /\ \A i \in 1..Due : Queued'[i].joins = Queued[i].joins /\ Queued'[i].leaves = Queued[i].leaves
<1> DEFINE m == Message("diff", Head(behind).joins, Head(behind).leaves, <<>>, None, 0)
<1>1. /\ Len(behind) \in Nat \ {0} /\ Len(behind') = Len(behind) - 1 /\ Len(wire) \in Nat
      /\ \A i \in 1..Len(behind') : behind'[i] = behind[i + 1]
      /\ Head(behind) = behind[1] /\ Queued[Len(wire) + 1] = behind[1]
  BY Untaken
<1>2. /\ IsSequence(wire') /\ Len(wire') = Len(wire) + 1
      /\ \A i \in 1..Len(wire) : wire'[i] = wire[i]
      /\ wire'[Len(wire) + 1] = m
  BY SequenceAppend DEF SendWire
<1>3. Due' = Due
  BY <1>1, <1>2 DEF Due
<1>4. m.joins = behind[1].joins /\ m.leaves = behind[1].leaves /\ m.kind = "diff"
  BY <1>1 DEF Message
<1> HIDE DEF m
<1>5. ASSUME NEW i \in 1..Due
      PROVE  Queued'[i].joins = Queued[i].joins /\ Queued'[i].leaves = Queued[i].leaves
  <2>1. CASE i <= Len(wire)
    <3>1. i \in 1..(Len(wire') + Len(behind')) /\ i \in 1..(Len(wire) + Len(behind)) /\ i <= Len(wire') /\ i \in 1..Len(wire)
      BY <1>1, <1>2, <2>1 DEF Due
    <3> QED
      BY <1>2, <2>1, <3>1 DEF Queued
  <2>2. CASE i = Len(wire) + 1
    <3>1. i \in 1..(Len(wire') + Len(behind')) /\ i <= Len(wire')
      BY <1>1, <1>2, <2>2 DEF Due
    <3>2. Queued'[i] = m
      BY <1>2, <2>2, <3>1 DEF Queued
    <3> QED
      BY <1>1, <1>4, <2>2, <3>2
  <2>3. CASE i > Len(wire) + 1
    <3>1. /\ i \in 1..(Len(wire') + Len(behind')) /\ i \in 1..(Len(wire) + Len(behind))
          /\ ~(i <= Len(wire')) /\ ~(i <= Len(wire))
          /\ i - Len(wire') \in 1..Len(behind') /\ i - Len(wire) = (i - Len(wire')) + 1
      BY <1>1, <1>2, <2>3 DEF Due
    <3>2. Queued'[i] = behind'[i - Len(wire')] /\ Queued[i] = behind[i - Len(wire)]
      BY <3>1 DEF Queued
    <3> QED
      BY <1>1, <3>1, <3>2
  <2> QED
    BY <1>1, <2>1, <2>2, <2>3 DEF Due
<1> QED
  BY <1>2, <1>3, <1>4, <1>5

LEMMA BatchQueued ==
  ASSUME IsSequence(wire), IsSequence(behind), NEW b, behind' = Append(behind, b), wire' = wire
  PROVE  /\ IsSequence(behind') /\ Due \in Nat /\ Len(wire) \in Nat /\ Len(wire) <= Due /\ Due' = Due + 1
         /\ Queued'[Due + 1] = b
         /\ \A i \in 1..Due : Queued'[i] = Queued[i]
<1>1. /\ Len(behind) \in Nat /\ Len(wire) \in Nat /\ IsSequence(behind') /\ Len(behind') = Len(behind) + 1
      /\ \A i \in 1..Len(behind) : behind'[i] = behind[i]
      /\ behind'[Len(behind) + 1] = b
  BY SequenceAppend, SequenceLength
<1>2. Due \in Nat /\ Len(wire) <= Due /\ Due' = Due + 1
  BY <1>1 DEF Due
<1>3. Queued'[Due + 1] = b
  <2> DEFINE last == Due + 1
  <2>1. last \in 1..(Len(wire) + Len(behind')) /\ ~(last <= Len(wire)) /\ last - Len(wire) = Len(behind) + 1
    BY <1>1 DEF Due
  <2>2. Queued'[last] = behind'[last - Len(wire)]
    <3> HIDE DEF last
    <3> QED
      BY <2>1 DEF Queued
  <2> QED
    BY <1>1, <2>1, <2>2
<1>4. ASSUME NEW i \in 1..Due
      PROVE  Queued'[i] = Queued[i]
  <2>1. /\ i \in 1..(Len(wire) + Len(behind')) /\ i \in 1..(Len(wire) + Len(behind))
        /\ ~(i <= Len(wire)) => i - Len(wire) \in 1..Len(behind)
    BY <1>1 DEF Due
  <2>2. Queued'[i] = IF i <= Len(wire) THEN wire[i] ELSE behind'[i - Len(wire)]
    BY <2>1 DEF Queued
  <2>3. Queued[i] = IF i <= Len(wire) THEN wire[i] ELSE behind[i - Len(wire)]
    BY <2>1 DEF Queued
  <2> QED
    BY <1>1, <2>1, <2>2, <2>3
<1> QED
  BY <1>1, <1>2, <1>3, <1>4

LEMMA LostQueued ==
  ASSUME IsSequence(wire), IsSequence(behind), behind' = behind, wire' = <<>>
  PROVE  /\ IsSequence(wire') /\ Len(wire') = 0 /\ Len(wire) \in Nat /\ Due \in Nat /\ Due' \in Nat
         /\ Len(wire) <= Due /\ Due' = Due - Len(wire)
         /\ \A i \in 1..Due' : Queued'[i] = Queued[Len(wire) + i]
<1>1. Len(wire) \in Nat /\ Len(behind) \in Nat /\ Len(wire') = 0 /\ IsSequence(wire')
  BY SequenceLength, EmptySequence
<1>2. Due \in Nat /\ Due' \in Nat /\ Len(wire) <= Due /\ Due' = Due - Len(wire)
  BY <1>1 DEF Due
<1>3. ASSUME NEW i \in 1..Due'
      PROVE  Queued'[i] = Queued[Len(wire) + i]
  <2> DEFINE j == Len(wire) + i
  <2>1. /\ i \in 1..(Len(wire') + Len(behind)) /\ ~(i <= Len(wire')) /\ i - Len(wire') = i
        /\ j \in 1..(Len(wire) + Len(behind)) /\ ~(j <= Len(wire)) /\ j - Len(wire) = i
    BY <1>1 DEF Due
  <2> HIDE DEF j
  <2>2. Queued'[i] = behind[i - Len(wire')] /\ Queued[j] = behind[j - Len(wire)]
    BY <2>1 DEF Queued
  <2> QED
    BY <2>1, <2>2 DEF j
<1> QED
  BY <1>1, <1>2, <1>3

LEMMA OutdatedQueued ==
  ASSUME WireInvariant, PresencesTyped, behind' = behind, wire' = Outdated(wire)
  PROVE  /\ IsSequence(wire') /\ Len(wire') = Len(wire) /\ Len(wire) \in Nat /\ Due \in Nat
         /\ Len(wire) <= Due /\ Due' = Due
         /\ \A i \in 1..Len(wire) : wire'[i].kind \in {wire[i].kind, "ignored"} /\ wire'[i].kind # "reply"
         /\ \A i \in 1..Len(wire) : wire'[i].joins = wire[i].joins /\ wire'[i].leaves = wire[i].leaves
         /\ \A i \in 1..Due : Queued'[i].joins = Queued[i].joins /\ Queued'[i].leaves = Queued[i].leaves
<1>1. /\ IsSequence(wire) /\ IsSequence(wire') /\ Len(wire') = Len(wire) /\ Len(wire) \in Nat
      /\ DOMAIN wire = 1..Len(wire) /\ DOMAIN wire' = 1..Len(wire) /\ Len(behind) \in Nat
      /\ \A i \in DOMAIN wire' : wire'[i].kind # "reply"
  BY OutdatedWire, SequenceLength DEF WireInvariant, PresencesTyped
<1>2. Due \in Nat /\ Len(wire) <= Due /\ Due' = Due
  BY <1>1 DEF Due
<1>3. ASSUME NEW i \in 1..Len(wire)
      PROVE  /\ wire'[i].kind \in {wire[i].kind, "ignored"}
             /\ wire'[i].joins = wire[i].joins /\ wire'[i].leaves = wire[i].leaves
  <2>1. CASE wire[i].kind = "reply"
    <3>1. wire'[i] = Ignored /\ Empty(wire[i])
      BY <1>1, <2>1 DEF Outdated, PresencesTyped
    <3> QED
      BY <3>1 DEF Ignored, Message, Empty
  <2>2. CASE wire[i].kind # "reply"
    BY <1>1, <2>2 DEF Outdated
  <2> QED
    BY <2>1, <2>2
<1>4. ASSUME NEW i \in 1..Due
      PROVE  Queued'[i].joins = Queued[i].joins /\ Queued'[i].leaves = Queued[i].leaves
  <2>1. i \in 1..(Len(wire) + Len(behind)) /\ i \in 1..(Len(wire') + Len(behind)) /\ (i <= Len(wire) => i \in 1..Len(wire))
    BY <1>1 DEF Due
  <2>2. /\ Queued'[i] = IF i <= Len(wire) THEN wire'[i] ELSE behind[i - Len(wire)]
        /\ Queued[i] = IF i <= Len(wire) THEN wire[i] ELSE behind[i - Len(wire)]
    BY <1>1, <2>1 DEF Queued
  <2> QED
    BY <1>3, <2>1, <2>2
<1> QED
  BY <1>1, <1>2, <1>3, <1>4

(* A message is handled: the presences are still such as were given out.    *)
Handles(kind) ==
  /\ Received(kind) /\ UNCHANGED <<members, refs, behind>>
  /\ state' \subseteq state \cup Head(wire).joins

LEMMA HandlesDiff == PresenceDiff => Handles("diff")
<1> SUFFICES ASSUME PresenceDiff PROVE Handles("diff")
  OBVIOUS
<1>1. SyncDiff(Head(wire).joins, Head(wire).leaves)
  BY DEF PresenceDiff
<1> QED
  BY <1>1, DiffPromised DEF PresenceDiff, Handles

(* A snapshot replaces the state by its presences.                          *)
LEMMA HandlesState == PresenceState => Handles("state") /\ state' = Head(wire).joins
<1> SUFFICES ASSUME PresenceState PROVE Handles("state") /\ state' = Head(wire).joins
  OBVIOUS
<1> DEFINE new == Head(wire).joins
<1>1. SyncDiff(new \ state, Gone(new))
  BY DEF PresenceState
<1> HIDE DEF new
<1>2. state' = (state \cup (new \ state)) \ (state \ new)
  BY <1>1, DiffPromised DEF Gone
<1>3. state' = new
  BY <1>2
<1> QED
  BY <1>3 DEF PresenceState, Handles, new

LEMMA HandlesMessage ==
  ASSUME JoinAnswered \/ IgnoreReply \/ PostgresChange \/ PresenceDiff \/ PresenceState
  PROVE  \E kind \in {"reply", "ignored", "change", "diff", "state"} : Handles(kind)
<1>1. JoinAnswered => Handles("reply")
  BY DEF JoinAnswered, Handles
<1>2. IgnoreReply => Handles("ignored")
  BY DEF IgnoreReply, Handles, presenceVars
<1>3. PostgresChange => Handles("change")
  BY DEF PostgresChange, Handles, presenceVars
<1> QED
  BY <1>1, <1>2, <1>3, HandlesDiff, HandlesState

LEMMA Comers ==
  ASSUME ChangeMembers, refs \in Nat
  PROVE  \E new, gone :
           /\ gone \subseteq members /\ members' = (members \ gone) \cup new
           /\ behind' = Append(behind, [joins |-> new, leaves |-> gone])
           /\ refs' \in Nat /\ refs <= refs'
           /\ \A p \in new : p[2] = refs + 1 /\ p[2] <= refs'
           /\ UNCHANGED <<wire, state, stage, listed, ahead>>
<1>1. PICK new \in {{}} \cup {{<<k, refs + 1>>} : k \in Keys}, gone \in SUBSET members :
        /\ refs' = refs + Cardinality(new)
        /\ members' = (members \ gone) \cup new
        /\ behind' = Append(behind, [joins |-> new, leaves |-> gone])
  BY DEF ChangeMembers
<1>2. refs' \in Nat /\ refs <= refs' /\ \A p \in new : p[2] = refs + 1 /\ p[2] <= refs'
  <2>1. CASE new = {}
    <3>1. refs' = refs
      BY <1>1, <2>1, FS_EmptySet
    <3> QED
      BY <2>1, <3>1
  <2>2. CASE \E k \in Keys : new = {<<k, refs + 1>>}
    <3>1. PICK k \in Keys : new = {<<k, refs + 1>>}
      BY <2>2
    <3>2. refs' = refs + 1
      BY <1>1, <3>1, FS_Singleton
    <3> QED
      BY <3>1, <3>2
  <2> QED
    BY <2>1, <2>2
<1>3. UNCHANGED <<wire, state, stage, listed, ahead>>
  BY DEF ChangeMembers
<1> QED
  BY <1>1, <1>2, <1>3

(* The server answers a join, or nobody waits for its answer.               *)
LEMMA AcceptSends ==
  ASSUME AcceptJoin
  PROVE  \E m : SendWire(m) /\ Empty(m) /\ m.kind \in {"reply", "ignored"}
<1>1. PICK bindings :
        SendWire(IF stage = "joining" /\ pending = 1
                   THEN Message("reply", {}, {}, bindings, None, 0) ELSE Ignored)
  BY DEF AcceptJoin
<1> DEFINE m == IF stage = "joining" /\ pending = 1
                  THEN Message("reply", {}, {}, bindings, None, 0) ELSE Ignored
<1>2. Empty(m) /\ m.kind \in {"reply", "ignored"}
  BY DEF Empty, Ignored, Message
<1> HIDE DEF m
<1> QED
  BY <1>1, <1>2 DEF m

(* The presences anyone knows of are ones the server gave out.              *)
LEMMA PresencesTypedAlways == MessagesSpec => []PresencesTyped
<1>1. MessagesInit => PresencesTyped
  <2> SUFFICES ASSUME MessagesInit PROVE PresencesTyped
    OBVIOUS
  <2>1. Len(wire) = 0 /\ Len(behind) = 0 /\ IsSequence(behind)
    BY EmptySequence, SequenceLength DEF MessagesInit
  <2>2. \A i \in 1..0 : FALSE
    OBVIOUS
  <2> QED
    BY <2>1, <2>2 DEF MessagesInit, PresencesTyped, GivenOut, Due
<1>2. WireInvariant /\ PresencesTyped /\ [MessagesNext]_channelVars => PresencesTyped'
  <2> SUFFICES ASSUME WireInvariant, PresencesTyped, [MessagesNext]_channelVars PROVE PresencesTyped'
    OBVIOUS
  <2>0. IsSequence(wire) /\ IsSequence(behind) /\ refs \in Nat
    BY DEF WireInvariant, PresencesTyped
  <2>1. CASE AcceptJoin \/ SendState \/ ChangeRow
    <3>1. UNCHANGED <<members, refs, behind, state>>
      BY <2>1 DEF AcceptJoin, SendState, ChangeRow, presenceVars
    <3>2. PICK m : /\ SendWire(m) /\ GivenOut(m.joins) /\ GivenOut(m.leaves)
                   /\ m.kind \notin {"state", "diff"} => Empty(m)
      <4>1. CASE AcceptJoin
        BY <4>1, AcceptSends DEF Empty, GivenOut
      <4>2. CASE SendState
        <5>1. SendWire(Message("state", members, {}, <<>>, None, Len(behind)))
          BY <4>2 DEF SendState
        <5>2. /\ Message("state", members, {}, <<>>, None, Len(behind)).kind = "state"
              /\ Message("state", members, {}, <<>>, None, Len(behind)).joins = members
              /\ Message("state", members, {}, <<>>, None, Len(behind)).leaves = {}
          BY DEF Message
        <5>3. GivenOut(members) /\ GivenOut({})
          BY DEF PresencesTyped, GivenOut
        <5> QED
          BY <5>1, <5>2, <5>3
      <4>3. CASE ChangeRow
        <5>1. PICK due, change : SendWire(Message("change", {}, {}, due, change, 0))
          BY <4>3 DEF ChangeRow
        <5>2. /\ Message("change", {}, {}, due, change, 0).joins = {}
              /\ Message("change", {}, {}, due, change, 0).leaves = {}
          BY DEF Message
        <5> QED
          BY <5>1, <5>2 DEF Empty, GivenOut
      <4> QED
        BY <2>1, <4>1, <4>2, <4>3
    <3>3. SendWire(m) /\ behind' = behind
      BY <3>1, <3>2
    <3>4. /\ IsSequence(wire') /\ IsSequence(behind') /\ Len(wire) \in Nat /\ Due \in Nat
          /\ Len(wire') = Len(wire) + 1 /\ Due' = Due + 1 /\ Len(wire) <= Due
          /\ \A i \in 1..Len(wire) : Queued'[i] = Queued[i] /\ wire'[i] = wire[i]
          /\ Queued'[Len(wire) + 1] = m /\ wire'[Len(wire) + 1] = m
          /\ \A i \in (Len(wire) + 1)..Due : Queued'[i + 1] = Queued[i]
      BY <2>0, <3>3, PutQueued
    <3>5. \A i \in 1..Due' : GivenOut(Queued'[i].joins) /\ GivenOut(Queued'[i].leaves)
      <4> SUFFICES ASSUME NEW i \in 1..Due'
                   PROVE  GivenOut(Queued'[i].joins) /\ GivenOut(Queued'[i].leaves)
        OBVIOUS
      <4>1. \/ i \in 1..Len(wire) /\ i \in 1..Due
            \/ i = Len(wire) + 1
            \/ i - 1 \in (Len(wire) + 1)..Due /\ i - 1 \in 1..Due /\ (i - 1) + 1 = i
        BY <3>4
      <4> QED
        BY <3>2, <3>4, <4>1 DEF PresencesTyped
    <3>6. \A i \in 1..Len(wire') : wire'[i].kind \notin {"state", "diff"} => Empty(wire'[i])
      <4>1. \A i \in 1..Len(wire') : i \in 1..Len(wire) \/ i = Len(wire) + 1
        BY <3>4
      <4> QED
        BY <3>2, <3>4, <4>1 DEF PresencesTyped
    <3> QED
      BY <3>1, <3>4, <3>5, <3>6 DEF PresencesTyped, GivenOut, Empty
  <2>2. CASE ChangeMembers
    <3>1. PICK new, gone :
           /\ gone \subseteq members /\ members' = (members \ gone) \cup new
           /\ behind' = Append(behind, [joins |-> new, leaves |-> gone])
           /\ refs' \in Nat /\ refs <= refs'
           /\ \A p \in new : p[2] = refs + 1 /\ p[2] <= refs'
           /\ UNCHANGED <<wire, state, stage, listed, ahead>>
      BY <2>0, <2>2, Comers
    <3> DEFINE b == [joins |-> new, leaves |-> gone]
    <3>2. ASSUME NEW S, GivenOut(S) PROVE \A p \in S : p[2] \in 1..refs'
      BY <2>0, <3>1, <3>2 DEF GivenOut
    <3>3. \A p \in new : p[2] \in 1..refs'
      BY <2>0, <3>1
    <3>4. b.joins = new /\ b.leaves = gone /\ behind' = Append(behind, b)
      BY <3>1
    <3> HIDE DEF b
    <3>5. /\ IsSequence(behind') /\ Due \in Nat /\ Due' = Due + 1
          /\ Queued'[Due + 1] = b
          /\ \A i \in 1..Due : Queued'[i] = Queued[i]
      BY <2>0, <3>1, <3>4, BatchQueued
    <3>6. \A p \in members : p[2] \in 1..refs'
      BY <3>2 DEF PresencesTyped
    <3>7. ASSUME NEW i \in 1..Due'
          PROVE  \A p \in Queued'[i].joins \cup Queued'[i].leaves : p[2] \in 1..refs'
      <4>1. i \in 1..Due \/ i = Due + 1
        BY <3>5
      <4>2. CASE i \in 1..Due
        BY <3>2, <3>5, <4>2 DEF PresencesTyped
      <4>3. CASE i = Due + 1
        BY <3>1, <3>3, <3>4, <3>5, <3>6, <4>3
      <4> QED
        BY <4>1, <4>2, <4>3
    <3>8. \A p \in state : p[2] \in 1..refs'
      BY <3>2 DEF PresencesTyped
    <3>9. GivenOut(members)' /\ GivenOut(state)'
      BY <3>1, <3>3, <3>6, <3>8 DEF GivenOut
    <3>10. \A i \in 1..Due' : GivenOut(Queued[i].joins)' /\ GivenOut(Queued[i].leaves)'
      BY <3>7 DEF GivenOut
    <3> QED
      BY <3>1, <3>5, <3>9, <3>10 DEF PresencesTyped, Empty
  <2>3. CASE Broadcast
    <3>1. behind # <<>> /\ behind' = Tail(behind) /\ UNCHANGED <<members, refs, state, stage>>
      BY <2>3 DEF Broadcast
    <3>2. IsSequence(behind') /\ Len(wire) \in Nat /\ Due \in Nat /\ Len(wire) + 1 <= Due
      BY <2>0, <3>1, Untaken
    <3>3. CASE wire' = wire
      <4>1. /\ Due' = Due - 1
            /\ \A i \in 1..Len(wire) : Queued'[i] = Queued[i]
            /\ \A i \in (Len(wire) + 1)..Due' : Queued'[i] = Queued[i + 1]
        BY <2>0, <3>1, <3>3, DroppedQueued
      <4>2. \A i \in 1..Due' : (i \in 1..Len(wire) /\ i \in 1..Due) \/ (i \in (Len(wire) + 1)..Due' /\ i + 1 \in 1..Due)
        BY <3>2, <4>1
      <4> QED
        BY <2>0, <3>1, <3>2, <3>3, <4>1, <4>2 DEF PresencesTyped, GivenOut, Empty
    <3>4. CASE SendWire(Message("diff", Head(behind).joins, Head(behind).leaves, <<>>, None, 0))
      <4>1. /\ IsSequence(wire') /\ Due' = Due /\ Len(wire') = Len(wire) + 1
            /\ \A i \in 1..Len(wire) : wire'[i] = wire[i]
            /\ wire'[Len(wire) + 1].kind = "diff"
            /\ \A i \in 1..Due : Queued'[i].joins = Queued[i].joins /\ Queued'[i].leaves = Queued[i].leaves
        BY <2>0, <3>1, <3>4, BroadcastQueued
      <4>2. \A i \in 1..Len(wire') : i \in 1..Len(wire) \/ i = Len(wire) + 1
        BY <3>2, <4>1
      <4> QED
        BY <2>0, <3>1, <3>2, <4>1, <4>2 DEF PresencesTyped, GivenOut, Empty
    <3> QED
      BY <2>3, <3>3, <3>4 DEF Broadcast
  <2>4. CASE Join \/ AddCallback \/ UNCHANGED channelVars
    <3>1. UNCHANGED <<wire, behind, members, refs, state>>
      BY <2>4 DEF Join, AddCallback, channelVars, presenceVars
    <3>2. UNCHANGED <<Queued, Due>>
      BY <3>1 DEF Queued, Due
    <3> QED
      BY <3>1, <3>2 DEF PresencesTyped, GivenOut, Empty
  <2>5. CASE Fail
    <3>1. wire' \in {Outdated(wire), <<>>} /\ UNCHANGED <<behind, members, refs, state>>
      BY <2>5 DEF Fail
    <3>2. CASE wire' = <<>>
      <4>1. /\ Len(wire') = 0 /\ Len(wire) \in Nat /\ Due \in Nat /\ Due' \in Nat
            /\ Len(wire) <= Due /\ Due' = Due - Len(wire)
            /\ \A i \in 1..Due' : Queued'[i] = Queued[Len(wire) + i]
        BY <2>0, <3>1, <3>2, LostQueued
      <4>2. (\A i \in 1..Due' : Len(wire) + i \in 1..Due) /\ (\A i \in 1..Len(wire') : FALSE)
        BY <4>1
      <4> QED
        BY <2>0, <3>1, <4>1, <4>2 DEF PresencesTyped, GivenOut, Empty
    <3>3. CASE wire' = Outdated(wire)
      <4>1. /\ Len(wire') = Len(wire) /\ Due' = Due
            /\ \A i \in 1..Len(wire) : wire'[i].kind \in {wire[i].kind, "ignored"}
            /\ \A i \in 1..Len(wire) : wire'[i].joins = wire[i].joins /\ wire'[i].leaves = wire[i].leaves
            /\ \A i \in 1..Due : Queued'[i].joins = Queued[i].joins /\ Queued'[i].leaves = Queued[i].leaves
        BY <3>1, <3>3, OutdatedQueued
      <4>2. \A i \in 1..Len(wire) : wire'[i].kind \notin {"state", "diff"} => Empty(wire'[i])
        <5>1. \A i \in 1..Len(wire) : wire'[i].kind = "ignored" => wire[i].kind = "ignored" \/ wire[i].kind = "reply"
          BY <3>3, SequenceLength DEF Outdated, WireInvariant
        <5> QED
          BY <4>1, <5>1 DEF PresencesTyped, Empty
      <4> QED
        BY <2>0, <3>1, <4>1, <4>2 DEF PresencesTyped, GivenOut, Empty
    <3> QED
      BY <3>1, <3>2, <3>3
  <2>6. ASSUME NEW kind, Handles(kind)
        PROVE  PresencesTyped'
    <3>1. Received(kind) /\ UNCHANGED <<members, refs, behind>> /\ state' \subseteq state \cup Head(wire).joins
      BY <2>6 DEF Handles
    <3>2. /\ IsSequence(behind') /\ Len(wire) \in Nat \ {0} /\ Due \in Nat /\ Due >= 1
          /\ Len(wire') = Len(wire) - 1 /\ Due' = Due - 1 /\ Len(wire) <= Due
          /\ Head(wire) = wire[1]
          /\ \A i \in 1..Len(wire) : Queued[i] = wire[i]
          /\ \A i \in 1..Len(wire') : wire'[i] = wire[i + 1]
          /\ \A i \in 1..Due' : Queued'[i] = Queued[i + 1]
      BY <2>0, <3>1, TakeQueued
    <3>3. /\ 1 \in 1..Due /\ 1 \in 1..Len(wire)
          /\ \A i \in 1..Due' : i + 1 \in 1..Due
          /\ \A i \in 1..Len(wire') : i + 1 \in 1..Len(wire)
      BY <3>2
    <3>4. GivenOut(Head(wire).joins)
      BY <3>2, <3>3 DEF PresencesTyped
    <3> QED
      BY <2>0, <3>1, <3>2, <3>3, <3>4 DEF PresencesTyped, GivenOut, Empty
  <2> QED
    BY <2>1, <2>2, <2>3, <2>4, <2>5, <2>6, HandlesMessage DEF MessagesNext
<1> QED
  BY <1>1, <1>2, WireInvariantAlways, PTL DEF MessagesSpec

(* A joined channel is sent one snapshot for each join.                     *)
LEMMA SnapshotInvariantAlways == MessagesSpec => []SnapshotInvariant
<1>1. MessagesInit => SnapshotInvariant
  <2> SUFFICES ASSUME MessagesInit PROVE SnapshotInvariant
    OBVIOUS
  <2>1. Len(wire) = 0
    BY EmptySequence, SequenceLength DEF MessagesInit
  <2>2. \A i \in 1..0 : FALSE
    OBVIOUS
  <2> QED
    BY <2>1, <2>2 DEF MessagesInit, SnapshotInvariant, Snapshots
<1>2. WireInvariant /\ PresencesTyped /\ SnapshotInvariant /\ [MessagesNext]_channelVars => SnapshotInvariant'
  <2> SUFFICES ASSUME WireInvariant, PresencesTyped, SnapshotInvariant, [MessagesNext]_channelVars
               PROVE  SnapshotInvariant'
    OBVIOUS
  <2>0. IsSequence(wire) /\ IsSequence(behind) /\ Len(wire) \in Nat
    BY SequenceLength DEF WireInvariant, PresencesTyped
  <2>1. ASSUME NEW m, SendWire(m), UNCHANGED <<stage, serverVars, ahead>>, m.kind # "reply",
               \/ m.kind # "state" /\ listed' = listed
               \/ m.kind = "state" /\ ~listed /\ listed'
        PROVE  SnapshotInvariant'
    <3>1. wire' = Append(wire, m)
      BY <2>1 DEF SendWire
    <3>2. /\ Len(wire') = Len(wire) + 1 /\ wire'[Len(wire) + 1] = m
          /\ \A i \in 1..Len(wire) : wire'[i] = wire[i]
      BY <2>0, <3>1, SequenceAppend
    <3>3. \A i \in 1..Len(wire') : i \in 1..Len(wire) \/ i = Len(wire')
      BY <2>0, <3>2
    <3>4. \A k \in 1..Len(wire') : Fresh(k)' => Fresh(k)
      BY <2>1, Sent DEF SentLast, ServesLast, serverVars, WireInvariant
    <3>5. \A k : k \in Snapshots' => k \in 1..Len(wire') /\ (k \in Snapshots \/ (k = Len(wire') /\ m.kind = "state"))
      BY <3>2, <3>3 DEF Snapshots
    <3>6. CASE m.kind # "state" /\ listed' = listed
      BY <2>1, <3>4, <3>5, <3>6 DEF SnapshotInvariant
    <3>7. CASE m.kind = "state" /\ ~listed /\ listed'
      <4>1. (stage = "joined" => ahead = None) /\ \A k \in Snapshots : ~Fresh(k)
        BY <3>7 DEF SnapshotInvariant
      <4>2. \A k : k \in Snapshots' /\ Fresh(k)' => k = Len(wire')
        BY <3>4, <3>5, <4>1
      <4> QED
        BY <2>1, <3>7, <4>1, <4>2 DEF SnapshotInvariant
    <3> QED
      BY <2>1, <3>6, <3>7
  <2>2. CASE SendState
    <3>1. ~listed /\ listed' /\ UNCHANGED <<stage, serverVars, ahead>>
          /\ SendWire(Message("state", members, {}, <<>>, None, Len(behind)))
      BY <2>2 DEF SendState
    <3>2. PICK m : SendWire(m) /\ m.kind = "state"
      BY <3>1, MessageFields
    <3> QED
      BY <2>1, <3>1, <3>2
  <2>3. CASE ChangeRow \/ (Broadcast /\ serves)
    <3>1. UNCHANGED <<stage, serverVars, listed, ahead>>
      BY <2>3 DEF ChangeRow, Broadcast, presenceVars
    <3>2. PICK kind, arrivals, leaves, bindings, change :
            kind \in {"diff", "change"} /\ SendWire(Message(kind, arrivals, leaves, bindings, change, 0))
      <4>1. CASE ChangeRow
        <5>1. PICK change : \E due : SendWire(Message("change", {}, {}, due, change, 0))
          BY <4>1 DEF ChangeRow
        <5> QED
          BY <5>1
      <4>2. CASE Broadcast /\ serves
        <5>1. SendWire(Message("diff", Head(behind).joins, Head(behind).leaves, <<>>, None, 0))
          BY <4>2 DEF Broadcast
        <5> QED
          BY <5>1
      <4> QED
        BY <2>3, <4>1, <4>2
    <3>3. PICK m : SendWire(m) /\ m.kind \in {"diff", "change"}
      BY <3>2, MessageFields
    <3> QED
      BY <2>1, <3>1, <3>3
  <2>4. CASE UNCHANGED <<wire, stage, listed, ahead>>
    BY <2>4 DEF SnapshotInvariant, Snapshots, Fresh
  <2>5. CASE Join \/ Fail \/ AcceptJoin
    <3>1. stage' # "joined" /\ \A k \in 1..Len(wire') : ~Fresh(k)'
      BY <2>5, NoneFresh
    <3> QED
      BY <3>1 DEF SnapshotInvariant, Snapshots
  <2>6. ASSUME NEW kind, Handles(kind), UNCHANGED <<serverVars, listed>>,
               \/ kind = "reply" /\ ahead' = None
               \/ kind \notin {"reply", "state"} /\ UNCHANGED <<stage, ahead>>
               \/ kind = "state" /\ UNCHANGED stage
        PROVE  SnapshotInvariant'
    <3>1. Received(kind) /\ behind' = behind
      BY <2>6 DEF Handles
    <3>2. /\ Len(wire) \in Nat \ {0} /\ Len(wire') = Len(wire) - 1 /\ wire[1].kind = kind
          /\ \A i \in 1..Len(wire') : wire'[i] = wire[i + 1]
      BY <2>0, <3>1, TakeQueued
    <3>3. 1 \in 1..Len(wire) /\ \A i \in 1..Len(wire') : i + 1 \in 1..Len(wire) /\ i + 1 # 1
      BY <3>2
    <3>4. \A k \in 1..Len(wire') : Fresh(k)' => Fresh(k + 1)
      BY <2>6, <3>1, Taken
    <3>5. \A k : k \in Snapshots' => k \in 1..Len(wire') /\ k + 1 \in Snapshots
      BY <3>2, <3>3 DEF Snapshots
    <3>6. ASSUME NEW k, k \in Snapshots', Fresh(k)'
          PROVE  /\ listed' /\ (stage = "joined" => ahead = None)
                 /\ \A l : l \in Snapshots' /\ Fresh(l)' => l = k
      <4>1. k + 1 \in Snapshots /\ Fresh(k + 1) /\ k \in 1..Len(wire')
        BY <3>4, <3>5, <3>6
      <4>2. ASSUME NEW l, l \in Snapshots', Fresh(l)'
            PROVE  l = k
        <5>1. l + 1 \in Snapshots /\ Fresh(l + 1) /\ l \in 1..Len(wire')
          BY <3>4, <3>5, <4>2
        <5>2. l + 1 = k + 1
          BY <4>1, <5>1 DEF SnapshotInvariant
        <5> QED
          BY <4>1, <5>1, <5>2
      <4> QED
        BY <2>6, <4>1, <4>2 DEF SnapshotInvariant
    <3>7. CASE kind # "state"
      BY <2>6, <3>6, <3>7 DEF SnapshotInvariant
    <3>8. CASE kind = "state"
      <4>1. 1 \in Snapshots /\ (stage = "joined" => Fresh(1))
        BY <3>2, <3>3, <3>8 DEF Snapshots, Fresh
      <4>2. stage = "joined" => listed /\ \A k : k \notin Snapshots'
        BY <3>3, <3>5, <4>1 DEF SnapshotInvariant, Fresh
      <4> QED
        BY <2>6, <3>6, <3>8, <4>2 DEF SnapshotInvariant
    <3> QED
      BY <3>7, <3>8
  <2>7. CASE JoinAnswered \/ IgnoreReply \/ PostgresChange \/ PresenceDiff \/ PresenceState
    <3>1. JoinAnswered => Handles("reply") /\ ahead' = None /\ UNCHANGED <<serverVars, listed>>
      BY DEF JoinAnswered, Handles
    <3>2. IgnoreReply => Handles("ignored") /\ UNCHANGED <<stage, serverVars, listed, ahead>>
      BY DEF IgnoreReply, Handles, presenceVars
    <3>3. PostgresChange => Handles("change") /\ UNCHANGED <<stage, serverVars, listed, ahead>>
      BY DEF PostgresChange, Handles, presenceVars
    <3>4. PresenceDiff => Handles("diff") /\ UNCHANGED <<stage, serverVars, listed, ahead>>
      BY HandlesDiff DEF PresenceDiff
    <3>5. PresenceState => Handles("state") /\ UNCHANGED <<stage, serverVars, listed>>
      BY HandlesState DEF PresenceState
    <3> QED
      BY <2>6, <2>7, <3>1, <3>2, <3>3, <3>4, <3>5
  <2>8. CASE ChangeMembers \/ AddCallback \/ (Broadcast /\ ~serves) \/ UNCHANGED channelVars
    BY <2>4, <2>8 DEF ChangeMembers, AddCallback, Broadcast, channelVars, presenceVars
  <2> QED
    BY <2>2, <2>3, <2>5, <2>7, <2>8 DEF MessagesNext
<1> QED
  BY <1>1, <1>2, WireInvariantAlways, PresencesTypedAlways, PTL DEF MessagesSpec

(* A ledger of the batches not broadcast yet stays one when a message is    *)
(* sent before them, handled or lost, or when a batch is given up.          *)
LEMMA LedgerLater ==
  ASSUME NEW q, NEW k \in Nat, NEW n \in Nat, NEW l \in Nat, k <= l, NEW present, Ledger(q, k, n, present)
  PROVE  Ledger(q, l, n, present)
<1>1. \A i \in (l + 1)..n : i \in (k + 1)..n
  OBVIOUS
<1> QED
  BY <1>1 DEF Ledger

LEMMA SendLedger ==
  ASSUME IsSequence(wire), IsSequence(behind), NEW m, SendWire(m), behind' = behind,
         Ledger(Queued, Len(wire), Due, members)
  PROVE  Ledger(Queued', Len(wire'), Due', members)
<1>1. /\ Len(wire) \in Nat /\ Due \in Nat /\ Len(wire') = Len(wire) + 1 /\ Due' = Due + 1 /\ Len(wire) <= Due
      /\ \A i \in (Len(wire) + 1)..Due : Queued'[i + 1] = Queued[i]
  BY PutQueued
<1>2. ASSUME NEW i \in 1..(Due - Len(wire))
      PROVE  Queued'[Len(wire') + i] = Queued[Len(wire) + i]
  <2>1. Len(wire) + i \in (Len(wire) + 1)..Due /\ Len(wire') + i = (Len(wire) + i) + 1
    BY <1>1
  <2> QED
    BY <1>1, <2>1
<1>3. Follows(Queued, Len(wire), Due, Queued', Len(wire'), Due')
  BY <1>1, <1>2 DEF Follows
<1>4. Len(wire') \in Nat /\ Due' \in Nat
  BY <1>1
<1> QED
  BY <1>1, <1>3, <1>4, MovedLedger

LEMMA TakeLedger ==
  ASSUME IsSequence(wire), IsSequence(behind), NEW kind, Received(kind), behind' = behind,
         Ledger(Queued, Len(wire), Due, members)
  PROVE  Ledger(Queued', Len(wire'), Due', members)
<1>1. /\ Len(wire) \in Nat \ {0} /\ Due \in Nat /\ Due >= 1
      /\ Len(wire') = Len(wire) - 1 /\ Due' = Due - 1 /\ Len(wire) <= Due
      /\ \A i \in 1..Due' : Queued'[i] = Queued[i + 1]
  BY TakeQueued
<1>2. ASSUME NEW i \in 1..(Due - Len(wire))
      PROVE  Queued'[Len(wire') + i] = Queued[Len(wire) + i]
  <2>1. Len(wire') + i \in 1..Due' /\ Len(wire) + i = (Len(wire') + i) + 1
    BY <1>1
  <2> QED
    BY <1>1, <2>1
<1>3. Follows(Queued, Len(wire), Due, Queued', Len(wire'), Due')
  BY <1>1, <1>2 DEF Follows
<1>4. Len(wire') \in Nat /\ Due' \in Nat
  BY <1>1
<1> QED
  BY <1>1, <1>3, <1>4, MovedLedger

LEMMA FailLedger ==
  ASSUME WireInvariant, PresencesTyped, Fail, Ledger(Queued, Len(wire), Due, members)
  PROVE  Ledger(Queued', Len(wire'), Due', members')
<1>0. /\ IsSequence(wire) /\ IsSequence(behind) /\ behind' = behind /\ members' = members
      /\ wire' = Outdated(wire) \/ wire' = <<>>
  BY DEF Fail, WireInvariant, PresencesTyped
<1>1. CASE wire' = <<>>
  <2>1. /\ Len(wire') = 0 /\ Len(wire) \in Nat /\ Due \in Nat /\ Due' \in Nat
        /\ Len(wire) <= Due /\ Due' = Due - Len(wire)
        /\ \A i \in 1..Due' : Queued'[i] = Queued[Len(wire) + i]
    BY <1>0, <1>1, LostQueued
  <2>2. Follows(Queued, Len(wire), Due, Queued', 0, Due')
    <3>1. \A i \in 1..(Due - Len(wire)) : i \in 1..Due' /\ 0 + i = i
      BY <2>1
    <3> QED
      BY <2>1, <3>1 DEF Follows
  <2> QED
    BY <1>0, <2>1, <2>2, MovedLedger
<1>2. CASE wire' = Outdated(wire)
  <2>1. /\ Len(wire') = Len(wire) /\ Len(wire) \in Nat /\ Due \in Nat
        /\ Len(wire) <= Due /\ Due' = Due
        /\ \A i \in 1..Due : Queued'[i].joins = Queued[i].joins /\ Queued'[i].leaves = Queued[i].leaves
    BY <1>0, <1>2, OutdatedQueued
  <2>2. Follows(Queued, Len(wire), Due, Queued', Len(wire), Due)
    <3>1. \A i \in 1..(Due - Len(wire)) : Len(wire) + i \in 1..Due
      BY <2>1
    <3> QED
      BY <2>1, <3>1 DEF Follows
  <2> QED
    BY <1>0, <2>1, <2>2, MovedLedger
<1> QED
  BY <1>0, <1>1, <1>2

LEMMA BroadcastLedger ==
  ASSUME WireInvariant, PresencesTyped, Broadcast, Ledger(Queued, Len(wire), Due, members)
  PROVE  Ledger(Queued', Len(wire'), Due', members')
<1>0. IsSequence(wire) /\ IsSequence(behind) /\ behind # <<>> /\ behind' = Tail(behind) /\ members' = members
  BY DEF Broadcast, WireInvariant, PresencesTyped
<1>1. Len(wire) \in Nat /\ Due \in Nat /\ Len(wire) + 1 <= Due
  BY <1>0, Untaken
<1>2. Ledger(Queued, Len(wire) + 1, Due, members)
  <2>1. Len(wire) + 1 \in Nat /\ Len(wire) <= Len(wire) + 1
    BY <1>1
  <2> QED
    BY <1>1, <2>1, LedgerLater
<1>3. CASE wire' = wire
  <2>1. Due' = Due - 1 /\ \A i \in (Len(wire) + 1)..Due' : Queued'[i] = Queued[i + 1]
    BY <1>0, <1>3, DroppedQueued
  <2>2. ASSUME NEW i \in 1..(Due - (Len(wire) + 1))
        PROVE  Queued'[Len(wire) + i] = Queued[Len(wire) + 1 + i]
    <3>1. Len(wire) + i \in (Len(wire) + 1)..Due' /\ Len(wire) + 1 + i = (Len(wire) + i) + 1
      BY <1>1, <2>1
    <3> QED
      BY <2>1, <3>1
  <2>3. Follows(Queued, Len(wire) + 1, Due, Queued', Len(wire), Due') /\ Due' \in Nat /\ Len(wire) + 1 \in Nat
    BY <1>1, <2>1, <2>2 DEF Follows
  <2> QED
    BY <1>0, <1>1, <1>2, <1>3, <2>3, MovedLedger
<1>4. CASE SendWire(Message("diff", Head(behind).joins, Head(behind).leaves, <<>>, None, 0))
  <2>1. /\ Due' = Due /\ Len(wire') = Len(wire) + 1
        /\ \A i \in 1..Due : Queued'[i].joins = Queued[i].joins /\ Queued'[i].leaves = Queued[i].leaves
    BY <1>0, <1>4, BroadcastQueued
  <2>2. Follows(Queued, Len(wire) + 1, Due, Queued', Len(wire'), Due') /\ Len(wire) + 1 \in Nat
    <3>1. \A i \in 1..(Due - (Len(wire) + 1)) : Len(wire) + 1 + i \in 1..Due
      BY <1>1
    <3> QED
      BY <1>1, <2>1, <3>1 DEF Follows
  <2> QED
    BY <1>0, <1>1, <1>2, <2>1, <2>2, MovedLedger
<1> QED
  BY <1>3, <1>4 DEF Broadcast

(* What a batch adds to the messages after k                                *)
LEMMA ComersAreOneMore ==
  ASSUME PresencesTyped, IsSequence(wire), NEW k \in 0..Len(wire), NEW new, NEW gone,
         gone \subseteq members, behind' = Append(behind, [joins |-> new, leaves |-> gone]), wire' = wire,
         \A p \in new : p[2] = refs + 1
  PROVE  OneMore(Queued, k, Due, Queued', members, new, gone) /\ Due' = Due + 1 /\ Due \in Nat /\ Len(wire) <= Due
<1> DEFINE b == [joins |-> new, leaves |-> gone]
<1>0. b.joins = new /\ b.leaves = gone /\ behind' = Append(behind, b) /\ IsSequence(behind) /\ refs \in Nat
  BY DEF PresencesTyped
<1> HIDE DEF b
<1>1. /\ Due \in Nat /\ Len(wire) \in Nat /\ Len(wire) <= Due /\ Due' = Due + 1
      /\ Queued'[Due + 1] = b
      /\ \A i \in 1..Due : Queued'[i] = Queued[i]
  BY <1>0, BatchQueued
<1>2. ASSUME NEW S, GivenOut(S) PROVE new \cap S = {}
  BY <1>0, <1>2 DEF GivenOut
<1>3. \A i \in (k + 1)..Due : i \in 1..Due
  BY <1>1
<1>4. \A i \in (k + 1)..Due : new \cap Queued[i].joins = {} /\ new \cap Queued[i].leaves = {}
  BY <1>2, <1>3 DEF PresencesTyped
<1>5. new \cap members = {}
  BY <1>2 DEF PresencesTyped
<1>6. \A i \in (k + 1)..Due : new \cap (Queued[i].joins \cup Queued[i].leaves) = {}
  BY <1>4
<1> QED
  BY <1>0, <1>1, <1>3, <1>5, <1>6 DEF OneMore

(* A change of a row, put behind the messages on the wire, leads nowhere else. *)
LEMMA ChangeLeads ==
  ASSUME IsSequence(wire), IsSequence(behind), NEW m, Empty(m), SendWire(m), behind' = behind,
         NEW k \in 0..Len(wire), NEW seen, NEW lead, Leads(seen, lead, Queued, k, Due, members)
  PROVE  Leads(seen, lead, Queued', k, Due', members)
<1>1. /\ Len(wire) \in Nat /\ Due \in Nat /\ Due' = Due + 1 /\ Len(wire) <= Due
      /\ \A i \in 1..Len(wire) : Queued'[i] = Queued[i]
      /\ Queued'[Len(wire) + 1] = m
      /\ \A i \in (Len(wire) + 1)..Due : Queued'[i + 1] = Queued[i]
  BY PutQueued
<1>2. /\ \A i \in 1..Len(wire) : Queued'[i].joins = Queued[i].joins /\ Queued'[i].leaves = Queued[i].leaves
      /\ Empty(Queued'[Len(wire) + 1])
      /\ \A i \in (Len(wire) + 1)..Due : Queued'[i + 1].joins = Queued[i].joins /\ Queued'[i + 1].leaves = Queued[i].leaves
  BY <1>1
<1>3. Len(wire) \in k..Due /\ k \in Nat
  BY <1>1
<1>4. Leads(seen, lead, Queued', k, Due + 1, members)
  BY <1>1, <1>2, <1>3, Inserted
<1> QED
  BY <1>1, <1>4

(* A snapshot is of all the presences there are: ahead of one batch at      *)
(* most, it is what that batch led to.                                      *)
LEMMA SnapshotLeads ==
  ASSUME NEW q, NEW k \in Nat, NEW n \in Nat, k <= n, NEW present, Ledger(q, k, n, present)
  PROVE  Leads(present, n - k, q, k, n, present)
<1>1. Came(q, n, n) = {} /\ Went(q, n, n) = {}
  <2>1. \A i \in (n + 1)..n : FALSE
    OBVIOUS
  <2>2. ASSUME NEW p PROVE p \notin Came(q, n, n) /\ p \notin Went(q, n, n)
    BY <2>1, CameAndWent
  <2> QED
    BY <2>2
<1>2. ASSUME n - k <= 1
      PROVE  \E m \in k..n :
               /\ \A i \in (k + 1)..(m - 1) : Empty(q[i])
               /\ m > k => q[m].joins \subseteq present /\ q[m].leaves \cap present = {}
               /\ present = Before(q, m, n, present)
  <2>1. n \in k..n /\ (\A i \in (k + 1)..(n - 1) : FALSE) /\ (n > k => n \in (k + 1)..n)
    BY <1>2
  <2>2. n > k => q[n].joins \subseteq present /\ q[n].leaves \cap present = {}
    BY <1>1, <2>1 DEF Ledger
  <2>3. present = Before(q, n, n, present)
    BY <1>1 DEF Before
  <2> QED
    BY <2>1, <2>2, <2>3
<1> QED
  BY <1>2 DEF Leads

(* The messages after the first one are what follows once it is handled.    *)
LEMMA TakenLeads ==
  ASSUME IsSequence(wire), IsSequence(behind), NEW kind, Received(kind), behind' = behind,
         NEW k \in Nat, k < Due, NEW seen, NEW lead, Leads(seen, lead, Queued, k + 1, Due, members)
  PROVE  Leads(seen, lead, Queued', k, Due', members)
<1>1. /\ Due \in Nat /\ Due >= 1 /\ Due' = Due - 1
      /\ \A i \in 1..Due' : Queued'[i] = Queued[i + 1]
  BY TakeQueued
<1>2. ASSUME NEW i \in 1..(Due - (k + 1))
      PROVE  Queued'[k + i] = Queued[k + 1 + i]
  <2>1. k + i \in 1..Due' /\ k + 1 + i = (k + i) + 1
    BY <1>1
  <2> QED
    BY <1>1, <2>1
<1>3. Follows(Queued, k + 1, Due, Queued', k, Due') /\ k + 1 \in Nat /\ Due' \in Nat
  BY <1>1, <1>2 DEF Follows
<1> QED
  BY <1>1, <1>3, MovedLeads

(* A handler makes of the state what the batch of its message leads to.     *)
LEMMA HandledState ==
  ASSUME WireInvariant, PresencesTyped,
         PresenceDiff \/ IgnoreReply \/ PostgresChange,
         Leads(state, ahead, Queued, 0, Due, members)
  PROVE  Leads(state', ahead', Queued', 0, Due', members')
<1>1. PICK kind : Received(kind) /\ behind' = behind /\ UNCHANGED <<members, ahead>>
  BY DEF PresenceDiff, IgnoreReply, PostgresChange, presenceVars
<1>0. IsSequence(wire) /\ IsSequence(behind)
  BY DEF WireInvariant, PresencesTyped
<1>2. /\ Len(wire) \in Nat \ {0} /\ Due \in Nat /\ Due >= 1
      /\ Head(wire) = wire[1] /\ wire[1].kind = kind
      /\ \A i \in 1..Len(wire) : Queued[i] = wire[i]
  BY <1>0, <1>1, TakeQueued
<1>3. Queued[1] = Head(wire) /\ 1 \in 1..Len(wire)
  BY <1>2
<1> DEFINE J == Queued[1].joins
           L == Queued[1].leaves
<1>4. /\ (state \cup J) \ L \subseteq state' /\ state' \subseteq state \cup J
      /\ L \subseteq state \cup J => state' = (state \cup J) \ L
  <2>1. CASE PresenceDiff
    <3>1. SyncDiff(Head(wire).joins, Head(wire).leaves)
      BY <2>1 DEF PresenceDiff
    <3> QED
      BY <1>3, <3>1, DiffPromised
  <2>2. CASE IgnoreReply \/ PostgresChange
    <3>1. state' = state /\ Head(wire).kind \in {"ignored", "change"}
      BY <2>2 DEF IgnoreReply, PostgresChange, presenceVars, Received
    <3>2. J = {} /\ L = {}
      BY <1>2, <1>3, <3>1 DEF PresencesTyped, Empty
    <3> QED
      BY <3>1, <3>2
  <2> QED
    BY <2>1, <2>2
<1>5. Leads(state', ahead, Queued, 1, Due, members)
  BY <1>2, <1>4, Handled
<1>6. Leads(state', ahead, Queued, 0 + 1, Due, members) /\ 0 < Due
  BY <1>2, <1>5
<1> QED
  BY <1>0, <1>1, <1>6, TakenLeads

(* The snapshot of a join leads, with the batches behind it, to the         *)
(* presences it is of.                                                      *)
LEMMA SendStateLeads ==
  ASSUME WireInvariant, PresencesTyped, SnapshotInvariant, LeadsInvariant, SendState
  PROVE  LeadsInvariant'
<1> DEFINE m == Message("state", members, {}, <<>>, None, Len(behind))
<1>0. /\ IsSequence(wire) /\ IsSequence(behind) /\ SendWire(m) /\ ~listed
      /\ UNCHANGED <<members, behind, state, stage, ahead, serverVars>>
  BY DEF SendState, WireInvariant, PresencesTyped
<1>1. m.joins = members /\ m.ahead = Len(behind) /\ m.kind # "reply"
  BY DEF Message
<1> HIDE DEF m
<1>2. /\ Len(wire) \in Nat /\ Len(behind) \in Nat /\ Due \in Nat /\ Due' = Due + 1
      /\ Len(wire') = Len(wire) + 1 /\ wire'[Len(wire) + 1] = m
      /\ \A i \in 1..Len(wire) : wire'[i] = wire[i]
  BY <1>0, PutQueued
<1>3. Ledger(Queued', Len(wire'), Due', members)
  BY <1>0, SendLedger DEF LeadsInvariant
<1>4. Due' - Len(wire') = Len(behind) /\ Len(wire') <= Due' /\ Len(wire') \in Nat /\ Due' \in Nat
  BY <1>2 DEF Due
<1>5. Leads(members, Len(behind), Queued', Len(wire'), Due', members)
  BY <1>3, <1>4, SnapshotLeads
<1>6. (stage = "joined" => ahead = None) /\ \A k \in Snapshots : ~Fresh(k)
  BY <1>0 DEF SnapshotInvariant
<1>7. \A k \in 1..Len(wire') : Fresh(k)' => Fresh(k)
  BY <1>0, <1>1, Sent DEF SentLast, ServesLast, serverVars, WireInvariant
<1>8. ASSUME NEW k, k \in Snapshots', Fresh(k)'
      PROVE  k = Len(wire')
  <2>1. k \in 1..Len(wire') /\ wire'[k].kind = "state"
    BY <1>8 DEF Snapshots
  <2>2. k \in 1..Len(wire) \/ k = Len(wire')
    BY <1>2, <2>1
  <2> QED
    BY <1>2, <1>6, <1>8, <1>7, <2>1, <2>2 DEF Snapshots
<1>9. wire'[Len(wire')] = m
  BY <1>2
<1>10. \A k : k \in Snapshots' /\ Fresh(k)' => Leads(wire'[k].joins, wire'[k].ahead, Queued', k, Due', members)
  BY <1>1, <1>5, <1>8, <1>9
<1> QED
  BY <1>0, <1>3, <1>6, <1>10 DEF LeadsInvariant

LEMMA ChangeRowLeads ==
  ASSUME WireInvariant, PresencesTyped, LeadsInvariant, ChangeRow
  PROVE  LeadsInvariant'
<1>1. PICK due, change : SendWire(Message("change", {}, {}, due, change, 0))
  BY DEF ChangeRow
<1> DEFINE m == Message("change", {}, {}, due, change, 0)
<1>0. /\ IsSequence(wire) /\ IsSequence(behind) /\ SendWire(m)
      /\ UNCHANGED <<members, behind, state, stage, ahead, serverVars>>
  BY <1>1 DEF ChangeRow, presenceVars, WireInvariant, PresencesTyped
<1>2. Empty(m) /\ m.kind = "change"
  BY DEF Message, Empty
<1> HIDE DEF m
<1>3. /\ Len(wire) \in Nat /\ Len(wire') = Len(wire) + 1 /\ wire'[Len(wire) + 1] = m
      /\ \A i \in 1..Len(wire) : wire'[i] = wire[i]
  BY <1>0, PutQueued
<1>4. Ledger(Queued', Len(wire'), Due', members)
  BY <1>0, SendLedger DEF LeadsInvariant
<1>5. stage = "joined" /\ ahead # None => Leads(state, ahead, Queued', 0, Due', members)
  BY <1>0, <1>2, <1>3, 0 \in 0..Len(wire), ChangeLeads DEF LeadsInvariant
<1>6. \A k \in 1..Len(wire') : Fresh(k)' => Fresh(k)
  BY <1>0, <1>2, Sent DEF SentLast, ServesLast, serverVars, WireInvariant
<1>7. ASSUME NEW k, k \in Snapshots', Fresh(k)'
      PROVE  Leads(wire'[k].joins, wire'[k].ahead, Queued', k, Due', members)
  <2>1. k \in 1..Len(wire') /\ wire'[k].kind = "state"
    BY <1>7 DEF Snapshots
  <2>2. k \in 1..Len(wire) /\ k \in 0..Len(wire)
    BY <1>2, <1>3, <2>1
  <2>3. k \in Snapshots /\ wire'[k] = wire[k]
    BY <1>3, <2>1, <2>2 DEF Snapshots
  <2>4. Leads(wire[k].joins, wire[k].ahead, Queued, k, Due, members)
    BY <1>7, <1>6, <2>1, <2>3 DEF LeadsInvariant
  <2> QED
    BY <1>0, <1>2, <2>2, <2>3, <2>4, ChangeLeads
<1> QED
  BY <1>0, <1>4, <1>5, <1>7 DEF LeadsInvariant

LEMMA ChangeMembersLeads ==
  ASSUME WireInvariant, PresencesTyped, LeadsInvariant, ChangeMembers
  PROVE  LeadsInvariant'
<1>0. IsSequence(wire) /\ IsSequence(behind) /\ refs \in Nat
  BY DEF WireInvariant, PresencesTyped
<1>1. PICK new, gone :
        /\ gone \subseteq members /\ members' = (members \ gone) \cup new
        /\ behind' = Append(behind, [joins |-> new, leaves |-> gone])
        /\ \A p \in new : p[2] = refs + 1
        /\ UNCHANGED <<wire, state, stage, ahead>>
  BY <1>0, Comers
<1>2. ASSUME NEW k \in 0..Len(wire)
      PROVE  OneMore(Queued, k, Due, Queued', members, new, gone) /\ Due' = Due + 1 /\ Due \in Nat /\ k \in Nat /\ k <= Due
  <2>1. OneMore(Queued, k, Due, Queued', members, new, gone) /\ Due' = Due + 1 /\ Due \in Nat /\ Len(wire) <= Due
    BY <1>0, <1>1, ComersAreOneMore
  <2>2. Len(wire) \in Nat
    BY <1>0, SequenceLength
  <2> QED
    BY <2>1, <2>2
<1>3. Len(wire) \in 0..Len(wire) /\ 0 \in 0..Len(wire) /\ \A k \in 1..Len(wire) : k \in 0..Len(wire)
  BY <1>0, SequenceLength
<1>4. Ledger(Queued', Len(wire), Due', members')
  <2>1. Ledger(Queued', Len(wire), Due + 1, (members \ gone) \cup new)
    BY <1>2, <1>3, BatchedLedger DEF LeadsInvariant
  <2> QED
    BY <1>1, <1>2, <1>3, <2>1
<1>5. ASSUME NEW k \in 0..Len(wire), NEW seen, NEW lead, Leads(seen, lead, Queued, k, Due, members)
      PROVE  Leads(seen, lead, Queued', k, Due', members')
  <2>1. Leads(seen, lead, Queued', k, Due + 1, (members \ gone) \cup new)
    BY <1>2, <1>5, BatchedLeads
  <2> QED
    BY <1>1, <1>2, <2>1
<1>6. /\ stage = "joined" /\ ahead # None => Leads(state, ahead, Queued', 0, Due', members')
      /\ \A k \in Snapshots : Fresh(k) => Leads(wire[k].joins, wire[k].ahead, Queued', k, Due', members')
  BY <1>3, <1>5 DEF LeadsInvariant, Snapshots
<1>7. \A k : (k \in Snapshots' <=> k \in Snapshots) /\ (Fresh(k)' <=> Fresh(k))
  BY <1>1 DEF Snapshots, Fresh
<1> QED
  BY <1>1, <1>4, <1>6, <1>7 DEF LeadsInvariant

LEMMA BroadcastLeads ==
  ASSUME WireInvariant, PresencesTyped, LeadsInvariant, Broadcast
  PROVE  LeadsInvariant'
<1>0. /\ IsSequence(wire) /\ IsSequence(behind) /\ behind # <<>> /\ behind' = Tail(behind)
      /\ UNCHANGED <<members, state, stage, ahead, serverVars>>
  BY DEF Broadcast, WireInvariant, PresencesTyped
<1>1. Ledger(Queued', Len(wire'), Due', members')
  BY BroadcastLedger DEF LeadsInvariant
<1>2. CASE ~serves
  <2>1. wire' = wire
    BY <1>2 DEF Broadcast
  <2>2. stage # "joined" /\ \A k : ~Fresh(k)'
    BY <1>0, <1>2, <2>1, FreshServed DEF WireInvariant, ServesLast, Fresh
  <2> QED
    BY <1>0, <1>1, <2>2 DEF LeadsInvariant
<1>3. CASE serves
  <2>1. SendWire(Message("diff", Head(behind).joins, Head(behind).leaves, <<>>, None, 0))
    BY <1>3 DEF Broadcast
  <2>2. /\ Due' = Due /\ Len(wire') = Len(wire) + 1
        /\ \A i \in 1..Len(wire) : wire'[i] = wire[i]
        /\ wire'[Len(wire) + 1].kind = "diff"
        /\ \A i \in 1..Due : Queued'[i].joins = Queued[i].joins /\ Queued'[i].leaves = Queued[i].leaves
    BY <1>0, <2>1, BroadcastQueued
  <2>3. Len(wire) \in Nat /\ Due \in Nat /\ Len(wire) <= Due
    BY <1>0, Untaken
  <2>4. ASSUME NEW k \in 0..Len(wire), NEW seen, NEW lead, Leads(seen, lead, Queued, k, Due, members)
        PROVE  Leads(seen, lead, Queued', k, Due', members')
    <3>1. \A i \in 1..(Due - k) : k + i \in 1..Due
      BY <2>3
    <3>2. Follows(Queued, k, Due, Queued', k, Due) /\ k \in Nat
      BY <2>2, <2>3, <3>1 DEF Follows
    <3>3. Leads(seen, lead, Queued', k, Due, members)
      BY <2>3, <2>4, <3>2, MovedLeads
    <3> QED
      BY <1>0, <2>2, <3>3
  <2>5. 0 \in 0..Len(wire) /\ \A k \in 1..Len(wire) : k \in 0..Len(wire)
    BY <2>3
  <2>6. \A k \in 1..Len(wire') : Fresh(k)' => Fresh(k)
    <3>1. PICK m : SendWire(m) /\ m.kind # "reply"
      BY <2>1, MessageFields
    <3> QED
      BY <1>0, <3>1, Sent DEF SentLast, ServesLast, serverVars, WireInvariant
  <2>7. stage = "joined" /\ ahead # None => Leads(state, ahead, Queued', 0, Due', members')
    BY <2>4, <2>5 DEF LeadsInvariant
  <2>8. ASSUME NEW k, k \in Snapshots', Fresh(k)'
        PROVE  Leads(wire'[k].joins, wire'[k].ahead, Queued', k, Due', members')
    <3>1. k \in 1..Len(wire') /\ wire'[k].kind = "state"
      BY <2>8 DEF Snapshots
    <3>2. k \in 1..Len(wire)
      BY <2>2, <2>3, <3>1
    <3>3. k \in Snapshots /\ wire'[k] = wire[k]
      BY <2>2, <3>1, <3>2 DEF Snapshots
    <3> QED
      BY <2>4, <2>5, <2>8, <2>6, <3>1, <3>2, <3>3 DEF LeadsInvariant
  <2> QED
    BY <1>0, <1>1, <2>7, <2>8 DEF LeadsInvariant
<1> QED
  BY <1>2, <1>3

(* A snapshot that is still on its way when a message is handled            *)
LEMMA LaterSnapshot ==
  ASSUME WireInvariant, IsSequence(behind), NEW kind, Received(kind), UNCHANGED <<behind, members, serverVars>>,
         kind # "reply" => stage' = stage, LeadsInvariant, NEW k, k \in Snapshots', Fresh(k)'
  PROVE  k + 1 \in Snapshots /\ Fresh(k + 1) /\ k \in Nat /\ k # 0
         /\ Leads(wire'[k].joins, wire'[k].ahead, Queued', k, Due', members')
<1>1. /\ Len(wire) \in Nat \ {0} /\ Due \in Nat
      /\ Len(wire') = Len(wire) - 1 /\ Len(wire) <= Due
      /\ \A i \in 1..Len(wire') : wire'[i] = wire[i + 1]
  BY TakeQueued DEF WireInvariant
<1>2. k \in 1..Len(wire') /\ wire'[k].kind = "state"
  BY DEF Snapshots
<1>3. k + 1 \in 1..Len(wire) /\ k \in Nat /\ k # 0 /\ k < Due
  BY <1>1, <1>2
<1>4. k + 1 \in Snapshots /\ wire'[k] = wire[k + 1]
  BY <1>1, <1>2, <1>3 DEF Snapshots
<1>5. Fresh(k + 1)
  BY <1>2, Taken
<1>6. Leads(wire'[k].joins, wire'[k].ahead, Queued, k + 1, Due, members)
  BY <1>4, <1>5 DEF LeadsInvariant
<1> QED
  BY <1>3, <1>4, <1>6, <1>5, TakenLeads DEF WireInvariant

LEMMA HandledLeads ==
  ASSUME WireInvariant, PresencesTyped, SnapshotInvariant, LeadsInvariant,
         IgnoreReply \/ PostgresChange \/ PresenceDiff
  PROVE  LeadsInvariant'
<1>1. PICK kind : Received(kind) /\ UNCHANGED <<members, behind, stage, ahead, serverVars>>
  BY DEF PresenceDiff, IgnoreReply, PostgresChange, presenceVars
<1>0. IsSequence(wire) /\ IsSequence(behind)
  BY DEF WireInvariant, PresencesTyped
<1>2. Ledger(Queued', Len(wire'), Due', members')
  BY <1>0, <1>1, TakeLedger DEF LeadsInvariant
<1>3. stage = "joined" /\ ahead # None => Leads(state', ahead', Queued', 0, Due', members')
  BY HandledState DEF LeadsInvariant
<1>4. \A k : k \in Snapshots' /\ Fresh(k)' => Leads(wire'[k].joins, wire'[k].ahead, Queued', k, Due', members')
  BY <1>0, <1>1, LaterSnapshot
<1> QED
  BY <1>1, <1>2, <1>3, <1>4 DEF LeadsInvariant

LEMMA PresenceStateLeads ==
  ASSUME WireInvariant, PresencesTyped, SnapshotInvariant, LeadsInvariant, PresenceState
  PROVE  LeadsInvariant'
<1>1. /\ Received("state") /\ UNCHANGED <<members, behind, stage, serverVars>>
      /\ ahead' = Head(wire).ahead /\ state' = Head(wire).joins
  BY HandlesState DEF PresenceState
<1>0. IsSequence(wire) /\ IsSequence(behind)
  BY DEF WireInvariant, PresencesTyped
<1>2. Ledger(Queued', Len(wire'), Due', members')
  BY <1>0, <1>1, TakeLedger DEF LeadsInvariant
<1>3. /\ Len(wire) \in Nat \ {0} /\ Due \in Nat /\ Due >= 1 /\ Head(wire) = wire[1] /\ wire[1].kind = "state"
  BY <1>0, <1>1, TakeQueued
<1>4. 1 \in Snapshots /\ (stage = "joined" => Fresh(1))
  BY <1>3 DEF Snapshots, Fresh
<1>5. stage = "joined" => Leads(state', ahead', Queued', 0, Due', members')
  <2> SUFFICES ASSUME stage = "joined" PROVE Leads(state', ahead', Queued', 0, Due', members')
    OBVIOUS
  <2>1. Leads(state', ahead', Queued, 0 + 1, Due, members) /\ 0 < Due
    BY <1>1, <1>3, <1>4 DEF LeadsInvariant
  <2> QED
    BY <1>0, <1>1, <2>1, TakenLeads
<1>6. \A k : k \in Snapshots' /\ Fresh(k)' => Leads(wire'[k].joins, wire'[k].ahead, Queued', k, Due', members')
  BY <1>0, <1>1, LaterSnapshot
<1> QED
  BY <1>1, <1>2, <1>5, <1>6 DEF LeadsInvariant

LEMMA JoinAnsweredLeads ==
  ASSUME WireInvariant, PresencesTyped, SnapshotInvariant, LeadsInvariant, JoinAnswered
  PROVE  LeadsInvariant'
<1>1. Received("reply") /\ UNCHANGED <<members, behind, serverVars>> /\ ahead' = None
  BY DEF JoinAnswered
<1>0. IsSequence(wire) /\ IsSequence(behind)
  BY DEF WireInvariant, PresencesTyped
<1>2. Ledger(Queued', Len(wire'), Due', members')
  BY <1>0, <1>1, TakeLedger DEF LeadsInvariant
<1>3. \A k : k \in Snapshots' /\ Fresh(k)' => Leads(wire'[k].joins, wire'[k].ahead, Queued', k, Due', members')
  BY <1>0, <1>1, LaterSnapshot
<1> QED
  BY <1>1, <1>2, <1>3 DEF LeadsInvariant

(* What a joined channel has seen, and each snapshot on its way to it, lead *)
(* to the presences there are.                                              *)
LEMMA LeadsInvariantAlways == MessagesSpec => []LeadsInvariant
<1>1. MessagesInit => LeadsInvariant
  <2> SUFFICES ASSUME MessagesInit PROVE LeadsInvariant
    OBVIOUS
  <2>1. Len(wire) = 0 /\ Len(behind) = 0
    BY EmptySequence, SequenceLength DEF MessagesInit
  <2>2. Due = 0 /\ \A i \in (0 + 1)..0 : FALSE
    BY <2>1 DEF Due
  <2>3. Ledger(Queued, Len(wire), Due, members)
    BY <2>1, <2>2 DEF Ledger
  <2>4. Snapshots = {}
    BY <2>1, <2>2 DEF Snapshots
  <2> QED
    BY <2>3, <2>4 DEF MessagesInit, LeadsInvariant
<1>2. WireInvariant /\ PresencesTyped /\ SnapshotInvariant /\ LeadsInvariant /\ [MessagesNext]_channelVars
      => LeadsInvariant'
  <2> SUFFICES ASSUME WireInvariant, PresencesTyped, SnapshotInvariant, LeadsInvariant, [MessagesNext]_channelVars
               PROVE  LeadsInvariant'
    OBVIOUS
  <2>0. IsSequence(wire) /\ IsSequence(behind)
    BY DEF WireInvariant, PresencesTyped
  <2>1. CASE AcceptJoin \/ Join \/ Fail
    <3>1. stage' # "joined" /\ \A k \in 1..Len(wire') : ~Fresh(k)'
      BY <2>1, NoneFresh
    <3>2. Ledger(Queued', Len(wire'), Due', members')
      <4>1. CASE AcceptJoin
        <5>1. PICK m : SendWire(m)
          BY <4>1, AcceptSends
        <5>2. UNCHANGED <<members, behind>>
          BY <4>1 DEF AcceptJoin
        <5> QED
          BY <2>0, <5>1, <5>2, SendLedger DEF LeadsInvariant
      <4>2. CASE Join
        <5>1. UNCHANGED <<wire, behind, members>>
          BY <4>2 DEF Join, presenceVars
        <5>2. UNCHANGED <<Queued, Due>>
          BY <5>1 DEF Queued, Due
        <5> QED
          BY <5>1, <5>2 DEF LeadsInvariant
      <4>3. CASE Fail
        BY <4>3, FailLedger DEF LeadsInvariant
      <4> QED
        BY <2>1, <4>1, <4>2, <4>3
    <3>3. \A k : k \in Snapshots' => k \in 1..Len(wire')
      BY DEF Snapshots
    <3> QED
      BY <3>1, <3>2, <3>3 DEF LeadsInvariant
  <2>2. CASE AddCallback \/ UNCHANGED channelVars
    <3>1. UNCHANGED <<wire, behind, members, state, ahead, stage>>
      BY <2>2 DEF AddCallback, channelVars, presenceVars
    <3>2. UNCHANGED <<Queued, Due>> /\ \A k : (k \in Snapshots' <=> k \in Snapshots) /\ (Fresh(k)' <=> Fresh(k))
      BY <3>1 DEF Queued, Due, Snapshots, Fresh
    <3> QED
      BY <3>1, <3>2 DEF LeadsInvariant
  <2> QED
    BY <2>1, <2>2, SendStateLeads, ChangeMembersLeads, BroadcastLeads, ChangeRowLeads, HandledLeads,
       PresenceStateLeads, JoinAnsweredLeads DEF MessagesNext
<1> QED
  BY <1>1, <1>2, WireInvariantAlways, PresencesTypedAlways, SnapshotInvariantAlways, PTL DEF MessagesSpec

(* Once a channel that is joined has handled the snapshot of its join and   *)
(* everything that followed it, its state has everyone who is present, and  *)
(* nobody else if the snapshot was ahead of one batch at most, for any      *)
(* number of presences, batches, joins and failures (presence.py:61-138).   *)
THEOREM PresenceFollowsAlways == MessagesSpec => []PresenceFollows
<1>1. WireInvariant /\ PresencesTyped /\ LeadsInvariant => PresenceFollows
  <2> SUFFICES ASSUME WireInvariant, PresencesTyped, LeadsInvariant,
                      stage = "joined", ahead # None, wire = <<>>, behind = <<>>
               PROVE  members \subseteq state /\ (ahead <= 1 => state = members)
    BY DEF PresenceFollows
  <2>1. Due = 0
    <3>1. Len(wire) = 0 /\ Len(behind) = 0
      BY EmptySequence, SequenceLength
    <3> QED
      BY <3>1 DEF Due
  <2>2. Came(Queued, 0, 0) = {} /\ Went(Queued, 0, 0) = {}
    <3>1. \A i \in (0 + 1)..0 : FALSE
      OBVIOUS
    <3>2. ASSUME NEW p PROVE p \notin Came(Queued, 0, 0) /\ p \notin Went(Queued, 0, 0)
      BY <3>1, CameAndWent
    <3> QED
      BY <3>2
  <2>3. Leads(state, ahead, Queued, 0, 0, members)
    BY <2>1 DEF LeadsInvariant
  <2>4. members \subseteq state
    BY <2>2, <2>3 DEF Leads
  <2>5. ASSUME ahead <= 1 PROVE state = members
    <3>1. PICK m \in 0..0 : state = Before(Queued, m, 0, members)
      BY <2>3, <2>5 DEF Leads
    <3>2. m = 0
      BY <3>1
    <3> QED
      BY <2>2, <3>1, <3>2 DEF Before
  <2> QED
    BY <2>4, <2>5
<1> QED
  BY <1>1, WireInvariantAlways, PresencesTypedAlways, LeadsInvariantAlways, PTL

=============================================================================
