--------------------------- MODULE GoTrueSessionProofs ---------------------------
(* The session and its refresh timer, for any number of tasks and sessions  *)
EXTENDS GoTrueSession, SequenceTheorems, TLAPS

(* A timer's task that runs, or waits, is the one the client knows, or it   *)
(* has cancelled itself and runs until it waits.                            *)
OneRefresherInvariant ==
  /\ stack = [t \in Tasks |-> stack[t]]
  /\ running \in Tasks \cup {Nobody}
  /\ \A x \in Timers : stack[x] # <<>> \/ running = x => timer = x \/ (running = x /\ doomed)

-----------------------------------------------------------------------------
(* What the moves of a task do to the refreshers                            *)
Ready(t) == running \in {Nobody, t} /\ (t \in Users \/ stack[t] # <<>> \/ running = t)

LEMMA ProceedKeepsOne ==
  ASSUME NEW t \in Tasks, NEW st, NEW r, OneRefresherInvariant, Ready(t),
         Proceed(stack, t, st, r, doomed), UNCHANGED timer
  PROVE  OneRefresherInvariant'
BY TasksAssumption DEF OneRefresherInvariant, Ready, Proceed, Tasks

LEMMA AwaitKeepsOne ==
  ASSUME NEW t \in Tasks, NEW st, NEW what, NEW s, OneRefresherInvariant, running = t,
         Await(t, st, what, s), UNCHANGED timer
  PROVE  OneRefresherInvariant'
<1>1. \A u \in Tasks \ {t} : stack'[u] = stack[u]
  BY DEF Await, OneRefresherInvariant
<1>2. doomed => stack'[t] = <<>>
  BY DEF Await, OneRefresherInvariant
<1> QED
  BY <1>1, <1>2, TasksAssumption DEF OneRefresherInvariant, Await, Tasks

LEMMA StorageKeepsOne ==
  ASSUME NEW t \in Tasks, NEW st, NEW what, NEW s, OneRefresherInvariant, running = t,
         Storage(t, st, what, s), UNCHANGED timer
  PROVE  OneRefresherInvariant'
BY AwaitKeepsOne, ProceedKeepsOne DEF Storage, Ready

LEMMA DisarmKeepsOne ==
  ASSUME NEW t \in Tasks, NEW st, OneRefresherInvariant, running = t, Disarm(t, st)
  PROVE  OneRefresherInvariant'
BY TasksAssumption DEF OneRefresherInvariant, Disarm, Proceed, Stopped, Tasks

LEMMA ArmKeepsOne ==
  ASSUME NEW t \in Tasks, NEW st, NEW fn, NEW s, OneRefresherInvariant, running = t, Arm(t, st, fn, s)
  PROVE  OneRefresherInvariant'
<1> DEFINE free == {x \in Timers : x # t /\ Stopped(t)[x] = <<>>}
           new == CHOOSE x \in free : TRUE
<1>1. new \in free
  BY DEF Arm
<1>2. /\ timer' = new
      /\ Proceed([Stopped(t) EXCEPT ![new] = <<Frame("sleep", fn, s)>>], t, st, Returned(0),
                 doomed \/ timer = t)
  BY DEF Arm
<1> HIDE DEF new
<1>3. \A x \in Timers : x # t /\ x # new => stack'[x] = <<>> /\ running' # x
  BY <1>1, <1>2, TasksAssumption DEF Proceed, Stopped, OneRefresherInvariant, Tasks
<1>4. /\ stack' = [u \in Tasks |-> stack'[u]] /\ running' \in Tasks \cup {Nobody}
      /\ stack'[t] = st /\ (running' = t => st # <<>>)
  BY <1>1, <1>2, TasksAssumption DEF Proceed, Stopped, OneRefresherInvariant, Tasks
<1>5. t \in Timers /\ st # <<>> => running' = t /\ doomed'
  BY <1>2 DEF Proceed, OneRefresherInvariant
<1> QED
  BY <1>2, <1>3, <1>4, <1>5 DEF OneRefresherInvariant

LEMMA AnswerKeepsOne ==
  ASSUME NEW t \in Tasks, NEW r, OneRefresherInvariant, stack[t] # <<>>,
         Answer(t, r), UNCHANGED <<timer, running, doomed>>
  PROVE  OneRefresherInvariant'
<1> DEFINE told2 == [stack[t] EXCEPT ![Len(stack[t])].answer = r]
<1>1. stack' = [stack EXCEPT ![t] = told2]
  BY DEF Answer
<1> HIDE DEF told2
<1> QED
  BY <1>1 DEF OneRefresherInvariant

LEMMA OneRefresherInvariantAlways == Spec => []OneRefresherInvariant
<1> USE DEF client, server
<1>1. Init => OneRefresherInvariant
  BY TasksAssumption DEF Init, OneRefresherInvariant, Tasks
<1>2. OneRefresherInvariant /\ [Next]_vars => OneRefresherInvariant'
  <2> SUFFICES ASSUME OneRefresherInvariant, [Next]_vars
               PROVE  OneRefresherInvariant'
    OBVIOUS
  <2>1. ASSUME NEW t \in Tasks, NEW st, NEW s, UNCHANGED timer,
               Continue(t, st) \/ (st = Below(t) /\ Return(t, s)), Ready(t)
        PROVE  OneRefresherInvariant'
    BY <2>1, ProceedKeepsOne DEF Continue, Return
  <2>2. ASSUME NEW t \in Tasks, NEW fn, NEW at, At(t, fn, at)
        PROVE  running = t /\ Ready(t)
    BY <2>2 DEF At, Ready
  <2>3. ASSUME NEW t \in Tasks, GetSession(t)
        PROVE  OneRefresherInvariant'
    BY <2>1, <2>2, <2>3, StorageKeepsOne, ProceedKeepsOne DEF GetSession
  <2>4. ASSUME NEW t \in Tasks, CallRefreshToken(t)
        PROVE  OneRefresherInvariant'
    BY <2>1, <2>2, <2>4, AwaitKeepsOne DEF CallRefreshToken
  <2>5. ASSUME NEW t \in Tasks, SaveSession(t)
        PROVE  OneRefresherInvariant'
    BY <2>2, <2>5, ArmKeepsOne, DisarmKeepsOne, StorageKeepsOne DEF SaveSession
  <2>6. ASSUME NEW t \in Tasks, RemoveSession(t)
        PROVE  OneRefresherInvariant'
    BY <2>1, <2>2, <2>6, DisarmKeepsOne, StorageKeepsOne DEF RemoveSession
  <2>7. ASSUME NEW t \in Tasks, SignIn(t)
        PROVE  OneRefresherInvariant'
    BY <2>1, <2>2, <2>7, AwaitKeepsOne DEF SignIn
  <2>8. ASSUME NEW t \in Tasks, RefreshSession(t)
        PROVE  OneRefresherInvariant'
    BY <2>1, <2>2, <2>8 DEF RefreshSession
  <2>9. ASSUME NEW t \in Tasks, Change(t)
        PROVE  OneRefresherInvariant'
    BY <2>1, <2>2, <2>9, AwaitKeepsOne DEF Change
  <2>10. ASSUME NEW t \in Tasks, SignOut(t)
         PROVE  OneRefresherInvariant'
    BY <2>1, <2>2, <2>10, AwaitKeepsOne DEF SignOut
  <2>11. ASSUME NEW t \in Tasks, Recover(t)
         PROVE  OneRefresherInvariant'
    BY <2>1, <2>2, <2>11, StorageKeepsOne, ProceedKeepsOne DEF Recover
  <2>12. ASSUME NEW t \in Tasks, AutoRefreshToken(t)
         PROVE  OneRefresherInvariant'
    BY <2>1, <2>2, <2>12 DEF AutoRefreshToken
  <2>13. ASSUME NEW t \in Tasks, Unwind(t)
         PROVE  OneRefresherInvariant'
    <3>1. running = t /\ Ready(t)
      BY <2>13 DEF Unwind, Ready
    <3> QED
      BY <2>1, <2>13, <3>1, ArmKeepsOne, ProceedKeepsOne DEF Unwind
  <2>14. ASSUME NEW t \in Tasks, Resume(t)
         PROVE  OneRefresherInvariant'
    BY <2>14, TasksAssumption DEF Resume, OneRefresherInvariant, Tasks
  <2>15. ASSUME NEW t \in Tasks, StorageAnswers(t) \/ ServerAnswers(t) \/ RequestFails(t)
         PROVE  OneRefresherInvariant'
    <3>1. stack[t] # <<>> /\ UNCHANGED <<timer, running, doomed>>
      BY <2>15 DEF StorageAnswers, ServerAnswers, RequestFails, Waits
    <3>2. \E r : Answer(t, r)
      BY <2>15 DEF StorageAnswers, ServerAnswers, RequestFails, Issue
    <3> QED
      BY <3>1, <3>2, AnswerKeepsOne
  <2>16. ASSUME NEW x \in Timers, TimerFires(x)
         PROVE  OneRefresherInvariant'
    BY <2>1, <2>16 DEF TimerFires, Tasks, Ready
  <2>17. ASSUME NEW u \in Users, NEW fn \in Operations, UserCalls(u, fn)
         PROVE  OneRefresherInvariant'
    BY <2>1, <2>17 DEF UserCalls, Tasks, Ready
  <2>18. ASSUME NEW s \in Sessions, TimePasses(s)
         PROVE  OneRefresherInvariant'
    BY <2>18 DEF TimePasses, loop, OneRefresherInvariant
  <2>19. CASE UNCHANGED vars
    BY <2>19 DEF vars, loop, OneRefresherInvariant
  <2> QED
    BY <2>3, <2>4, <2>5, <2>6, <2>7, <2>8, <2>9, <2>10, <2>11, <2>12, <2>13, <2>14, <2>15, <2>16, <2>17,
      <2>18, <2>19 DEF Next, Runs, Step
<1> QED
  BY <1>1, <1>2, PTL DEF Spec

(* There is one auto-refresh at a time, the client's, whatever tasks call   *)
(* the client and however they are interleaved.                             *)
THEOREM OneRefresherAlways == Spec => []OneRefresher
<1>1. OneRefresherInvariant => OneRefresher
  BY DEF OneRefresherInvariant, OneRefresher, Alive
<1> QED
  BY <1>1, OneRefresherInvariantAlways, PTL

-----------------------------------------------------------------------------
(* The stacks of a client whose storage does not suspend: what calls what,  *)
(* and what holds where a call goes on                                      *)

(* Where each call may be                                                   *)
Places(fn) ==
  CASE fn = "get_session" -> {"start", "read"}
    [] fn = "call_refresh" -> {"start", "answered", "saved"}
    [] fn = "save" -> {"start", "store"}
    [] fn = "remove" -> {"start", "stop"}
    [] fn \in SignIns -> {"start", "request", "answered", "saved"}
    [] fn = "refresh_session" -> {"start", "got"}
    [] fn \in Changes -> {"start", "got", "answered", "saved"}
    [] fn = "sign_out" -> {"start", "got", "answered", "removed"}
    [] fn = "recover" -> {"start", "read", "saved", "refreshed"}
    [] fn = "auto_refresh" -> {"start", "got", "refreshed"}
    [] fn = "sleep" -> {"auto_refresh", "recover"}
    [] OTHER -> {}

LEMMA PlacesOf ==
  /\ Places("get_session") = {"start", "read"}
  /\ Places("call_refresh") = {"start", "answered", "saved"}
  /\ Places("save") = {"start", "store"}
  /\ Places("remove") = {"start", "stop"}
  /\ \A fn \in SignIns : Places(fn) = {"start", "request", "answered", "saved"}
  /\ Places("refresh_session") = {"start", "got"}
  /\ \A fn \in Changes : Places(fn) = {"start", "got", "answered", "saved"}
  /\ Places("sign_out") = {"start", "got", "answered", "removed"}
  /\ Places("recover") = {"start", "read", "saved", "refreshed"}
  /\ Places("auto_refresh") = {"start", "got", "refreshed"}
BY DEF Places, SignIns, Changes

StorageCalls == {"get", "set", "remove"}
Requests == SignIns \cup Changes \cup {"refresh", "sign_out"}
Results == [exc : {"none", "pending", "AuthApiError"} \cup Errors, s : Nat]
Calls ==
  {f \in [fn : Frames, at : UNION {Places(fn) : fn \in Frames}, s : Nat] : f.at \in Places(f.fn)}
Waiting == [fn : {"await"}, at : StorageCalls \cup Requests, s : Nat, answer : Results]
AllFrames == Calls \cup Waiting

(* f waits for the call g.                                                  *)
Over(f, g) ==
  \/ f.at = "got" /\ g.fn \in {"get_session", "call_refresh", "remove"}
  \/ f.at = "saved" /\ g.fn = "save" /\ g.s = f.s
  \/ f.at \in {"removed", "request"} /\ g.fn = "remove"
  \/ f.at = "refreshed" /\ g.fn = "call_refresh"
  \/ f.at = "answered" /\ g.fn = "await" /\ g.at \in Requests

(* A recovery has something to refresh: without persist_session only a      *)
(* session that an earlier run left, and that is about to end.              *)
Recovers == PersistSession \/ (kept # 0 /\ InMargin(kept))

(* Sessions have an age, and only get older.                                *)
Ages == kept \in Sessions \cup {0} /\ age \in [Sessions -> Nat]

(* What no step undoes                                                      *)
Onward == UNCHANGED <<storage, kept>> /\ (Recovers => Recovers')

(* f is the outermost call of task t.                                       *)
Outermost(t, f) ==
  /\ f.fn # "await"
  /\ t \in Timers => f.fn \in {"sleep", "auto_refresh", "recover", "remove"}
  /\ f.fn = "recover" /\ (f.at = "refreshed" \/ t \in Timers) => Recovers
  /\ f.fn = "sleep" /\ f.at = "recover" => Recovers

StackOf(t, q) ==
  /\ q \in Seq(AllFrames)
  /\ \A i \in 1..(Len(q) - 1) : Over(q[i], q[i + 1])
  /\ q # <<>> => Outermost(t, q[1])

(* What a call of fn has read when `stored` is the client's session         *)
ReadBy(fn, stored) == IF fn = "recover" /\ ~PersistSession THEN kept ELSE stored

(* The call f goes on with r while `stored` is in the storage.              *)
GoesOn(f, r, stored) ==
  /\ f.fn \notin {"sleep", "await"}
  /\ r.exc # "none" => f.at \in {"answered", "got", "refreshed"}
  /\ r.exc = "none" =>
       /\ f.at = "saved" => stored = f.s
       /\ f.at \in {"removed", "stop"} => stored = 0
       /\ f.at = "got" /\ r.s = 0 => stored = 0
       /\ f.at = "read" => r.s = ReadBy(f.fn, stored)

Prompt ==
  /\ slot \in Nat /\ issued \in Nat /\ result \in Results
  /\ running \in Tasks \cup {Nobody}
  /\ stack = [t \in Tasks |-> stack[t]]
  /\ \A t \in Tasks : StackOf(t, stack[t])
  /\ running = Nobody => doomed = FALSE
  /\ running # Nobody => stack[running] # <<>> /\ GoesOn(Top(running), result, slot)

PromptInvariant == ~Suspends => Prompt


-----------------------------------------------------------------------------
(* The last of a stack and the rest of it                                   *)
LastOf(q) == q[Len(q)]
RestOf(q) == SubSeq(q, 1, Len(q) - 1)

LEMMA RestFacts ==
  ASSUME NEW S, NEW q \in Seq(S), q # <<>>
  PROVE  /\ LastOf(q) \in S /\ Len(q) \in Nat \ {0}
         /\ RestOf(q) \in Seq(S) /\ Len(RestOf(q)) = Len(q) - 1
         /\ \A i \in 1..(Len(q) - 1) : RestOf(q)[i] = q[i]
<1>1. Len(q) \in Nat \ {0}
  BY EmptySeq
<1>2. \A i \in 1..Len(q) : q[i] \in S
  BY ElementOfSeq
<1>3. \A i \in 1..(Len(q) - 1) : q[i] \in S
  BY <1>1, <1>2
<1>4. 1 \in Int /\ Len(q) - 1 \in Int
  BY <1>1
<1>5. /\ RestOf(q) \in Seq(S)
      /\ Len(RestOf(q)) = IF 1 <= Len(q) - 1 THEN Len(q) - 1 - 1 + 1 ELSE 0
      /\ \A i \in 1..(Len(q) - 1 - 1 + 1) : RestOf(q)[i] = q[1 + i - 1]
  BY <1>3, <1>4, SubSeqProperties DEF RestOf
<1>6. LastOf(q) \in S
  BY <1>1, <1>2 DEF LastOf
<1>7. Len(RestOf(q)) = Len(q) - 1
  <2>1. CASE 1 <= Len(q) - 1
    <3>1. Len(RestOf(q)) = Len(q) - 1 - 1 + 1
      BY <1>5, <2>1
    <3> QED
      BY <1>1, <3>1
  <2>2. CASE ~(1 <= Len(q) - 1)
    <3>1. Len(RestOf(q)) = 0
      BY <1>5, <2>2
    <3>2. ASSUME NEW n \in Nat \ {0}, ~(1 <= n - 1)
          PROVE  n = 1 /\ 0 = n - 1
      BY <3>2
    <3> QED
      BY <1>1, <2>2, <3>1, <3>2
  <2> QED
    BY <2>1, <2>2
<1>8. ASSUME NEW i \in 1..(Len(q) - 1)
      PROVE  RestOf(q)[i] = q[i]
  <2>1. i \in 1..(Len(q) - 1 - 1 + 1) /\ 1 + i - 1 = i
    BY <1>1
  <2> QED
    BY <1>5, <2>1
<1> QED
  BY <1>1, <1>5, <1>6, <1>7, <1>8

LEMMA AppendFacts ==
  ASSUME NEW S, NEW q \in Seq(S), NEW f \in S
  PROVE  /\ Append(q, f) \in Seq(S) /\ Append(q, f) # <<>> /\ LastOf(Append(q, f)) = f
         /\ Len(q) \in Nat /\ Len(Append(q, f)) = Len(q) + 1 /\ Append(q, f)[Len(q) + 1] = f
         /\ \A i \in 1..Len(q) : Append(q, f)[i] = q[i]
<1>1. Len(q) \in Nat
  BY LenProperties
<1> QED
  BY <1>1, AppendProperties, EmptySeq DEF LastOf

LEMMA RestOfStack ==
  ASSUME NEW t \in Tasks, NEW q, StackOf(t, q), q # <<>>
  PROVE  /\ LastOf(q) \in AllFrames /\ StackOf(t, RestOf(q))
         /\ RestOf(q) # <<>> =>
              LastOf(RestOf(q)) \in AllFrames /\ Over(LastOf(RestOf(q)), LastOf(q))
         /\ RestOf(q) = <<>> => Outermost(t, LastOf(q))
<1> USE DEF StackOf
<1> DEFINE n == Len(q)  r == RestOf(q)
<1>1. /\ LastOf(q) \in AllFrames /\ n \in Nat \ {0}
      /\ r \in Seq(AllFrames) /\ Len(r) = n - 1 /\ \A i \in 1..(n - 1) : r[i] = q[i]
  BY RestFacts
<1>2. r = <<>> => n = 1
  BY <1>1, EmptySeq
<1>3. r # <<>> => n > 1
  BY <1>1, EmptySeq
<1>4. \A i \in 1..(Len(r) - 1) : Over(r[i], r[i + 1])
  BY <1>1
<1>5. r # <<>> => /\ r[1] = q[1] /\ LastOf(r) = q[n - 1] /\ Over(q[n - 1], q[n])
                  /\ q[n - 1] \in AllFrames
  <2> SUFFICES ASSUME r # <<>> PROVE r[1] = q[1] /\ LastOf(r) = q[n - 1] /\ Over(q[n - 1], q[n]) /\ q[n - 1] \in AllFrames
    OBVIOUS
  <2>1. n - 1 \in 1..(n - 1) /\ 1 \in 1..(n - 1) /\ n - 1 + 1 = n
    BY <1>1, <1>3
  <2>2. r[1] = q[1] /\ LastOf(r) = q[n - 1]
    BY <1>1, <2>1 DEF LastOf
  <2>3. Over(q[n - 1], q[n])
    BY <2>1
  <2>4. r[n - 1] \in AllFrames
    BY <1>1, <2>1, ElementOfSeq
  <2> QED
    BY <1>1, <2>1, <2>2, <2>3, <2>4
<1>6. r # <<>> => Outermost(t, r[1])
  BY <1>1, <1>5, <1>3
<1>7. r = <<>> => Outermost(t, LastOf(q))
  BY <1>2 DEF LastOf
<1>8. StackOf(t, r)
  BY <1>1, <1>4, <1>6
<1>9. r # <<>> => LastOf(r) \in AllFrames /\ Over(LastOf(r), LastOf(q))
  BY <1>5 DEF LastOf
<1> QED
  BY <1>1, <1>7, <1>8, <1>9

LEMMA PushedOnStack ==
  ASSUME NEW t \in Tasks, NEW q, StackOf(t, q), NEW g \in AllFrames,
         q = <<>> => Outermost(t, g),
         q # <<>> => Over(LastOf(q), g)
  PROVE  StackOf(t, Append(q, g)) /\ Append(q, g) # <<>> /\ LastOf(Append(q, g)) = g
<1> USE DEF StackOf
<1> DEFINE n == Len(q)  a == Append(q, g)
<1>1. /\ a \in Seq(AllFrames) /\ a # <<>> /\ LastOf(a) = g /\ n \in Nat
      /\ Len(a) = n + 1 /\ a[n + 1] = g /\ \A i \in 1..n : a[i] = q[i]
  BY AppendFacts
<1>2. q = <<>> => n = 0
  BY EmptySeq
<1>3. q # <<>> => n >= 1
  BY EmptySeq
<1>4. ASSUME NEW i \in 1..(Len(a) - 1)
      PROVE  Over(a[i], a[i + 1])
  <2>1. CASE i = n
    BY <1>1, <1>2, <1>4, <2>1 DEF LastOf
  <2>2. CASE i # n
    <3>1. i \in 1..(n - 1) /\ i + 1 \in 1..n /\ i \in 1..n
      BY <1>1, <2>2
    <3> QED
      BY <1>1, <3>1
  <2> QED
    BY <2>1, <2>2
<1>5. Outermost(t, a[1])
  BY <1>1, <1>2, <1>3
<1> QED
  BY <1>1, <1>4, <1>5

-----------------------------------------------------------------------------
(* The frames                                                               *)

LEMMA FrameTyped ==
  ASSUME NEW fn \in Frames, NEW at \in Places(fn), NEW s \in Nat
  PROVE  /\ Frame(fn, at, s) \in AllFrames
         /\ Frame(fn, at, s).fn = fn /\ Frame(fn, at, s).at = at /\ Frame(fn, at, s).s = s
BY DEF Frame, AllFrames, Calls

LEMMA FrameFacts ==
  ASSUME NEW f \in AllFrames
  PROVE  /\ f.s \in Nat /\ f.fn \in Frames
         /\ f.fn # "await" => f.at \in Places(f.fn)
         /\ f.fn = "await" => f.answer \in Results /\ f.at \in StorageCalls \cup Requests
<1>1. Places("await") = {} /\ "await" \in Frames
  BY DEF Places, SignIns, Changes, Frames
<1>2. CASE f \in Calls
  BY <1>1, <1>2 DEF Calls
<1>3. CASE f \in Waiting
  BY <1>1, <1>3 DEF Waiting
<1> QED
  BY <1>2, <1>3 DEF AllFrames

LEMMA WaitingTyped ==
  ASSUME NEW what \in Requests, NEW s \in Nat, NEW r \in Results
  PROVE  /\ [fn |-> "await", at |-> what, s |-> s, answer |-> r] \in AllFrames
         /\ [fn |-> "await", at |-> what, s |-> s, answer |-> r].fn = "await"
         /\ [fn |-> "await", at |-> what, s |-> s, answer |-> r].at = what
BY DEF AllFrames, Waiting

(* Who may be at a place where another call is waited for                   *)
LEMMA CallersGoOn ==
  ASSUME NEW f \in AllFrames, f.at \in {"got", "saved", "removed", "request", "refreshed", "answered"}
  PROVE  f.fn \notin {"sleep", "await", "save", "remove", "get_session"}
<1>1. CASE f.fn = "await"
  BY <1>1, FrameFacts DEF StorageCalls, Requests, SignIns, Changes
<1>2. ASSUME NEW fn \in {"sleep", "save", "remove", "get_session"}, f.fn = fn
      PROVE  FALSE
  <2>1. f.at \in Places(fn)
    BY <1>2, FrameFacts
  <2> QED
    BY <2>1 DEF Places, SignIns, Changes
<1> QED
  BY <1>1, <1>2

(* A call may go on where it is, or call another.                           *)
LEMMA GoOnOK ==
  ASSUME NEW t \in Tasks, StackOf(t, stack[t]), stack[t] # <<>>, Top(t).fn \notin {"sleep", "await"},
         NEW at \in Places(Top(t).fn), NEW s \in Nat,
         Top(t).fn = "save" => s = Top(t).s,
         Top(t).fn = "recover" /\ at = "refreshed" => Recovers
  PROVE  /\ StackOf(t, GoOn(t, at, s)) /\ GoOn(t, at, s) # <<>>
         /\ LastOf(GoOn(t, at, s)) = Frame(Top(t).fn, at, s)
<1> DEFINE f == Frame(Top(t).fn, at, s)
<1>1. Top(t) = LastOf(stack[t]) /\ Below(t) = RestOf(stack[t])
  BY DEF Top, Below, LastOf, RestOf
<1>2. /\ StackOf(t, Below(t)) /\ Top(t) \in AllFrames
      /\ Below(t) # <<>> => Over(LastOf(Below(t)), Top(t)) /\ LastOf(Below(t)) \in AllFrames
      /\ Below(t) = <<>> => Outermost(t, Top(t))
  BY <1>1, RestOfStack
<1>3. f \in AllFrames /\ f.fn = Top(t).fn /\ f.at = at /\ f.s = s
  BY <1>2, FrameTyped, FrameFacts
<1>4. Below(t) # <<>> => Over(LastOf(Below(t)), f)
  BY <1>2, <1>3 DEF Over
<1>5. Below(t) = <<>> => Outermost(t, f)
  BY <1>2, <1>3 DEF Outermost
<1> HIDE DEF f
<1>6. GoOn(t, at, s) = Append(Below(t), f)
  BY DEF GoOn, f
<1>7. f = Frame(Top(t).fn, at, s)
  BY DEF f
<1> QED
  BY <1>2, <1>3, <1>4, <1>5, <1>6, <1>7, PushedOnStack

LEMMA CallThenOK ==
  ASSUME NEW t \in Tasks, StackOf(t, stack[t]), stack[t] # <<>>, Top(t).fn \notin {"sleep", "await"},
         NEW at \in Places(Top(t).fn), NEW s \in Nat,
         Top(t).fn # "save",
         Top(t).fn = "recover" /\ at = "refreshed" => Recovers,
         NEW fn \in Frames, "start" \in Places(fn), NEW arg \in Nat,
         Over(Frame(Top(t).fn, at, s), Frame(fn, "start", arg))
  PROVE  /\ StackOf(t, CallThen(t, at, s, fn, arg)) /\ CallThen(t, at, s, fn, arg) # <<>>
         /\ LastOf(CallThen(t, at, s, fn, arg)) = Frame(fn, "start", arg)
<1>1. /\ StackOf(t, GoOn(t, at, s)) /\ GoOn(t, at, s) # <<>>
      /\ LastOf(GoOn(t, at, s)) = Frame(Top(t).fn, at, s)
  BY GoOnOK
<1>2. Frame(fn, "start", arg) \in AllFrames
  BY FrameTyped
<1> QED
  BY <1>1, <1>2, PushedOnStack DEF CallThen

LEMMA CallLastOK ==
  ASSUME NEW t \in Tasks, StackOf(t, stack[t]), stack[t] # <<>>, NEW fn, NEW arg \in Nat,
         \/ Top(t).fn = "get_session" /\ fn \in {"call_refresh", "remove"}
         \/ Top(t).fn = "refresh_session" /\ fn = "call_refresh"
         \/ Top(t).fn = "recover" /\ fn = "remove"
  PROVE  /\ StackOf(t, CallLast(t, fn, arg)) /\ CallLast(t, fn, arg) # <<>>
         /\ LastOf(CallLast(t, fn, arg)) = Frame(fn, "start", arg)
<1> DEFINE f == Frame(fn, "start", arg)
<1>1. Top(t) = LastOf(stack[t]) /\ Below(t) = RestOf(stack[t])
  BY DEF Top, Below, LastOf, RestOf
<1>2. /\ StackOf(t, Below(t))
      /\ Below(t) # <<>> => Over(LastOf(Below(t)), Top(t)) /\ LastOf(Below(t)) \in AllFrames
      /\ Below(t) = <<>> => Outermost(t, Top(t))
  BY <1>1, RestOfStack
<1>3. f \in AllFrames /\ f.fn = fn
  BY FrameTyped DEF Frames, Places, SignIns, Changes
<1>4. Below(t) # <<>> => Over(LastOf(Below(t)), f)
  BY <1>2, <1>3 DEF Over
<1>5. Below(t) = <<>> => Outermost(t, f)
  BY <1>2, <1>3 DEF Outermost
<1> HIDE DEF f
<1>6. CallLast(t, fn, arg) = Append(Below(t), f)
  BY DEF CallLast, f
<1>7. f = Frame(fn, "start", arg)
  BY DEF f
<1> QED
  BY <1>2, <1>3, <1>4, <1>5, <1>6, <1>7, PushedOnStack

(* A call that ends goes back to the one that waits for it.                 *)
LEMMA BelowOK ==
  ASSUME NEW t \in Tasks, StackOf(t, stack[t]), stack[t] # <<>>
  PROVE  /\ StackOf(t, Below(t)) /\ Top(t) \in AllFrames
         /\ Below(t) # <<>> => /\ Over(LastOf(Below(t)), Top(t))
                               /\ LastOf(Below(t)) \in AllFrames
                               /\ LastOf(Below(t)).fn \notin {"sleep", "await", "save", "remove"}
         /\ Below(t) = <<>> => Outermost(t, Top(t))
<1>1. Top(t) = LastOf(stack[t]) /\ Below(t) = RestOf(stack[t])
  BY DEF Top, Below, LastOf, RestOf
<1> QED
  BY <1>1, RestOfStack, CallersGoOn DEF Over

-----------------------------------------------------------------------------
(* The moves of the running task                                            *)

LEMMA ResultTyped ==
  /\ \A s \in Nat : Returned(s) \in Results /\ Returned(s).exc = "none" /\ Returned(s).s = s
  /\ \A e \in Errors \cup {"AuthApiError"} : Raised(e) \in Results /\ Raised(e).exc = e
  /\ Pending \in Results /\ Pending.exc = "pending"
BY ErrorsAssumption DEF Returned, Raised, Pending, Results

(* Where the running task goes on after a step, if it does                  *)
GoesTo(t, st) ==
  /\ running' \in {Nobody, t}
  /\ running' = t => st # <<>> /\ (Top(t))' = LastOf(st)
  /\ stack'[t] = st /\ (running' = Nobody => st = <<>>)

(* A timer's task ends because it was cancelled, or with nothing stored, or *)
(* with the client's next timer started, or because the client gave up.     *)
Excused(t) ==
  \/ t \notin Timers \/ doomed \/ slot' = 0 \/ lapsed' \/ timer' # t
  \/ result.exc = "none" /\ Top(t).at \in {"saved", "refreshed"}

(* It goes on where nothing was just saved, or it waits, or it ends.        *)
Lands(t) ==
  /\ running' \in {Nobody, t}
  /\ stack'[t] = <<>> => Excused(t)
  /\ running' = t /\ result'.exc = "none" => (Top(t).at)' \notin {"store", "saved", "refreshed"}
  /\ running' = Nobody /\ stack'[t] # <<>> => (Top(t).fn)' = "await"

LEMMA ProceedOK ==
  ASSUME NEW t \in Tasks, NEW others, NEW st, NEW r \in Results, NEW cancelled, Prompt,
         others = [u \in Tasks |-> others[u]], \A u \in Tasks \ {t} : StackOf(u, others[u]),
         Proceed(others, t, st, r, cancelled), StackOf(t, st),
         st # <<>> => GoesOn(LastOf(st), r, slot'),
         slot' \in Nat, issued' \in Nat, Onward
  PROVE  Prompt' /\ GoesTo(t, st)
<1>1. stack' = [u \in Tasks |-> stack'[u]] /\ stack'[t] = st /\ \A u \in Tasks \ {t} : stack'[u] = others[u]
  BY DEF Proceed
<1>2. \A u \in Tasks : StackOf(u, stack'[u])
  BY <1>1
<1>3. (\A u \in Tasks : StackOf(u, stack[u]))'
  BY <1>2 DEF StackOf, Outermost, Onward
<1>4. /\ running' \in Tasks \cup {Nobody} /\ result' \in Results
      /\ running' = Nobody => doomed' = FALSE
      /\ running' # Nobody => running' = t /\ st # <<>> /\ result' = r
  BY TasksAssumption, ResultTyped DEF Proceed
<1>5. running' # Nobody => stack'[running'] # <<>> /\ (GoesOn(LastOf(stack[running]), result, slot))'
  BY <1>1, <1>4 DEF GoesOn, ReadBy, PersistSession, Onward
<1>6. Prompt'
  BY <1>1, <1>3, <1>4, <1>5 DEF Prompt, Top, LastOf
<1>7. running' = Nobody => st = <<>>
  BY TasksAssumption DEF Proceed
<1>8. GoesTo(t, st)
  BY <1>1, <1>4, <1>7, TasksAssumption DEF GoesTo, Top, LastOf
<1> QED
  BY <1>6, <1>8

LEMMA GoesToLands ==
  ASSUME NEW t \in Tasks, NEW st, GoesTo(t, st),
         st # <<>> => LastOf(st).at \notin {"store", "saved", "refreshed"},
         st = <<>> => Excused(t)
  PROVE  Lands(t)
BY DEF GoesTo, Lands, Top

LEMMA WaitsLands ==
  ASSUME NEW t \in Tasks, running' = Nobody, stack'[t] # <<>> => (Top(t).fn)' = "await",
         stack'[t] = <<>> => doomed
  PROVE  Lands(t)
BY TasksAssumption DEF Lands, Excused

LEMMA FrameFields ==
  ASSUME NEW fn, NEW at, NEW s
  PROVE  Frame(fn, at, s).fn = fn /\ Frame(fn, at, s).at = at /\ Frame(fn, at, s).s = s
BY DEF Frame

LEMMA StepOK ==
  ASSUME NEW t \in Tasks, NEW st, NEW r \in Results, Prompt,
         Proceed(stack, t, st, r, doomed), StackOf(t, st),
         st # <<>> => GoesOn(LastOf(st), r, slot'),
         slot' \in Nat, UNCHANGED issued, Onward
  PROVE  Prompt' /\ GoesTo(t, st)
BY ProceedOK DEF Prompt

LEMMA ContinueOK ==
  ASSUME NEW t \in Tasks, NEW st, Prompt, Continue(t, st), StackOf(t, st),
         st # <<>> => GoesOn(LastOf(st), Returned(0), slot),
         UNCHANGED <<slot, issued>>, Onward
  PROVE  Prompt' /\ GoesTo(t, st)
BY ProceedOK, ResultTyped DEF Continue, Prompt

LEMMA StartOK ==
  ASSUME NEW fn, fn \notin {"sleep", "await"}, NEW s, NEW stored
  PROVE  GoesOn(Frame(fn, "start", s), Returned(0), stored)
BY ResultTyped DEF GoesOn, Frame

(* A call returns s with `stored` in the storage.                           *)
LEMMA ReturnOK ==
  ASSUME NEW t \in Tasks, NEW others, NEW s \in Nat, NEW cancelled, Prompt, running = t,
         others = [u \in Tasks |-> others[u]], \A u \in Tasks \ {t} : StackOf(u, others[u]),
         Proceed(others, t, Below(t), Returned(s), cancelled),
         \A f \in AllFrames : Over(f, Top(t)) /\ f.fn \notin {"sleep", "await"} =>
                                GoesOn(f, Returned(s), slot'),
         slot' \in Nat, issued' \in Nat, Onward
  PROVE  Prompt' /\ GoesTo(t, Below(t))
<1>1. StackOf(t, stack[t]) /\ stack[t] # <<>>
  BY TasksAssumption DEF Prompt
<1>2. StackOf(t, Below(t)) /\ (Below(t) # <<>> => GoesOn(LastOf(Below(t)), Returned(s), slot'))
  BY <1>1, BelowOK
<1> QED
  BY <1>2, ProceedOK, ResultTyped

LEMMA AwaitOK ==
  ASSUME NEW t \in Tasks, NEW st, NEW what \in Requests, NEW s \in Nat, Prompt, running = t,
         Await(t, st, what, s), StackOf(t, st), st # <<>>, LastOf(st).at = "answered",
         UNCHANGED <<slot, issued>>, Onward
  PROVE  /\ Prompt' /\ running' = Nobody
         /\ IF doomed THEN stack'[t] = <<>> ELSE stack'[t] # <<>> /\ (Top(t).fn)' = "await"
<1> DEFINE g == [fn |-> "await", at |-> what, s |-> s, answer |-> Pending]
           new == IF doomed THEN <<>> ELSE Append(st, g)
<1>1. g \in AllFrames /\ g.fn = "await" /\ g.at = what
  BY WaitingTyped, ResultTyped
<1>2. Over(LastOf(st), g)
  BY <1>1 DEF Over
<1>3. StackOf(t, <<>>)
  BY EmptySeq DEF StackOf
<1>4. stack' = [stack EXCEPT ![t] = new]
  BY DEF Await
<1> HIDE DEF g
<1>5. StackOf(t, new) /\ (IF doomed THEN new = <<>> ELSE new # <<>> /\ LastOf(new) = g)
  BY <1>1, <1>2, <1>3, PushedOnStack
<1> HIDE DEF new
<1>6. stack' = [u \in Tasks |-> stack'[u]] /\ \A u \in Tasks : StackOf(u, stack'[u])
  BY <1>4, <1>5 DEF Prompt
<1>7. (\A u \in Tasks : StackOf(u, stack[u]))'
  BY <1>6 DEF StackOf, Outermost, Onward
<1>8. IF doomed THEN stack'[t] = <<>> ELSE stack'[t] # <<>> /\ (Top(t).fn)' = "await"
  BY <1>1, <1>4, <1>5 DEF Prompt, Top, LastOf
<1> QED
  BY <1>6, <1>7, <1>8, ResultTyped DEF Await, Prompt

(* No other task's stack but the timer's is touched when the timer is.      *)
LEMMA StoppedOK ==
  ASSUME NEW t \in Tasks, Prompt
  PROVE  /\ Stopped(t) = [u \in Tasks |-> Stopped(t)[u]]
         /\ \A u \in Tasks : StackOf(u, Stopped(t)[u])
<1>1. \A u \in Tasks : StackOf(u, <<>>)
  BY EmptySeq DEF StackOf
<1> QED
  BY <1>1 DEF Stopped, Prompt

LEMMA ArmOK ==
  ASSUME NEW t \in Tasks, NEW st, NEW fn \in {"auto_refresh", "recover"}, NEW s \in Nat,
         Prompt, Arm(t, st, fn, s),
         fn = "recover" => Recovers,
         StackOf(t, st), st # <<>> => GoesOn(LastOf(st), Returned(0), slot'),
         slot' \in Nat, issued' \in Nat, Onward
  PROVE  Prompt' /\ GoesTo(t, st)
<1> DEFINE free == {x \in Timers : x # t /\ Stopped(t)[x] = <<>>}
           new == CHOOSE x \in free : TRUE
           g == Frame("sleep", fn, s)
           others == [Stopped(t) EXCEPT ![new] = <<g>>]
<1>1. new \in free
  BY DEF Arm
<1>2. Proceed(others, t, st, Returned(0), doomed \/ timer = t)
  BY DEF Arm
<1>3. g \in AllFrames /\ Outermost(new, g)
  <2>1. fn \in Places("sleep") /\ "sleep" \in Frames
    BY DEF Places, Frames, SignIns, Changes
  <2> QED
    BY <1>1, <2>1, FrameTyped DEF Outermost
<1> HIDE DEF new, g
<1>4. StackOf(new, <<>>)
  BY EmptySeq DEF StackOf
<1>5. StackOf(new, <<g>>)
  <2>1. <<g>> = Append(<<>>, g)
    OBVIOUS
  <2> QED
    BY <1>1, <1>3, <1>4, <2>1, PushedOnStack DEF Tasks
<1>6. others = [u \in Tasks |-> others[u]] /\ \A u \in Tasks \ {t} : StackOf(u, others[u])
  BY <1>1, <1>5, StoppedOK DEF Tasks
<1> HIDE DEF others
<1> QED
  BY <1>2, <1>6, ProceedOK, ResultTyped

(* What is known at a place of a call                                       *)
LEMMA Here ==
  ASSUME NEW t \in Tasks, NEW fn, NEW at, Prompt, At(t, fn, at)
  PROVE  /\ running = t /\ stack[t] # <<>> /\ StackOf(t, stack[t])
         /\ Top(t).fn = fn /\ Top(t).at = at /\ Top(t) \in AllFrames /\ Top(t).s \in Nat
         /\ fn \notin {"sleep", "await"} /\ slot \in Nat /\ issued \in Nat /\ result.s \in Nat
         /\ at = "saved" => slot = Top(t).s
         /\ at \in {"removed", "stop"} => slot = 0
         /\ at = "got" /\ result.s = 0 => slot = 0
         /\ at = "read" => result.s = ReadBy(fn, slot)
         /\ fn = "recover" /\ (at = "refreshed" \/ t \in Timers) => Recovers
<1>1. running = t /\ result.exc = "none" /\ Top(t).fn = fn /\ Top(t).at = at
  BY DEF At
<1>2. stack[t] # <<>> /\ StackOf(t, stack[t]) /\ GoesOn(Top(t), result, slot)
  BY <1>1, TasksAssumption DEF Prompt
<1>3. Top(t) \in AllFrames /\ Top(t).s \in Nat
  BY <1>2, BelowOK, FrameFacts
<1>4. slot \in Nat /\ issued \in Nat /\ result.s \in Nat
  BY DEF Prompt, Results
<1>5. fn = "recover" /\ (at = "refreshed" \/ t \in Timers) => Recovers
  BY <1>1, <1>2, BelowOK DEF Over, Outermost
<1> QED
  BY <1>1, <1>2, <1>3, <1>4, <1>5 DEF GoesOn

(* A call asks the server, and goes on from the answer.                     *)
LEMMA AskOK ==
  ASSUME NEW t \in Tasks, NEW fn, NEW at, Prompt, At(t, fn, at), fn # "save",
         "answered" \in Places(fn), NEW here \in Nat, NEW what \in Requests, NEW s \in Nat,
         Await(t, GoOn(t, "answered", here), what, s), UNCHANGED <<slot, issued>>, Onward
  PROVE  Prompt' /\ Lands(t)
<1> DEFINE st == GoOn(t, "answered", here)
<1>1. fn # "recover"
  BY PlacesOf
<1>2. StackOf(t, st) /\ st # <<>> /\ LastOf(st) = Frame(fn, "answered", here)
  BY <1>1, Here, GoOnOK
<1>3. Frame(fn, "answered", here).at = "answered"
  BY DEF Frame
<1>4. Await(t, st, what, s)
  OBVIOUS
<1> HIDE DEF st
<1> QED
  BY <1>2, <1>3, <1>4, Here, AwaitOK, WaitsLands

(* A call saves a session, and tells of it once it is saved.                *)
LEMMA SaveThenOK ==
  ASSUME NEW t \in Tasks, NEW fn, NEW at, Prompt, At(t, fn, at), fn # "save",
         "saved" \in Places(fn), at # "start", NEW s \in Nat,
         Continue(t, CallThen(t, "saved", s, "save", s)), UNCHANGED <<slot, issued>>, Onward
  PROVE  Prompt' /\ Lands(t)
<1>1. "save" \in Frames /\ "start" \in Places("save")
  BY PlacesOf DEF Frames, SignIns, Changes
<1>2. Over(Frame(fn, "saved", s), Frame("save", "start", s))
  BY DEF Over, Frame
<1> DEFINE st == CallThen(t, "saved", s, "save", s)
<1>3. StackOf(t, st) /\ st # <<>> /\ LastOf(st) = Frame("save", "start", s)
  BY <1>1, <1>2, Here, CallThenOK
<1>4. Continue(t, st)
  OBVIOUS
<1> HIDE DEF st
<1> QED
  BY <1>3, <1>4, StartOK, ContinueOK, GoesToLands, FrameFields

(* A call calls another than save, and goes on from what that returns.      *)
LEMMA CallOK ==
  ASSUME NEW t \in Tasks, NEW fn, NEW at, Prompt, At(t, fn, at), fn # "save",
         fn = "recover" => Recovers,
         NEW back \in Places(fn), NEW called \in {"get_session", "call_refresh", "remove"}, NEW s \in Nat,
         \/ back = "got" /\ called = "get_session"
         \/ back \in {"removed", "request"} /\ called = "remove"
         \/ back = "refreshed" /\ called = "call_refresh",
         Continue(t, CallThen(t, back, 0, called, s)), UNCHANGED <<slot, issued>>, Onward
  PROVE  Prompt' /\ Lands(t)
<1>1. called \in Frames /\ "start" \in Places(called)
  BY PlacesOf DEF Frames, SignIns, Changes
<1>2. Over(Frame(fn, back, 0), Frame(called, "start", s))
  BY DEF Over, Frame
<1> DEFINE st == CallThen(t, back, 0, called, s)
<1>3. StackOf(t, st) /\ st # <<>> /\ LastOf(st) = Frame(called, "start", s)
  BY <1>1, <1>2, Here, CallThenOK
<1>4. Continue(t, st)
  OBVIOUS
<1> HIDE DEF st
<1> QED
  BY <1>3, <1>4, StartOK, ContinueOK, GoesToLands, FrameFields

(* A call that nothing waits for, or that something waits for which does    *)
(* not mind, returns.                                                       *)
LEMMA EndOK ==
  ASSUME NEW t \in Tasks, NEW fn, NEW at, Prompt, At(t, fn, at), NEW s \in Nat,
         fn \notin {"save", "remove", "await"},
         fn \in {"get_session", "call_refresh"} /\ s = 0 => slot = 0,
         fn \in {"auto_refresh", "recover"} /\ t \in Timers => slot = 0 \/ at \in {"saved", "refreshed"},
         Return(t, s), UNCHANGED <<slot, issued>>, Onward
  PROVE  /\ Prompt'
         /\ fn # "call_refresh" => Lands(t)
         /\ GoesTo(t, Below(t))
<1>1. \A f \in AllFrames : Over(f, Top(t)) /\ f.fn \notin {"sleep", "await"} => GoesOn(f, Returned(s), slot)
  BY Here, ResultTyped DEF Over, GoesOn
<1>2. Prompt' /\ GoesTo(t, Below(t))
  BY <1>1, Here, ReturnOK DEF Return, Prompt
<1>3. Below(t) # <<>> /\ fn # "call_refresh" => LastOf(Below(t)).at = "got"
  BY Here, BelowOK DEF Over
<1>4. Below(t) = <<>> => Excused(t)
  BY Here, BelowOK DEF Outermost, Excused, At
<1> QED
  BY <1>2, <1>3, <1>4, GoesToLands

LEMMA GetSessionOK ==
  ASSUME NEW t \in Tasks, Prompt, ~Suspends, GetSession(t), Onward
  PROVE  Prompt' /\ Lands(t)
<1> USE DEF client, server
<1>1. CASE At(t, "get_session", "start")
  <2> DEFINE st == GoOn(t, "read", 0)
  <2>1. Proceed(stack, t, st, Returned(slot), doomed) /\ slot' = slot /\ UNCHANGED issued
    <3>1. At(t, "get_session", "start") /\ ~At(t, "get_session", "read")
      BY <1>1 DEF At
    <3> QED
      BY <3>1 DEF GetSession, Storage, Stored
  <2>2. StackOf(t, st) /\ st # <<>> /\ LastOf(st) = Frame("get_session", "read", 0)
    BY <1>1, Here, GoOnOK, PlacesOf
  <2>3. GoesOn(Frame("get_session", "read", 0), Returned(slot), slot)
    BY <1>1, Here, ResultTyped DEF GoesOn, Frame, ReadBy
  <2> HIDE DEF st
  <2> QED
    BY <1>1, <2>1, <2>2, <2>3, Here, StepOK, ResultTyped, GoesToLands, FrameFields
<1>2. CASE At(t, "get_session", "read")
  <2> DEFINE s == result.s
  <2>1. /\ \/ PersistSession /\ Continue(t, CallLast(t, "remove", 0))
           \/ Continue(t, CallLast(t, "call_refresh", s))
           \/ Return(t, s)
        /\ UNCHANGED <<slot, issued>>
    <3>1. ~At(t, "get_session", "start")
      BY <1>2 DEF At
    <3> QED
      BY <3>1 DEF GetSession
  <2>2. CASE Continue(t, CallLast(t, "remove", 0)) \/ Continue(t, CallLast(t, "call_refresh", s))
    BY <1>2, <2>1, <2>2, Here, CallLastOK, StartOK, ContinueOK, GoesToLands, FrameFields
  <2>3. CASE Return(t, s)
    BY <1>2, <2>1, <2>3, Here, EndOK DEF ReadBy
  <2> QED
    BY <2>1, <2>2, <2>3
<1> QED
  BY <1>1, <1>2 DEF GetSession

LEMMA CallRefreshTokenOK ==
  ASSUME NEW t \in Tasks, Prompt, CallRefreshToken(t), Onward
  PROVE  /\ Prompt'
         /\ ~At(t, "call_refresh", "saved") => Lands(t)
         /\ At(t, "call_refresh", "saved") =>
              /\ GoesTo(t, Below(t))
              /\ Below(t) # <<>> => LastOf(Below(t)).at \in {"got", "refreshed"}
<1> USE PlacesOf DEF client, server
<1>1. ASSUME At(t, "call_refresh", "start"), Await(t, GoOn(t, "answered", 0), "refresh", Top(t).s),
             UNCHANGED <<client, server>>
      PROVE  Prompt' /\ Lands(t)
  BY <1>1, Here, AskOK DEF Requests
<1>2. ASSUME At(t, "call_refresh", "answered"),
             Continue(t, CallThen(t, "saved", result.s, "save", result.s)), UNCHANGED <<client, server>>
      PROVE  Prompt' /\ Lands(t)
  BY <1>2, Here, SaveThenOK
<1>3. ASSUME At(t, "call_refresh", "saved"), Return(t, Top(t).s), UNCHANGED <<client, server>>
      PROVE  /\ Prompt' /\ GoesTo(t, Below(t))
             /\ Below(t) # <<>> => LastOf(Below(t)).at \in {"got", "refreshed"}
  BY <1>3, Here, EndOK, BelowOK DEF Over
<1> QED
  BY <1>1, <1>2, <1>3 DEF CallRefreshToken, At

LEMMA SaveSessionOK ==
  ASSUME NEW t \in Tasks, Prompt, ~Suspends, SaveSession(t), Onward
  PROVE  /\ Prompt'
         /\ At(t, "save", "store") => GoesTo(t, Below(t))
         /\ At(t, "save", "start") =>
              GoesTo(t, IF PersistSession THEN GoOn(t, "store", Top(t).s) ELSE Below(t))
<1> USE PlacesOf DEF server
<1> DEFINE s == Top(t).s
<1>1. ASSUME At(t, "save", "start"), SaveSession(t)
      PROVE  Prompt' /\ GoesTo(t, IF PersistSession THEN GoOn(t, "store", s) ELSE Below(t))
  <2> DEFINE st == IF PersistSession THEN GoOn(t, "store", s) ELSE Below(t)
  <2>1. /\ slot' = IF PersistSession THEN slot ELSE s
        /\ Arm(t, st, "auto_refresh", s) \/ Disarm(t, st)
        /\ UNCHANGED issued
    BY <1>1 DEF SaveSession, At
  <2>2. slot' \in Nat
    BY <1>1, <2>1, Here
  <2>3. StackOf(t, st) /\ (st # <<>> => GoesOn(LastOf(st), Returned(0), slot'))
    <3>1. PersistSession => StackOf(t, st) /\ LastOf(st) = Frame("save", "store", s)
      BY <1>1, Here, GoOnOK
    <3>2. GoesOn(Frame("save", "store", s), Returned(0), slot')
      BY ResultTyped DEF GoesOn, Frame
    <3>3. ~PersistSession =>
            \A f \in AllFrames : Over(f, Top(t)) /\ f.fn \notin {"sleep", "await"} =>
                                    GoesOn(f, Returned(0), slot')
      BY <1>1, <2>1, Here, ResultTyped DEF Over, GoesOn
    <3>4. ~PersistSession => StackOf(t, st) /\ (st # <<>> => GoesOn(LastOf(st), Returned(0), slot'))
      BY <3>3, <1>1, Here, BelowOK
    <3> QED
      BY <3>1, <3>2, <3>4
  <2> HIDE DEF st
  <2>4. ASSUME Arm(t, st, "auto_refresh", s)
        PROVE  Prompt' /\ GoesTo(t, st)
    BY <1>1, <2>1, <2>2, <2>3, <2>4, Here, ArmOK
  <2>5. ASSUME Disarm(t, st)
        PROVE  Prompt' /\ GoesTo(t, st)
    BY <2>1, <2>2, <2>3, <2>5, StoppedOK, ProceedOK, ResultTyped DEF Disarm, Prompt
  <2> QED
    BY <2>1, <2>4, <2>5 DEF st
<1>2. ASSUME At(t, "save", "store"), Storage(t, Below(t), "set", s), UNCHANGED server
      PROVE  Prompt' /\ GoesTo(t, Below(t))
  <2>1. Proceed(stack, t, Below(t), Returned(slot), doomed) /\ slot' = s
    BY <1>2 DEF Storage, Stored
  <2>2. \A f \in AllFrames : Over(f, Top(t)) /\ f.fn \notin {"sleep", "await"} =>
                                GoesOn(f, Returned(slot), slot')
    BY <1>2, <2>1, Here, ResultTyped DEF Over, GoesOn
  <2> QED
    BY <1>2, <2>1, <2>2, Here, ReturnOK DEF Prompt
<1> QED
  BY <1>1, <1>2 DEF SaveSession, At

LEMMA RemoveSessionOK ==
  ASSUME NEW t \in Tasks, Prompt, ~Suspends, RemoveSession(t), Onward
  PROVE  Prompt' /\ Lands(t)
<1> USE PlacesOf DEF server
<1>1. ASSUME At(t, "remove", "start"), slot' = 0, UNCHANGED server, NEW r \in {Returned(slot), Returned(0)},
             Proceed(stack, t, GoOn(t, "stop", 0), r, doomed)
      PROVE  Prompt' /\ Lands(t)
  <2> DEFINE st == GoOn(t, "stop", 0)
  <2>1. StackOf(t, st) /\ st # <<>> /\ LastOf(st) = Frame("remove", "stop", 0)
    BY <1>1, Here, GoOnOK
  <2>2. r \in Results /\ r.exc = "none"
    BY <1>1, Here, ResultTyped
  <2>3. GoesOn(Frame("remove", "stop", 0), r, slot')
    BY <1>1, <2>2 DEF GoesOn, Frame
  <2> HIDE DEF st
  <2>4. Proceed(stack, t, st, r, doomed)
    BY <1>1 DEF st
  <2> QED
    BY <1>1, <2>1, <2>2, <2>3, <2>4, StepOK, GoesToLands, FrameFields
<1>2. ASSUME At(t, "remove", "stop"), Disarm(t, Below(t)), UNCHANGED <<slot, server>>
      PROVE  Prompt' /\ Lands(t)
  <2>1. \A f \in AllFrames : Over(f, Top(t)) /\ f.fn \notin {"sleep", "await"} => GoesOn(f, Returned(0), slot')
    BY <1>2, Here, ResultTyped DEF Over, GoesOn
  <2>2. Prompt' /\ GoesTo(t, Below(t))
    BY <1>2, <2>1, Here, StoppedOK, ReturnOK DEF Disarm, Prompt
  <2>3. Below(t) # <<>> => LastOf(Below(t)).at \notin {"store", "saved", "refreshed"}
    BY <1>2, Here, BelowOK DEF Over
  <2>4. Below(t) = <<>> => Excused(t)
    BY <1>2, Here DEF Excused
  <2> QED
    BY <2>2, <2>3, <2>4, GoesToLands
<1> QED
  BY <1>1, <1>2 DEF RemoveSession, Storage, Stored, Continue

LEMMA SignInOK ==
  ASSUME NEW t \in Tasks, Prompt, SignIn(t), Onward
  PROVE  Prompt' /\ Lands(t)
<1> USE PlacesOf DEF client, server
<1>1. ASSUME At(t, "sign_in", "start"), Continue(t, CallThen(t, "request", 0, "remove", 0)),
             UNCHANGED <<client, server>>
      PROVE  Prompt' /\ Lands(t)
  BY <1>1, CallOK DEF SignIns
<1>2. ASSUME NEW fn \in SignIns, At(t, fn, "request"), Await(t, GoOn(t, "answered", 0), fn, 0),
             UNCHANGED <<client, server>>
      PROVE  Prompt' /\ Lands(t)
  BY <1>2, AskOK DEF SignIns, Requests
<1>3. ASSUME NEW fn \in SignIns, At(t, fn, "answered"),
             Continue(t, CallThen(t, "saved", result.s, "save", result.s)), UNCHANGED <<client, server>>
      PROVE  Prompt' /\ Lands(t)
  BY <1>3, Here, SaveThenOK DEF SignIns
<1>4. ASSUME NEW fn \in SignIns, At(t, fn, "saved"), Return(t, Top(t).s), UNCHANGED <<client, server>>
      PROVE  Prompt' /\ Lands(t)
  BY <1>4, Here, EndOK DEF SignIns
<1> QED
  BY <1>1, <1>2, <1>3, <1>4 DEF SignIn

LEMMA RefreshSessionOK ==
  ASSUME NEW t \in Tasks, Prompt, RefreshSession(t), Onward
  PROVE  Prompt' /\ Lands(t)
<1> USE PlacesOf DEF client, server
<1>1. ASSUME At(t, "refresh_session", "start"), Continue(t, CallThen(t, "got", 0, "get_session", 0)),
             UNCHANGED <<client, server>>
      PROVE  Prompt' /\ Lands(t)
  BY <1>1, CallOK
<1>2. ASSUME At(t, "refresh_session", "got"), UNCHANGED <<client, server>>,
             Return(t, 0) \/ Continue(t, CallLast(t, "call_refresh", result.s))
      PROVE  Prompt' /\ Lands(t)
  BY <1>2, Here, EndOK, CallLastOK, StartOK, ContinueOK, GoesToLands, FrameFields
<1> QED
  BY <1>1, <1>2 DEF RefreshSession

LEMMA ChangeOK ==
  ASSUME NEW t \in Tasks, Prompt, Change(t), Onward
  PROVE  Prompt' /\ Lands(t)
<1> USE PlacesOf DEF client, server
<1>1. ASSUME NEW fn \in Changes, At(t, fn, "start"), Continue(t, CallThen(t, "got", 0, "get_session", 0)),
             UNCHANGED <<client, server>>
      PROVE  Prompt' /\ Lands(t)
  BY <1>1, CallOK DEF Changes
<1>2. ASSUME NEW fn \in Changes, At(t, fn, "got"), UNCHANGED <<client, server>>,
             Return(t, 0) \/ Await(t, GoOn(t, "answered", result.s), fn, result.s)
      PROVE  Prompt' /\ Lands(t)
  BY <1>2, Here, EndOK, AskOK DEF Changes, Requests
<1>3. ASSUME NEW fn \in Changes, At(t, fn, "answered"), NEW s \in {result.s, Top(t).s},
             Continue(t, CallThen(t, "saved", s, "save", s)), UNCHANGED <<client, server>>
      PROVE  Prompt' /\ Lands(t)
  BY <1>3, Here, SaveThenOK DEF Changes
<1>4. ASSUME NEW fn \in Changes, At(t, fn, "saved"), Return(t, Top(t).s), UNCHANGED <<client, server>>
      PROVE  Prompt' /\ Lands(t)
  BY <1>4, Here, EndOK DEF Changes
<1> QED
  BY <1>1, <1>2, <1>3, <1>4 DEF Change

LEMMA SignOutOK ==
  ASSUME NEW t \in Tasks, Prompt, SignOut(t), Onward
  PROVE  Prompt' /\ Lands(t)
<1> USE PlacesOf DEF client, server
<1>1. ASSUME At(t, "sign_out", "start"), Continue(t, CallThen(t, "got", 0, "get_session", 0)),
             UNCHANGED <<client, server>>
      PROVE  Prompt' /\ Lands(t)
  BY <1>1, CallOK
<1>2. ASSUME NEW at \in {"got", "answered"}, At(t, "sign_out", at), UNCHANGED <<client, server>>,
             Continue(t, CallThen(t, "removed", 0, "remove", 0))
      PROVE  Prompt' /\ Lands(t)
  BY <1>2, CallOK
<1>3. ASSUME At(t, "sign_out", "got"), UNCHANGED <<client, server>>,
             Await(t, GoOn(t, "answered", 0), "sign_out", result.s)
      PROVE  Prompt' /\ Lands(t)
  BY <1>3, Here, AskOK DEF Requests
<1>4. ASSUME At(t, "sign_out", "removed"), Return(t, 0), UNCHANGED <<client, server>>
      PROVE  Prompt' /\ Lands(t)
  BY <1>4, EndOK
<1> QED
  BY <1>1, <1>2, <1>3, <1>4 DEF SignOut

LEMMA RecoverOK ==
  ASSUME NEW t \in Tasks, Prompt, Ages, ~Suspends, Recover(t), Onward
  PROVE  Prompt' /\ Lands(t)
<1> USE PlacesOf DEF client, server
<1>1. ASSUME At(t, "recover", "start"), UNCHANGED <<slot, server>>,
             Proceed(stack, t, GoOn(t, "read", 0), Returned(ReadBy("recover", slot)), doomed)
      PROVE  Prompt' /\ Lands(t)
  <2> DEFINE st == GoOn(t, "read", 0)
             read == ReadBy("recover", slot)
  <2>1. StackOf(t, st) /\ st # <<>> /\ LastOf(st) = Frame("recover", "read", 0)
    BY <1>1, Here, GoOnOK
  <2>2. read \in Nat
    BY BoundsAssumption DEF ReadBy, Prompt, Ages, Sessions
  <2>3. GoesOn(Frame("recover", "read", 0), Returned(read), slot)
    BY <2>2, ResultTyped DEF GoesOn, Frame
  <2>4. Proceed(stack, t, st, Returned(read), doomed)
    BY <1>1
  <2> HIDE DEF st, read
  <2> QED
    BY <1>1, <2>1, <2>2, <2>3, <2>4, Here, StepOK, ResultTyped, GoesToLands, FrameFields
<1>2. ASSUME NEW at \in {"read", "saved"}, At(t, "recover", at), Return(t, 0),
             at = "read" => result.s = 0 \/ (~InMargin(result.s) /\ ~PersistSession), UNCHANGED <<slot, server>>
      PROVE  Prompt' /\ Lands(t)
  <2>1. t \in Timers => slot = 0 \/ at = "saved"
    BY <1>2, Here DEF ReadBy, Recovers
  <2> QED
    BY <1>2, <2>1, EndOK
<1>3. ASSUME At(t, "recover", "read"), UNCHANGED <<slot, server>>, NEW s, s = result.s,
             \/ Continue(t, CallThen(t, "saved", s, "save", s))
             \/ s # 0 /\ InMargin(s) /\ Continue(t, CallThen(t, "refreshed", 0, "call_refresh", s))
      PROVE  Prompt' /\ Lands(t)
  <2>1. s # 0 /\ InMargin(s) => Recovers
    BY <1>3, Here DEF ReadBy, Recovers
  <2> QED
    BY <1>3, <2>1, Here, SaveThenOK, CallOK
<1>4. ASSUME NEW at \in {"read", "refreshed"}, At(t, "recover", at), UNCHANGED <<slot, server>>,
             Continue(t, CallLast(t, "remove", 0))
      PROVE  Prompt' /\ Lands(t)
  BY <1>4, Here, CallLastOK, StartOK, ContinueOK, GoesToLands, FrameFields
<1>5. ASSUME At(t, "recover", "start"), Recover(t)
      PROVE  Prompt' /\ Lands(t)
  <2>1. /\ UNCHANGED <<slot, server>>
        /\ Proceed(stack, t, GoOn(t, "read", 0), Returned(ReadBy("recover", slot)), doomed)
    BY <1>5 DEF Recover, At, Storage, Stored, ReadBy
  <2> QED
    BY <1>1, <1>5, <2>1
<1>6. ASSUME At(t, "recover", "read"), Recover(t)
      PROVE  Prompt' /\ Lands(t)
  <2> DEFINE s == result.s
  <2>1. /\ UNCHANGED <<slot, server>>
        /\ \/ (s = 0 \/ (~InMargin(s) /\ ~PersistSession)) /\ Return(t, 0)
           \/ Continue(t, CallLast(t, "remove", 0))
           \/ Continue(t, CallThen(t, "saved", s, "save", s))
           \/ s # 0 /\ InMargin(s) /\ Continue(t, CallThen(t, "refreshed", 0, "call_refresh", s))
    BY <1>6 DEF Recover, At
  <2> QED
    BY <1>2, <1>3, <1>4, <1>6, <2>1
<1>7. ASSUME At(t, "recover", "saved") \/ At(t, "recover", "refreshed"), Recover(t)
      PROVE  Prompt' /\ Lands(t)
  BY <1>2, <1>4, <1>7 DEF Recover, At
<1> QED
  BY <1>5, <1>6, <1>7 DEF Recover

LEMMA AutoRefreshTokenOK ==
  ASSUME NEW t \in Tasks, Prompt, AutoRefreshToken(t), Onward
  PROVE  Prompt' /\ Lands(t)
<1> USE PlacesOf DEF client, server
<1>1. ASSUME At(t, "auto_refresh", "start"), Continue(t, CallThen(t, "got", 0, "get_session", 0)),
             UNCHANGED <<slot, server>>
      PROVE  Prompt' /\ Lands(t)
  BY <1>1, CallOK
<1>2. ASSUME NEW at \in {"got", "refreshed"}, At(t, "auto_refresh", at), Return(t, 0), UNCHANGED <<slot, server>>,
             at = "got" => result.s = 0
      PROVE  Prompt' /\ Lands(t)
  BY <1>2, Here, EndOK
<1>3. ASSUME At(t, "auto_refresh", "got"), UNCHANGED <<slot, server>>,
             Continue(t, CallThen(t, "refreshed", 0, "call_refresh", result.s))
      PROVE  Prompt' /\ Lands(t)
  BY <1>3, Here, CallOK
<1> QED
  BY <1>1, <1>2, <1>3 DEF AutoRefreshToken

LEMMA UnwindOK ==
  ASSUME NEW t \in Tasks, Prompt, Unwind(t), Onward
  PROVE  Prompt' /\ Lands(t)
<1> USE PlacesOf DEF server
<1> DEFINE top == Top(t)
<1>1. /\ running = t /\ result.exc # "none" /\ result \in Results
      /\ slot \in Nat /\ UNCHANGED <<slot, issued>>
      /\ stack[t] # <<>> /\ StackOf(t, stack[t]) /\ GoesOn(top, result, slot)
  BY TasksAssumption DEF Unwind, Prompt
<1>2. /\ top \in AllFrames /\ top.fn \notin {"sleep", "await"}
      /\ top.at \in {"answered", "got", "refreshed"} /\ top.at \in Places(top.fn)
  BY <1>1, BelowOK, FrameFacts DEF GoesOn
<1>3. top.fn \in {"recover", "auto_refresh"} => Below(t) = <<>> /\ Outermost(t, top)
  BY <1>1, BelowOK DEF Over
<1>10. ASSUME NEW fn, NEW s, Arm(t, Below(t), fn, s)
       PROVE  Excused(t)
  <2> DEFINE free == {x \in Timers : x # t /\ Stopped(t)[x] = <<>>}
  <2>1. (CHOOSE x \in free : TRUE) # t
    BY <1>10 DEF Arm
  <2> QED
    BY <1>10, <2>1 DEF Arm, Excused
<1>4. CASE top.fn = "sign_out" /\ Continue(t, CallThen(t, "removed", 0, "remove", 0))
  <2> DEFINE st == CallThen(t, "removed", 0, "remove", 0)
  <2>1. "remove" \in Frames
    BY DEF Frames, SignIns, Changes
  <2>2. Over(Frame(top.fn, "removed", 0), Frame("remove", "start", 0))
    BY DEF Over, Frame
  <2>3. StackOf(t, st) /\ st # <<>> /\ LastOf(st) = Frame("remove", "start", 0)
    BY <1>1, <1>4, <2>1, <2>2, CallThenOK
  <2>4. Continue(t, st)
    BY <1>4
  <2> HIDE DEF st
  <2> QED
    BY <1>1, <2>3, <2>4, StartOK, ContinueOK, GoesToLands, FrameFields
<1>5. CASE top.fn = "recover" /\ Arm(t, Below(t), "recover", 0)
  BY <1>1, <1>2, <1>3, <1>5, <1>10, BelowOK, ArmOK, GoesToLands DEF Outermost, Prompt
<1>6. CASE top.fn = "recover" /\ Continue(t, CallLast(t, "remove", 0))
  BY <1>1, <1>6, CallLastOK, StartOK, ContinueOK, GoesToLands, FrameFields
<1>7. CASE top.fn = "auto_refresh" /\ Arm(t, Below(t), "auto_refresh", 0)
  BY <1>1, <1>3, <1>7, <1>10, BelowOK, ArmOK, GoesToLands DEF Prompt
<1>8. CASE top.fn = "auto_refresh" /\ Continue(t, Below(t)) /\ lapsed'
  BY <1>1, <1>3, <1>8, BelowOK, ContinueOK, GoesToLands DEF Excused
<1>9. CASE /\ top.fn # "auto_refresh" /\ ~(top.fn = "recover" /\ top.at = "refreshed")
           /\ Proceed(stack, t, Below(t), result, doomed)
  <2>1. ASSUME NEW f \in AllFrames, Over(f, top), f.fn \notin {"sleep", "await"}
        PROVE  GoesOn(f, result, slot')
    <3>1. top.fn \notin {"save", "remove", "await"}
      BY <1>2
    <3> QED
      BY <1>1, <2>1, <3>1 DEF Over, GoesOn
  <2>2. Prompt' /\ GoesTo(t, Below(t))
    BY <1>1, <1>9, <2>1, BelowOK, StepOK
  <2>3. running' = t => result' = result
    BY <1>9, TasksAssumption DEF Proceed
  <2>4. Below(t) = <<>> => Excused(t)
    BY <1>1, <1>2, <1>9, BelowOK DEF Outermost, Excused
  <2> QED
    BY <1>1, <2>2, <2>3, <2>4 DEF GoesTo, Lands
<1> QED
  BY <1>2, <1>4, <1>5, <1>6, <1>7, <1>8, <1>9 DEF Unwind

LEMMA ResumeOK ==
  ASSUME NEW t \in Tasks, Prompt, Resume(t), Onward
  PROVE  Prompt' /\ Lands(t)
<1> USE DEF client, server
<1> DEFINE f == LastOf(Below(t))
<1>1. StackOf(t, stack[t]) /\ stack[t] # <<>> /\ Top(t).fn = "await" /\ running = Nobody
  BY DEF Prompt, Resume
<1>2. /\ StackOf(t, Below(t)) /\ Below(t) # <<>> /\ Top(t).answer \in Results
      /\ f.at = "answered" /\ f.fn \notin {"sleep", "await"}
  BY <1>1, BelowOK, FrameFacts DEF Outermost, Over
<1>3. stack' = [u \in Tasks |-> stack'[u]] /\ stack'[t] = Below(t) /\ \A u \in Tasks : StackOf(u, stack'[u])
  BY <1>2 DEF Prompt, Resume
<1>4. (\A u \in Tasks : StackOf(u, stack[u]))'
  BY <1>3 DEF StackOf, Outermost, Onward
<1>5. GoesOn(f, Top(t).answer, slot)
  BY <1>2 DEF GoesOn
<1>6. running' = t /\ (Top(t))' = f /\ result' = Top(t).answer /\ slot' = slot
  BY <1>3 DEF Resume, Top, LastOf
<1>7. (GoesOn(Top(running), result, slot))'
  BY <1>2, <1>5, <1>6 DEF GoesOn
<1>8. Prompt'
  BY <1>2, <1>3, <1>4, <1>6, <1>7, TasksAssumption DEF Resume, Prompt
<1>9. (Top(t).at)' = "answered"
  BY <1>2, <1>6 DEF Top
<1> QED
  BY <1>2, <1>3, <1>6, <1>8, <1>9, TasksAssumption DEF Lands

(* An answer only fills in the call that waits for it.                      *)
LEMMA AnswerOK ==
  ASSUME NEW t \in Tasks, NEW r \in Results, Prompt, running = Nobody, stack[t] # <<>>,
         Top(t).fn = "await", Answer(t, r), issued' \in Nat,
         UNCHANGED <<slot, running, doomed, result>>, Onward
  PROVE  /\ Prompt' /\ \A u \in Tasks \ {t} : stack'[u] = stack[u]
         /\ stack'[t] # <<>> /\ (Top(t).fn)' = "await"
<1> DEFINE q == stack[t]  n == Len(q)
           g == [q[n] EXCEPT !.answer = r]
           p == [q EXCEPT ![n] = g]
<1>1. /\ q \in Seq(AllFrames) /\ q # <<>> /\ q[n] \in AllFrames /\ q[n].fn = "await"
      /\ n \in Nat \ {0} /\ StackOf(t, q)
  BY RestFacts DEF Prompt, StackOf, Top, LastOf
<1>2. q[n] \in Waiting
  <2>1. Places("await") = {}
    BY DEF Places, SignIns, Changes
  <2> QED
    BY <1>1, <2>1 DEF AllFrames, Calls
<1>3. g \in AllFrames /\ g.fn = q[n].fn /\ g.at = q[n].at /\ g.s = q[n].s
  BY <1>2 DEF Waiting, AllFrames
<1>4. stack' = [stack EXCEPT ![t] = p]
  BY DEF Answer
<1> HIDE DEF g
<1>5. /\ p \in Seq(AllFrames) /\ Len(p) = n
      /\ \A i \in 1..n : p[i] = IF i = n THEN g ELSE q[i]
  BY <1>1, <1>3, ExceptSeq
<1> HIDE DEF p, n, q
<1>6. n = Len(q)
  BY DEF n
<1>7. \A i \in 1..(n - 1) : Over(p[i], p[i + 1])
  <2> TAKE i \in 1..(n - 1)
  <2>1. Over(q[i], q[i + 1]) /\ i \in 1..n /\ i + 1 \in 1..n /\ i # n
    BY <1>1, <1>6 DEF StackOf
  <2>2. i + 1 = n => Over(q[i], g)
    BY <2>1, <1>3 DEF Over
  <2> QED
    BY <1>5, <2>1, <2>2
<1>8. p # <<>> /\ Outermost(t, p[1])
  <2>1. Outermost(t, q[1])
    BY <1>1 DEF StackOf
  <2>2. n = 1 => Outermost(t, g)
    BY <1>3, <2>1 DEF Outermost
  <2>3. 1 \in 1..n
    BY <1>1
  <2> QED
    BY <1>1, <1>5, <2>1, <2>2, <2>3, EmptySeq
<1>9. StackOf(t, p)
  BY <1>5, <1>7, <1>8 DEF StackOf
<1>10. stack' = [u \in Tasks |-> stack'[u]] /\ \A u \in Tasks : StackOf(u, stack'[u])
  BY <1>4, <1>9 DEF Prompt
<1>11. (\A u \in Tasks : StackOf(u, stack[u]))'
  BY <1>10 DEF StackOf, Outermost, Onward
<1>12. stack'[t] = p /\ \A u \in Tasks \ {t} : stack'[u] = stack[u]
  BY <1>4 DEF Prompt
<1>13. (Top(t).fn)' = "await"
  BY <1>1, <1>3, <1>5, <1>12 DEF Top
<1> QED
  BY <1>8, <1>10, <1>11, <1>12, <1>13 DEF Prompt

(* Nobody waits for a storage that does not suspend.                        *)
LEMMA NoStorageAnswers ==
  ASSUME NEW t \in Tasks, Prompt
  PROVE  ~StorageAnswers(t)
<1> SUFFICES ASSUME StorageAnswers(t) PROVE FALSE
  OBVIOUS
<1>1. PICK what \in StorageCalls : Waits(t, what)
  BY DEF StorageAnswers, StorageCalls
<1>2. StackOf(t, stack[t]) /\ stack[t] # <<>> /\ Top(t).fn = "await" /\ Top(t).at = what
  BY <1>1 DEF Waits, Prompt
<1>3. Top(t).at \in Requests
  BY <1>2, BelowOK DEF Over, Outermost
<1> QED
  BY <1>2, <1>3 DEF Requests, StorageCalls, SignIns, Changes

LEMMA NextOnward ==
  ASSUME Ages, [Next]_vars
  PROVE  Ages' /\ Onward
<1>1. UNCHANGED <<storage, kept>>
  BY DEF Next, vars
<1>2. CASE age' = age
  BY <1>1, <1>2 DEF Ages, Onward, Recovers, PersistSession, InMargin
<1>3. CASE \E s \in Sessions : TimePasses(s)
  BY <1>1, <1>3 DEF TimePasses, Ages, Onward, Recovers, PersistSession, InMargin
<1>4. ASSUME NEW t \in Tasks, Step(t)
      PROVE  age' = age
  BY <1>4 DEF Step, GetSession, CallRefreshToken, SaveSession, RemoveSession, SignIn, RefreshSession, Change,
    SignOut, Recover, AutoRefreshToken, Unwind, Resume, server
<1>5. ASSUME NEW t \in Tasks, StorageAnswers(t) \/ ServerAnswers(t) \/ RequestFails(t) \/ TimerFires(t)
      PROVE  age' = age
  BY <1>5 DEF StorageAnswers, ServerAnswers, RequestFails, TimerFires, server
<1> QED
  BY <1>2, <1>3, <1>4, <1>5 DEF Next, Runs, UserCalls, server, vars

LEMMA AgesAlways == Spec => []Ages
<1>1. Init => Ages
  BY BoundsAssumption DEF Init, Ages, Sessions
<1> QED
  BY <1>1, NextOnward, PTL DEF Spec

(* The stacks of the tasks are what they should be, and what is stored is   *)
(* what the call that goes on believes, if the storage does not suspend.    *)
THEOREM PromptAlways == Spec => []PromptInvariant
<1> USE DEF client, server
<1>1. Init => PromptInvariant
  <2> SUFFICES ASSUME Init PROVE Prompt
    BY DEF PromptInvariant
  <2>1. \A t \in Tasks : StackOf(t, <<>>)
    BY EmptySeq DEF StackOf
  <2> QED
    BY <2>1, ResultTyped DEF Init, Prompt
<1>2. PromptInvariant /\ Ages /\ [Next]_vars => PromptInvariant'
  <2> SUFFICES ASSUME Prompt, Ages, ~Suspends, [Next]_vars
               PROVE  Prompt'
    BY DEF PromptInvariant, Suspends, Next, vars
  <2>1. Onward
    BY NextOnward
  <2>2. ASSUME NEW t \in Tasks, Step(t)
        PROVE  Prompt'
    BY <2>1, <2>2, GetSessionOK, CallRefreshTokenOK, SaveSessionOK, RemoveSessionOK, SignInOK, RefreshSessionOK,
      ChangeOK, SignOutOK, RecoverOK, AutoRefreshTokenOK, UnwindOK, ResumeOK DEF Step
  <2>3. ASSUME NEW t \in Tasks, StorageAnswers(t)
        PROVE  Prompt'
    BY <2>3, NoStorageAnswers
  <2>4. ASSUME NEW t \in Tasks, ServerAnswers(t)
        PROVE  Prompt'
    <3>1. /\ running = Nobody /\ stack[t] # <<>> /\ Top(t).fn = "await"
          /\ UNCHANGED <<slot, running, doomed, result>>
      BY <2>4 DEF ServerAnswers, Waits
    <3>2. issued \in Nat /\ Returned(0) \in Results /\ Returned(issued + 1) \in Results
      BY ResultTyped DEF Prompt
    <3>3. "ConnectError" \in Errors => Raised("ConnectError") \in Results
      BY ResultTyped
    <3>4. issued' \in Nat /\ \E r \in Results : Answer(t, r)
      BY <2>4, <3>2, <3>3 DEF ServerAnswers, Issue
    <3> QED
      BY <2>1, <3>1, <3>4, AnswerOK
  <2>5. ASSUME NEW t \in Tasks, RequestFails(t)
        PROVE  Prompt'
    <3>1. PICK e \in Errors \cup {"AuthApiError"} : Answer(t, Raised(e))
      BY <2>5 DEF RequestFails
    <3> QED
      BY <2>1, <2>5, <3>1, AnswerOK, ResultTyped DEF RequestFails, Waits, Prompt
  <2>6. ASSUME NEW x \in Timers, TimerFires(x)
        PROVE  Prompt'
    <3> DEFINE f == Top(x)  g == Frame(f.at, "start", 0)  st == <<g>>
    <3>1. StackOf(x, stack[x]) /\ stack[x] # <<>> /\ f.fn = "sleep" /\ x \in Tasks
      BY <2>6 DEF TimerFires, Prompt, Tasks
    <3>2. f \in AllFrames /\ Outermost(x, f)
      BY <3>1, BelowOK DEF Over
    <3>3. f.at \in {"auto_refresh", "recover"}
      BY <3>1, <3>2, FrameFacts DEF Places, SignIns, Changes
    <3>4. g \in AllFrames /\ g.fn = f.at
      BY <3>3, FrameTyped, PlacesOf DEF Frames
    <3>5. Outermost(x, g)
      BY <3>1, <3>2, <3>3, <3>4 DEF Outermost
    <3>6. GoesOn(g, Returned(0), slot)
      BY <3>3, StartOK
    <3>7. Continue(x, st)
      BY <2>6 DEF TimerFires
    <3> HIDE DEF g
    <3>8. st = Append(<<>>, g) /\ StackOf(x, <<>>)
      BY EmptySeq DEF StackOf
    <3>9. StackOf(x, st) /\ LastOf(st) = g
      BY <3>1, <3>4, <3>5, <3>8, PushedOnStack
    <3> HIDE DEF st
    <3> QED
      BY <2>1, <2>6, <3>1, <3>6, <3>7, <3>9, ContinueOK DEF TimerFires
  <2>7. ASSUME NEW u \in Users, NEW fn \in Operations, UserCalls(u, fn)
        PROVE  Prompt'
    <3> DEFINE at == IF fn = "exchange" THEN "request" ELSE "start"
               g == Frame(fn, at, 0)  st == <<g>>
    <3>1. g \in AllFrames /\ g.fn = fn /\ g.at = at
      <4>1. fn \in {"get_session", "refresh_session", "sign_out", "recover"} \cup SignIns \cup Changes
        BY OperationsAssumption DEF SignIns, Changes
      <4>2. fn \in Frames
        BY <4>1 DEF Frames
      <4>3. at \in Places(fn)
        BY <4>1, PlacesOf DEF SignIns
      <4> QED
        BY <4>2, <4>3, FrameTyped
    <3>2. u \in Tasks /\ Outermost(u, g)
      BY <3>1, OperationsAssumption, TasksAssumption DEF Outermost, Tasks
    <3>3. GoesOn(g, Returned(0), slot)
      BY <3>1, OperationsAssumption, ResultTyped DEF GoesOn
    <3>4. Continue(u, st)
      BY <2>7 DEF UserCalls
    <3> HIDE DEF g
    <3>5. st = Append(<<>>, g) /\ StackOf(u, <<>>)
      BY EmptySeq DEF StackOf
    <3>6. StackOf(u, st) /\ LastOf(st) = g
      BY <3>1, <3>2, <3>5, PushedOnStack
    <3> HIDE DEF st
    <3> QED
      BY <2>1, <2>7, <3>2, <3>3, <3>4, <3>6, ContinueOK DEF UserCalls
  <2>8. CASE UNCHANGED <<client, loop, issued>>
    <3>1. (\A u \in Tasks : StackOf(u, stack[u]))'
      BY <2>1, <2>8 DEF Prompt, loop, StackOf, Outermost, Onward
    <3>2. running # Nobody => (GoesOn(Top(running), result, slot))'
      BY <2>1, <2>8 DEF Prompt, loop, Top, GoesOn, ReadBy, PersistSession, Onward
    <3> QED
      BY <2>8, <3>1, <3>2 DEF loop, Prompt
  <2> QED
    BY <2>2, <2>3, <2>4, <2>5, <2>6, <2>7, <2>8 DEF Next, Runs, TimePasses, vars
<1> QED
  BY <1>1, <1>2, AgesAlways, PTL DEF Spec

-----------------------------------------------------------------------------
(* Subscribers hear of the session that is stored, or of a sign-out when    *)
(* none is, if the storage does not suspend.                                *)
THEOREM ToldIsStoredAlways == Spec => ToldIsStored
<1> USE DEF client, server
<1>1. PromptInvariant /\ [Next]_vars =>
        [told' # told /\ ~Suspends =>
           slot' = told' \/ (~PersistSession /\ told' = kept /\ \E t \in Tasks : At(t, "recover", "read"))]_vars
  <2> SUFFICES ASSUME Prompt, Next, told' # told
               PROVE  slot' = told' \/ (~PersistSession /\ told' = kept /\ \E t \in Tasks : At(t, "recover", "read"))
    BY DEF PromptInvariant
  <2>1. ASSUME NEW t \in Tasks, NEW fn, At(t, fn, "saved"), TellAll(Top(t).s), UNCHANGED slot
        PROVE  slot' = told'
    BY <2>1, Here DEF TellAll
  <2>2. ASSUME NEW t \in Tasks, NEW fn, At(t, fn, "removed"), TellAll(0), UNCHANGED slot
        PROVE  slot' = told'
    BY <2>2, Here DEF TellAll
  <2>3. ASSUME NEW t \in Tasks, CallRefreshToken(t)
        PROVE  slot' = told'
    BY <2>1, <2>3 DEF CallRefreshToken
  <2>4. ASSUME NEW t \in Tasks, SignIn(t)
        PROVE  slot' = told'
    BY <2>1, <2>4 DEF SignIn
  <2>5. ASSUME NEW t \in Tasks, Change(t)
        PROVE  slot' = told'
    BY <2>1, <2>5 DEF Change
  <2>6. ASSUME NEW t \in Tasks, SignOut(t)
        PROVE  slot' = told'
    BY <2>2, <2>6 DEF SignOut
  <2>7. ASSUME NEW t \in Tasks, Recover(t)
        PROVE  slot' = told' \/ (~PersistSession /\ told' = kept /\ At(t, "recover", "read"))
    <3>1. ASSUME At(t, "recover", "read"), ~PersistSession
          PROVE  result.s = kept
      BY <3>1, Here DEF ReadBy
    <3> QED
      BY <2>1, <2>7, <3>1 DEF Recover, TellAll
  <2>8. ASSUME NEW t \in Tasks,
               \/ GetSession(t) \/ SaveSession(t) \/ RemoveSession(t) \/ RefreshSession(t)
               \/ AutoRefreshToken(t) \/ Unwind(t) \/ Resume(t)
        PROVE  FALSE
    BY <2>8 DEF GetSession, SaveSession, RemoveSession, RefreshSession, AutoRefreshToken, Unwind, Resume
  <2>9. ASSUME NEW t \in Tasks, StorageAnswers(t) \/ ServerAnswers(t) \/ RequestFails(t) \/ TimerFires(t)
        PROVE  FALSE
    BY <2>9 DEF StorageAnswers, ServerAnswers, RequestFails, TimerFires
  <2> QED
    BY <2>3, <2>4, <2>5, <2>6, <2>7, <2>8, <2>9 DEF Next, Runs, Step, UserCalls, TimePasses
<1> QED
  BY <1>1, PromptAlways, PTL DEF Spec, ToldIsStored

-----------------------------------------------------------------------------
(* What the timer's tasks do meanwhile, if the storage does not suspend     *)

(* The running task is at one of these places of a call.                    *)
RunsAt(places) == running # Nobody /\ result.exc = "none" /\ Top(running).at \in places

(* A task sleeps for the session that is stored, or that is being stored;   *)
(* or the session has just been removed and its timer is about to be.       *)
SleepsForStored ==
  \A x \in Timers : Sleeping(x) /\ Top(x).s # 0 =>
    IF RunsAt({"store"}) THEN Top(x).s = Top(running).s
                         ELSE slot = Top(x).s \/ RunsAt({"stop"})

(* The client gave up, or a task other than t is to refresh the session.    *)
Covered(t) == lapsed \/ \E x \in Timers \ {t} : Alive(x)

(* A stored session is looked after, and by another task than the one that  *)
(* has just stored it.                                                      *)
LookedAfter ==
  /\ slot # 0 => lapsed \/ \E x \in Timers : Alive(x)
  /\ RunsAt({"store", "saved", "refreshed"}) => Covered(running)

SleepsForStoredInvariant == ~Suspends => SleepsForStored
LookedAfterInvariant == ~Suspends => LookedAfter

(* A step of task t that touches no other task's stack and no timer         *)
Alone(t) ==
  /\ running \in {Nobody, t} /\ (running = t => Top(t).at \notin {"store", "stop"})
  /\ running' \in {Nobody, t} /\ (doomed' => doomed)
  /\ running = Nobody => stack'[t] # <<>>
  /\ \A u \in Tasks \ {t} : stack'[u] = stack[u]
  /\ UNCHANGED <<slot, timer>> /\ (lapsed => lapsed')

LEMMA ContinueAlone ==
  ASSUME NEW t \in Tasks, Prompt, running = t, Top(t).at \notin {"store", "stop"},
         NEW st, NEW r, Proceed(stack, t, st, r, doomed) \/ Continue(t, st),
         UNCHANGED <<slot, timer>>, lapsed => lapsed'
  PROVE  Alone(t)
BY TasksAssumption DEF Alone, Prompt, Continue, Proceed

LEMMA WakesAlone ==
  ASSUME NEW t \in Tasks, Prompt, running = Nobody, NEW st, st # <<>>, Continue(t, st),
         UNCHANGED <<slot, timer, lapsed>>
  PROVE  Alone(t)
BY TasksAssumption DEF Alone, Prompt, Continue, Proceed

LEMMA ReturnAlone ==
  ASSUME NEW t \in Tasks, Prompt, running = t, Top(t).at \notin {"store", "stop"},
         NEW s, Return(t, s), UNCHANGED <<slot, timer>>, lapsed => lapsed'
  PROVE  Alone(t)
BY ContinueAlone DEF Return

LEMMA AwaitAlone ==
  ASSUME NEW t \in Tasks, Prompt, running = t, Top(t).at \notin {"store", "stop"},
         NEW st, NEW what, NEW s, Await(t, st, what, s), UNCHANGED <<slot, timer, lapsed>>
  PROVE  Alone(t)
BY TasksAssumption DEF Alone, Prompt, Await

LEMMA StepsAlone ==
  ASSUME NEW t \in Tasks, Prompt, ~Suspends,
         \/ GetSession(t) \/ CallRefreshToken(t) \/ SignIn(t) \/ RefreshSession(t) \/ Change(t)
         \/ SignOut(t) \/ Recover(t) \/ AutoRefreshToken(t) \/ Resume(t)
  PROVE  Alone(t)
<1> USE ContinueAlone, ReturnAlone, AwaitAlone DEF client
<1>1. ASSUME NEW fn, NEW at, At(t, fn, at)
      PROVE  running = t /\ Top(t).at = at
  BY <1>1 DEF At
<1>2. CASE GetSession(t)
  BY <1>1, <1>2 DEF GetSession, Storage, Stored
<1>3. CASE CallRefreshToken(t)
  BY <1>1, <1>3 DEF CallRefreshToken
<1>4. CASE SignIn(t)
  BY <1>1, <1>4 DEF SignIn
<1>5. CASE RefreshSession(t)
  BY <1>1, <1>5 DEF RefreshSession
<1>6. CASE Change(t)
  BY <1>1, <1>6 DEF Change
<1>7. CASE SignOut(t)
  BY <1>1, <1>7 DEF SignOut
<1>8. CASE Recover(t)
  BY <1>1, <1>8 DEF Recover, Storage, Stored
<1>9. CASE AutoRefreshToken(t)
  BY <1>1, <1>9 DEF AutoRefreshToken
<1>10. CASE Resume(t)
  <2>1. Below(t) # <<>>
    BY <1>10, BelowOK DEF Resume, Prompt, Outermost
  <2> QED
    BY <1>10, <2>1, TasksAssumption DEF Resume, Alone, Prompt
<1> QED
  BY <1>2, <1>3, <1>4, <1>5, <1>6, <1>7, <1>8, <1>9, <1>10

(* All other timers go when the client's timer is replaced or cancelled.    *)
LEMMA ArmLeavesNew ==
  ASSUME NEW t \in Tasks, NEW st, NEW fn, NEW s, OneRefresherInvariant, running = t, Arm(t, st, fn, s)
  PROVE  \E new \in Timers \ {t} :
           /\ stack'[new] = <<Frame("sleep", fn, s)>> /\ running' # new
           /\ \A x \in Timers \ {t, new} : stack'[x] = <<>>
<1> DEFINE free == {x \in Timers : x # t /\ Stopped(t)[x] = <<>>}
           new == CHOOSE x \in free : TRUE
           g == <<Frame("sleep", fn, s)>>
<1>1. new \in free
  BY DEF Arm
<1>2. Proceed([Stopped(t) EXCEPT ![new] = g], t, st, Returned(0), doomed \/ timer = t)
  BY DEF Arm
<1>3. g = <<Frame("sleep", fn, s)>>
  OBVIOUS
<1> HIDE DEF new, g
<1>4. stack'[new] = g /\ running' # new /\ \A x \in Timers \ {t, new} : stack'[x] = <<>>
  BY <1>1, <1>2, TasksAssumption DEF Proceed, Stopped, OneRefresherInvariant, Tasks
<1> QED
  BY <1>1, <1>3, <1>4

LEMMA DisarmLeavesNone ==
  ASSUME NEW t \in Tasks, NEW st, OneRefresherInvariant, running = t, Disarm(t, st)
  PROVE  \A x \in Timers \ {t} : stack'[x] = <<>>
BY TasksAssumption DEF Disarm, Proceed, Stopped, OneRefresherInvariant, Tasks

(* A step of one task is one of these, if the storage does not suspend.     *)
LEMMA StepsOf ==
  ASSUME NEW t \in Tasks, Prompt, Ages, ~Suspends, Step(t), Onward
  PROVE  \/ Alone(t) /\ Lands(t)
         \/ /\ Alone(t) /\ At(t, "call_refresh", "saved") /\ GoesTo(t, Below(t))
            /\ Below(t) # <<>> => LastOf(Below(t)).at \in {"got", "refreshed"}
         \/ SaveSession(t)
         \/ RemoveSession(t) /\ Lands(t)
         \/ running = t /\ Lands(t) /\ \E fn : Arm(t, Below(t), fn, 0)
<1>1. CASE \/ GetSession(t) \/ SignIn(t) \/ RefreshSession(t) \/ Change(t)
           \/ SignOut(t) \/ Recover(t) \/ AutoRefreshToken(t) \/ Resume(t)
  BY <1>1, StepsAlone, GetSessionOK, SignInOK, RefreshSessionOK, ChangeOK, SignOutOK, RecoverOK,
     AutoRefreshTokenOK, ResumeOK
<1>2. CASE CallRefreshToken(t)
  BY <1>2, StepsAlone, CallRefreshTokenOK
<1>3. CASE RemoveSession(t)
  BY <1>3, RemoveSessionOK
<1>4. CASE Unwind(t)
  <2>1. running = t /\ result.exc # "none" /\ Lands(t)
    BY <1>4, UnwindOK DEF Unwind
  <2>2. Top(t).at \notin {"store", "stop"}
    BY <2>1, TasksAssumption DEF Prompt, GoesOn
  <2>3. \/ \E fn : Arm(t, Below(t), fn, 0)
        \/ \E st, r : /\ Proceed(stack, t, st, r, doomed) \/ Continue(t, st)
                      /\ UNCHANGED <<slot, timer>> /\ (lapsed => lapsed')
    BY <1>4 DEF Unwind
  <2> QED
    BY <2>1, <2>2, <2>3, ContinueAlone
<1> QED
  BY <1>1, <1>2, <1>3, <1>4 DEF Step

(* The other steps of Next that matter touch no timer either.               *)
LEMMA OthersAlone ==
  ASSUME Prompt, Ages, ~Suspends, Next, ~ \E t \in Tasks : Step(t)
  PROVE  \/ \E t \in Tasks : Alone(t) /\ Lands(t)
         \/ UNCHANGED <<slot, timer, lapsed, loop>>
<1> USE DEF client, server
<1>1. ASSUME NEW t \in Tasks, NEW st, NEW f, running = Nobody, Continue(t, st), st = <<f>>,
             f.at \in {"start", "request"}, UNCHANGED <<slot, timer, lapsed>>
      PROVE  Alone(t) /\ Lands(t)
  <2>1. st # <<>> /\ LastOf(st) = f
    BY <1>1 DEF LastOf
  <2>2. Alone(t)
    BY <1>1, <2>1, WakesAlone
  <2>3. GoesTo(t, st)
    BY <1>1, <2>1, TasksAssumption DEF GoesTo, Continue, Proceed, Top, LastOf, Prompt
  <2> QED
    BY <1>1, <2>1, <2>2, <2>3, GoesToLands
<1>2. ASSUME NEW t \in Timers, TimerFires(t)
      PROVE  t \in Tasks /\ Alone(t) /\ Lands(t)
  BY <1>1, <1>2, FrameFields DEF TimerFires, Tasks
<1>3. ASSUME NEW u \in Users, NEW fn \in Operations, UserCalls(u, fn)
      PROVE  u \in Tasks /\ Alone(u) /\ Lands(u)
  BY <1>1, <1>3, FrameFields DEF UserCalls, Tasks
<1>4. ASSUME NEW t \in Tasks, ServerAnswers(t) \/ RequestFails(t)
      PROVE  Alone(t) /\ Lands(t)
  <2>1. /\ running = Nobody /\ stack[t] # <<>> /\ Top(t).fn = "await"
        /\ UNCHANGED <<slot, timer, lapsed, running, doomed, result>> /\ Onward
    BY <1>4, NextOnward DEF ServerAnswers, RequestFails, Waits
  <2>2. issued \in Nat /\ Returned(0) \in Results /\ Returned(issued + 1) \in Results
    BY ResultTyped DEF Prompt
  <2>3. \A e \in Errors \cup {"AuthApiError"} : Raised(e) \in Results
    BY ResultTyped
  <2>4. issued' \in Nat /\ \E r \in Results : Answer(t, r)
    BY <1>4, <2>2, <2>3 DEF ServerAnswers, RequestFails, Issue
  <2>5. /\ \A u \in Tasks \ {t} : stack'[u] = stack[u]
        /\ stack'[t] # <<>> /\ (Top(t).fn)' = "await"
    BY <2>1, <2>4, AnswerOK
  <2> QED
    BY <2>1, <2>5, TasksAssumption DEF Alone, Lands
<1>5. ASSUME NEW t \in Tasks, StorageAnswers(t)
      PROVE  FALSE
  BY <1>5, NoStorageAnswers
<1> QED
  BY <1>2, <1>3, <1>4, <1>5 DEF Next, Runs, TimePasses, loop

(* After a step of t nobody else runs, t does not sleep, and t is not about *)
(* to store a session unless the step says so.                              *)
LEMMA AfterStep ==
  ASSUME NEW t \in Tasks, Prompt',
         Lands(t) \/ \E st : GoesTo(t, st) /\ (st # <<>> => LastOf(st).at # "store")
  PROVE  /\ (RunsAt({"store"}))' = FALSE
         /\ stack'[t] # <<>> => (Top(t).fn)' # "sleep"
<1>1. running' = t => (Top(t).fn)' # "sleep"
  BY TasksAssumption DEF Prompt, GoesOn
<1>2. running' \in {Nobody, t} /\ (running' = Nobody /\ stack'[t] # <<>> => (Top(t).fn)' # "sleep")
  BY DEF Lands, GoesTo
<1>3. running' = t /\ result'.exc = "none" => (Top(t).at)' # "store"
  BY DEF Lands, GoesTo
<1> QED
  BY <1>1, <1>2, <1>3 DEF RunsAt, Top

LEMMA AloneSleeps ==
  ASSUME NEW t \in Tasks, Prompt', SleepsForStored, Alone(t),
         Lands(t) \/ \E st : GoesTo(t, st) /\ (st # <<>> => LastOf(st).at # "store")
  PROVE  SleepsForStored'
<1>1. (RunsAt({"store"}))' = FALSE /\ (stack'[t] # <<>> => (Top(t).fn)' # "sleep")
  BY AfterStep
<1>2. RunsAt({"store"}) = FALSE /\ RunsAt({"stop"}) = FALSE
  BY DEF Alone, RunsAt
<1>3. \A x \in Timers : (Sleeping(x))' => x # t /\ stack'[x] = stack[x]
  BY <1>1 DEF Alone, Sleeping, Tasks
<1> QED
  BY <1>1, <1>2, <1>3 DEF SleepsForStored, Sleeping, Top, Alone

(* The session the timer is to refresh is the one that is stored, if the    *)
(* storage does not suspend, whatever tasks call the client.                *)
THEOREM TimerIsForStoredAlways == Spec => []TimerIsForStored
<1> USE DEF client, server
<1>1. Init => SleepsForStoredInvariant
  BY DEF Init, SleepsForStoredInvariant, SleepsForStored, Sleeping, Tasks
<1>2. PromptInvariant /\ PromptInvariant' /\ Ages /\ OneRefresherInvariant /\ SleepsForStoredInvariant /\ [Next]_vars
        => SleepsForStoredInvariant'
  <2> SUFFICES ASSUME Prompt, Prompt', Ages, ~Suspends, OneRefresherInvariant, SleepsForStored, [Next]_vars
               PROVE  SleepsForStored'
    BY DEF PromptInvariant, SleepsForStoredInvariant, Suspends, Next, vars
  <2>1. Onward
    BY NextOnward
  <2>2. ASSUME NEW t \in Tasks, running = t, NEW st, NEW fn, NEW s, Arm(t, st, fn, s),
               stack'[t] # <<>> => (Top(t).fn)' # "sleep",
               s # 0 => IF (RunsAt({"store"}))' THEN s = (Top(running).s)' ELSE s = slot'
        PROVE  SleepsForStored'
    <3>1. PICK new \in Timers \ {t} : /\ stack'[new] = <<Frame("sleep", fn, s)>> /\ running' # new
                                       /\ \A x \in Timers \ {t, new} : stack'[x] = <<>>
      BY <2>2, ArmLeavesNew
    <3>2. (Top(new).s)' = s
      BY <3>1 DEF Top, Frame
    <3> QED
      BY <2>2, <3>1, <3>2 DEF SleepsForStored, Sleeping
  <2>3. ASSUME NEW t \in Tasks, running = t, NEW st, Disarm(t, st),
               stack'[t] # <<>> => (Top(t).fn)' # "sleep"
        PROVE  SleepsForStored'
    BY <2>3, DisarmLeavesNone DEF SleepsForStored, Sleeping
  <2>4. ASSUME NEW t \in Tasks, SaveSession(t)
        PROVE  SleepsForStored'
    <3> DEFINE s == Top(t).s
               st == IF PersistSession THEN GoOn(t, "store", s) ELSE Below(t)
    <3>1. CASE At(t, "save", "start")
      <4>1. /\ GoesTo(t, st) /\ slot' = (IF PersistSession THEN slot ELSE s)
            /\ Arm(t, st, "auto_refresh", s) \/ Disarm(t, st)
        BY <2>1, <2>4, <3>1, SaveSessionOK DEF SaveSession, At
      <4>2. PersistSession => st # <<>> /\ LastOf(st) = Frame("save", "store", s)
        BY <3>1, Here, GoOnOK, PlacesOf
      <4>3. ~PersistSession => (st # <<>> => LastOf(st).at # "store" /\ LastOf(st).fn # "sleep")
        BY <3>1, Here, BelowOK DEF Over
      <4> HIDE DEF st
      <4>4. running = t
        BY <3>1 DEF At
      <4>5. stack'[t] # <<>> => (Top(t).fn)' # "sleep"
        BY <4>1, <4>2, <4>3, FrameFields, TasksAssumption DEF GoesTo
      <4>6. IF (RunsAt({"store"}))' THEN s = (Top(running).s)' ELSE s = slot'
        <5>1. CASE PersistSession
          <6>1. running' = t /\ (Top(t))' = Frame("save", "store", s)
            BY <4>1, <4>2, <5>1 DEF GoesTo
          <6>2. result'.exc = "none"
            BY <4>1, <6>1, TasksAssumption, ResultTyped DEF Arm, Disarm, Proceed, Returned
          <6> QED
            BY <6>1, <6>2, FrameFields, TasksAssumption DEF RunsAt, Top
        <5>2. CASE ~PersistSession
          BY <4>1, <4>3, <5>2 DEF RunsAt, GoesTo, Top
        <5> QED
          BY <5>1, <5>2
      <4> QED
        BY <2>2, <2>3, <4>1, <4>4, <4>5, <4>6
    <3>2. CASE At(t, "save", "store")
      <4>1. GoesTo(t, Below(t)) /\ Storage(t, Below(t), "set", s) /\ running = t /\ result.exc = "none"
        BY <2>1, <2>4, <3>2, SaveSessionOK DEF SaveSession, At
      <4>2. slot' = s /\ \A u \in Tasks \ {t} : stack'[u] = stack[u]
        BY <4>1 DEF Storage, Stored, Proceed, Prompt
      <4>3. Below(t) # <<>> => LastOf(Below(t)).at # "store"
        BY <3>2, Here, BelowOK DEF Over
      <4>4. (RunsAt({"store"}))' = FALSE /\ (stack'[t] # <<>> => (Top(t).fn)' # "sleep")
        BY <4>1, <4>3, AfterStep
      <4>5. RunsAt({"store"}) = TRUE /\ Top(running).s = s
        BY <3>2, <4>1, TasksAssumption DEF RunsAt, At
      <4>6. \A x \in Timers : (Sleeping(x))' => x # t /\ stack'[x] = stack[x]
        BY <4>2, <4>4 DEF Sleeping, Tasks
      <4> QED
        BY <4>2, <4>4, <4>5, <4>6 DEF SleepsForStored, Sleeping, Top
    <3> QED
      BY <2>4, <3>1, <3>2 DEF SaveSession
  <2>5. ASSUME NEW t \in Tasks, RemoveSession(t), Lands(t)
        PROVE  SleepsForStored'
    <3>1. (RunsAt({"store"}))' = FALSE /\ (stack'[t] # <<>> => (Top(t).fn)' # "sleep")
      BY <2>5, AfterStep
    <3>2. CASE At(t, "remove", "start")
      <4>1. PICK r \in {Returned(slot), Returned(0)} : Proceed(stack, t, GoOn(t, "stop", 0), r, doomed)
        BY <2>5, <3>2 DEF RemoveSession, At, Storage, Continue
      <4>2. GoOn(t, "stop", 0) # <<>> /\ LastOf(GoOn(t, "stop", 0)) = Frame("remove", "stop", 0)
        BY <3>2, Here, GoOnOK, PlacesOf
      <4>3. r.exc = "none"
        BY <4>1 DEF Returned
      <4>4. running' = t /\ result' = r /\ stack'[t] = GoOn(t, "stop", 0)
        BY <4>1, <4>2 DEF Proceed, Prompt
      <4>5. (RunsAt({"stop"}))' = TRUE
        BY <4>2, <4>3, <4>4, FrameFields, TasksAssumption DEF RunsAt, Top, LastOf
      <4> QED
        BY <3>1, <4>5 DEF SleepsForStored
    <3>3. CASE At(t, "remove", "stop")
      BY <2>3, <2>5, <3>1, <3>3 DEF RemoveSession, At
    <3> QED
      BY <2>5, <3>2, <3>3 DEF RemoveSession
  <2>6. ASSUME NEW t \in Tasks, running = t, Lands(t), NEW fn, Arm(t, Below(t), fn, 0)
        PROVE  SleepsForStored'
    <3>1. stack'[t] # <<>> => (Top(t).fn)' # "sleep"
      BY <2>6, AfterStep
    <3> QED
      BY <2>2, <2>6, <3>1
  <2>7. ASSUME NEW t \in Tasks, Step(t)
        PROVE  SleepsForStored'
    <3>1. CASE /\ Alone(t) /\ GoesTo(t, Below(t))
               /\ Below(t) # <<>> => LastOf(Below(t)).at \in {"got", "refreshed"}
      <4>1. Below(t) # <<>> => LastOf(Below(t)).at # "store"
        BY <3>1
      <4> QED
        BY <3>1, <4>1, AloneSleeps
    <3> QED
      BY <2>1, <2>4, <2>5, <2>6, <2>7, <3>1, StepsOf, AloneSleeps
  <2>8. CASE UNCHANGED <<slot, timer, lapsed, loop>>
    BY <2>8 DEF loop, SleepsForStored, Sleeping, RunsAt, Top
  <2> QED
    BY <2>7, <2>8, OthersAlone, AloneSleeps DEF vars
<1>3. PromptInvariant /\ SleepsForStoredInvariant => TimerIsForStored
  BY DEF SleepsForStoredInvariant, SleepsForStored, RunsAt, TimerIsForStored
<1>4. Spec => []OneRefresherInvariant
  BY OneRefresherInvariantAlways
<1> QED
  BY <1>1, <1>2, <1>3, <1>4, PromptAlways, AgesAlways, PTL DEF Spec

-----------------------------------------------------------------------------
(* What is stored is looked after                                           *)

LEMMA AloneLooksAfter ==
  ASSUME NEW t \in Tasks, OneRefresherInvariant, Prompt, LookedAfter, Alone(t),
         \/ Lands(t)
         \/ /\ At(t, "call_refresh", "saved") /\ GoesTo(t, Below(t))
  PROVE  LookedAfter'
<1>1. ASSUME Covered(t) PROVE (Covered(t))'
  BY <1>1, TasksAssumption DEF Covered, Alive, Alone, Tasks
<1>2. running' \in {Nobody, t} /\ (running' # Nobody => running' = t)
  BY DEF Alone
<1>3. At(t, "call_refresh", "saved") => Covered(t)
  BY TasksAssumption DEF At, RunsAt, LookedAfter
<1>4. (RunsAt({"store", "saved", "refreshed"}))' => (Covered(running))'
  BY <1>1, <1>2, <1>3 DEF Lands, RunsAt, Covered, Top
<1>5. ASSUME slot' # 0, ~lapsed'
      PROVE  \E x \in Timers : (Alive(x))'
  <2>1. PICK x \in Timers : Alive(x)
    BY <1>5 DEF LookedAfter, Alone
  <2>2. CASE x # t
    BY <2>1, <2>2, TasksAssumption DEF Alive, Alone, Tasks
  <2>3. CASE x = t /\ stack'[t] # <<>>
    <3>1. running = t => ~doomed
      BY <2>1, <2>3 DEF Alive
    <3>2. running = Nobody => doomed = FALSE
      BY DEF Prompt
    <3> QED
      BY <2>3, <3>1, <3>2 DEF Alive, Alone
  <2>4. CASE x = t /\ stack'[t] = <<>>
    <3>1. ASSUME At(t, "call_refresh", "saved") \/ (running = t /\ result.exc = "none" /\ Top(t).at \in {"saved", "refreshed"})
          PROVE  Covered(t)
      BY <1>3, <3>1, TasksAssumption DEF RunsAt, LookedAfter
    <3>2. ASSUME Covered(t)
          PROVE  \E y \in Timers : (Alive(y))'
      BY <1>1, <1>5, <3>2 DEF Covered
    <3>3. CASE Lands(t)
      <4>1. Excused(t)
        BY <2>4, <3>3 DEF Lands
      <4>2. timer = t /\ timer' = t
        BY <2>1, <2>4 DEF OneRefresherInvariant, Alive, Alone
      <4>4. doomed = FALSE \/ running # t
        BY <2>1, <2>4 DEF Alive
      <4>5. running = t
        BY <2>4 DEF Alone
      <4> QED
        BY <1>5, <2>4, <3>1, <3>2, <4>1, <4>2, <4>4, <4>5 DEF Excused
    <3> QED
      BY <3>1, <3>2, <3>3
  <2> QED
    BY <2>1, <2>2, <2>3, <2>4
<1> QED
  BY <1>4, <1>5 DEF LookedAfter

(* A session that is stored is being refreshed in time, unless the client   *)
(* gave up, if the storage does not suspend.                                *)
THEOREM KeptFreshAlways == Spec => []KeptFresh
<1> USE DEF client, server
<1>1. Init => LookedAfterInvariant
  BY DEF Init, LookedAfterInvariant, LookedAfter, RunsAt
<1>2. PromptInvariant /\ PromptInvariant' /\ Ages /\ OneRefresherInvariant /\ LookedAfterInvariant /\ [Next]_vars
        => LookedAfterInvariant'
  <2> SUFFICES ASSUME Prompt, Prompt', Ages, ~Suspends, OneRefresherInvariant, LookedAfter, [Next]_vars
               PROVE  LookedAfter'
    BY DEF PromptInvariant, LookedAfterInvariant, Suspends, Next, vars
  <2>1. Onward
    BY NextOnward
  <2>2. ASSUME NEW t \in Tasks, running = t, running' \in {Nobody, t}, NEW st, NEW fn, NEW s, Arm(t, st, fn, s)
        PROVE  LookedAfter'
    <3>1. PICK new \in Timers \ {t} : stack'[new] = <<Frame("sleep", fn, s)>> /\ running' # new
      BY <2>2, ArmLeavesNew
    <3>2. (Alive(new))'
      BY <3>1 DEF Alive
    <3>3. running' # Nobody => (Covered(running))'
      BY <2>2, <3>1, <3>2 DEF Covered
    <3> QED
      BY <3>2, <3>3 DEF LookedAfter, RunsAt
  <2>3. ASSUME NEW t \in Tasks, SaveSession(t)
        PROVE  LookedAfter'
    <3>1. CASE At(t, "save", "start")
      <4>1. running = t /\ running' \in {Nobody, t}
        BY <2>1, <2>3, <3>1, SaveSessionOK DEF At, GoesTo
      <4>2. (\E st : Arm(t, st, "auto_refresh", Top(t).s)) \/ lapsed'
        BY <2>3, <3>1 DEF SaveSession, At
      <4> QED
        BY <2>2, <4>1, <4>2 DEF LookedAfter, Covered
    <3>2. CASE At(t, "save", "store")
      <4>1. GoesTo(t, Below(t)) /\ Storage(t, Below(t), "set", Top(t).s) /\ UNCHANGED <<timer, lapsed>>
        BY <2>1, <2>3, <3>2, SaveSessionOK DEF SaveSession, At
      <4>2. \A u \in Tasks \ {t} : stack'[u] = stack[u]
        BY <4>1 DEF Storage, Proceed, Prompt
      <4>3. running = t /\ Covered(t)
        BY <3>2, TasksAssumption DEF At, RunsAt, LookedAfter
      <4>4. (Covered(t))' /\ (running' # Nobody => running' = t)
        BY <4>1, <4>2, <4>3, TasksAssumption DEF Covered, Alive, GoesTo, Tasks
      <4> QED
        BY <4>4 DEF LookedAfter, Covered, RunsAt
    <3> QED
      BY <2>3, <3>1, <3>2 DEF SaveSession
  <2>4. ASSUME NEW t \in Tasks, RemoveSession(t), Lands(t)
        PROVE  LookedAfter'
    <3>1. slot' = 0
      BY <2>4, Here DEF RemoveSession, Storage, Stored
    <3>2. (RunsAt({"store", "saved", "refreshed"}))' = FALSE
      BY <2>4 DEF Lands, RunsAt, Top
    <3> QED
      BY <3>1, <3>2 DEF LookedAfter
  <2>5. ASSUME NEW t \in Tasks, running = t, Lands(t), NEW fn, Arm(t, Below(t), fn, 0)
        PROVE  LookedAfter'
    BY <2>2, <2>5 DEF Lands
  <2>6. ASSUME NEW t \in Tasks, Step(t)
        PROVE  LookedAfter'
    BY <2>1, <2>3, <2>4, <2>5, <2>6, StepsOf, AloneLooksAfter
  <2>7. CASE UNCHANGED <<slot, timer, lapsed, loop>>
    BY <2>7 DEF loop, LookedAfter, Covered, Alive, RunsAt, Top
  <2> QED
    BY <2>6, <2>7, OthersAlone, AloneLooksAfter DEF vars
<1>3. PromptInvariant /\ LookedAfterInvariant => KeptFresh
  BY DEF LookedAfterInvariant, LookedAfter, KeptFresh
<1>4. Spec => []OneRefresherInvariant
  BY OneRefresherInvariantAlways
<1> QED
  BY <1>1, <1>2, <1>3, <1>4, PromptAlways, AgesAlways, PTL DEF Spec

=============================================================================
