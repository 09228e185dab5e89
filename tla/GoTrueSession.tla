----------------------------- MODULE GoTrueSession -----------------------------
(****************************************************************************)
(* The session of the auth client (supabase_auth/_async/gotrue_client.py)   *)
(* and its refresh timer (timer.py): where the session is kept, which       *)
(* refresh token it holds, and who may be replacing it at once.             *)
(*                                                                          *)
(* A session is the number of its refresh token, 0 for None.  Every asyncio *)
(* task has a stack of the calls it is inside of, innermost last.  The      *)
(* event loop resumes one task at a time; it is `running` and moves by      *)
(* steps of its own until it awaits the server, or a storage that suspends. *)
(* Nothing catches CancelledError: cancelling a task that waits ends it,    *)
(* and a timer's task that cancels its own timer ends when it next waits.   *)
(****************************************************************************)
EXTENDS Naturals, Sequences

CONSTANTS
  Users,           \* application tasks that call the client
  Operations,      \* what they call
  Timers,          \* the tasks the Timer objects run
  MaxTokens,       \* bound on the sessions the server issues
  MaxRetries,      \* MAX_RETRIES
  AutoRefresh,     \* the client's auto_refresh_token
  Storages,        \* what the application may give as storage
  Errors,          \* how a request may fail
  Nobody           \* no task is running; no timer

ASSUME BoundsAssumption == MaxTokens \in Nat \ {0} /\ MaxRetries \in Nat
ASSUME OptionsAssumption ==
  AutoRefresh \in BOOLEAN /\ Storages \subseteq {"none", "prompt", "suspending"}
ASSUME OperationsAssumption ==
  Operations \subseteq {"get_session", "refresh_session", "sign_in", "exchange",
                        "update_user", "verify", "sign_out", "recover"}
ASSUME ErrorsAssumption ==
  Errors \subseteq {"AuthApiError", "AuthRetryableError", "ConnectError"}

Tasks == Users \union Timers

(* Each call and each Timer runs in an asyncio task of its own.             *)
ASSUME TasksAssumption == Users \cap Timers = {} /\ Nobody \notin Tasks

Sessions == 1..MaxTokens

VARIABLES
  storage,   \* "none": persist_session is off; else whether its methods suspend
  kept,      \* with "none": the session an earlier run left in the storage
  slot,      \* the session in storage, or _in_memory_session
  timer,     \* _refresh_token_timer; a finished one is as good as None
  retries,   \* _network_retries, as far as it is compared with MAX_RETRIES
  stack, running,
  doomed,    \* the running task has cancelled itself
  result,    \* what the call that just ended returned or raised
  accepted,  \* refresh tokens the server accepts
  issued,    \* sessions it has issued
  age,       \* of each: 0, 1 within EXPIRY_MARGIN of its end, 2 expired
  told,      \* the session last given to the subscribers, 0 after a sign-out
  lapsed     \* the client knowingly left the session with no timer

client == <<slot, timer, retries>>
loop == <<stack, running, doomed, result>>
server == <<accepted, issued, age>>
vars == <<storage, kept, client, loop, server, told, lapsed>>

PersistSession == storage # "none"
Suspends == storage = "suspending"

Returned(s) == [exc |-> "none", s |-> s]
Raised(e) == [exc |-> e, s |-> 0]
Pending == Raised("pending")
Frame(fn, at, s) == [fn |-> fn, at |-> at, s |-> s]

(* A new client; its storage may hold the session of an earlier run.        *)
Init ==
  /\ storage \in Storages
  /\ timer = Nobody /\ retries = 0
  /\ stack = [t \in Tasks |-> <<>>]
  /\ running = Nobody /\ doomed = FALSE /\ result = Returned(0)
  /\ slot \in IF PersistSession THEN {0, 1} ELSE {0}
  /\ kept \in IF PersistSession THEN {0} ELSE {0, 1}
  /\ issued = slot + kept /\ accepted = 1..issued
  /\ age \in [Sessions -> 0..2] /\ \A s \in 2..MaxTokens : age[s] = 0
  /\ issued = 0 => age[1] = 0
  /\ told = 0
  /\ lapsed = TRUE

-----------------------------------------------------------------------------
(* What the running task t does next                                        *)

Top(t) == stack[t][Len(stack[t])]
Below(t) == SubSeq(stack[t], 1, Len(stack[t]) - 1)

At(t, fn, at) ==
  running = t /\ result.exc = "none" /\ Top(t).fn = fn /\ Top(t).at = at

(* The top call goes on at `at`, now about session s.                       *)
GoOn(t, at, s) == Append(Below(t), Frame(Top(t).fn, at, s))

(* It calls fn, to go on at `at` when fn returns.                           *)
CallThen(t, at, s, fn, arg) == Append(GoOn(t, at, s), Frame(fn, "start", arg))

(* It ends with what fn returns.                                            *)
CallLast(t, fn, arg) == Append(Below(t), Frame(fn, "start", arg))

(* t goes on with the stack st and the others as in `others`.               *)
Proceed(others, t, st, r, cancelled) ==
  /\ stack' = [others EXCEPT ![t] = st]
  /\ running' = IF st = <<>> THEN Nobody ELSE t
  /\ doomed' = (cancelled /\ st # <<>>)
  /\ result' = IF st = <<>> THEN Returned(0) ELSE r

Continue(t, st) == Proceed(stack, t, st, Returned(0), doomed)
Return(t, s) == Proceed(stack, t, Below(t), Returned(s), doomed)

(* It waits for the server or the storage, unless that is its end.          *)
Await(t, st, what, s) ==
  /\ stack' = [stack EXCEPT ![t] =
       IF doomed THEN <<>>
       ELSE Append(st, [fn |-> "await", at |-> what, s |-> s, answer |-> Pending])]
  /\ running' = Nobody /\ doomed' = FALSE /\ result' = Returned(0)

(* get_item, set_item, remove_item                                          *)
Stored(what, s) ==
  CASE what = "get" -> slot [] what = "set" -> s [] what = "remove" -> 0

Storage(t, st, what, s) ==
  IF Suspends
    THEN /\ Await(t, st, what, s)
         /\ slot' \in IF doomed THEN {slot, Stored(what, s)} ELSE {slot}
    ELSE /\ Proceed(stack, t, st, Returned(slot), doomed)
         /\ slot' = Stored(what, s)


(* _notify_all_subscribers, with None when the user has signed out          *)
TellAll(s) == told' = s

(* Mutant: a timer that is replaced is not cancelled.                       *)
StoppedLeft(t) == stack

(* _refresh_token_timer.cancel(), as far as other tasks than t go           *)
Stopped(t) == [x \in Tasks |-> IF x = timer /\ x # t THEN <<>> ELSE stack[x]]

(* Mutant: the new timer is not started.                                    *)
ArmNotStarted(t, st, fn, s) ==
  LET others == Stopped(t)
      free == {x \in Timers : x # t /\ others[x] = <<>>} IN
  /\ free # {}
  /\ timer' = CHOOSE x \in free : TRUE
  /\ Proceed(others, t, st, Returned(0), doomed \/ timer = t)
  /\ lapsed' = FALSE

(* t goes on with st and a new timer: it is to run fn, for session s.       *)
Arm(t, st, fn, s) ==
  LET others == Stopped(t)
      free == {x \in Timers : x # t /\ others[x] = <<>>} IN
  /\ free # {}
  /\ LET new == CHOOSE x \in free : TRUE IN
     /\ timer' = new
     /\ Proceed([others EXCEPT ![new] = <<Frame("sleep", fn, s)>>], t, st,
                Returned(0), doomed \/ timer = t)
  /\ lapsed' = FALSE

(* t goes on with st and no timer.                                          *)
Disarm(t, st) ==
  /\ timer' = Nobody
  /\ Proceed(Stopped(t), t, st, Returned(0), doomed \/ timer = t)

InMargin(s) == age[s] >= 1
Expired(s) == age[s] = 2
CountRetry == retries' = IF retries < MaxRetries THEN retries + 1 ELSE retries
Retryable(e) == e = "AuthRetryableError" /\ retries < MaxRetries

-----------------------------------------------------------------------------
(* The session                                                              *)

(* get_session: what is stored, refreshed if it is about to end.            *)
GetSession(t) ==
  \/ /\ At(t, "get_session", "start")
     /\ IF PersistSession
          THEN Storage(t, GoOn(t, "read", 0), "get", 0)
          ELSE /\ Proceed(stack, t, GoOn(t, "read", 0), Returned(slot), doomed)
               /\ UNCHANGED slot
     /\ UNCHANGED <<timer, retries, server, told, lapsed>>
  \/ /\ At(t, "get_session", "read")
     /\ LET s == result.s IN
        CASE s = 0 /\ PersistSession -> Continue(t, CallLast(t, "remove", 0))
          [] s # 0 /\ InMargin(s) -> Continue(t, CallLast(t, "call_refresh", s))
          [] OTHER -> Return(t, s)
     /\ UNCHANGED <<client, server, told, lapsed>>

(* Mutant: the subscribers are told before the session is saved.            *)
CallRefreshTokenToldFirst(t) ==
  \/ /\ At(t, "call_refresh", "start")
     /\ Await(t, GoOn(t, "answered", 0), "refresh", Top(t).s)
     /\ UNCHANGED <<client, server, told, lapsed>>
  \/ /\ At(t, "call_refresh", "answered")
     /\ Continue(t, CallThen(t, "saved", result.s, "save", result.s))
     /\ TellAll(result.s)
     /\ UNCHANGED <<client, server, lapsed>>
  \/ /\ At(t, "call_refresh", "saved")
     /\ Return(t, Top(t).s)
     /\ UNCHANGED <<client, server, told, lapsed>>

(* _call_refresh_token                                                      *)
CallRefreshToken(t) ==
  \/ /\ At(t, "call_refresh", "start")
     /\ Await(t, GoOn(t, "answered", 0), "refresh", Top(t).s)
     /\ UNCHANGED <<client, server, told, lapsed>>
  \/ /\ At(t, "call_refresh", "answered")
     /\ Continue(t, CallThen(t, "saved", result.s, "save", result.s))
     /\ UNCHANGED <<client, server, told, lapsed>>
  \/ /\ At(t, "call_refresh", "saved")
     /\ TellAll(Top(t).s)
     /\ Return(t, Top(t).s)
     /\ UNCHANGED <<client, server, lapsed>>

(* _save_session, its _start_auto_refresh_token included: the timer first,  *)
(* then the storage.                                                        *)
SaveSession(t) ==
  \/ /\ At(t, "save", "start")
     /\ LET s == Top(t).s
            st == IF PersistSession THEN GoOn(t, "store", s) ELSE Below(t) IN
        /\ slot' = IF PersistSession THEN slot ELSE s
        /\ IF AutoRefresh /\ ~Expired(s)
             THEN Arm(t, st, "auto_refresh", s)
             ELSE Disarm(t, st) /\ lapsed' = TRUE
     /\ UNCHANGED <<retries, server, told>>
  \/ /\ At(t, "save", "store")
     /\ Storage(t, Below(t), "set", Top(t).s)
     /\ UNCHANGED <<timer, retries, server, told, lapsed>>

(* Mutant: the timer outlives the session.                                  *)
RemoveSessionOnly(t) ==
  \/ /\ At(t, "remove", "start")
     /\ IF PersistSession
          THEN Storage(t, GoOn(t, "stop", 0), "remove", 0)
          ELSE Continue(t, GoOn(t, "stop", 0)) /\ slot' = 0
     /\ UNCHANGED <<timer, retries, server, told, lapsed>>
  \/ /\ At(t, "remove", "stop")
     /\ Return(t, 0)
     /\ UNCHANGED <<client, server, told, lapsed>>

(* _remove_session                                                          *)
RemoveSession(t) ==
  \/ /\ At(t, "remove", "start")
     /\ IF PersistSession
          THEN Storage(t, GoOn(t, "stop", 0), "remove", 0)
          ELSE Continue(t, GoOn(t, "stop", 0)) /\ slot' = 0
     /\ UNCHANGED <<timer, retries, server, told, lapsed>>
  \/ /\ At(t, "remove", "stop")
     /\ Disarm(t, Below(t))
     /\ UNCHANGED <<slot, retries, server, told, lapsed>>

-----------------------------------------------------------------------------
(* The application's calls.  Those that need no more of the session than    *)
(* get_session returns (get_user, reauthenticate, enroll, ...) are as good  *)
(* as get_session.                                                          *)

SignIns == {"sign_in", "exchange"}
Changes == {"update_user", "verify"}

UserCalls(u, fn) ==
  /\ running = Nobody /\ stack[u] = <<>>
  /\ Continue(u, <<Frame(fn, IF fn = "exchange" THEN "request" ELSE "start", 0)>>)
  /\ UNCHANGED <<client, server, told, lapsed>>

(* sign_up, sign_in_*, verify_otp: the old session goes first.  The same    *)
(* from the request on, exchange_code_for_session ("exchange"), and so is   *)
(* set_session but for the name of its event.                               *)
SignIn(t) ==
  \/ /\ At(t, "sign_in", "start")
     /\ Continue(t, CallThen(t, "request", 0, "remove", 0))
     /\ UNCHANGED <<client, server, told, lapsed>>
  \/ \E fn \in SignIns :
     \/ /\ At(t, fn, "request")
        /\ Await(t, GoOn(t, "answered", 0), fn, 0)
        /\ UNCHANGED <<client, server, told, lapsed>>
     \/ /\ At(t, fn, "answered")
        /\ Continue(t, CallThen(t, "saved", result.s, "save", result.s))
        /\ UNCHANGED <<client, server, told, lapsed>>
     \/ /\ At(t, fn, "saved")
        /\ TellAll(Top(t).s)
        /\ Return(t, Top(t).s)
        /\ UNCHANGED <<client, server, lapsed>>

(* refresh_session of the stored session                                    *)
RefreshSession(t) ==
  \/ /\ At(t, "refresh_session", "start")
     /\ Continue(t, CallThen(t, "got", 0, "get_session", 0))
     /\ UNCHANGED <<client, server, told, lapsed>>
  \/ /\ At(t, "refresh_session", "got")
     /\ IF result.s = 0 THEN Return(t, 0)
                        ELSE Continue(t, CallLast(t, "call_refresh", result.s))
     /\ UNCHANGED <<client, server, told, lapsed>>

(* update_user saves the session it began with, _verify the one the server  *)
(* answered with.                                                           *)
Change(t) ==
  \E fn \in Changes :
    \/ /\ At(t, fn, "start")
       /\ Continue(t, CallThen(t, "got", 0, "get_session", 0))
       /\ UNCHANGED <<client, server, told, lapsed>>
    \/ /\ At(t, fn, "got")
       /\ IF result.s = 0 THEN Return(t, 0)
                          ELSE Await(t, GoOn(t, "answered", result.s), fn, result.s)
       /\ UNCHANGED <<client, server, told, lapsed>>
    \/ /\ At(t, fn, "answered")
       /\ LET s == IF fn = "verify" THEN result.s ELSE Top(t).s IN
          Continue(t, CallThen(t, "saved", s, "save", s))
       /\ UNCHANGED <<client, server, told, lapsed>>
    \/ /\ At(t, fn, "saved")
       /\ TellAll(Top(t).s)
       /\ Return(t, Top(t).s)
       /\ UNCHANGED <<client, server, lapsed>>

(* sign_out, its scope not "others" (which only asks the server).           *)
SignOut(t) ==
  \/ /\ At(t, "sign_out", "start")
     /\ Continue(t, CallThen(t, "got", 0, "get_session", 0))
     /\ UNCHANGED <<client, server, told, lapsed>>
  \/ /\ At(t, "sign_out", "got")
     /\ IF result.s = 0
          THEN Continue(t, CallThen(t, "removed", 0, "remove", 0))
          ELSE Await(t, GoOn(t, "answered", 0), "sign_out", result.s)
     /\ UNCHANGED <<client, server, told, lapsed>>
  \/ /\ At(t, "sign_out", "answered")
     /\ Continue(t, CallThen(t, "removed", 0, "remove", 0))
     /\ UNCHANGED <<client, server, told, lapsed>>
  \/ /\ At(t, "sign_out", "removed")
     /\ TellAll(0)
     /\ Return(t, 0)
     /\ UNCHANGED <<client, server, lapsed>>

(* initialize: _recover_and_refresh; also what the timer of a recovery that *)
(* is to be tried again runs.  A session it has refreshed is removed.  It   *)
(* reads the storage without persist_session too, and then only tells of    *)
(* what it finds (nothing writes there, so it matters not if that waits).   *)
(* What is stored but is no session makes it remove one.                    *)
Recover(t) ==
  \/ /\ At(t, "recover", "start")
     /\ IF PersistSession THEN Storage(t, GoOn(t, "read", 0), "get", 0)
        ELSE Proceed(stack, t, GoOn(t, "read", 0), Returned(kept), doomed) /\ UNCHANGED slot
     /\ UNCHANGED <<timer, retries, server, told, lapsed>>
  \/ /\ At(t, "recover", "read")
     /\ LET s == result.s IN
        CASE s = 0 -> /\ Return(t, 0) \/ Continue(t, CallLast(t, "remove", 0))
                      /\ UNCHANGED <<retries, told>>
          [] s # 0 /\ ~InMargin(s) /\ PersistSession ->
               Continue(t, CallThen(t, "saved", s, "save", s)) /\ UNCHANGED <<retries, told>>
          [] s # 0 /\ ~InMargin(s) /\ ~PersistSession ->
               TellAll(s) /\ Return(t, 0) /\ UNCHANGED retries
          [] s # 0 /\ InMargin(s) /\ AutoRefresh ->
               Continue(t, CallThen(t, "refreshed", 0, "call_refresh", s)) /\ CountRetry /\ UNCHANGED told
          [] OTHER -> Continue(t, CallLast(t, "remove", 0)) /\ UNCHANGED <<retries, told>>
     /\ UNCHANGED <<slot, timer, server, lapsed>>
  \/ /\ At(t, "recover", "saved")
     /\ TellAll(Top(t).s)
     /\ Return(t, 0)
     /\ UNCHANGED <<client, server, lapsed>>
  \/ /\ At(t, "recover", "refreshed")
     /\ retries' = 0
     /\ Continue(t, CallLast(t, "remove", 0))
     /\ UNCHANGED <<slot, timer, server, told, lapsed>>

(* refresh_token_function                                                   *)
AutoRefreshToken(t) ==
  \/ /\ At(t, "auto_refresh", "start")
     /\ CountRetry
     /\ Continue(t, CallThen(t, "got", 0, "get_session", 0))
     /\ UNCHANGED <<slot, timer, server, told, lapsed>>
  \/ /\ At(t, "auto_refresh", "got")
     /\ IF result.s = 0
          THEN Return(t, 0)
          ELSE Continue(t, CallThen(t, "refreshed", 0, "call_refresh", result.s))
     /\ UNCHANGED <<client, server, told, lapsed>>
  \/ /\ At(t, "auto_refresh", "refreshed")
     /\ retries' = 0
     /\ Return(t, 0)
     /\ UNCHANGED <<slot, timer, server, told, lapsed>>

(* An exception ends the innermost call, unless the call that awaits it     *)
(* catches it: sign_out goes on to remove the session, a recovery and the   *)
(* timer's function try again later or, the former, remove the session.     *)
Unwind(t) ==
  /\ running = t /\ result.exc # "none"
  /\ LET top == Top(t)  e == result.exc IN
     CASE top.fn = "sign_out" /\ e = "AuthApiError" /\ top.at # "removed" ->
            /\ Continue(t, CallThen(t, "removed", 0, "remove", 0))
            /\ UNCHANGED <<timer, lapsed>>
       [] top.fn = "recover" /\ top.at = "refreshed" ->
            IF Retryable(e) THEN Arm(t, Below(t), "recover", 0)
            ELSE Continue(t, CallLast(t, "remove", 0)) /\ UNCHANGED <<timer, lapsed>>
       [] top.fn = "auto_refresh" ->
            IF Retryable(e) THEN Arm(t, Below(t), "auto_refresh", 0)
            ELSE Continue(t, Below(t)) /\ lapsed' = TRUE /\ UNCHANGED timer
       [] OTHER ->
            /\ Proceed(stack, t, Below(t), result, doomed)
            /\ UNCHANGED <<timer, lapsed>>
  /\ UNCHANGED <<slot, retries, server, told>>

-----------------------------------------------------------------------------
(* The event loop, the storage, the server and the clock                    *)

Waits(t, what) ==
  /\ running = Nobody /\ stack[t] # <<>>
  /\ Top(t).fn = "await" /\ Top(t).at = what /\ Top(t).answer = Pending

Answer(t, r) == stack' = [stack EXCEPT ![t][Len(stack[t])].answer = r]

(* A storage that suspends has done what it was asked.                      *)
StorageAnswers(t) ==
  /\ \E what \in {"get", "set", "remove"} :
       /\ Waits(t, what)
       /\ slot' = Stored(what, Top(t).s)
  /\ Answer(t, Returned(slot))
  /\ UNCHANGED <<timer, retries, running, doomed, result, server, told, lapsed>>

(* A new session; the answer that brings it may be lost.                    *)
Issue(t, spent) ==
  /\ issued < MaxTokens
  /\ issued' = issued + 1
  /\ accepted' = (accepted \ spent) \union {issued + 1}
  /\ \/ Answer(t, Returned(issued + 1))
     \/ "ConnectError" \in Errors /\ Answer(t, Raised("ConnectError"))

(* A refresh token is good for one refresh; sign_out revokes them all.      *)
ServerAnswers(t) ==
  /\ \/ /\ Waits(t, "refresh") /\ Top(t).s \in accepted
        /\ Issue(t, {Top(t).s})
     \/ /\ \E what \in SignIns \union {"verify"} : Waits(t, what)
        /\ Issue(t, {})
     \/ /\ Waits(t, "update_user")
        /\ Answer(t, Returned(0))
        /\ UNCHANGED <<accepted, issued>>
     \/ /\ Waits(t, "sign_out")
        /\ accepted' = {}
        /\ Answer(t, Returned(0))
        /\ UNCHANGED issued
  /\ UNCHANGED <<client, running, doomed, result, age, told, lapsed>>

RequestFails(t) ==
  /\ \E what \in SignIns \union Changes \union {"refresh", "sign_out"} : Waits(t, what)
  /\ \E e \in Errors \union
       (IF Top(t).at = "refresh" /\ Top(t).s \notin accepted THEN {"AuthApiError"} ELSE {}) :
       Answer(t, Raised(e))
  /\ UNCHANGED <<client, running, doomed, result, server, told, lapsed>>

(* The event loop goes on with a task whose answer has come.                *)
Resume(t) ==
  /\ running = Nobody /\ stack[t] # <<>>
  /\ Top(t).fn = "await" /\ Top(t).answer # Pending
  /\ stack' = [stack EXCEPT ![t] = Below(t)]
  /\ running' = t /\ result' = Top(t).answer
  /\ UNCHANGED <<client, doomed, server, told, lapsed>>

(* A timer ends its sleep once its session is about to end; one that is to  *)
(* try again, at any time.                                                  *)
TimerFires(x) ==
  /\ running = Nobody /\ stack[x] # <<>> /\ Top(x).fn = "sleep"
  /\ Top(x).s # 0 => InMargin(Top(x).s)
  /\ Continue(x, <<Frame(Top(x).at, "start", 0)>>)
  /\ UNCHANGED <<client, server, told, lapsed>>

TimePasses(s) ==
  /\ running = Nobody /\ s <= issued /\ age[s] < 2
  /\ age' = [age EXCEPT ![s] = @ + 1]
  /\ UNCHANGED <<client, loop, accepted, issued, told, lapsed>>

-----------------------------------------------------------------------------
Step(t) ==
  \/ GetSession(t) \/ CallRefreshToken(t) \/ SaveSession(t) \/ RemoveSession(t)
  \/ SignIn(t) \/ RefreshSession(t) \/ Change(t) \/ SignOut(t)
  \/ Recover(t) \/ AutoRefreshToken(t) \/ Unwind(t)
  \/ Resume(t)

(* All that task t, or what it waits for, can do                            *)
Runs(t) ==
  \/ Step(t)
  \/ StorageAnswers(t) \/ ServerAnswers(t) \/ RequestFails(t)
  \/ t \in Timers /\ TimerFires(t)

Next ==
  /\ \/ \E u \in Users : \E fn \in Operations : UserCalls(u, fn)
     \/ \E t \in Tasks : Runs(t)
     \/ \E s \in Sessions : TimePasses(s)
  /\ UNCHANGED <<storage, kept>>

Spec == Init /\ [][Next]_vars

(* The event loop gives every task its turn, however busy the others keep   *)
(* it; timers fire; the storage answers, and so does the server or httpx's  *)
(* timeout.                                                                 *)
Fairness == \A t \in Tasks : SF_vars(Runs(t) /\ UNCHANGED <<storage, kept>>)

LiveSpec == Spec /\ Fairness

-----------------------------------------------------------------------------
(* What should hold                                                         *)

Frames ==
  {"get_session", "call_refresh", "save", "remove", "refresh_session", "sign_out",
   "recover", "auto_refresh", "sleep", "await"} \union SignIns \union Changes

(* The values of the variables: no session but what the server has issued,  *)
(* and None is neither refreshed nor saved.                                 *)
TypeOK ==
  /\ storage \in Storages
  /\ slot \in 0..issued /\ kept \in 0..issued /\ issued \in 0..MaxTokens /\ accepted \subseteq 1..issued
  /\ timer \in Timers \union {Nobody}
  /\ retries \in 0..MaxRetries
  /\ DOMAIN stack = Tasks
  /\ \A t \in Tasks : \A i \in 1..Len(stack[t]) :
       LET f == stack[t][i] IN
         /\ f.fn \in Frames /\ f.s \in 0..issued
         /\ f.fn \in {"call_refresh", "save"} /\ f.at = "start" => f.s # 0
  /\ running \in Tasks \union {Nobody}
  /\ running # Nobody => stack[running] # <<>>
  /\ doomed \in BOOLEAN
  /\ result.s \in 0..issued
  /\ age \in [Sessions -> 0..2]
  /\ told \in 0..issued
  /\ lapsed \in BOOLEAN

Alive(x) == stack[x] # <<>> /\ ~(running = x /\ doomed)
Sleeping(x) == stack[x] # <<>> /\ Top(x).fn = "sleep"

(* There is one auto-refresh at a time, the client's: a second one would    *)
(* spend the refresh token the first one needs.                             *)
OneRefresher == \A x \in Timers : Alive(x) => timer = x

(* The session the timer is to refresh is the one that is stored, however   *)
(* calls that save and remove sessions overlap, if the storage does not     *)
(* suspend: a task may be cut between the timer and the storage otherwise.  *)
TimerIsForStored ==
  running = Nobody /\ ~Suspends =>
    \A x \in Timers : Sleeping(x) /\ Top(x).s # 0 => slot = Top(x).s

(* A session that is stored is being refreshed in time, unless the client   *)
(* gave up on an error or was given an expired session to store (and, as    *)
(* above, the storage does not suspend).                                    *)
KeptFresh ==
  running = Nobody /\ ~Suspends /\ AutoRefresh /\ slot # 0 /\ ~lapsed =>
    \E x \in Timers : Alive(x)

(* Subscribers hear of the session that is stored, not of one before or     *)
(* after it; and of a sign-out when none is (as above).  One exception:     *)
(* without persist_session, initialize tells of the session it finds in the *)
(* storage, and the client does not take it up (gotrue_client.py:1043,      *)
(* 1073-1075).                                                              *)
ToldIsStored ==
  [][told' # told /\ ~Suspends =>
       slot' = told' \/ (~PersistSession /\ told' = kept /\ \E t \in Tasks : At(t, "recover", "read"))]_vars

(* A session about to end is refreshed or removed in the end, or the client *)
(* gave up (and, as above, the storage does not suspend).                   *)
Refreshed ==
  AutoRefresh /\ ~Suspends /\ slot # 0 /\ InMargin(slot) ~> slot = 0 \/ ~InMargin(slot) \/ lapsed

=============================================================================
