---------------------------- MODULE PostgrestRetry ----------------------------
(****************************************************************************)
(* execute() of a PostgREST query: send_with_retry                          *)
(* (postgrest/_async/request_builder.py) and should_retry                   *)
(* (base_request_builder.py).  A 503 or 520 may come from a proxy after the *)
(* database has done what the request asked for.  The same builder may be   *)
(* executed by several tasks; they share its method and its retry flag.     *)
(****************************************************************************)
EXTENDS Naturals

CONSTANTS
  Executions,  \* the calls of execute()
  Methods,     \* the HTTP methods tried
  MaxRetries   \* MAX_RETRIES

ASSUME MaxRetriesAssumption == MaxRetries \in Nat
ASSUME MethodsAssumption == Methods \subseteq {"GET", "POST", "PATCH", "PUT", "DELETE", "HEAD"}

VARIABLES
  method, retryEnabled,  \* of the RequestConfig
  at,        \* each execution: idle, waiting for a response, sleeping, done
  attempt,   \* its attempt_count
  counted,   \* the X-Retry-Count of its last request, 0 for none
  status,    \* the last response, 0 before there is one
  applied    \* how often the database did what it asked for

vars == <<method, retryEnabled, at, attempt, counted, status, applied>>

(* Failure is any other status, and an exception of httpx in place of a     *)
(* response: neither is tried again.                                        *)
Success == 200
Retryable == {503, 520}
Failure == 500
Statuses == {Success, Failure} \union Retryable

Init ==
  /\ method \in Methods /\ retryEnabled \in BOOLEAN
  /\ at = [e \in Executions |-> "idle"]
  /\ attempt = [e \in Executions |-> 0]
  /\ counted = [e \in Executions |-> 0]
  /\ status = [e \in Executions |-> 0]
  /\ applied = [e \in Executions |-> 0]

(* Mutant: whatever the method.                                             *)
ShouldRetryAny(e, code) ==
  retryEnabled /\ attempt[e] < MaxRetries /\ code \in Retryable

(* Mutant: the attempts are not bounded.                                    *)
ShouldRetryForever(e, code) ==
  retryEnabled /\ method \in {"GET", "HTTP"} /\ code \in Retryable

(* should_retry: "HTTP" is no method a request has.                         *)
ShouldRetry(e, code) ==
  /\ retryEnabled /\ attempt[e] < MaxRetries
  /\ method \in {"GET", "HTTP"}
  /\ code \in Retryable

(* Mutant: a retry does not say which one it is.                            *)
RetryHeaderLate(e) == IF attempt[e] > 1 THEN attempt[e] - 1 ELSE 0

(* The X-Retry-Count of the next request; the first one has none.           *)
RetryHeader(e) == attempt[e]

Send(e) ==
  /\ at[e] \in {"idle", "sleeping"}
  /\ at' = [at EXCEPT ![e] = "waiting"]
  /\ counted' = [counted EXCEPT ![e] = RetryHeader(e)]
  /\ UNCHANGED <<method, retryEnabled, attempt, status, applied>>

NextAttempt(e) == attempt[e] + 1

(* A response, or an exception, and what becomes of the loop                *)
Respond(e, code, done) ==
  /\ at[e] = "waiting"
  /\ code = Success => done
  /\ status' = [status EXCEPT ![e] = code]
  /\ applied' = [applied EXCEPT ![e] = IF done THEN @ + 1 ELSE @]
  /\ IF ShouldRetry(e, code)
       THEN /\ at' = [at EXCEPT ![e] = "sleeping"]
            /\ attempt' = [attempt EXCEPT ![e] = NextAttempt(e)]
       ELSE at' = [at EXCEPT ![e] = "done"] /\ UNCHANGED attempt
  /\ UNCHANGED <<method, retryEnabled, counted>>

(* The builder, until it is executed, and retry(enabled), at any time       *)
Prepare ==
  /\ \A e \in Executions : at[e] = "idle"
  /\ method' \in Methods
  /\ UNCHANGED <<retryEnabled, at, attempt, counted, status, applied>>

SetRetry ==
  /\ retryEnabled' \in BOOLEAN
  /\ UNCHANGED <<method, at, attempt, counted, status, applied>>

Execute(e) ==
  Send(e) \/ \E code \in Statuses : \E done \in BOOLEAN : Respond(e, code, done)

AllDone == (\A e \in Executions : at[e] = "done") /\ UNCHANGED vars

Next == Prepare \/ SetRetry \/ (\E e \in Executions : Execute(e)) \/ AllDone

Spec == Init /\ [][Next]_vars

(* A response comes, or httpx's timeout ends the call; sleeps end.          *)
LiveSpec == Spec /\ \A e \in Executions : WF_vars(Execute(e))

-----------------------------------------------------------------------------
(* What should hold                                                         *)

Idempotent == {"GET", "HEAD"}

(* The values of the variables                                              *)
TypeOK ==
  /\ method \in Methods /\ retryEnabled \in BOOLEAN
  /\ at \in [Executions -> {"idle", "waiting", "sleeping", "done"}]
  /\ attempt \in [Executions -> 0..MaxRetries]
  /\ counted \in [Executions -> 0..MaxRetries]
  /\ status \in [Executions -> Statuses \union {0}]
  /\ applied \in [Executions -> Nat]

(* An execute() that writes changes the database at most once, whatever     *)
(* answers come back: a write the proxy answered for is not sent again.     *)
WritesOnce == method \notin Idempotent => \A e \in Executions : applied[e] <= 1

(* Each request of an execution tells the server how many came before it,   *)
(* and no number is used twice.                                             *)
CountsUp ==
  [][\A e \in Executions :
       at[e] = "sleeping" /\ at'[e] = "waiting" => counted'[e] = counted[e] + 1]_vars

=============================================================================
