------------------------- MODULE PostgrestQueryProofs -------------------------
(****************************************************************************)
(* Proofs about PostgREST queries.  First what PostgrestRetry promises, for *)
(* any number of executions and retries; then that a query implements that  *)
(* loop, so that the promises hold of every query; then what becomes of the *)
(* headers that the builders of a query share; then that a query carries    *)
(* what its calls asked for.                                                *)
(****************************************************************************)
EXTENDS PostgrestQuery, SequenceTheorems, FiniteSetTheorems, TLAPS

USE MaxRetriesAssumption, MethodsAssumption, VerbsAssumption

-----------------------------------------------------------------------------
(* The retry loop                                                           *)

(* The values of the variables, for every MAX_RETRIES: attempt_count never  *)
(* passes it, and no X-Retry-Count announces more (send_with_retry).        *)
Counters ==
  /\ TypeOK
  /\ \A e \in Executions :
       /\ counted[e] <= attempt[e]
       /\ at[e] = "sleeping" => counted[e] + 1 = attempt[e]
       /\ at[e] = "waiting" => counted[e] = attempt[e]
       /\ at[e] = "idle" => attempt[e] = 0 /\ counted[e] = 0

(* While an execution that writes is not done, the database has done        *)
(* nothing for it yet: only its one response may say otherwise.             *)
NothingApplied ==
  /\ \A e \in Executions : at[e] = "idle" => applied[e] = 0
  /\ method \notin Idempotent =>
       \A e \in Executions :
         /\ at[e] # "done" => applied[e] = 0
         /\ applied[e] <= 1

(* The counters of send_with_retry agree in every reachable state.          *)
THEOREM CountersAlways == Spec => []Counters
<1>1. Init => Counters
  BY DEF Init, Counters, TypeOK, Statuses
<1>2. Counters /\ [Next]_vars => Counters'
  <2> SUFFICES ASSUME Counters, [Next]_vars
               PROVE  Counters'
    OBVIOUS
  <2>1. ASSUME NEW e \in Executions, Send(e)
        PROVE  Counters'
    BY <2>1 DEF Counters, TypeOK, Send, RetryHeader
  <2>2. ASSUME NEW e \in Executions, NEW code \in Statuses, NEW done \in BOOLEAN,
               Respond(e, code, done)
        PROVE  Counters'
    <3>1. CASE ShouldRetry(e, code)
      BY <2>2, <3>1 DEF Counters, TypeOK, Respond, ShouldRetry, NextAttempt, Statuses
    <3>2. CASE ~ShouldRetry(e, code)
      BY <2>2, <3>2 DEF Counters, TypeOK, Respond, Statuses
    <3> QED
      BY <3>1, <3>2
  <2>3. CASE UNCHANGED vars
    BY <2>3 DEF Counters, TypeOK, vars
  <2>4. CASE Prepare \/ SetRetry
    BY <2>4 DEF Counters, TypeOK, Prepare, SetRetry
  <2> QED
    BY <2>1, <2>2, <2>3, <2>4 DEF Next, Execute, AllDone
<1> QED
  BY <1>1, <1>2, PTL DEF Spec

(* The type invariant of the runs                                           *)
THEOREM TypeCorrect == Spec => []TypeOK
<1>1. Counters => TypeOK
  BY DEF Counters
<1> QED
  BY <1>1, CountersAlways, PTL

(* An execute() that writes is applied by the database at most once         *)
(* (should_retry sends nothing but reads again).                            *)
THEOREM WritesOnceAlways == Spec => []WritesOnce
<1>1. Init => NothingApplied
  <2>1. Init => \A e \in Executions : applied[e] = 0
    BY DEF Init
  <2>2. 0 <= 1
    OBVIOUS
  <2> QED
    BY <2>1, <2>2, Zenon DEF NothingApplied
<1>2. TypeOK /\ NothingApplied /\ [Next]_vars => NothingApplied'
  <2> SUFFICES ASSUME TypeOK, NothingApplied, [Next]_vars
               PROVE  NothingApplied'
    OBVIOUS
  <2>1. ASSUME NEW e \in Executions, Send(e)
        PROVE  NothingApplied'
    BY <2>1 DEF NothingApplied, TypeOK, Send
  <2>2. ASSUME NEW e \in Executions, NEW code \in Statuses, NEW done \in BOOLEAN,
               Respond(e, code, done)
        PROVE  NothingApplied'
    <3>1. method' = method
      BY <2>2 DEF Respond
    <3>2. CASE method \in Idempotent
      BY <2>2, <3>1, <3>2 DEF NothingApplied, TypeOK, Respond
    <3>3. CASE method \notin Idempotent
      <4>1. ~ShouldRetry(e, code)
        BY <3>3 DEF ShouldRetry, TypeOK, Idempotent
      <4> QED
        BY <2>2, <3>1, <3>3, <4>1 DEF NothingApplied, TypeOK, Respond
    <3> QED
      BY <3>2, <3>3
  <2>3. CASE UNCHANGED vars
    BY <2>3 DEF NothingApplied, vars
  <2>4. CASE Prepare
    BY <2>4 DEF NothingApplied, Prepare
  <2>5. CASE SetRetry
    BY <2>5 DEF NothingApplied, SetRetry
  <2> QED
    BY <2>1, <2>2, <2>3, <2>4, <2>5 DEF Next, Execute, AllDone
<1>3. NothingApplied => WritesOnce
  BY DEF NothingApplied, WritesOnce
<1> QED
  BY <1>1, <1>2, <1>3, TypeCorrect, PTL DEF Spec

(* The requests of an execution are numbered one after another.             *)
THEOREM CountsUpAlways == Spec => CountsUp
<1>1. Counters /\ [Next]_vars
        => [\A e \in Executions : at[e] = "sleeping" /\ at'[e] = "waiting"
              => counted'[e] = counted[e] + 1]_vars
  <2> SUFFICES ASSUME Counters, [Next]_vars, NEW x \in Executions,
                      at[x] = "sleeping", at'[x] = "waiting"
               PROVE  counted'[x] = counted[x] + 1
    OBVIOUS
  <2>1. ASSUME NEW e \in Executions, Send(e)
        PROVE  counted'[x] = counted[x] + 1
    BY <2>1 DEF Counters, TypeOK, Send, RetryHeader
  <2>2. ASSUME NEW e \in Executions, NEW code \in Statuses, NEW done \in BOOLEAN,
               Respond(e, code, done)
        PROVE  FALSE
    BY <2>2 DEF Counters, TypeOK, Respond
  <2>3. CASE UNCHANGED vars \/ Prepare \/ SetRetry
    BY <2>3 DEF vars, Prepare, SetRetry
  <2> QED
    BY <2>1, <2>2, <2>3 DEF Next, Execute, AllDone
<1> QED
  BY <1>1, CountersAlways, PTL DEF Spec, CountsUp

-----------------------------------------------------------------------------
(* A query implements it                                                    *)

(* Nothing is executed before there is a request.                           *)
Untouched ==
  latest = "table" => builders = {"table"} /\ \A e \in Executions : at[e] = "idle"

(* from_() and rpc() make the request the loop will send.                   *)
LEMMA NewRequestPrepares ==
  ASSUME NEW verb \in Methods, NEW keys, NEW prefer, NEW builder, builder # "table",
         Untouched, NewRequest(verb, keys, prefer, builder)
  PROVE  Prepare /\ Untouched'
BY DEF NewRequest, executing, Untouched, Prepare

(* A call on a builder leaves the loop alone but for retry(enabled).        *)
LEMMA CallKeeps ==
  ASSUME NEW b, NEW r, r # "table", Untouched, Call(b, r)
  PROVE  /\ Untouched'
         /\ UNCHANGED <<method, at, attempt, counted, status, applied>>
BY DEF Call, executing, Untouched

(* Every step of building is a step of the retry loop's environment.        *)
LEMMA BuildPrepares ==
  ASSUME Untouched, Build
  PROVE  (Prepare \/ SetRetry \/ UNCHANGED vars) /\ Untouched'
<1>1. CASE SelectRows \/ Insert \/ Upsert \/ UpdateRows \/ DeleteRows \/ Rpc
  <2>1. CASE SelectRows
    BY <2>1, NewRequestPrepares DEF SelectRows
  <2>2. CASE Insert
    BY <2>2, NewRequestPrepares DEF Insert
  <2>3. CASE Upsert
    BY <2>3, NewRequestPrepares DEF Upsert
  <2>4. CASE UpdateRows
    BY <2>4, NewRequestPrepares DEF UpdateRows
  <2>5. CASE DeleteRows
    BY <2>5, NewRequestPrepares DEF DeleteRows
  <2>6. CASE Rpc
    BY <2>6, NewRequestPrepares DEF Rpc
  <2> QED
    BY <1>1, <2>1, <2>2, <2>3, <2>4, <2>5, <2>6
<1>2. CASE SelectResult \/ Single \/ Csv \/ Explain \/ SingleResult \/ MaybeSingle
           \/ \E c \in Columns : TextSearch(c)
  <2>1. UNCHANGED retryEnabled /\ \E b, r : r # "table" /\ Call(b, r)
    BY <1>2 DEF SelectResult, Single, Csv, Explain, SingleResult, MaybeSingle, TextSearch, Shaped
  <2> QED
    BY <2>1, CallKeeps DEF vars
<1>3. ASSUME NEW b \in builders \ {"table"},
             \/ SelectColumns(b) \/ Not(b) \/ Or(b) \/ Limit(b) \/ Offset(b) \/ RangeOfRows(b)
             \/ \E c \in Columns : \E name \in Calls : Filter(b, c, name)
             \/ \E c \in Columns : Order(b, c)
             \/ \E c, d \in Columns : c # d /\ Match(b, c, d)
             \/ \E n \in 1..2 : MaxAffected(b, n)
      PROVE  UNCHANGED vars /\ Untouched'
  <2>1. UNCHANGED retryEnabled /\ Call(b, b)
    BY <1>3 DEF SelectColumns, Not, Or, Limit, Offset, RangeOfRows, Page, Filter, Order, Match, MaxAffected
  <2> QED
    BY <2>1, CallKeeps DEF vars
<1>4. ASSUME NEW b \in builders \ {"table"}, Retry(b)
      PROVE  SetRetry /\ Untouched'
  BY <1>4, CallKeeps DEF Retry, SetRetry
<1> QED
  BY <1>1, <1>2, <1>3, <1>4 DEF Build

(* Every behaviour of a query is one of the retry loop: its requests are     *)
(* sent, answered and repeated as PostgrestRetry says, whatever the          *)
(* application goes on calling (send_with_retry reads one RequestConfig).    *)
THEOREM QueryRetries == QuerySpec => Spec
<1>1. QueryInit => Init /\ Untouched
  BY DEF QueryInit, Untouched, Init
<1>2. Untouched /\ [QueryNext]_queryVars => [Next]_vars /\ Untouched'
  <2> SUFFICES ASSUME Untouched, [QueryNext]_queryVars
               PROVE  [Next]_vars /\ Untouched'
    OBVIOUS
  <2>1. CASE Build
    BY <2>1, BuildPrepares DEF Next
  <2>2. ASSUME NEW e \in Executions, NEW b \in builders, SendQuery(e, b)
        PROVE  Next /\ Untouched'
    BY <2>2 DEF SendQuery, building, Untouched, Next, Execute
  <2>3. ASSUME NEW e \in Executions, Answer(e)
        PROVE  Next /\ Untouched'
    BY <2>3 DEF Answer, Respond, building, Untouched, Next, Execute
  <2>4. CASE UNCHANGED queryVars
    BY <2>4 DEF queryVars, building, vars, Untouched
  <2> QED
    BY <2>1, <2>2, <2>3, <2>4 DEF QueryNext, Run, Finished
<1> QED
  BY <1>1, <1>2, PTL DEF QuerySpec, Spec

(* A query that writes is applied at most once per execute(), however it    *)
(* was built and whatever is called on its builders meanwhile.              *)
THEOREM QueryWritesOnce == QuerySpec => []WritesOnce
BY QueryRetries, WritesOnceAlways, PTL

(* The requests of each execute() of a query are numbered one after another.*)
THEOREM QueryCountsUp == QuerySpec => CountsUp
BY QueryRetries, CountsUpAlways, PTL

-----------------------------------------------------------------------------
(* The headers                                                              *)

Accepts == {"rows", "row", "text", "plan"}
HeadersObject(h) == DOMAIN h = {"prefer", "accept"} /\ h.accept \in Accepts

(* A request has a Headers object of its own from its first call on, and    *)
(* the client's asks for rows.                                              *)
HeadersInvariant ==
  /\ Untouched
  /\ DOMAIN heap = {"client", "own"} /\ HeadersObject(heap["client"]) /\ HeadersObject(heap["own"])
  /\ heap["client"].accept = "rows"
  /\ latest # "table" => headers = "own"

LEMMA PreferSet ==
  ASSUME HeadersInvariant, latest # "table", headers' = headers, NEW ps, SetPrefer(ps)
  PROVE  /\ DOMAIN heap' = {"client", "own"} /\ heap'["client"] = heap["client"]
         /\ HeadersObject(heap'["own"]) /\ heap'["own"].accept = heap["own"].accept
BY DEF SetPrefer, HeadersInvariant, HeadersObject

LEMMA AcceptSet ==
  ASSUME HeadersInvariant, latest # "table", headers' = headers, NEW a \in Accepts, SetAccept(a)
  PROVE  /\ DOMAIN heap' = {"client", "own"} /\ heap'["client"] = heap["client"]
         /\ HeadersObject(heap'["own"]) /\ heap'["own"].accept = a
BY DEF SetAccept, HeadersInvariant, HeadersObject

(* from_() and rpc(): the first builder of the query                        *)
Starts(builder) ==
  /\ latest = "table" /\ latest' = builder /\ builders' = {builder} /\ headers' = "own"
  /\ DOMAIN heap' = {"client", "own"} /\ heap'["client"] = heap["client"]
  /\ HeadersObject(heap'["own"]) /\ heap'["own"].accept = "rows"
  /\ UNCHANGED executing

LEMMA NewRequestStarts ==
  ASSUME HeadersInvariant, NEW verb, NEW keys, NEW prefer, NEW builder, NewRequest(verb, keys, prefer, builder)
  PROVE  Starts(builder)
<1> DEFINE new == [accept |-> heap["client"].accept,
                   prefer |-> IF heap["client"].prefer # {} THEN heap["client"].prefer ELSE prefer]
<1>1. /\ latest = "table" /\ latest' = builder /\ builders' = {builder} /\ headers' = "own"
      /\ heap' = [heap EXCEPT !["own"] = new]
      /\ UNCHANGED executing
  BY DEF NewRequest, OwnHeaders
<1>2. HeadersObject(new) /\ new.accept = "rows"
  BY DEF HeadersInvariant, HeadersObject
<1> HIDE DEF new
<1> QED
  BY <1>1, <1>2 DEF Starts, HeadersInvariant

(* A call on the builder b that returns r; where accept says, it sets the   *)
(* Accept header, else leaves it.                                           *)
Continues(b, r, accept) ==
  /\ Call(b, r)
  /\ DOMAIN heap' = {"client", "own"} /\ heap'["client"] = heap["client"]
  /\ HeadersObject(heap'["own"]) /\ heap'["own"].accept = accept

LEMMA ShapedContinues ==
  ASSUME HeadersInvariant, NEW a \in Accepts, NEW b \in builders \ {"table"}, NEW r, Shaped(b, a, r)
  PROVE  Continues(b, r, a)
<1>1. Call(b, r) /\ SetAccept(a) /\ headers' = headers /\ latest # "table"
  BY DEF Shaped, Call, HeadersInvariant, Untouched
<1> QED
  BY <1>1, AcceptSet DEF Continues

LEMMA PreferContinues ==
  ASSUME HeadersInvariant, NEW b \in builders \ {"table"}, NEW r, Call(b, r),
         (\E ps : SetPrefer(ps)) \/ heap' = heap
  PROVE  Continues(b, r, heap["own"].accept)
<1>1. headers' = headers /\ latest # "table"
  BY DEF Call, HeadersInvariant, Untouched
<1>2. CASE heap' = heap
  BY <1>2 DEF Continues, HeadersInvariant
<1>3. ASSUME NEW ps, SetPrefer(ps)
      PROVE  Continues(b, r, heap["own"].accept)
  BY <1>1, <1>3, PreferSet DEF Continues
<1> QED
  BY <1>2, <1>3

(* The Accept headers that go with a builder                                *)
AcceptsOf(b) ==
  CASE b = "explain" -> {"text"}
    [] b = "single" -> {"row", "text", "plan"}
    [] b = "rpc" -> {"rows", "row", "text"}
    [] OTHER -> {"rows"}
Kinds == {"query", "filter", "select", "single", "maybe", "explain", "rpc"}

(* The calls that return the builder they are made on, whichever it is      *)
Stays(b) ==
  \/ SelectColumns(b) \/ Retry(b) \/ Not(b) \/ Or(b) \/ Limit(b) \/ Offset(b) \/ RangeOfRows(b)
  \/ \E c \in Columns : \E name \in Calls : Filter(b, c, name)
  \/ \E c \in Columns : Order(b, c)
  \/ \E c, d \in Columns : c # d /\ Match(b, c, d)
  \/ \E n \in 1..2 : MaxAffected(b, n)

(* What building does: a request, or a call that stays on its builder or    *)
(* goes on from a select builder, with an Accept header that fits.          *)
LEMMA BuildSteps ==
  ASSUME HeadersInvariant, Build
  PROVE  \/ \E builder \in Kinds \ {"single", "maybe", "explain"} : Starts(builder)
         \/ \E b \in builders \ {"table"}, a \in Accepts :
              /\ Continues(b, b, a)
              /\ a = heap["own"].accept \/ (b = "rpc" /\ a \in AcceptsOf("rpc"))
         \/ \E r \in Kinds, a \in Accepts :
              /\ "select" \in builders /\ Continues("select", r, a) /\ r # "select"
              /\ a \in AcceptsOf(r) \/ (r \in {"query", "maybe"} /\ a = heap["own"].accept)
<1> DEFINE Stay == \E b \in builders \ {"table"}, a \in Accepts :
                     /\ Continues(b, b, a)
                     /\ a = heap["own"].accept \/ (b = "rpc" /\ a \in AcceptsOf("rpc"))
           Go == \E r \in Kinds, a \in Accepts :
                     /\ "select" \in builders /\ Continues("select", r, a) /\ r # "select"
                     /\ a \in AcceptsOf(r) \/ (r \in {"query", "maybe"} /\ a = heap["own"].accept)
<1>0. heap["own"].accept \in Accepts
  BY DEF HeadersInvariant, HeadersObject
<1>1. CASE SelectRows \/ Insert \/ Upsert \/ UpdateRows \/ DeleteRows \/ Rpc
  <2>1. \E verb, keys, prefer : \E builder \in {"query", "filter", "select", "rpc"} : NewRequest(verb, keys, prefer, builder)
    <3>1. CASE SelectRows
      BY <3>1 DEF SelectRows
    <3>2. CASE Insert
      BY <3>2 DEF Insert
    <3>3. CASE Upsert
      BY <3>3 DEF Upsert
    <3>4. CASE UpdateRows
      BY <3>4 DEF UpdateRows
    <3>5. CASE DeleteRows
      BY <3>5 DEF DeleteRows
    <3>6. CASE Rpc
      BY <3>6 DEF Rpc
    <3> QED
      BY <1>1, <3>1, <3>2, <3>3, <3>4, <3>5, <3>6
  <2> QED
    BY <2>1, NewRequestStarts DEF Kinds
<1>2. CASE Single \/ Csv \/ Explain
  <2>1. \E r \in {"single", "explain"} : \E a \in AcceptsOf(r) : Shaped("select", a, r)
    BY <1>2 DEF Single, Csv, Explain, AcceptsOf
  <2>2. "select" \in builders
    BY <2>1 DEF Shaped, Call
  <2> QED
    BY <2>1, <2>2, ShapedContinues DEF AcceptsOf, Accepts, Kinds
<1>3. CASE MaybeSingle
  <2>1. Shaped("select", heap["own"].accept, "maybe") /\ "select" \in builders
    BY <1>3 DEF MaybeSingle, MaybeUnchanged, Shaped, Call, HeadersInvariant, Untouched
  <2> QED
    BY <1>0, <2>1, ShapedContinues DEF Kinds
<1>4. CASE SingleResult
  <2>1. \E a \in AcceptsOf("rpc") : Shaped("rpc", a, "rpc")
    BY <1>4 DEF SingleResult, AcceptsOf
  <2>2. "rpc" \in builders
    BY <2>1 DEF Shaped, Call
  <2> QED
    BY <2>1, <2>2, ShapedContinues DEF AcceptsOf, Accepts
<1>5. CASE SelectResult
  <2>1. Call("rpc", "rpc") /\ (\E ps : SetPrefer(ps)) /\ "rpc" \in builders
    BY <1>5 DEF SelectResult, Call
  <2> QED
    BY <1>0, <2>1, PreferContinues
<1>6. ASSUME NEW c \in Columns, TextSearch(c)
      PROVE  Go
  <2>1. Call("select", "query") /\ heap' = heap /\ "select" \in builders
    BY <1>6 DEF TextSearch, Call
  <2> QED
    BY <1>0, <2>1, PreferContinues DEF Kinds
<1>7. ASSUME NEW b \in builders \ {"table"},
             Stays(b)
      PROVE  Stay
  <2>1. Call(b, b) /\ ((\E ps : SetPrefer(ps)) \/ heap' = heap)
    BY <1>7 DEF Stays, SelectColumns, Retry, Not, Or, Limit, Offset, RangeOfRows, Page, Filter, Order, Match,
                MaxAffected
  <2> QED
    BY <1>0, <2>1, PreferContinues
<1> QED
  BY <1>1, <1>2, <1>3, <1>4, <1>5, <1>6, <1>7 DEF Build, Stays

LEMMA BuildKeepsHeaders ==
  ASSUME HeadersInvariant, Build
  PROVE  HeadersInvariant' /\ heap'["client"] = heap["client"]
<1>1. Untouched'
  BY BuildPrepares DEF HeadersInvariant
<1>2. ASSUME NEW builder \in Kinds, Starts(builder)
      PROVE  HeadersInvariant' /\ heap'["client"] = heap["client"]
  BY <1>1, <1>2 DEF Starts, HeadersInvariant
<1>3. ASSUME NEW b \in builders \ {"table"}, NEW r, NEW a, Continues(b, r, a)
      PROVE  HeadersInvariant' /\ heap'["client"] = heap["client"]
  <2>1. latest # "table" /\ headers' = headers
    BY <1>3 DEF Continues, Call, HeadersInvariant, Untouched
  <2> QED
    BY <1>1, <1>3, <2>1 DEF Continues, HeadersInvariant
<1> QED
  BY <1>2, <1>3, BuildSteps

LEMMA RunKeepsHeaders ==
  ASSUME HeadersInvariant, NEW e \in Executions, Run(e)
  PROVE  HeadersInvariant' /\ heap' = heap
<1>1. ASSUME NEW b \in builders, SendQuery(e, b)
      PROVE  HeadersInvariant' /\ heap' = heap
  BY <1>1 DEF SendQuery, building, HeadersInvariant, Untouched
<1>2. CASE Answer(e)
  BY <1>2 DEF Answer, Respond, building, HeadersInvariant, Untouched
<1> QED
  BY <1>1, <1>2 DEF Run

LEMMA HeadersInvariantAlways == QuerySpec => []HeadersInvariant
<1>1. QueryInit => HeadersInvariant
  <2> SUFFICES ASSUME QueryInit
               PROVE  HeadersInvariant
    OBVIOUS
  <2>1. PICK p \in ClientPrefers : heap = [o \in {"client", "own"} |-> [prefer |-> p, accept |-> "rows"]]
    BY DEF QueryInit
  <2>2. HeadersObject([prefer |-> p, accept |-> "rows"]) /\ [prefer |-> p, accept |-> "rows"].accept = "rows"
    BY DEF HeadersObject, Accepts
  <2>3. Untouched /\ latest = "table"
    BY DEF QueryInit, Init, Untouched
  <2> QED
    BY <2>1, <2>2, <2>3 DEF HeadersInvariant
<1>2. HeadersInvariant /\ [QueryNext]_queryVars => HeadersInvariant'
  <2> SUFFICES ASSUME HeadersInvariant, [QueryNext]_queryVars
               PROVE  HeadersInvariant'
    OBVIOUS
  <2>1. CASE UNCHANGED queryVars
    BY <2>1 DEF queryVars, building, vars, HeadersInvariant, Untouched
  <2> QED
    BY <2>1, BuildKeepsHeaders, RunKeepsHeaders DEF QueryNext, Finished
<1> QED
  BY <1>1, <1>2, PTL DEF QuerySpec

(* Whatever is called, the client's own headers stay as they are.           *)
THEOREM ClientHeadersKeptAlways == QuerySpec => ClientHeadersKept
<1>1. HeadersInvariant /\ [QueryNext]_queryVars => [heap'["client"] = heap["client"]]_queryVars
  <2>1. CASE UNCHANGED queryVars
    BY <2>1
  <2> QED
    BY <2>1, BuildKeepsHeaders, RunKeepsHeaders DEF QueryNext, Finished
<1> QED
  BY <1>1, HeadersInvariantAlways, PTL DEF QuerySpec, ClientHeadersKept

-----------------------------------------------------------------------------
(* The shapes                                                               *)

(* A chain of calls leaves a builder behind only for good, and only a       *)
(* select builder: what was executed on the last builder was sent with an   *)
(* Accept header that fits it.                                              *)
ShapeInvariant ==
  /\ DOMAIN via = Executions /\ DOMAIN accepted = Executions /\ DOMAIN result = Executions
  /\ chained /\ latest # "table" =>
       /\ latest \in Kinds /\ latest \in builders /\ builders \subseteq {"select", latest}
       /\ heap["own"].accept \in AcceptsOf(latest)
       /\ \A e \in Executions : at[e] # "idle" =>
            /\ via[e] \in builders
            /\ via[e] = latest => accepted[e].accept \in AcceptsOf(latest)
            /\ via[e] = latest /\ at[e] = "done" => result[e] \in Shapes[latest] \cup {"empty", "error"}

(* Reading the answer to a request with a fitting Accept header does not    *)
(* fail, and returns what the builder promises.                             *)
LEMMA ParsedFits ==
  ASSUME NEW e \in Executions, NEW n \in 0..2,
         via[e] \in Kinds, accepted[e].accept \in AcceptsOf(via[e])
  PROVE  Parsed(e, Body(e, n)) \subseteq Shapes[via[e]] \cup {"empty", "error"}
<1> DEFINE body == Body(e, n)
<1>2. \/ body = "empty"
      \/ accepted[e].accept = "rows" /\ body \in {"none", "row", "rows"}
      \/ accepted[e].accept # "rows" /\ body = accepted[e].accept
  BY DEF Body
<1> SUFFICES Parsed(e, body) \subseteq Shapes[via[e]] \cup {"empty", "error"}
  OBVIOUS
<1> HIDE DEF body
<1>4. CASE via[e] = "explain"
  <2>1. Parsed(e, body) = {"text"}
    BY <1>4 DEF Parsed
  <2> QED
    BY <1>4, <2>1 DEF Shapes
<1>5. CASE via[e] = "maybe"
  <2>1. accepted[e].accept = "rows" /\ Shapes["maybe"] = {"row", "nothing"}
    BY <1>5 DEF AcceptsOf, Shapes
  <2>2. CASE body \in {"none", "empty"}
    <3>1. Parsed(e, body) = {"nothing"}
      BY <1>5, <2>2 DEF Parsed
    <3> QED
      BY <1>5, <2>1, <3>1
  <2>3. CASE body = "row"
    <3>1. Parsed(e, body) = {"row"}
      BY <1>5, <2>1, <2>3 DEF Parsed
    <3> QED
      BY <1>5, <2>1, <3>1
  <2>4. CASE body = "rows"
    <3>1. Parsed(e, body) = {"error"}
      BY <1>5, <2>4 DEF Parsed
    <3> QED
      BY <1>5, <2>1, <3>1
  <2> QED
    BY <1>2, <2>1, <2>2, <2>3, <2>4
<1>6. CASE via[e] \notin {"explain", "maybe"}
  <2>1. Parsed(e, body) = {IF body = "none" \/ (body = "row" /\ accepted[e].accept = "rows") THEN "rows" ELSE body}
    BY <1>6 DEF Parsed
  <2>2. CASE via[e] = "single"
    BY <1>2, <2>1, <2>2 DEF AcceptsOf, Shapes
  <2>3. CASE via[e] = "rpc"
    BY <1>2, <2>1, <2>3 DEF AcceptsOf, Shapes
  <2>4. CASE via[e] \in {"query", "filter", "select"}
    BY <1>2, <2>1, <2>4 DEF AcceptsOf, Shapes
  <2> QED
    BY <1>6, <2>2, <2>3, <2>4 DEF Kinds
<1> QED
  BY <1>4, <1>5, <1>6

LEMMA BuildKeepsShapes ==
  ASSUME HeadersInvariant, ShapeInvariant, Build
  PROVE  ShapeInvariant'
<1> DEFINE Fit(e) ==
      /\ via[e] \in builders
      /\ via[e] = latest => accepted[e].accept \in AcceptsOf(latest)
      /\ via[e] = latest /\ at[e] = "done" => result[e] \in Shapes[latest] \cup {"empty", "error"}
<1>1. ASSUME NEW builder \in Kinds \ {"single", "maybe", "explain"}, Starts(builder)
      PROVE  ShapeInvariant'
  <2>1. "rows" \in AcceptsOf(builder) /\ builder # "table"
    BY DEF AcceptsOf, Kinds
  <2>2. \A e \in Executions : at[e] = "idle"
    BY <1>1 DEF Starts, HeadersInvariant, Untouched
  <2> QED
    BY <1>1, <2>1, <2>2 DEF Starts, executing, ShapeInvariant
<1>2. ASSUME NEW b \in builders \ {"table"}, NEW r \in Kinds \cup {b}, NEW a \in Accepts, Continues(b, r, a),
             \/ r = b /\ (a = heap["own"].accept \/ (b = "rpc" /\ a \in AcceptsOf("rpc")))
             \/ b = "select" /\ r # "select" /\ (a \in AcceptsOf(r) \/ (r \in {"query", "maybe"} /\ a = heap["own"].accept))
      PROVE  ShapeInvariant'
  <2>1. /\ chained' = (chained /\ b = latest)
        /\ builders' = builders \cup {r} /\ latest' = r
        /\ UNCHANGED <<at, via, accepted, result>>
        /\ heap'["own"].accept = a
        /\ latest # "table"
    BY <1>2 DEF Continues, Call, executing, HeadersInvariant, Untouched
  <2>2. ShapeInvariant' \/ (chained /\ b = latest)
    BY <2>1 DEF ShapeInvariant
  <2>3. ASSUME chained, b = latest
        PROVE  ShapeInvariant'
    <3>1. /\ latest \in Kinds /\ latest \in builders /\ builders \subseteq {"select", latest}
          /\ heap["own"].accept \in AcceptsOf(latest)
          /\ \A e \in Executions : at[e] # "idle" => Fit(e)
      BY <2>1, <2>3 DEF ShapeInvariant
    <3>2. a \in AcceptsOf(r)
      BY <1>2, <2>3, <3>1 DEF AcceptsOf
    <3>3. r \in Kinds /\ r \in builders' /\ builders' \subseteq {"select", r}
      BY <1>2, <2>1, <2>3, <3>1
    <3>4. ASSUME NEW e \in Executions, at[e] # "idle"
          PROVE  Fit(e)'
      <4>1. CASE r = b
        BY <2>1, <2>3, <3>1, <3>4, <4>1
      <4>2. CASE r # b
        BY <1>2, <2>1, <2>3, <3>1, <3>4, <4>2
      <4> QED
        BY <4>1, <4>2
    <3> QED
      BY <2>1, <3>2, <3>3, <3>4 DEF ShapeInvariant
  <2> QED
    BY <2>2, <2>3
<1>3. ASSUME NEW r \in Kinds, NEW a \in Accepts, "select" \in builders, Continues("select", r, a), r # "select",
             a \in AcceptsOf(r) \/ (r \in {"query", "maybe"} /\ a = heap["own"].accept)
      PROVE  ShapeInvariant'
  BY <1>2, <1>3
<1>4. ASSUME NEW b \in builders \ {"table"}, NEW a \in Accepts, Continues(b, b, a),
             a = heap["own"].accept \/ (b = "rpc" /\ a \in AcceptsOf("rpc"))
      PROVE  ShapeInvariant'
  BY <1>2, <1>4
<1> QED
  BY <1>1, <1>3, <1>4, BuildSteps

LEMMA SendKeepsShapes ==
  ASSUME TypeOK, HeadersInvariant, ShapeInvariant, NEW e \in Executions, NEW b \in builders, SendQuery(e, b)
  PROVE  ShapeInvariant'
<1>1. /\ b # "table" /\ at' = [at EXCEPT ![e] = "waiting"] /\ via' = [via EXCEPT ![e] = b]
      /\ accepted' = [accepted EXCEPT ![e] = heap[headers]]
      /\ UNCHANGED <<building, result>> /\ at[e] \in {"idle", "sleeping"}
  BY DEF SendQuery, Send
<1>2. latest # "table" /\ headers = "own"
  BY <1>1 DEF HeadersInvariant, Untouched
<1>3. /\ at'[e] = "waiting" /\ via'[e] = b /\ accepted'[e] = heap["own"]
      /\ \A d \in Executions \ {e} : at'[d] = at[d] /\ via'[d] = via[d] /\ accepted'[d] = accepted[d]
      /\ DOMAIN via' = Executions /\ DOMAIN accepted' = Executions
  BY <1>1, <1>2 DEF TypeOK, ShapeInvariant
<1> QED
  BY <1>1, <1>3 DEF ShapeInvariant, building

LEMMA AnswerKeepsShapes ==
  ASSUME TypeOK, HeadersInvariant, ShapeInvariant, NEW e \in Executions, Answer(e)
  PROVE  ShapeInvariant'
<1>1. PICK code \in Statuses, done \in BOOLEAN, n \in Rows(e) :
        /\ Respond(e, code, done)
        /\ \/ at'[e] = "sleeping" /\ UNCHANGED result
           \/ /\ at'[e] = "done"
              /\ \E r \in IF code = Success THEN Parsed(e, Body(e, n)) ELSE {"error"} :
                   result' = [result EXCEPT ![e] = r]
        /\ UNCHANGED <<building, via, accepted>>
  BY DEF Answer
<1>2. /\ at[e] = "waiting" /\ at'[e] \in {"sleeping", "done"}
      /\ \A d \in Executions \ {e} : at'[d] = at[d]
  BY <1>1 DEF Respond, TypeOK
<1>3. /\ DOMAIN result' = Executions /\ \A d \in Executions \ {e} : result'[d] = result[d]
      /\ at'[e] = "done" => result'[e] \in Parsed(e, Body(e, n)) \cup {"error"}
  BY <1>1 DEF ShapeInvariant
<1>4. ASSUME chained, latest # "table", via[e] = latest, at'[e] = "done"
      PROVE  result'[e] \in Shapes[latest] \cup {"empty", "error"}
  <2>1. latest \in Kinds /\ accepted[e].accept \in AcceptsOf(latest)
    BY <1>2, <1>4 DEF ShapeInvariant
  <2>2. Parsed(e, Body(e, n)) \subseteq Shapes[latest] \cup {"empty", "error"}
    BY <1>4, <2>1, ParsedFits DEF Rows
  <2> QED
    BY <1>3, <1>4, <2>2
<1> QED
  BY <1>1, <1>2, <1>3, <1>4 DEF ShapeInvariant, building

LEMMA ShapeInvariantAlways == QuerySpec => []ShapeInvariant
<1>1. QueryInit => ShapeInvariant
  BY DEF QueryInit, ShapeInvariant
<1>2. TypeOK /\ HeadersInvariant /\ ShapeInvariant /\ [QueryNext]_queryVars => ShapeInvariant'
  <2> SUFFICES ASSUME TypeOK, HeadersInvariant, ShapeInvariant, [QueryNext]_queryVars
               PROVE  ShapeInvariant'
    OBVIOUS
  <2>1. CASE UNCHANGED queryVars
    BY <2>1 DEF queryVars, building, vars, ShapeInvariant
  <2> QED
    BY <2>1, BuildKeepsShapes, SendKeepsShapes, AnswerKeepsShapes DEF QueryNext, Run, Finished
<1> QED
  BY <1>1, <1>2, HeadersInvariantAlways, QueryRetries, TypeCorrect, PTL DEF QuerySpec

(* A query built in one chain of calls returns what its last builder        *)
(* promises: the Accept header and the reading of the answer agree.         *)
THEOREM ShapeFitsAlways == QuerySpec => []ShapeFits
<1>1. HeadersInvariant /\ ShapeInvariant => ShapeFits
  BY DEF HeadersInvariant, Untouched, ShapeInvariant, ShapeFits
<1> QED
  BY <1>1, HeadersInvariantAlways, ShapeInvariantAlways, PTL

-----------------------------------------------------------------------------
(* Sequences, whatever their elements, and the places in them               *)

IsSequence(s) == s \in Seq({s[i] : i \in DOMAIN s})

LEMMA SomeSequence ==
  ASSUME NEW S, NEW s \in Seq(S)
  PROVE  IsSequence(s) /\ Len(s) \in Nat /\ DOMAIN s = 1..Len(s)
<1>1. Len(s) \in Nat /\ s \in [1..Len(s) -> S] /\ DOMAIN s = 1..Len(s)
  BY LenProperties
<1>2. s \in [1..Len(s) -> {s[i] : i \in DOMAIN s}]
  BY <1>1
<1> QED
  BY <1>1, <1>2, SeqDef DEF IsSequence

LEMMA SequenceLength ==
  ASSUME NEW s, IsSequence(s)
  PROVE  Len(s) \in Nat /\ DOMAIN s = 1..Len(s)
BY SomeSequence DEF IsSequence

LEMMA EmptySequence == IsSequence(<<>>) /\ Len(<<>>) = 0 /\ DOMAIN <<>> = {}
<1>1. <<>> \in Seq({}) /\ Len(<<>>) = 0
  BY EmptySeq
<1>2. IsSequence(<<>>) /\ DOMAIN <<>> = 1..0
  BY <1>1, SomeSequence
<1> QED
  BY <1>1, <1>2

LEMMA SequenceOfOne ==
  ASSUME NEW m
  PROVE  IsSequence(<<m>>) /\ Len(<<m>>) = 1 /\ <<m>>[1] = m
<1>1. <<m>> \in Seq({m}) /\ Len(<<m>>) = 1 /\ <<m>>[1] = m
  OBVIOUS
<1> QED
  BY <1>1, SomeSequence

LEMMA SequenceAppend ==
  ASSUME NEW s, IsSequence(s), NEW m
  PROVE  /\ IsSequence(Append(s, m)) /\ Len(Append(s, m)) = Len(s) + 1 /\ Append(s, m) # <<>>
         /\ \A i \in 1..Len(s) : Append(s, m)[i] = s[i]
         /\ Append(s, m)[Len(s) + 1] = m
<1> DEFINE S == {s[i] : i \in DOMAIN s} \cup {m}
           T == Append(s, m)
<1>1. s \in Seq({s[i] : i \in DOMAIN s}) /\ Len(s) \in Nat /\ s \in [1..Len(s) -> S]
  BY LenProperties DEF IsSequence
<1>2. s \in Seq(S) /\ m \in S
  BY <1>1, SeqDef
<1> HIDE DEF S
<1>3. /\ T \in Seq(S) /\ Len(T) = Len(s) + 1 /\ T # <<>>
      /\ \A i \in 1..Len(s) : T[i] = s[i]
      /\ T[Len(s) + 1] = m
  BY <1>2, AppendProperties
<1> HIDE DEF T
<1> QED
  BY <1>3, SomeSequence DEF T

(* The places of a key are finitely many, and one ranks among them.         *)
LEMMA PlacesRanked ==
  ASSUME NEW w, IsSequence(w), NEW k
  PROVE  /\ Places(w, k) \subseteq 1..Len(w)
         /\ IsFiniteSet(Places(w, k)) /\ Cardinality(Places(w, k)) \in Nat
         /\ \A n \in Places(w, k) : Rank(w, k, n) \in 1..Cardinality(Places(w, k))
<1>1. Places(w, k) \subseteq 1..Len(w) /\ Len(w) \in Nat
  BY SequenceLength DEF Places
<1>2. IsFiniteSet(Places(w, k))
  <2>1. IsFiniteSet(1..Len(w))
    BY <1>1, FS_Interval
  <2> QED
    BY <1>1, <2>1, FS_Subset
<1>3. Cardinality(Places(w, k)) \in Nat
  BY <1>2, FS_CardinalityType
<1>4. ASSUME NEW n \in Places(w, k)
      PROVE  Rank(w, k, n) \in 1..Cardinality(Places(w, k))
  <2> DEFINE R == {m \in Places(w, k) : m <= n}
  <2>1. R \in SUBSET Places(w, k) /\ {n} \in SUBSET R
    BY <1>1
  <2> HIDE DEF R
  <2>2. IsFiniteSet(R) /\ Cardinality(R) <= Cardinality(Places(w, k))
    BY <1>2, <2>1, FS_Subset
  <2>3. Cardinality({n}) <= Cardinality(R) /\ Cardinality({n}) = 1
    BY <2>1, <2>2, FS_Subset, FS_Singleton
  <2>4. Cardinality(R) \in Nat
    BY <2>2, FS_CardinalityType
  <2>5. Rank(w, k, n) = Cardinality(R)
    BY DEF Rank, R
  <2> QED
    BY <1>3, <2>2, <2>3, <2>4, <2>5
<1> QED
  BY <1>1, <1>2, <1>3, <1>4

(* v is w with p at the place N.                                            *)
OneMore(w, v, p, N) ==
  \A k :
    /\ p[1] # k => Places(v, k) = Places(w, k)
    /\ p[1] = k => /\ Cardinality(Places(v, k)) = Cardinality(Places(w, k)) + 1
                   /\ Rank(v, k, N) = Cardinality(Places(w, k)) + 1
    /\ \A n \in DOMAIN w : Rank(v, k, n) = Rank(w, k, n)

(* One more call is at a place of its own, after the others.                *)
LEMMA PlacesAppend ==
  ASSUME NEW w, IsSequence(w), NEW p
  PROVE  OneMore(w, Append(w, p), p, Len(w) + 1)
<1> DEFINE v == Append(w, p)
           N == Len(w) + 1
<1> SUFFICES ASSUME NEW k
             PROVE  /\ p[1] # k => Places(v, k) = Places(w, k)
                    /\ p[1] = k => /\ Cardinality(Places(v, k)) = Cardinality(Places(w, k)) + 1
                                   /\ Rank(v, k, N) = Cardinality(Places(w, k)) + 1
                    /\ \A n \in DOMAIN w : Rank(v, k, n) = Rank(w, k, n)
  BY DEF OneMore
<1>1. /\ Len(w) \in Nat /\ DOMAIN w = 1..Len(w) /\ DOMAIN v = 1..N /\ v[N] = p
      /\ \A i \in 1..Len(w) : v[i] = w[i]
  BY SequenceLength, SequenceAppend
<1> HIDE DEF v
<1>2. Places(v, k) = IF p[1] = k THEN Places(w, k) \cup {N} ELSE Places(w, k)
  BY <1>1 DEF Places
<1>3. Places(w, k) \subseteq 1..Len(w) /\ IsFiniteSet(Places(w, k)) /\ N \notin Places(w, k)
  BY <1>1, PlacesRanked
<1>4. Cardinality(Places(w, k) \cup {N}) = Cardinality(Places(w, k)) + 1
  BY <1>3, FS_AddElement
<1>5. ASSUME p[1] = k
      PROVE  Rank(v, k, N) = Cardinality(Places(w, k)) + 1
  <2>1. {m \in Places(v, k) : m <= N} = Places(w, k) \cup {N}
    BY <1>1, <1>2, <1>3, <1>5
  <2> QED
    BY <1>4, <2>1 DEF Rank
<1>6. ASSUME NEW n \in DOMAIN w
      PROVE  Rank(v, k, n) = Rank(w, k, n)
  <2>1. {m \in Places(v, k) : m <= n} = {m \in Places(w, k) : m <= n}
    BY <1>1, <1>2, <1>3, <1>6
  <2> QED
    BY <2>1 DEF Rank
<1> QED
  BY <1>2, <1>4, <1>5, <1>6

-----------------------------------------------------------------------------
(* The parameters                                                           *)

(* The parameters ps carry what is wanted; ParamsAsked is this of a query.  *)
CarriesAll(ps, wanted, negations) ==
  \A n \in DOMAIN wanted :
    /\ wanted[n][1] \in DOMAIN ps \ {"order"}
    /\ Carries(ps[wanted[n][1]][Rank(wanted, wanted[n][1], n)], wanted[n], negations)
CountsAll(ps, wanted) ==
  \A k \in DOMAIN ps \ {"order"} : IsSequence(ps[k]) /\ Len(ps[k]) = Cardinality(Places(wanted, k))
Fits(ps, wanted, negations) ==
  IsSequence(wanted) /\ CountsAll(ps, wanted) /\ CarriesAll(ps, wanted, negations)

LEMMA FitsLess ==
  ASSUME NEW ps, NEW wanted, NEW negations, NEW fewer, fewer => negations, Fits(ps, wanted, negations)
  PROVE  Fits(ps, wanted, fewer)
BY DEF Fits, CarriesAll, Carries

(* A key that has no parameter yet was not wanted yet.                      *)
LEMMA NewKey ==
  ASSUME NEW ps, NEW wanted, NEW negations, Fits(ps, wanted, negations), NEW key, key \notin DOMAIN ps
  PROVE  Places(wanted, key) = {} /\ Cardinality(Places(wanted, key)) = 0
BY FS_EmptySet DEF Fits, CarriesAll, Places

(* QueryParams.add and the call it is for                                   *)
LEMMA AddFits ==
  ASSUME NEW ps, NEW wanted, NEW negations, Fits(ps, wanted, negations),
         NEW key, key # "order", NEW value, NEW p, p[1] = key, Carries(value, p, negations)
  PROVE  Fits(AddParam(ps, key, value), Append(wanted, p), negations)
<1> DEFINE qs == AddParam(ps, key, value)
           more == Append(wanted, p)
           N == Len(wanted) + 1
<1>1. /\ IsSequence(wanted) /\ Len(wanted) \in Nat /\ DOMAIN wanted = 1..Len(wanted)
      /\ IsSequence(more) /\ DOMAIN more = 1..N /\ more[N] = p
      /\ \A n \in DOMAIN wanted : more[n] = wanted[n]
  <2>1. IsSequence(wanted)
    BY DEF Fits
  <2> QED
    BY <2>1, SequenceLength, SequenceAppend
<1>2. /\ DOMAIN qs = DOMAIN ps \cup {key}
      /\ \A k \in DOMAIN ps : k # key => qs[k] = ps[k]
      /\ qs[key] = IF key \in DOMAIN ps THEN Append(ps[key], value) ELSE <<value>>
  BY DEF AddParam
<1>3. OneMore(wanted, more, p, N)
  BY <1>1, PlacesAppend
<1> HIDE DEF qs, more, N
<1>4. /\ \A k : k # key => Places(more, k) = Places(wanted, k)
      /\ Cardinality(Places(more, key)) = Cardinality(Places(wanted, key)) + 1
      /\ Rank(more, key, N) = Cardinality(Places(wanted, key)) + 1
      /\ \A k : \A n \in DOMAIN wanted : Rank(more, k, n) = Rank(wanted, k, n)
  BY <1>3 DEF OneMore
<1>5. /\ IsSequence(qs[key]) /\ Len(qs[key]) = Cardinality(Places(more, key))
      /\ qs[key][Cardinality(Places(wanted, key)) + 1] = value
      /\ \A i \in 1..Cardinality(Places(wanted, key)) : qs[key][i] = ps[key][i]
  <2>1. CASE key \in DOMAIN ps
    <3>1. IsSequence(ps[key]) /\ Len(ps[key]) = Cardinality(Places(wanted, key))
      BY <2>1 DEF Fits, CountsAll
    <3> QED
      BY <1>2, <1>4, <2>1, <3>1, SequenceAppend
  <2>2. CASE key \notin DOMAIN ps
    <3>1. Cardinality(Places(wanted, key)) = 0
      BY <2>2, NewKey
    <3>2. IsSequence(<<value>>) /\ Len(<<value>>) = 1 /\ <<value>>[1] = value
      BY SequenceOfOne
    <3> QED
      BY <1>2, <1>4, <2>2, <3>1, <3>2
  <2> QED
    BY <2>1, <2>2
<1>6. CountsAll(qs, more)
  BY <1>2, <1>4, <1>5 DEF Fits, CountsAll
<1>7. ASSUME NEW n \in DOMAIN more
      PROVE  /\ more[n][1] \in DOMAIN qs \ {"order"}
             /\ Carries(qs[more[n][1]][Rank(more, more[n][1], n)], more[n], negations)
  <2>1. CASE n = N
    BY <1>1, <1>2, <1>4, <1>5, <2>1
  <2>2. CASE n # N
    <3> DEFINE k == wanted[n][1]
    <3>1. n \in DOMAIN wanted /\ more[n] = wanted[n]
      BY <1>1, <2>2 DEF N
    <3>2. k \in DOMAIN ps \ {"order"} /\ Carries(ps[k][Rank(wanted, k, n)], wanted[n], negations)
      BY <3>1 DEF Fits, CarriesAll
    <3>3. n \in Places(wanted, k)
      BY <3>1 DEF Places
    <3>4. Rank(wanted, k, n) \in 1..Cardinality(Places(wanted, k)) /\ Rank(more, k, n) = Rank(wanted, k, n)
      BY <1>1, <1>4, <3>1, <3>3, PlacesRanked
    <3> HIDE DEF k
    <3>5. qs[k][Rank(wanted, k, n)] = ps[k][Rank(wanted, k, n)]
      BY <1>2, <1>5, <3>2, <3>4
    <3>6. k \in DOMAIN qs \ {"order"} /\ Carries(qs[k][Rank(more, k, n)], more[n], negations)
      BY <1>2, <3>1, <3>2, <3>4, <3>5
    <3> QED
      BY <3>1, <3>6 DEF k
  <2> QED
    BY <2>1, <2>2
<1> QED
  BY <1>1, <1>6, <1>7 DEF Fits, CarriesAll, qs, more

(* QueryParams.set of the order                                             *)
LEMMA SetFits ==
  ASSUME NEW ps, NEW wanted, NEW negations, Fits(ps, wanted, negations), NEW value
  PROVE  Fits(SetParam(ps, "order", value), wanted, negations)
<1> DEFINE qs == SetParam(ps, "order", value)
<1>1. DOMAIN qs \ {"order"} = DOMAIN ps \ {"order"} /\ \A k \in DOMAIN ps \ {"order"} : qs[k] = ps[k]
  BY DEF SetParam
<1> HIDE DEF qs
<1> QED
  BY <1>1 DEF Fits, CountsAll, CarriesAll, qs

(* The values each key of a new request has: one, the one asked for         *)
LEMMA NewFits ==
  ASSUME NEW keys, IsSequence(keys), \A i \in DOMAIN keys : keys[i] \in Plain,
         \A i, j \in DOMAIN keys : keys[i] = keys[j] => i = j
  PROVE  Fits([k \in Range(keys) |-> <<"value">>], [i \in DOMAIN keys |-> Wants(keys[i], "value", FALSE)], TRUE)
<1> DEFINE ps == [k \in Range(keys) |-> <<"value">>]
           wanted == [i \in DOMAIN keys |-> Wants(keys[i], "value", FALSE)]
<1>1. /\ Len(keys) \in Nat /\ DOMAIN keys = 1..Len(keys)
      /\ DOMAIN wanted = DOMAIN keys /\ \A i \in DOMAIN keys : wanted[i] = Wants(keys[i], "value", FALSE)
      /\ DOMAIN ps = Range(keys) /\ \A k \in Range(keys) : ps[k] = <<"value">>
  BY SequenceLength
<1>2. IsSequence(wanted)
  <2> DEFINE S == {Wants(keys[i], "value", FALSE) : i \in DOMAIN keys}
  <2>1. wanted \in [1..Len(keys) -> S]
    BY <1>1
  <2> HIDE DEF S, wanted
  <2>2. wanted \in Seq(S)
    BY <1>1, <2>1, SeqDef
  <2> QED
    BY <2>2, SomeSequence
<1> HIDE DEF ps, wanted
<1>3. ASSUME NEW i \in DOMAIN keys
      PROVE  /\ Cardinality(Places(wanted, keys[i])) = 1 /\ Rank(wanted, keys[i], i) = 1
             /\ keys[i] \in DOMAIN ps /\ ps[keys[i]] = <<"value">>
  <2>1. Places(wanted, keys[i]) = {i}
    <3>1. ASSUME NEW j \in DOMAIN keys
          PROVE  wanted[j][1] = keys[j]
      <4>1. wanted[j] = <<keys[j], "value", FALSE>>
        BY <1>1, Zenon DEF Wants
      <4> QED
        BY <4>1
    <3> QED
      BY <1>1, <3>1 DEF Places
  <2>2. {m \in Places(wanted, keys[i]) : m <= i} = {i}
    BY <1>1, <2>1
  <2> QED
    BY <1>1, <2>1, <2>2, FS_Singleton DEF Rank, Range
<1>4. CountsAll(ps, wanted)
  <2> SUFFICES ASSUME NEW k \in DOMAIN ps
               PROVE  IsSequence(ps[k]) /\ Len(ps[k]) = Cardinality(Places(wanted, k))
    BY DEF CountsAll
  <2>1. PICK i \in DOMAIN keys : k = keys[i]
    BY <1>1 DEF Range
  <2> QED
    BY <1>3, <2>1, SequenceOfOne
<1>5. CarriesAll(ps, wanted, TRUE)
  <2> SUFFICES ASSUME NEW i \in DOMAIN keys
               PROVE  /\ wanted[i][1] \in DOMAIN ps \ {"order"}
                      /\ Carries(ps[wanted[i][1]][Rank(wanted, wanted[i][1], i)], wanted[i], TRUE)
    BY <1>1 DEF CarriesAll
  <2>1. wanted[i] = <<keys[i], "value", FALSE>> /\ keys[i] \in Plain
    BY <1>1 DEF Wants
  <2>2. keys[i] # "order"
    BY <2>1 DEF Plain
  <2> QED
    BY <1>3, <2>1, <2>2 DEF Carries
<1> QED
  BY <1>2, <1>4, <1>5 DEF Fits, ps, wanted

-----------------------------------------------------------------------------
(* What was asked for is in the parameters                                  *)

(* ps carries what a asks for, ng being the negation left pending.          *)
Carried(ps, a, ng) ==
  /\ DOMAIN a = {"prefs", "params", "order", "negates", "skipped"}
  /\ a.negates \in BOOLEAN /\ a.skipped \in BOOLEAN /\ ng \in BOOLEAN
  /\ ~a.skipped => ng = a.negates
  /\ IsSequence(a.order)
  /\ Fits(ps, a.params, ~a.skipped)
  /\ IF a.order = <<>> THEN "order" \notin DOMAIN ps ELSE "order" \in DOMAIN ps /\ ps["order"] = <<a.order>>

(* Nothing was asked for before the first call.                             *)
Fresh ==
  /\ params = <<>> /\ asked.params = <<>> /\ asked.order = <<>>
  /\ ~asked.negates /\ ~asked.skipped /\ negate = FALSE

ParamsInvariant == Carried(params, asked, negate) /\ (latest = "table" => Fresh)

(* a grew to b: it may ask for a negation, or skip the one pending.         *)
Grew(a, b) ==
  /\ DOMAIN b = DOMAIN a /\ b.order = a.order
  /\ b.negates \in BOOLEAN /\ b.skipped \in BOOLEAN /\ (a.skipped => b.skipped)

LEMMA CarriedAdd ==
  ASSUME NEW ps, NEW a, NEW ng, Carried(ps, a, ng),
         NEW key, key # "order", NEW value, NEW p, p[1] = key,
         NEW b, Grew(a, b), b.params = Append(a.params, p), Carries(value, p, ~b.skipped),
         NEW ng2 \in BOOLEAN, ~b.skipped => ng2 = b.negates
  PROVE  Carried(AddParam(ps, key, value), b, ng2)
<1>1. Fits(ps, a.params, ~b.skipped)
  BY FitsLess DEF Carried, Grew
<1>2. Fits(AddParam(ps, key, value), b.params, ~b.skipped)
  BY <1>1, AddFits
<1>3. /\ DOMAIN AddParam(ps, key, value) = DOMAIN ps \cup {key}
      /\ "order" \in DOMAIN ps => AddParam(ps, key, value)["order"] = ps["order"]
  BY DEF AddParam
<1> QED
  BY <1>2, <1>3 DEF Carried, Grew

(* What happens to them in a step of building                               *)
ParamsStep == Carried(params', asked', negate') /\ latest' # "table"

LEMMA NewRequestCarried ==
  ASSUME ParamsInvariant, NEW verb, NEW prefer, NEW builder, builder # "table",
         NEW keys, IsSequence(keys), \A i \in DOMAIN keys : keys[i] \in Plain,
         \A i, j \in DOMAIN keys : keys[i] = keys[j] => i = j,
         NewRequest(verb, keys, prefer, builder)
  PROVE  ParamsStep
<1> DEFINE ps == [k \in Range(keys) |-> <<"value">>]
           wanted == [i \in DOMAIN keys |-> Wants(keys[i], "value", FALSE)]
<1>1. Fits(ps, wanted, TRUE)
  BY NewFits
<1>2. "order" \notin DOMAIN ps
  BY DEF Plain, Range
<1> HIDE DEF ps, wanted
<1>3. /\ latest = "table" /\ latest' = builder /\ negate' = negate /\ params' = ps
      /\ asked' = [asked EXCEPT !.prefs = prefer, !.params = wanted]
  BY DEF NewRequest, ps, wanted
<1>4. Fresh
  BY <1>3 DEF ParamsInvariant
<1>5. /\ DOMAIN asked' = DOMAIN asked /\ asked'.params = wanted /\ asked'.order = asked.order
      /\ asked'.negates = asked.negates /\ asked'.skipped = asked.skipped
  BY <1>3 DEF ParamsInvariant, Carried
<1>6. ~asked'.skipped /\ asked'.order = <<>>
  BY <1>4, <1>5 DEF Fresh
<1> QED
  BY <1>1, <1>2, <1>3, <1>5, <1>6 DEF ParamsInvariant, Carried, ParamsStep

(* Of calls: those that add one parameter,                                  *)
LEMMA OneAdded ==
  ASSUME ParamsInvariant, latest' # "table", NEW key, key # "order", NEW value, NEW wish, NEW negated,
         params' = AddParam(params, key, value),
         Grew(asked, asked'), asked'.params = Append(asked.params, Wants(key, wish, negated)),
         Carries(value, Wants(key, wish, negated), ~asked'.skipped),
         negate' \in BOOLEAN, ~asked'.skipped => negate' = asked'.negates
  PROVE  ParamsStep
<1>1. Carried(params, asked, negate)
  BY DEF ParamsInvariant
<1>2. Wants(key, wish, negated)[1] = key
  BY DEF Wants
<1>3. Carried(AddParam(params, key, value), asked', negate')
  BY <1>1, <1>2, CarriedAdd
<1> QED
  BY <1>3 DEF ParamsStep

(* those that add two,                                                      *)
LEMMA TwoAdded ==
  ASSUME ParamsInvariant, latest' # "table", NEW key1, key1 # "order", NEW value1, NEW wish1, NEW negated1,
         NEW key2, key2 # "order", NEW value2, NEW wish2, NEW negated2,
         params' = AddParam(AddParam(params, key1, value1), key2, value2),
         Grew(asked, asked'), asked'.params = Append(Append(asked.params, Wants(key1, wish1, negated1)),
                                                     Wants(key2, wish2, negated2)),
         Carries(value1, Wants(key1, wish1, negated1), ~asked'.skipped),
         Carries(value2, Wants(key2, wish2, negated2), ~asked'.skipped),
         negate' \in BOOLEAN, ~asked'.skipped => negate' = asked'.negates
  PROVE  ParamsStep
<1> DEFINE p1 == Wants(key1, wish1, negated1)
           p2 == Wants(key2, wish2, negated2)
           b == [asked EXCEPT !.params = Append(asked.params, p1), !.negates = asked'.negates,
                              !.skipped = asked'.skipped]
           ps == AddParam(params, key1, value1)
<1>1. Carried(params, asked, negate)
  BY DEF ParamsInvariant
<1>2. /\ Grew(asked, b) /\ b.params = Append(asked.params, p1)
      /\ b.skipped = asked'.skipped /\ b.negates = asked'.negates
  BY <1>1 DEF Grew, Carried
<1>3. Grew(b, asked') /\ asked'.params = Append(b.params, p2)
  BY <1>2 DEF Grew
<1>0. p1[1] = key1 /\ p2[1] = key2
  BY DEF Wants
<1> HIDE DEF b, ps, p1, p2
<1>4. Carries(value1, p1, ~b.skipped) /\ (~b.skipped => negate' = b.negates)
  BY <1>2 DEF p1
<1>5. Carried(ps, b, negate')
  BY <1>0, <1>1, <1>2, <1>4, CarriedAdd DEF ps
<1>6. Carried(AddParam(ps, key2, value2), asked', negate')
  <2>1. Carries(value2, p2, ~asked'.skipped)
    BY DEF p2
  <2> QED
    BY <1>0, <1>3, <1>5, <2>1, CarriedAdd
<1> QED
  BY <1>6 DEF ParamsStep, ps

(* and those that add none.                                                 *)
LEMMA NoneAdded ==
  ASSUME ParamsInvariant, latest' # "table", params' = params,
         DOMAIN asked' = DOMAIN asked, asked'.params = asked.params, asked'.order = asked.order,
         asked'.negates \in BOOLEAN, asked'.skipped = asked.skipped,
         negate' \in BOOLEAN, ~asked.skipped => negate' = asked'.negates
  PROVE  ParamsStep
BY DEF ParamsInvariant, Carried, ParamsStep

(* What a preference may be beside the others: it is the only one of its    *)
(* name, but for max-affected.                                              *)
PrefsFit(ps) ==
  /\ \A p, q \in ps : p[1] = q[1] /\ p[1] # "max-affected" => p = q
  /\ \A p \in ps : p[1] = "handling" => p = <<"handling", "strict">>

PrefsInvariant ==
  heap["client"].prefer = {} /\ latest # "table" =>
    /\ asked.prefs = heap["own"].prefer
    /\ PrefsFit(heap["own"].prefer)
    /\ "rpc" \in builders =>
         \A p \in heap["own"].prefer : p[1] = "return" => p = <<"return", "representation">>

(* The preferences a request starts with are single.                        *)
LEMMA PreWriteFits ==
  ASSUME NEW count, NEW returning, NEW resolution,
         NEW ps, ps \subseteq PreWrite(count, returning) \cup {<<"resolution", resolution>>, <<"missing", "default">>}
  PROVE  PrefsFit(ps)
<1>1. \A p \in ps : \/ p = <<"return", returning>> \/ p = <<"count", count>>
                    \/ p = <<"resolution", resolution>> \/ p = <<"missing", "default">>
  BY DEF PreWrite, CountPref, OneIf
<1> QED
  BY <1>1 DEF PrefsFit

(* A new request asks for the preferences it has, and for its parameters.   *)
Asks(builder, prefer) ==
  /\ ParamsStep
  /\ PrefsFit(prefer) /\ asked'.prefs = prefer
  /\ heap["client"].prefer = {} => heap'["own"].prefer = prefer
  /\ latest' = builder /\ builders' = {builder}
  /\ builder = "rpc" => \A p \in prefer : p[1] # "return"

LEMMA NewRequestAsks ==
  ASSUME HeadersInvariant, ParamsInvariant, NEW verb, NEW keys, NEW prefer, NEW builder, builder # "table",
         NewRequest(verb, keys, prefer, builder),
         keys \in {<<>>, <<"columns">>, <<"on_conflict">>, <<"on_conflict", "columns">>,
                   <<"select">>, <<"argument">>},
         PrefsFit(prefer), builder = "rpc" => \A p \in prefer : p[1] # "return"
  PROVE  Asks(builder, prefer)
<1>1. /\ IsSequence(keys) /\ \A i \in DOMAIN keys : keys[i] \in Plain
      /\ \A i, j \in DOMAIN keys : keys[i] = keys[j] => i = j
  <2>1. CASE keys = <<>>
    BY <2>1, EmptySequence
  <2>2. ASSUME NEW k \in Plain, keys = <<k>>
        PROVE  <1>1!1
    BY <2>2, SequenceOfOne, SequenceLength
  <2>3. CASE keys = <<"on_conflict", "columns">>
    <3>1. keys \in Seq(Plain) /\ Len(keys) = 2 /\ keys[1] = "on_conflict" /\ keys[2] = "columns"
      BY <2>3 DEF Plain
    <3>2. IsSequence(keys) /\ DOMAIN keys = 1..2
      BY <3>1, SomeSequence
    <3> QED
      BY <3>1, <3>2 DEF Plain
  <2> QED
    BY <2>1, <2>2, <2>3 DEF Plain
<1>2. ParamsStep
  BY <1>1, NewRequestCarried
<1>3. /\ latest' = builder /\ builders' = {builder}
      /\ asked' = [asked EXCEPT !.prefs = prefer,
                                !.params = [i \in DOMAIN keys |-> Wants(keys[i], "value", FALSE)]]
      /\ heap' = [heap EXCEPT !["own"] =
                    [accept |-> heap["client"].accept,
                     prefer |-> IF heap["client"].prefer # {} THEN heap["client"].prefer ELSE prefer]]
  BY DEF NewRequest, OwnHeaders
<1>4. asked'.prefs = prefer
  BY <1>3 DEF ParamsInvariant, Carried
<1>5. heap["client"].prefer = {} => heap'["own"].prefer = prefer
  BY <1>3 DEF HeadersInvariant
<1> QED
  BY <1>2, <1>3, <1>4, <1>5 DEF Asks

LEMMA RequestAsks ==
  ASSUME HeadersInvariant, ParamsInvariant, SelectRows \/ Insert \/ Upsert \/ UpdateRows \/ DeleteRows \/ Rpc
  PROVE  \E builder, prefer : Asks(builder, prefer)
<1>0. \A count : PrefsFit(CountPref(count)) /\ \A p \in CountPref(count) : p[1] # "return"
  BY DEF PrefsFit, CountPref, OneIf
<1>1. CASE SelectRows
  <2>1. PICK verb, count : NewRequest(verb, <<"select">>, CountPref(count), "select")
    BY <1>1 DEF SelectRows
  <2> QED
    BY <1>0, <2>1, NewRequestAsks
<1>2. CASE Insert
  <2>1. PICK count \in Counts, r \in {"minimal", "representation"},
             upsert \in BOOLEAN, nulls \in BOOLEAN, keys \in {<<>>, <<"columns">>} :
          NewRequest("POST", keys, PreInsert(count, r, upsert, nulls), "query")
    BY <1>2 DEF Insert
  <2>2. PreInsert(count, r, upsert, nulls)
          \subseteq PreWrite(count, r) \cup {<<"resolution", "merge">>, <<"missing", "default">>}
    BY DEF PreInsert, OneIf
  <2>3. PrefsFit(PreInsert(count, r, upsert, nulls))
    BY <2>2, PreWriteFits
  <2> QED
    BY <2>1, <2>3, NewRequestAsks
<1>3. CASE Upsert
  <2>1. PICK count \in Counts, r \in {"minimal", "representation"},
             ignore \in BOOLEAN, nulls \in BOOLEAN,
             keys \in {<<>>, <<"columns">>, <<"on_conflict">>, <<"on_conflict", "columns">>} :
          NewRequest("POST", keys, PreUpsert(count, r, ignore, nulls), "query")
    BY <1>3 DEF Upsert
  <2>2. PreUpsert(count, r, ignore, nulls)
          \subseteq PreWrite(count, r)
                    \cup {<<"resolution", IF ignore THEN "ignore" ELSE "merge">>, <<"missing", "default">>}
    BY DEF PreUpsert, OneIf
  <2>3. PrefsFit(PreUpsert(count, r, ignore, nulls))
    BY <2>2, PreWriteFits
  <2> QED
    BY <2>1, <2>3, NewRequestAsks
<1>4. CASE UpdateRows \/ DeleteRows
  <2>1. PICK verb, count, r : NewRequest(verb, <<>>, PreWrite(count, r), "filter")
    BY <1>4 DEF UpdateRows, DeleteRows
  <2>2. PrefsFit(PreWrite(count, r))
    BY PreWriteFits
  <2> QED
    BY <2>1, <2>2, NewRequestAsks
<1>5. CASE Rpc
  <2>1. PICK verb \in {"HEAD", "GET", "POST"}, count \in Counts, keys \in {<<>>, <<"argument">>} :
          NewRequest(verb, keys, CountPref(count), "rpc")
    BY <1>5 DEF Rpc
  <2> QED
    BY <1>0, <2>1, NewRequestAsks
<1> QED
  BY <1>1, <1>2, <1>3, <1>4, <1>5

(* The calls on a builder keep the parameters what was asked for.           *)
LEMMA CallParams ==
  ASSUME ParamsInvariant, latest' # "table", NEW b \in builders \ {"table"},
         Stays(b)
  PROVE  ParamsStep
<1>a. /\ DOMAIN asked = {"prefs", "params", "order", "negates", "skipped"}
      /\ asked.negates \in BOOLEAN /\ asked.skipped \in BOOLEAN /\ negate \in BOOLEAN
      /\ ~asked.skipped => negate = asked.negates
  BY DEF ParamsInvariant, Carried
<1>b. \A c \in Columns : c \notin Plain /\ c # "order"
  BY ColumnsAssumption
<1>c. \A negations : /\ Carries("value", Wants("select", "value", FALSE), negations)
                       /\ Carries("number", Wants("limit", "number", FALSE), negations)
                       /\ Carries("number", Wants("offset", "number", FALSE), negations)
  BY DEF Carries, Wants, Plain
<1>1. CASE SelectColumns(b)
  BY <1>a, <1>c, <1>1, OneAdded DEF SelectColumns, Grew
<1>2. CASE Retry(b)
  BY <1>a, <1>2, NoneAdded DEF Retry
<1>3. CASE Not(b)
  BY <1>a, <1>3, NoneAdded DEF Not
<1>4. CASE Or(b)
  <2>1. /\ Grew(asked, asked') /\ asked'.params = Append(asked.params, Wants("or", "conditions", asked.negates))
        /\ asked'.negates = FALSE /\ asked'.skipped = (asked.skipped \/ asked.negates)
        /\ params' = AddParam(params, "or", <<"conditions", FALSE>>) /\ negate' = negate
    BY <1>a, <1>4 DEF Or, Grew
  <2>2. Carries(<<"conditions", FALSE>>, Wants("or", "conditions", asked.negates), ~asked'.skipped)
    BY <1>a, <2>1 DEF Carries, Wants, Plain
  <2> QED
    BY <1>a, <2>1, <2>2, OneAdded
<1>5. CASE Limit(b)
  BY <1>a, <1>c, <1>5, OneAdded DEF Limit, Page, Grew
<1>6. CASE Offset(b)
  BY <1>a, <1>c, <1>6, OneAdded DEF Offset, Page, Grew
<1>7. CASE RangeOfRows(b)
  BY <1>a, <1>c, <1>7, TwoAdded DEF RangeOfRows, Page, Grew
<1>8. ASSUME NEW c \in Columns, NEW name \in Calls, Filter(b, c, name)
      PROVE  ParamsStep
  <2>1. /\ Grew(asked, asked') /\ asked'.params = Append(asked.params, Wants(c, Operator[name], asked.negates))
        /\ asked'.negates = FALSE /\ asked'.skipped = asked.skipped
        /\ params' = AddParam(params, c, <<Operator[name], negate>>) /\ negate' = FALSE
    BY <1>a, <1>8 DEF Filter, Grew
  <2>2. Carries(<<Operator[name], negate>>, Wants(c, Operator[name], asked.negates), ~asked'.skipped)
    BY <1>a, <1>b, <2>1 DEF Carries, Wants
  <2> QED
    BY <1>a, <1>b, <2>1, <2>2, OneAdded
<1>9. ASSUME NEW c \in Columns, NEW d \in Columns, Match(b, c, d)
      PROVE  ParamsStep
  <2>1. /\ Grew(asked, asked')
        /\ asked'.params = Append(Append(asked.params, Wants(c, "eq", asked.negates)), Wants(d, "eq", FALSE))
        /\ asked'.negates = FALSE /\ asked'.skipped = asked.skipped /\ negate' = FALSE
        /\ params' = AddParam(AddParam(params, c, <<"eq", negate>>), d, <<"eq", FALSE>>)
    BY <1>a, <1>9 DEF Match, Grew
  <2>2. /\ Carries(<<"eq", negate>>, Wants(c, "eq", asked.negates), ~asked'.skipped)
        /\ Carries(<<"eq", FALSE>>, Wants(d, "eq", FALSE), ~asked'.skipped)
    BY <1>a, <1>b, <2>1 DEF Carries, Wants
  <2> QED
    BY <1>a, <1>b, <2>1, <2>2, TwoAdded
<1>10. ASSUME NEW c \in Columns, Order(b, c)
       PROVE  ParamsStep
  <2> DEFINE next == Append(asked.order, c)
  <2>1. /\ DOMAIN asked' = DOMAIN asked /\ asked'.params = asked.params /\ asked'.order = next
        /\ asked'.negates = asked.negates /\ asked'.skipped = asked.skipped
        /\ params' = SetParam(params, "order", Ordered(c)) /\ negate' = negate
    BY <1>a, <1>10 DEF Order
  <2>2. IsSequence(next) /\ next # <<>>
    BY SequenceAppend DEF ParamsInvariant, Carried
  <2>3. Ordered(c) = next
    <3>1. CASE asked.order = <<>>
      BY <3>1 DEF ParamsInvariant, Carried, Ordered
    <3>2. CASE asked.order # <<>>
      BY <3>2 DEF ParamsInvariant, Carried, Ordered
    <3> QED
      BY <3>1, <3>2
  <2> HIDE DEF next
  <2>4. "order" \in DOMAIN params' /\ params'["order"] = <<next>>
    BY <2>1, <2>3 DEF SetParam
  <2>5. Fits(params', asked'.params, ~asked'.skipped)
    BY <2>1, SetFits DEF ParamsInvariant, Carried
  <2> QED
    BY <1>a, <2>1, <2>2, <2>4, <2>5 DEF Carried, ParamsStep
<1>11. ASSUME NEW n \in 1..2, MaxAffected(b, n)
       PROVE  ParamsStep
  BY <1>a, <1>11, NoneAdded DEF MaxAffected
<1> QED
  BY <1>1, <1>2, <1>3, <1>4, <1>5, <1>6, <1>7, <1>8, <1>9, <1>10, <1>11 DEF Stays

(* One more preference, or another in the place of one                      *)
LEMMA MorePrefs ==
  ASSUME HeadersInvariant, PrefsInvariant, latest # "table", headers' = headers,
         \A b \in builders' : b \in builders \/ b # "rpc",
         NEW ps, SetPrefer(ps),
         heap["client"].prefer = {} /\ asked.prefs = heap["own"].prefer /\ PrefsFit(heap["own"].prefer)
           => /\ asked'.prefs = ps /\ PrefsFit(ps)
              /\ \A p \in ps : p[1] = "return" => p \in heap["own"].prefer \/ p = <<"return", "representation">>
  PROVE  PrefsInvariant'
<1>1. heap'["client"] = heap["client"] /\ heap'["own"].prefer = ps
  BY DEF HeadersInvariant, HeadersObject, SetPrefer
<1> QED
  BY <1>1 DEF PrefsInvariant

(* Any other call leaves them.                                              *)
LEMMA SamePrefs ==
  ASSUME PrefsInvariant, latest # "table", \A b \in builders' : b \in builders \/ b # "rpc",
         asked'.prefs = asked.prefs, heap'["client"] = heap["client"], heap'["own"].prefer = heap["own"].prefer
  PROVE  PrefsInvariant'
BY DEF PrefsInvariant

LEMMA ShapedPrefs ==
  ASSUME HeadersInvariant, PrefsInvariant, NEW b \in builders \ {"table"}, NEW accept, NEW r,
         r # "rpc" \/ b = "rpc", Shaped(b, accept, r)
  PROVE  PrefsInvariant'
<1>1. latest # "table" /\ \A k \in builders' : k \in builders \/ k # "rpc"
  BY DEF Shaped, Call, HeadersInvariant, Untouched
<1>2. /\ asked'.prefs = asked.prefs /\ heap'["client"] = heap["client"]
      /\ heap'["own"].prefer = heap["own"].prefer
  BY DEF Shaped, SetAccept, HeadersInvariant, HeadersObject, Untouched
<1> QED
  BY <1>1, <1>2, SamePrefs

LEMMA CallPrefs ==
  ASSUME HeadersInvariant, ParamsInvariant, PrefsInvariant, NEW b \in builders \ {"table"},
         Stays(b)
  PROVE  PrefsInvariant'
<1>1. Call(b, b)
  BY DEF Stays, SelectColumns, Retry, Not, Or, Limit, Offset, RangeOfRows, Page, Filter, Order, Match, MaxAffected
<1>2. /\ latest # "table" /\ headers' = headers /\ builders' = builders /\ Prefer = heap["own"].prefer
      /\ DOMAIN asked = {"prefs", "params", "order", "negates", "skipped"}
  BY <1>1 DEF Call, HeadersInvariant, Untouched, Prefer, ParamsInvariant, Carried
<1>3. CASE SelectColumns(b)
  <2> DEFINE ps == ReturnRows(heap["own"].prefer)
  <2>1. SetPrefer(ps) /\ asked'.prefs = Representation(asked.prefs)
    BY <1>2, <1>3 DEF SelectColumns
  <2>2. ps = Representation(heap["own"].prefer)
    BY DEF ReturnRows, Representation, Kept
  <2>3. PrefsFit(heap["own"].prefer) => PrefsFit(ps)
    BY DEF PrefsFit, ReturnRows, Kept
  <2>4. \A p \in ps : p[1] = "return" => p = <<"return", "representation">>
    BY DEF ReturnRows, Kept
  <2> HIDE DEF ps
  <2> QED
    BY <1>2, <2>1, <2>2, <2>3, <2>4, MorePrefs
<1>4. ASSUME NEW n \in 1..2, MaxAffected(b, n)
      PROVE  PrefsInvariant'
  <2> DEFINE ps == heap["own"].prefer \cup {<<"handling", "strict">>, <<"max-affected", n>>}
  <2>1. SetPrefer(ps) /\ asked'.prefs = asked.prefs \cup {<<"handling", "strict">>, <<"max-affected", n>>}
    BY <1>2, <1>4 DEF MaxAffected
  <2>2. PrefsFit(heap["own"].prefer) => PrefsFit(ps)
    BY DEF PrefsFit
  <2>3. \A p \in ps : p[1] = "return" => p \in heap["own"].prefer
    OBVIOUS
  <2>4. asked.prefs = heap["own"].prefer => asked'.prefs = ps
    BY <2>1
  <2> HIDE DEF ps
  <2> QED
    BY <1>2, <2>1, <2>2, <2>3, <2>4, MorePrefs
<1>5. CASE \/ Retry(b) \/ Not(b) \/ Or(b) \/ Limit(b) \/ Offset(b) \/ RangeOfRows(b)
           \/ \E c \in Columns : \E name \in Calls : Filter(b, c, name)
           \/ \E c \in Columns : Order(b, c)
           \/ \E c, d \in Columns : c # d /\ Match(b, c, d)
  <2>1. heap' = heap /\ asked'.prefs = asked.prefs
    BY <1>2, <1>5 DEF Retry, Not, Or, Limit, Offset, RangeOfRows, Page, Filter, Order, Match
  <2> QED
    BY <1>2, <2>1, SamePrefs
<1> QED
  BY <1>3, <1>4, <1>5 DEF Stays

(* rpc's select takes no return preference away, for a request of its own   *)
(* has none but the one it adds (186).                                      *)
LEMMA SelectResultPrefs ==
  ASSUME HeadersInvariant, ParamsInvariant, PrefsInvariant, SelectResult
  PROVE  PrefsInvariant'
<1> DEFINE ps == heap["own"].prefer \cup {<<"return", "representation">>}
<1>1. /\ "rpc" \in builders /\ latest # "table" /\ headers' = headers /\ builders' = builders
      /\ Prefer = heap["own"].prefer
      /\ DOMAIN asked = {"prefs", "params", "order", "negates", "skipped"}
  BY DEF SelectResult, Call, HeadersInvariant, Untouched, Prefer, ParamsInvariant, Carried
<1>2. SetPrefer(ps) /\ asked'.prefs = Representation(asked.prefs)
  BY <1>1 DEF SelectResult
<1>3. heap'["client"] = heap["client"] /\ heap'["own"].prefer = ps
  BY <1>1, <1>2 DEF HeadersInvariant, HeadersObject, SetPrefer
<1>4. ASSUME heap["client"].prefer = {}
      PROVE  /\ asked'.prefs = ps /\ PrefsFit(ps)
             /\ \A p \in ps : p[1] = "return" => p = <<"return", "representation">>
  <2>1. /\ asked.prefs = heap["own"].prefer /\ PrefsFit(heap["own"].prefer)
        /\ \A p \in heap["own"].prefer : p[1] = "return" => p = <<"return", "representation">>
    BY <1>1, <1>4 DEF PrefsInvariant
  <2>2. Representation(heap["own"].prefer) = ps
    BY <2>1 DEF Representation
  <2>3. PrefsFit(ps)
    BY <2>1 DEF PrefsFit
  <2> QED
    BY <1>2, <2>1, <2>2, <2>3
<1> HIDE DEF ps
<1> QED
  BY <1>3, <1>4 DEF PrefsInvariant

LEMMA BuildKeepsAsked ==
  ASSUME HeadersInvariant, ParamsInvariant, PrefsInvariant, Build
  PROVE  ParamsInvariant' /\ PrefsInvariant'
<1>0. ParamsStep => ParamsInvariant'
  BY DEF ParamsStep, ParamsInvariant
<1>1. CASE SelectRows \/ Insert \/ Upsert \/ UpdateRows \/ DeleteRows \/ Rpc
  <2>1. PICK builder, prefer : Asks(builder, prefer)
    BY <1>1, RequestAsks
  <2>2. heap'["client"] = heap["client"]
    BY BuildKeepsHeaders
  <2> QED
    BY <1>0, <2>1, <2>2 DEF Asks, PrefsInvariant
<1>2. CASE Single \/ Csv \/ Explain \/ SingleResult \/ MaybeSingle
  <2>1. PICK b, accept, r :
          b \in {"select", "rpc"} /\ b \in builders /\ (r # "rpc" \/ b = "rpc") /\ r # "table" /\ Shaped(b, accept, r)
    BY <1>2 DEF Single, Csv, Explain, SingleResult, MaybeSingle, Shaped, Call
  <2>2. PrefsInvariant'
    BY <2>1, ShapedPrefs
  <2>3. latest' # "table" /\ UNCHANGED <<params, negate, asked>>
    BY <2>1 DEF Shaped, Call
  <2> QED
    BY <1>0, <2>2, <2>3 DEF ParamsInvariant
<1>3. CASE SelectResult
  <2>1. PrefsInvariant'
    BY <1>3, SelectResultPrefs
  <2>2. Carries("value", Wants("select", "value", FALSE), ~asked'.skipped)
    BY DEF Carries, Wants, Plain
  <2>3. ParamsStep
    BY <1>3, <2>2, OneAdded DEF SelectResult, Call, Grew, ParamsInvariant, Carried
  <2> QED
    BY <1>0, <2>1, <2>3
<1>4. ASSUME NEW c \in Columns, TextSearch(c)
      PROVE  ParamsInvariant' /\ PrefsInvariant'
  <2>1. /\ latest # "table" /\ latest' = "query" /\ builders' = builders \cup {"query"}
        /\ heap' = heap /\ negate' = negate
        /\ c \notin Plain /\ c # "order"
        /\ params' = AddParam(params, c, <<"fts", FALSE>>)
    BY <1>4, ColumnsAssumption DEF TextSearch, Call, HeadersInvariant, Untouched
  <2>2. /\ Grew(asked, asked') /\ asked'.params = Append(asked.params, Wants(c, "fts", asked.negates))
        /\ asked'.negates = FALSE /\ asked'.skipped = (asked.skipped \/ asked.negates)
        /\ asked'.prefs = asked.prefs
        /\ negate \in BOOLEAN /\ (~asked.skipped => negate = asked.negates)
    BY <1>4 DEF TextSearch, Grew, ParamsInvariant, Carried
  <2>3. Carries(<<"fts", FALSE>>, Wants(c, "fts", asked.negates), ~asked'.skipped)
    BY <2>1, <2>2 DEF Carries, Wants, ParamsInvariant, Carried
  <2>4. ParamsStep
    BY <2>1, <2>2, <2>3, OneAdded
  <2>5. PrefsInvariant'
    BY <2>1, <2>2, SamePrefs
  <2> QED
    BY <1>0, <2>4, <2>5
<1>5. ASSUME NEW b \in builders \ {"table"},
             Stays(b)
      PROVE  ParamsInvariant' /\ PrefsInvariant'
  <2>1. latest' = b
    BY <1>5 DEF Stays, SelectColumns, Retry, Not, Or, Limit, Offset, RangeOfRows, Page, Filter, Order, Match,
                MaxAffected, Call
  <2>2. ParamsStep
    BY <1>5, <2>1, CallParams
  <2>3. PrefsInvariant'
    BY <1>5, CallPrefs
  <2> QED
    BY <1>0, <2>2, <2>3
<1> QED
  BY <1>1, <1>2, <1>3, <1>4, <1>5 DEF Build, Stays

(* The query carries what its calls asked for, in the order they asked: the *)
(* inductive invariant follows every parameter back to the call it is for.  *)
THEOREM AskedIsSentAlways == QuerySpec => []AskedIsSent
<1>1. QueryInit => ParamsInvariant /\ PrefsInvariant
  <2> SUFFICES ASSUME QueryInit
               PROVE  ParamsInvariant /\ PrefsInvariant
    OBVIOUS
  <2>1. /\ latest = "table" /\ params = <<>> /\ negate = FALSE
        /\ asked = [prefs |-> {}, params |-> <<>>, order |-> <<>>, negates |-> FALSE, skipped |-> FALSE]
    BY DEF QueryInit
  <2>2. Fits(<<>>, <<>>, TRUE)
    BY EmptySequence DEF Fits, CountsAll, CarriesAll
  <2>3. Fresh /\ PrefsInvariant
    BY <2>1 DEF Fresh, PrefsInvariant
  <2>4. "order" \notin DOMAIN params /\ IsSequence(asked.order)
    BY <2>1, EmptySequence
  <2> QED
    BY <2>1, <2>2, <2>3, <2>4 DEF ParamsInvariant, Carried
<1>2. HeadersInvariant /\ ParamsInvariant /\ PrefsInvariant /\ [QueryNext]_queryVars
        => ParamsInvariant' /\ PrefsInvariant'
  <2> SUFFICES ASSUME HeadersInvariant, ParamsInvariant, PrefsInvariant, [QueryNext]_queryVars
               PROVE  ParamsInvariant' /\ PrefsInvariant'
    OBVIOUS
  <2>1. CASE Build
    BY <2>1, BuildKeepsAsked
  <2>2. CASE (\E e \in Executions : Run(e)) \/ Finished \/ UNCHANGED queryVars
    <3>1. UNCHANGED building
      BY <2>2 DEF Run, SendQuery, Answer, Finished, queryVars
    <3> QED
      BY <3>1 DEF building, ParamsInvariant, Carried, Fresh, PrefsInvariant
  <2> QED
    BY <2>1, <2>2 DEF QueryNext
<1>3. HeadersInvariant /\ ParamsInvariant /\ PrefsInvariant => AskedIsSent
  <2> SUFFICES ASSUME HeadersInvariant, ParamsInvariant, PrefsInvariant, latest # "table"
               PROVE  ParamsAsked /\ OrderAsked /\ PrefsAsked
    BY DEF AskedIsSent
  <2>1. ParamsAsked
    BY DEF ParamsInvariant, Carried, Fits, CountsAll, CarriesAll, ParamsAsked
  <2>2. OrderAsked
    BY DEF ParamsInvariant, Carried, OrderAsked
  <2>3. PrefsAsked
    BY DEF HeadersInvariant, PrefsInvariant, PrefsFit, PrefsAsked, Prefer
  <2> QED
    BY <2>1, <2>2, <2>3
<1> QED
  BY <1>1, <1>2, <1>3, HeadersInvariantAlways, PTL DEF QuerySpec

=============================================================================
