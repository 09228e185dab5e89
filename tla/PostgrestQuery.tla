---------------------------- MODULE PostgrestQuery ----------------------------
(****************************************************************************)
(* A PostgREST query from from_() or rpc() to what execute() returns: the   *)
(* builders of postgrest/_async/request_builder.py and                      *)
(* base_request_builder.py over one shared RequestConfig, with the retry    *)
(* loop of PostgrestRetry.  An application may go on calling a builder it   *)
(* has already made another one from, or executed.                          *)
(****************************************************************************)
EXTENDS PostgrestRetry, Sequences, Functions, FiniteSets, TLC

CONSTANTS
  Columns,        \* columns filtered on and ordered by
  Calls,          \* the filter methods called
  Counts,         \* the count= arguments given
  ClientPrefers,  \* the Prefer headers the client is made with, as sets of preferences
  MaxCalls        \* bound: the builder calls of one query

ASSUME CallsAssumption == MaxCalls \in Nat
ASSUME VerbsAssumption == {"GET", "HEAD", "POST", "PATCH", "DELETE"} \subseteq Methods

Plain == {"select", "columns", "on_conflict", "argument", "limit", "offset"}
ASSUME ColumnsAssumption == Columns \cap (Plain \cup {"or", "order"}) = {}

VARIABLES
  heap,      \* Prefer (the set of its preferences) and Accept of the client's Headers
             \* object, and of the query's own
  headers,   \* which of the two objects RequestConfig.headers is
  params,    \* RequestConfig.params: the values of each key
  builders,  \* the builders that exist, by kind
  latest,    \* the one returned last
  negate,    \* negate_next of the builder that filters
  calls,
  chained,   \* every call so far was made on the builder returned last
  asked,     \* what the application asked for
  via,       \* the builder each execution was called on
  accepted,  \* the Accept and Prefer headers of its last request
  result     \* what it returned

building == <<heap, headers, params, builders, latest, negate, calls, chained, asked>>
executing == <<at, attempt, counted, status, applied, via, accepted, result>>
queryVars == <<vars, building, via, accepted, result>>

QueryInit ==
  /\ Init /\ method = "GET" /\ retryEnabled = TRUE
  /\ \E p \in ClientPrefers :
       heap = [o \in {"client", "own"} |-> [prefer |-> p, accept |-> "rows"]]
  /\ headers = "none" /\ params = <<>> /\ builders = {"table"} /\ latest = "table"
  /\ negate = FALSE /\ calls = 0 /\ chained = TRUE
  /\ asked = [prefs |-> {}, params |-> <<>>, order |-> <<>>, negates |-> FALSE, skipped |-> FALSE]
  /\ via = [e \in Executions |-> "none"]
  /\ accepted = [e \in Executions |-> [accept |-> "rows", prefer |-> {}]]
  /\ result = [e \in Executions |-> "none"]

Filters == {"filter", "select", "rpc"}          \* builders with filter(), or_(), max_affected()
Selects == {"select", "rpc"}                    \* and with order(), limit(), range()
Queries == {"query", "filter", "select"}        \* with AsyncQueryRequestBuilder.select()

-----------------------------------------------------------------------------
(* The request                                                              *)

Kept(ps, name) == {p \in ps : p[1] # name}
HasPref(ps, name) == \E p \in ps : p[1] = name
OneIf(b, p) == IF b THEN {p} ELSE {}

(* QueryParams.add and set                                                  *)
AddParam(ps, key, value) ==
  [k \in DOMAIN ps \cup {key} |->
     IF k # key THEN ps[k] ELSE IF k \in DOMAIN ps THEN Append(ps[k], value) ELSE <<value>>]
SetParam(ps, key, value) == [k \in DOMAIN ps \cup {key} |-> IF k = key THEN <<value>> ELSE ps[k]]

Prefer == heap[headers].prefer
SetPrefer(ps) == heap' = [heap EXCEPT ![headers].prefer = ps]
SetAccept(a) == heap' = [heap EXCEPT ![headers].accept = a]

CountPref(count) == OneIf(count # "none", <<"count", count>>)

(* pre_insert, pre_upsert, pre_update, pre_delete: the Prefer header        *)
PreWrite(count, returning) == {<<"return", returning>>} \cup CountPref(count)
PreInsert(count, returning, upsert, nulls) ==
  PreWrite(count, returning)
  \cup OneIf(upsert, <<"resolution", "merge">>) \cup OneIf(~nulls, <<"missing", "default">>)
PreUpsert(count, returning, ignore, nulls) ==
  PreWrite(count, returning)
  \cup {<<"resolution", IF ignore THEN "ignore" ELSE "merge">>} \cup OneIf(~nulls, <<"missing", "default">>)

(* Mutant: the query writes to the client's own Headers object.             *)
OwnHeadersShared(prefer) ==
  /\ headers' = "client"
  /\ heap' = IF heap["client"].prefer # {} THEN heap ELSE [heap EXCEPT !["client"].prefer = prefer]

(* headers.update(self.headers): a new object, the client's values win.     *)
OwnHeaders(prefer) ==
  /\ headers' = "own"
  /\ heap' = [heap EXCEPT !["own"] =
                [accept |-> heap["client"].accept,
                 prefer |-> IF heap["client"].prefer # {} THEN heap["client"].prefer ELSE prefer]]

(* RequestConfig and the builder over it; keys, what parameters it has      *)
Wants(key, value, negated) == <<key, value, negated>>

NewRequest(verb, keys, prefer, builder) ==
  /\ latest = "table"
  /\ method' = verb /\ params' = [k \in Range(keys) |-> <<"value">>]
  /\ OwnHeaders(prefer)
  /\ builders' = {builder} /\ latest' = builder
  /\ calls' = 1
  /\ asked' = [asked EXCEPT !.prefs = prefer,
                            !.params = [i \in DOMAIN keys |-> Wants(keys[i], "value", FALSE)]]
  /\ UNCHANGED <<retryEnabled, negate, chained, executing>>

-----------------------------------------------------------------------------
(* from_() and rpc()                                                        *)

SelectRows ==
  \E count \in Counts : \E head \in BOOLEAN :
    NewRequest(IF head THEN "HEAD" ELSE "GET", <<"select">>, CountPref(count), "select")

Insert ==
  \E count \in Counts : \E r \in {"minimal", "representation"} : \E upsert, nulls \in BOOLEAN :
  \E keys \in {<<>>, <<"columns">>} :
    NewRequest("POST", keys, PreInsert(count, r, upsert, nulls), "query")

Upsert ==
  \E count \in Counts : \E r \in {"minimal", "representation"} : \E ignore, nulls \in BOOLEAN :
  \E keys \in {<<>>, <<"columns">>, <<"on_conflict">>, <<"on_conflict", "columns">>} :
    NewRequest("POST", keys, PreUpsert(count, r, ignore, nulls), "query")

UpdateRows ==
  \E count \in Counts : \E r \in {"minimal", "representation"} :
    NewRequest("PATCH", <<>>, PreWrite(count, r), "filter")

DeleteRows ==
  \E count \in Counts : \E r \in {"minimal", "representation"} :
    NewRequest("DELETE", <<>>, PreWrite(count, r), "filter")

(* rpc: the arguments are query parameters only of a GET or HEAD            *)
Rpc ==
  \E count \in Counts : \E verb \in {"HEAD", "GET", "POST"} :
    NewRequest(verb, IF verb = "POST" THEN <<>> ELSE <<"argument">>, CountPref(count), "rpc")

-----------------------------------------------------------------------------
(* The builders                                                             *)

(* A call on the builder b that returns the builder r over the same request *)
Call(b, r) ==
  /\ b \in builders /\ calls < MaxCalls
  /\ calls' = calls + 1
  /\ chained' = (chained /\ b = latest)
  /\ builders' = builders \cup {r} /\ latest' = r
  /\ UNCHANGED <<method, headers, executing>>

(* AsyncQueryRequestBuilder.select                                          *)
(* Mutant: the preferences that were there are forgotten.                   *)
ReturnRowsOnly(ps) == {<<"return", "representation">>}
ReturnRows(ps) == Kept(ps, "return") \cup {<<"return", "representation">>}
Representation(prefs) == {p \in prefs : p[1] # "return"} \cup {<<"return", "representation">>}

SelectColumns(b) ==
  /\ b \in Queries /\ Call(b, b)
  /\ params' = AddParam(params, "select", "value")
  /\ SetPrefer(ReturnRows(Prefer))
  /\ asked' = [asked EXCEPT !.params = Append(@, Wants("select", "value", FALSE)),
                            !.prefs = Representation(@)]
  /\ UNCHANGED <<retryEnabled, negate>>

(* BaseRPCRequestBuilder.select                                             *)
SelectResult ==
  /\ Call("rpc", "rpc")
  /\ params' = AddParam(params, "select", "value")
  /\ SetPrefer(Prefer \cup {<<"return", "representation">>})
  /\ asked' = [asked EXCEPT !.params = Append(@, Wants("select", "value", FALSE)),
                            !.prefs = Representation(@)]
  /\ UNCHANGED <<retryEnabled, negate>>

(* retry(enabled), on every builder a query is executed on                  *)
Retry(b) ==
  /\ Call(b, b)
  /\ retryEnabled' \in BOOLEAN
  /\ UNCHANGED <<params, heap, negate, asked>>

Not(b) ==
  /\ b \in Filters /\ Call(b, b)
  /\ negate' = TRUE
  /\ asked' = [asked EXCEPT !.negates = TRUE]
  /\ UNCHANGED <<retryEnabled, params, heap>>

(* The methods that are a filter() with an operator of their own            *)
Comparisons ==
  [eq |-> "eq", neq |-> "neq", gt |-> "gt", gte |-> "gte", lt |-> "lt", lte |-> "lte", is_ |-> "is"]
Patterns ==
  [like |-> "like", like_all_of |-> "like(all)", like_any_of |-> "like(any)",
   ilike |-> "ilike", ilike_all_of |-> "ilike(all)", ilike_any_of |-> "ilike(any)"]
TextMatches == [fts |-> "fts", plfts |-> "plfts", phfts |-> "phfts", wfts |-> "wfts"]
Collections ==
  [in_ |-> "in", cs |-> "cs", cd |-> "cd", contains |-> "cs", contained_by |-> "cd", ov |-> "ov"]
Ranges ==
  [sl |-> "sl", sr |-> "sr", nxl |-> "nxl", nxr |-> "nxr", adj |-> "adj", range_gt |-> "sr",
   range_gte |-> "nxl", range_lt |-> "sl", range_lte |-> "nxr", range_adjacent |-> "adj", overlaps |-> "ov"]
Operator == Comparisons @@ Patterns @@ TextMatches @@ Collections @@ Ranges

(* filter(): the pending negation is used up                                *)
Filter(b, column, name) ==
  /\ b \in Filters /\ Call(b, b)
  /\ params' = AddParam(params, column, <<Operator[name], negate>>)
  /\ negate' = FALSE
  /\ asked' = [asked EXCEPT !.params = Append(@, Wants(column, Operator[name], asked.negates)),
                            !.negates = FALSE]
  /\ UNCHANGED <<retryEnabled, heap>>

(* match(): an eq() for each column, here two                               *)
Match(b, c, d) ==
  /\ b \in Filters /\ Call(b, b)
  /\ params' = AddParam(AddParam(params, c, <<"eq", negate>>), d, <<"eq", FALSE>>)
  /\ negate' = FALSE
  /\ asked' = [asked EXCEPT !.params = Append(Append(@, Wants(c, "eq", asked.negates)), Wants(d, "eq", FALSE)),
                            !.negates = FALSE]
  /\ UNCHANGED <<retryEnabled, heap>>

(* or_() does not look at the pending negation, which is skipped (429).     *)
Or(b) ==
  /\ b \in Filters /\ Call(b, b)
  /\ params' = AddParam(params, "or", <<"conditions", FALSE>>)
  /\ asked' = [asked EXCEPT !.params = Append(@, Wants("or", "conditions", asked.negates)),
                            !.negates = FALSE, !.skipped = @ \/ asked.negates]
  /\ UNCHANGED <<retryEnabled, heap, negate>>

(* text_search(): nor does it (221); a plain query builder, which has no    *)
(* filters any more                                                         *)
TextSearch(column) ==
  /\ Call("select", "query")
  /\ params' = AddParam(params, column, <<"fts", FALSE>>)
  /\ asked' = [asked EXCEPT !.params = Append(@, Wants(column, "fts", asked.negates)),
                            !.negates = FALSE, !.skipped = @ \/ asked.negates]
  /\ UNCHANGED <<retryEnabled, heap, negate>>

MaxAffected(b, n) ==
  /\ b \in Filters /\ Call(b, b)
  /\ SetPrefer(Prefer \cup {<<"handling", "strict">>, <<"max-affected", n>>})
  /\ asked' = [asked EXCEPT !.prefs = @ \cup {<<"handling", "strict">>, <<"max-affected", n>>}]
  /\ UNCHANGED <<retryEnabled, params, negate>>

(* order(): the clauses are joined in one parameter                         *)
Ordered(column) ==
  IF "order" \in DOMAIN params THEN Append(params["order"][1], column) ELSE <<column>>

Order(b, column) ==
  /\ b \in Selects /\ Call(b, b)
  /\ params' = SetParam(params, "order", Ordered(column))
  /\ asked' = [asked EXCEPT !.order = Append(@, column)]
  /\ UNCHANGED <<retryEnabled, heap, negate>>

(* limit(), offset() and range() add to what was there                      *)
Page(b, ps, wanted) ==
  /\ b \in Selects /\ Call(b, b)
  /\ params' = ps
  /\ asked' = [asked EXCEPT !.params = wanted]
  /\ UNCHANGED <<retryEnabled, heap, negate>>
Limit(b) == Page(b, AddParam(params, "limit", "number"), Append(asked.params, Wants("limit", "number", FALSE)))
Offset(b) == Page(b, AddParam(params, "offset", "number"), Append(asked.params, Wants("offset", "number", FALSE)))
RangeOfRows(b) ==
  Page(b, AddParam(AddParam(params, "offset", "number"), "limit", "number"),
       Append(Append(asked.params, Wants("offset", "number", FALSE)), Wants("limit", "number", FALSE)))

(* single(), csv() and explain() set the Accept header of the one request.  *)
Shaped(b, accept, r) ==
  /\ Call(b, r)
  /\ SetAccept(accept)
  /\ UNCHANGED <<retryEnabled, params, negate, asked>>
Single == Shaped("select", "row", "single")
Csv == Shaped("select", "text", "single")
Explain ==
  \/ Shaped("select", "text", "explain")
  \/ Shaped("select", "plan", "single")
SingleResult == \E accept \in {"row", "text"} : Shaped("rpc", accept, "rpc")

(* Mutant: as the rpc builder's maybe_single does.                          *)
MaybeAccept(a) == "row"

(* maybe_single() of a table asks for the list of rows and counts them.     *)
MaybeUnchanged(a) == a

MaybeSingle == Shaped("select", MaybeUnchanged(heap[headers].accept), "maybe")

Build ==
  \/ SelectRows \/ Insert \/ Upsert \/ UpdateRows \/ DeleteRows \/ Rpc
  \/ SelectResult \/ Single \/ Csv \/ Explain \/ SingleResult \/ MaybeSingle
  \/ \E b \in builders \ {"table"} :
       \/ SelectColumns(b) \/ Retry(b) \/ Not(b) \/ Or(b) \/ Limit(b) \/ Offset(b) \/ RangeOfRows(b)
       \/ \E c \in Columns : \E name \in Calls : Filter(b, c, name)
       \/ \E c \in Columns : Order(b, c)
       \/ \E c, d \in Columns : c # d /\ Match(b, c, d)
       \/ \E n \in 1..2 : MaxAffected(b, n)
  \/ \E c \in Columns : TextSearch(c)

-----------------------------------------------------------------------------
(* execute()                                                                *)

(* The request of an attempt is the RequestConfig as it is then.            *)
SendQuery(e, b) ==
  /\ b \in builders \ {"table"}
  /\ at[e] = "sleeping" => b = via[e]
  /\ Send(e)
  /\ via' = [via EXCEPT ![e] = b]
  /\ accepted' = [accepted EXCEPT ![e] = heap[headers]]
  /\ UNCHANGED <<building, result>>

(* The database's answer: n rows, or what the Accept header makes of them.  *)
Body(e, n) ==
  CASE method = "HEAD" \/ <<"return", "minimal">> \in accepted[e].prefer -> "empty"
    [] accepted[e].accept = "rows" -> <<"none", "row", "rows">>[n + 1]
    [] OTHER -> accepted[e].accept

(* How many rows a successful answer has: whoever asks for an object and    *)
(* whose query does not match one row gets an error instead.                *)
Rows(e) == IF accepted[e].accept = "row" THEN {1} ELSE 0..2

(* from_http_request_response of each builder, and maybe_single's counting. *)
(* The total, which the server tells whoever asked for it, is left out.     *)
Parsed(e, body) ==
  CASE via[e] = "explain" -> {"text"}
    [] via[e] = "maybe" ->
         CASE body \in {"none", "empty"} -> {"nothing"}
           [] body \in {"row", "plan"} -> IF accepted[e].accept = "row" THEN {"crash", "error"} ELSE {"row"}
           [] OTHER -> {"error"}
    [] OTHER -> {IF body = "none" \/ (body = "row" /\ accepted[e].accept = "rows") THEN "rows" ELSE body}

Answer(e) ==
  \E code \in Statuses : \E done \in BOOLEAN : \E n \in Rows(e) :
    /\ Respond(e, code, done)
    /\ \/ at'[e] = "sleeping" /\ UNCHANGED result
       \/ /\ at'[e] = "done"
          /\ \E r \in IF code = Success THEN Parsed(e, Body(e, n)) ELSE {"error"} :
               result' = [result EXCEPT ![e] = r]
    /\ UNCHANGED <<building, via, accepted>>

Run(e) == (\E b \in builders : SendQuery(e, b)) \/ Answer(e)

Finished == (\A e \in Executions : at[e] = "done") /\ UNCHANGED queryVars

QueryNext == Build \/ (\E e \in Executions : Run(e)) \/ Finished

QuerySpec ==
  /\ QueryInit /\ [][QueryNext]_queryVars
  /\ \A e \in Executions : WF_queryVars(at[e] # "idle" /\ Run(e))

-----------------------------------------------------------------------------
(* What should hold                                                         *)

(* The calls that asked for a key, and the place of the nth among them      *)
Places(ps, k) == {n \in DOMAIN ps : ps[n][1] = k}
Rank(ps, k, n) == Cardinality({m \in Places(ps, k) : m <= n})

(* The value is the one asked for.                                          *)
Carries(value, p, negations) ==
  IF p[1] \in Plain THEN value = p[2] ELSE value[1] = p[2] /\ (negations => value[2] = p[3])

(* The query carries what the application asked for, in the order it asked  *)
(* (builders only add to the request): every filter and page of a key and   *)
(* no other, all order clauses, and, unless the client has a Prefer header  *)
(* of its own, every preference, with no second value for one but           *)
(* max-affected.  The filter after not_ and no other is negated, or_ and    *)
(* text_search apart (base_request_builder.py:285-304).                     *)
ParamsAsked ==
  /\ \A k \in DOMAIN params \ {"order"} : Len(params[k]) = Cardinality(Places(asked.params, k))
  /\ \A n \in DOMAIN asked.params :
       LET p == asked.params[n] IN
       /\ p[1] \in DOMAIN params
       /\ Carries(params[p[1]][Rank(asked.params, p[1], n)], p, ~asked.skipped)
OrderAsked ==
  IF asked.order = <<>> THEN "order" \notin DOMAIN params
                        ELSE "order" \in DOMAIN params /\ params["order"] = <<asked.order>>
PrefsAsked ==
  heap["client"].prefer = {} =>
    /\ asked.prefs \subseteq Prefer
    /\ \A p, q \in Prefer : p[1] = q[1] /\ p[1] # "max-affected" => p = q
AskedIsSent == latest # "table" => ParamsAsked /\ OrderAsked /\ PrefsAsked

(* No query changes the headers of the client, which the next query starts  *)
(* from (each query's headers are an object of its own).                    *)
ClientHeadersKept == [][heap'["client"] = heap["client"]]_queryVars

(* A query built in one chain of calls returns what its last builder        *)
(* promises: the Accept header it was sent with and the way its answer is   *)
(* read belong together, and reading it does not fail.                      *)
Shapes ==
  [query |-> {"rows"}, filter |-> {"rows"}, select |-> {"rows"}, single |-> {"row", "text", "plan"},
   maybe |-> {"row", "nothing"}, explain |-> {"text"}, rpc |-> {"rows", "row", "text"}]
ShapeFits ==
  chained =>
    \A e \in Executions :
      at[e] = "done" /\ via[e] = latest => result[e] \in Shapes[via[e]] \cup {"empty", "error"}

=============================================================================
