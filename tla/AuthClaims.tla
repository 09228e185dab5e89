------------------------------- MODULE AuthClaims -------------------------------
(****************************************************************************)
(* The claims of a token (supabase_auth/_async/gotrue_client.py,            *)
(* get_claims and _fetch_jwks): several calls at once share a cache of the  *)
(* server's signing keys, which the server rotates meanwhile.  Time goes by *)
(* in ticks; a token is its key id and its expiry, and is well signed.      *)
(****************************************************************************)
EXTENDS Naturals, FiniteSets

CONSTANTS
  Callers,     \* application tasks that call get_claims
  Kids,        \* ids of the server's signing keys
  Absent,      \* no key id, as of a token signed symmetrically; no time
  TTL,         \* _jwks_ttl
  MaxDelay,    \* the longest a request may take: httpx gives up then
  MaxTime      \* bound on the clock

ASSUME TimesAssumption == TTL \in Nat \ {0} /\ MaxDelay \in Nat /\ MaxTime \in Nat
ASSUME AbsentAssumption == Absent \notin Kids \cup Nat

VARIABLES
  now,
  published,   \* server: the keys it signs with and answers with
  retired,     \* server: when each key was withdrawn; Absent if it was not
  jwks,        \* _jwks
  cachedAt,    \* _jwks_cached_at
  lookup,      \* what each task waits for
  verdict      \* how the call that has just ended went; Nothing after any other step

server == <<published, retired>>
cache == <<jwks, cachedAt>>
claimsVars == <<now, server, cache, lookup, verdict>>

NoLookup == [at |-> "idle", kid |-> Absent, exp |-> 0, sent |-> 0, missing |-> FALSE, keys |-> {}]
Verdict(result, kid, exp, missing, trusted) ==
  [result |-> result, kid |-> kid, exp |-> exp, missing |-> missing, trusted |-> trusted]
Nothing == [result |-> "none", kid |-> Absent, exp |-> 0, missing |-> FALSE, trusted |-> FALSE]

ClaimsInit ==
  /\ now = 0
  /\ published \in SUBSET Kids /\ retired = [k \in Kids |-> Absent]
  /\ jwks = {} /\ cachedAt = Absent
  /\ lookup = [t \in Callers |-> NoLookup]
  /\ verdict = Nothing

-----------------------------------------------------------------------------
(* Mutant: the cache is good for ever.                                      *)
CacheFreshAlways == cachedAt # Absent
CacheFresh == cachedAt # Absent /\ now - cachedAt < TTL

Send(t, what, kid, exp) ==
  /\ lookup' = [lookup EXCEPT ![t] =
       [at |-> what, kid |-> kid, exp |-> exp, sent |-> now, missing |-> kid \notin published, keys |-> {}]]
  /\ verdict' = Nothing
  /\ UNCHANGED cache

(* Mutant: a fresh cache that has not the key is not fetched again.         *)
FetchJwksOnce(t, kid, exp) ==
  IF CacheFresh
  THEN /\ verdict' = Verdict(IF kid \in jwks THEN "claims" ELSE "no_key", kid, exp, kid \notin published, FALSE)
       /\ UNCHANGED <<cache, lookup>>
  ELSE Send(t, "keys", kid, exp)

(* _fetch_jwks, beyond the keys the caller supplied                         *)
FetchJwks(t, kid, exp) ==
  IF CacheFresh /\ kid \in jwks
  THEN /\ verdict' = Verdict("claims", kid, exp, FALSE, FALSE)
       /\ UNCHANGED <<cache, lookup>>
  ELSE Send(t, "keys", kid, exp)

(* validate_exp                                                             *)
HasExpired(exp) == exp <= now

(* get_claims up to its request                                             *)
GetClaims(t, kid, exp, supplied) ==
  /\ lookup[t] = NoLookup
  /\ CASE HasExpired(exp) ->
            verdict' = Nothing /\ UNCHANGED <<cache, lookup>>
       [] ~HasExpired(exp) /\ kid = Absent -> Send(t, "user", kid, exp)
       [] ~HasExpired(exp) /\ kid # Absent /\ supplied ->
            /\ verdict' = Verdict("claims", kid, exp, FALSE, TRUE)
            /\ UNCHANGED <<cache, lookup>>
       [] OTHER -> FetchJwks(t, kid, exp)
  /\ UNCHANGED <<now, server>>

(* decode_jwt: what is no token is refused before anything else             *)
Malformed(t) ==
  /\ lookup[t] = NoLookup
  /\ verdict' = Nothing
  /\ UNCHANGED <<now, server, cache, lookup>>

(* The request for the keys, or for the user of a token signed              *)
(* symmetrically, has failed.                                               *)
RequestFails(t) ==
  /\ lookup[t].at \in {"keys", "user"}
  /\ lookup' = [lookup EXCEPT ![t] = NoLookup]
  /\ verdict' = Nothing
  /\ UNCHANGED <<now, server, cache>>

(* get_user has let the token pass.                                         *)
UserAnswered(t) ==
  /\ lookup[t].at = "user"
  /\ lookup' = [lookup EXCEPT ![t] = NoLookup]
  /\ verdict' = Verdict("claims", Absent, lookup[t].exp, FALSE, FALSE)
  /\ UNCHANGED <<now, server, cache>>

(* The answer is on its way.                                                *)
ServerAnswers(t) ==
  /\ lookup[t].at = "keys"
  /\ lookup' = [lookup EXCEPT ![t].at = "answered", ![t].keys = published]
  /\ verdict' = Nothing
  /\ UNCHANGED <<now, server, cache>>

(* The answer is kept, whatever came since, and the key looked for in it.   *)
KeysAnswered(t) ==
  /\ lookup[t].at = "answered"
  /\ lookup' = [lookup EXCEPT ![t] = NoLookup]
  /\ LET c == lookup[t] IN
     /\ IF c.keys = {}
        THEN UNCHANGED cache
        ELSE jwks' = c.keys /\ cachedAt' = now
     /\ verdict' = Verdict(IF c.kid \in c.keys THEN "claims" ELSE "no_key", c.kid, c.exp, c.missing, FALSE)
  /\ UNCHANGED <<now, server>>

(* The server publishes a new key, or withdraws one.                        *)
Publish ==
  /\ \E k \in Kids \ published : retired[k] = Absent /\ published' = published \cup {k}
  /\ verdict' = Nothing
  /\ UNCHANGED <<now, retired, cache, lookup>>

Withdraw ==
  /\ \E k \in published :
       /\ published' = published \ {k}
       /\ retired' = [retired EXCEPT ![k] = now]
       /\ lookup' = [t \in Callers |-> IF lookup[t].kid = k /\ lookup[t].at = "keys"
                                   THEN [lookup[t] EXCEPT !.missing = TRUE] ELSE lookup[t]]
  /\ verdict' = Nothing
  /\ UNCHANGED <<now, cache>>

Tick ==
  /\ now < MaxTime /\ now' = now + 1
  /\ \A t \in Callers : lookup[t] # NoLookup => now - lookup[t].sent < MaxDelay
  /\ verdict' = Nothing
  /\ UNCHANGED <<server, cache, lookup>>

ClaimsNext ==
  \/ \E t \in Callers :
       \/ \E kid \in Kids \cup {Absent} : \E exp \in {now, now + 1} : \E supplied \in BOOLEAN :
            GetClaims(t, kid, exp, supplied)
       \/ Malformed(t) \/ RequestFails(t) \/ UserAnswered(t) \/ ServerAnswers(t) \/ KeysAnswered(t)
  \/ Publish \/ Withdraw \/ Tick

ClaimsSpec == ClaimsInit /\ [][ClaimsNext]_claimsVars

-----------------------------------------------------------------------------
(* Claims are given for a token that had not expired before the longest     *)
(* request, and whose key, unless the caller supplied it, the server has    *)
(* not withdrawn for longer than the cache's life and the longest request,  *)
(* however the answers of concurrent calls overtake each other              *)
(* (gotrue_client.py:1225-1241).                                            *)
ClaimsAreRecent ==
  verdict.result = "claims" =>
    /\ now < verdict.exp + MaxDelay
    /\ (verdict.kid # Absent /\ ~verdict.trusted /\ retired[verdict.kid] # Absent) =>
          now < retired[verdict.kid] + TTL + MaxDelay

(* A token is refused for its key only if there was a moment in the call    *)
(* when the server did not publish it: a key rotated in is found at once,   *)
(* fresh cache or not (gotrue_client.py:1236-1248).                         *)
RefusedKeyUnknown == verdict.result = "no_key" => verdict.missing

=============================================================================
