------------------------------ MODULE AuthProofs ------------------------------
(****************************************************************************)
(* Proofs about the auth client, apart from its refreshes: the stored       *)
(* session and the PKCE verifier of AuthFlows, for any number of tasks,     *)
(* accounts and redirects; then how long get_claims of AuthClaims may trust *)
(* a key, for any number of callers and keys, any life of the cache and any *)
(* delay of a request.                                                      *)
(****************************************************************************)
EXTENDS AuthFlows, AuthClaims, TLAPS

Flows == 1..flows

(* What a flow is waiting for: its URL, its redirect, its exchange          *)
Linking(t, n) == call[t].what = "link" /\ call[t].flow = n
Exchanging(t, n) == call[t].what = "exchange" /\ call[t].flow = n
Exchanged(t, n) == call[t].what = "exchanged" /\ call[t].flow = n

FlowsTypes ==
  /\ flows \in Nat /\ verifier \in Flows \cup {0}
  /\ opened \subseteq Flows /\ codes \subseteq Flows
  /\ call = [t \in Tasks |-> call[t]]
  /\ \A t \in Tasks :
       /\ call[t].what = "link" => call[t].flow \in Flows \cup {0}
       /\ call[t].what \in {"exchange", "exchanged"} => call[t].flow \in Flows

(* A flow is in one place at a time: it waits for its URL, is open, has its *)
(* code back, or is exchanged.                                              *)
OnePlace ==
  /\ opened \cap codes = {}
  /\ \A t \in Tasks, n \in Flows :
       /\ Linking(t, n) => n \notin opened \cup codes /\ \A u \in Tasks : Linking(u, n) => u = t
       /\ Exchanged(t, n) =>
            n \notin opened \cup codes /\ \A u \in Tasks : ~Linking(u, n)

(* While a flow may yet be exchanged, its verifier is stored or the flow    *)
(* has been overtaken; a request that went with another verifier is that of *)
(* a flow overtaken.                                                        *)
Kept(n) == verifier = n \/ n \in overtaken

VerifierKept ==
  /\ \A n \in opened \cup codes : Kept(n)
  /\ \A t \in Tasks, n \in Flows :
       /\ Linking(t, n) => Kept(n)
       /\ Exchanging(t, n) => call[t].verifier = n \/ n \in overtaken

FlowsInvariant == FlowsTypes /\ OnePlace /\ VerifierKept /\ RefusedIfOvertaken

-----------------------------------------------------------------------------
-----------------------------------------------------------------------------
(* A step of a task that has nothing to do with a code                      *)
CodeCalls == {"link", "exchange", "exchanged"}

Quiet(t) ==
  /\ UNCHANGED <<pkceVars, history>>
  /\ \/ UNCHANGED call
     \/ call' = [call EXCEPT ![t] = call'[t]] /\ call'[t].what \notin CodeCalls

LEMMA QuietKeeps ==
  ASSUME NEW t \in Tasks, FlowsInvariant, Quiet(t)
  PROVE  FlowsInvariant'
<1> USE DEF pkceVars, history, FlowsInvariant
<1>1. \A u \in Tasks : \/ UNCHANGED call[u]
                       \/ call'[u].what \notin CodeCalls
  BY DEF Quiet, FlowsTypes
<1>2. FlowsTypes'
  BY <1>1 DEF Quiet, FlowsTypes, CodeCalls, Flows
<1>3. OnePlace'
  BY <1>1 DEF Quiet, OnePlace, CodeCalls, Linking, Exchanged, Flows
<1>4. VerifierKept' /\ RefusedIfOvertaken'
  BY <1>1 DEF Quiet, VerifierKept, Kept, CodeCalls, Linking, Exchanging, Flows, RefusedIfOvertaken
<1> QED
  BY <1>2, <1>3, <1>4

(* The calls that ask the server for anything else than a code are quiet,   *)
(* and so are their answers.                                                *)
LEMMA OthersAreQuiet ==
  ASSUME NEW t \in Tasks, FlowsTypes,
         \/ SignInAnonymously(t) \/ SignUp(t) \/ SignInWithPassword(t) \/ SignInWithIdToken(t)
         \/ VerifyOtp(t) \/ SignInAnswered(t)
         \/ SignInWithSso(t) \/ SignInWithOtp(t) \/ Resend(t) \/ ResetPassword(t)
         \/ InviteUser(t) \/ ManageUsers(t) \/ ManageFactors(t)
         \/ ListOAuthClients(t) \/ ManageOAuthClients(t)
         \/ InitializeFromUrl(t) \/ UrlAnswered(t)
         \/ AskAsUser(t) \/ GetUser(t) \/ Reauthenticate(t) \/ Enroll(t) \/ Unenroll(t)
         \/ Challenge(t) \/ Challenged(t) \/ AskToChange(t)
         \/ UserUpdated(t) \/ FactorVerified(t) \/ SetSession(t) \/ SetSessionAnswered(t)
         \/ SignOut(t) \/ SignedOut(t) \/ NothingAnswered(t) \/ Fails(t)
  PROVE  Quiet(t)
<1>1. ASSUME NEW r, r.what \notin CodeCalls, call' = [call EXCEPT ![t] = r]
      PROVE  call' = [call EXCEPT ![t] = call'[t]] /\ call'[t].what \notin CodeCalls
  BY <1>1 DEF FlowsTypes
<1>2. ASSUME NEW what \in {"idle", "sign_in", "nothing", "url", "challenge", "verify", "update", "set", "sign_out"},
             NEW account, NEW n, NEW v
      PROVE  Request(what, account, n, v).what \notin CodeCalls
  BY DEF Request, CodeCalls
<1>3. Idle.what \notin CodeCalls
  BY <1>2 DEF Idle
<1>4. ASSUME NEW what, Ends(t, what) \/ Raise(t)
      PROVE  UNCHANGED call \/ call' = [call EXCEPT ![t] = Idle]
  BY <1>4 DEF Ends, Raise
<1>5. ASSUME NEW r, r.what \notin CodeCalls, Ask(t, r), UNCHANGED <<pkceVars, history>>
      PROVE  Quiet(t)
  BY <1>1, <1>5 DEF Ask, Quiet
<1>6. ASSUME Raise(t) \/ (\E what : Ends(t, what)), UNCHANGED <<pkceVars, history>>
      PROVE  Quiet(t)
  BY <1>1, <1>3, <1>6 DEF Ends, Raise, Quiet
<1>7. CASE \/ SignInAnonymously(t) \/ SignUp(t) \/ SignInWithPassword(t) \/ SignInWithIdToken(t)
           \/ VerifyOtp(t)
  BY <1>2, <1>5, <1>6, <1>7 DEF SignInAnonymously, SignUp, SignInWithPassword, SignInWithIdToken, VerifyOtp
<1>8. CASE \/ SignInAnswered(t) \/ UrlAnswered(t) \/ UserUpdated(t) \/ FactorVerified(t)
           \/ SetSessionAnswered(t) \/ SignedOut(t) \/ NothingAnswered(t)
  BY <1>6, <1>8 DEF SignInAnswered, UrlAnswered, UserUpdated, FactorVerified, SetSessionAnswered, SignedOut,
    NothingAnswered
<1>9. CASE \/ SignInWithSso(t) \/ SignInWithOtp(t) \/ Resend(t) \/ ResetPassword(t)
           \/ InviteUser(t) \/ ManageUsers(t) \/ ManageFactors(t)
           \/ ListOAuthClients(t) \/ ManageOAuthClients(t)
  BY <1>2, <1>5, <1>6, <1>9 DEF SignInWithSso, SignInWithOtp, Resend, ResetPassword, InviteUser, ManageUsers,
    ManageFactors, ListOAuthClients, ManageOAuthClients
<1>10. CASE \/ AskAsUser(t) \/ GetUser(t) \/ Reauthenticate(t) \/ Enroll(t) \/ Unenroll(t)
            \/ Challenge(t)
  BY <1>2, <1>5, <1>6, <1>10 DEF AskAsUser, GetUser, Reauthenticate, Enroll, Unenroll, Challenge
<1>11. CASE InitializeFromUrl(t) \/ AskToChange(t) \/ SetSession(t) \/ SignOut(t)
  BY <1>2, <1>5, <1>6, <1>11 DEF InitializeFromUrl, AskToChange, SetSession, SignOut
<1>12. CASE Challenged(t)
  <2>1. CASE slot = NoSession
    BY <1>1, <1>3, <1>12, <2>1 DEF Challenged, Quiet
  <2>2. CASE slot # NoSession
    BY <1>1, <1>2, <1>12, <2>2 DEF Challenged, Quiet
  <2> QED
    BY <2>1, <2>2
<1>13. CASE Fails(t)
  BY <1>1, <1>3, <1>13 DEF Fails, Quiet
<1> QED
  BY <1>7, <1>8, <1>9, <1>10, <1>11, <1>12, <1>13

-----------------------------------------------------------------------------
(* A new verifier overtakes all flows but its own.                          *)
LEMMA NewVerifierKeeps ==
  ASSUME FlowsInvariant, NewVerifier
  PROVE  /\ flows' \in Nat /\ verifier' \in Flows' \cup {0} /\ Flows \subseteq Flows'
         /\ overtaken \subseteq overtaken'
         /\ \A n \in Flows : Kept(n) => Kept(n)'
         /\ flowType = "pkce" => /\ flows + 1 \in Flows' /\ flows + 1 \notin Flows
                                 /\ verifier' = flows + 1
BY DEF FlowsInvariant, FlowsTypes, NewVerifier, Kept, Flows

(* A code is refused for its verifier only if its flow was overtaken: the   *)
(* invariant of the PKCE flows, kept by every call of the client.           *)
THEOREM FlowsInvariantAlways == FlowsSpec => []FlowsInvariant
<1> USE DEF pkceVars, history, userVars
<1>1. FlowsInit => FlowsInvariant
  BY DEF FlowsInit, FlowsInvariant, FlowsTypes, OnePlace, VerifierKept, RefusedIfOvertaken,
    Linking, Exchanging, Exchanged, Flows, Idle, Request
<1>2. FlowsInvariant /\ [FlowsNext]_flowVars => FlowsInvariant'
  <2> SUFFICES ASSUME FlowsInvariant, [FlowsNext]_flowVars
               PROVE  FlowsInvariant'
    OBVIOUS
  <2>1. ASSUME NEW t \in Tasks, SignInWithOAuth(t)
        PROVE  FlowsInvariant'
    <3>1. UNCHANGED <<call, codes, refused>> /\ NewVerifier /\ Opened
      BY <2>1 DEF SignInWithOAuth, Raise
    <3>2. opened' \subseteq opened \cup {flows + 1} /\ (flowType # "pkce" => opened' = opened)
      BY <3>1 DEF Opened
    <3>3. FlowsTypes'
      BY <3>1, <3>2, NewVerifierKeeps DEF FlowsInvariant, FlowsTypes
    <3>4. OnePlace'
      BY <3>1, <3>2, <3>3, NewVerifierKeeps DEF FlowsInvariant, FlowsTypes, OnePlace, Linking, Exchanged, Flows
    <3>5. VerifierKept'
      BY <3>1, <3>2, NewVerifierKeeps
      DEF FlowsInvariant, FlowsTypes, VerifierKept, Linking, Exchanging, Flows, Kept
    <3>6. RefusedIfOvertaken'
      BY <3>1, NewVerifierKeeps DEF FlowsInvariant, RefusedIfOvertaken
    <3> QED
      BY <3>3, <3>4, <3>5, <3>6 DEF FlowsInvariant
  <2>2. ASSUME NEW t \in Tasks, LinkIdentity(t)
        PROVE  FlowsInvariant'
    <3> DEFINE n == IF flowType = "pkce" THEN flows + 1 ELSE 0
    <3>1. UNCHANGED <<opened, codes, refused>> /\ NewVerifier
      BY <2>2 DEF LinkIdentity
    <3>2. \A u \in Tasks : \/ UNCHANGED call[u]
                           \/ u = t /\ call'[t].what = "link" /\ call'[t].flow = n
      BY <2>2 DEF LinkIdentity, Raise, Ask, Request, FlowsInvariant, FlowsTypes
    <3>3. n \in Flows' \cup {0} /\ n \notin Flows /\ (n \in Flows' => verifier' = n)
      BY <3>1, NewVerifierKeeps DEF Flows, FlowsInvariant, FlowsTypes
    <3>4. call' = [u \in Tasks |-> call'[u]]
      BY <2>2 DEF LinkIdentity, Raise, Ask, FlowsInvariant, FlowsTypes
    <3>5. FlowsTypes'
      BY <3>1, <3>2, <3>3, <3>4, NewVerifierKeeps DEF FlowsInvariant, FlowsTypes
    <3>6. OnePlace'
      BY <3>1, <3>2, <3>3, NewVerifierKeeps DEF FlowsInvariant, FlowsTypes, OnePlace, Linking, Exchanged, Flows
    <3>7. VerifierKept'
      BY <3>1, <3>2, <3>3, NewVerifierKeeps
      DEF FlowsInvariant, FlowsTypes, VerifierKept, Linking, Exchanging, Flows, Kept
    <3>8. RefusedIfOvertaken'
      BY <3>1, NewVerifierKeeps DEF FlowsInvariant, RefusedIfOvertaken
    <3> QED
      BY <3>5, <3>6, <3>7, <3>8 DEF FlowsInvariant
  <2>3. ASSUME NEW t \in Tasks, LinkAnswered(t)
        PROVE  FlowsInvariant'
    <3>1. \A u \in Tasks : call'[u] = IF u = t THEN Idle ELSE call[u]
      BY <2>3 DEF LinkAnswered, Ends, FlowsInvariant, FlowsTypes
    <3>2. call[t].what = "link" /\ opened' = opened \cup ({call[t].flow} \ {0})
      BY <2>3 DEF LinkAnswered, Ends
    <3>3. FlowsTypes'
      BY <2>3, <3>1, <3>2 DEF LinkAnswered, Ends, FlowsInvariant, FlowsTypes, Idle, Request, Flows
    <3>4. OnePlace'
      BY <2>3, <3>1, <3>2 DEF LinkAnswered, FlowsInvariant, OnePlace, FlowsTypes, Linking, Exchanged, Flows,
        Idle, Request
    <3>5. VerifierKept' /\ RefusedIfOvertaken'
      BY <2>3, <3>1, <3>2 DEF LinkAnswered, FlowsInvariant, FlowsTypes, VerifierKept, Linking, Exchanging,
        Flows, Idle, Request, Kept, RefusedIfOvertaken
    <3> QED
      BY <3>3, <3>4, <3>5 DEF FlowsInvariant
  <2>4. ASSUME NEW t \in Tasks, Exchange(t)
        PROVE  FlowsInvariant'
    <3> PICK n \in codes : \E v \in {verifier, n} : Ask(t, Request("exchange", None, n, v))
      BY <2>4 DEF Exchange
    <3> PICK v \in {verifier, n} : Ask(t, Request("exchange", None, n, v))
      OBVIOUS
    <3>1. /\ n \in Flows /\ (v = n \/ n \in overtaken)
          /\ UNCHANGED <<flows, verifier, opened, codes, refused, overtaken>>
      BY <2>4 DEF Exchange, FlowsInvariant, FlowsTypes, VerifierKept, Kept
    <3>2. /\ \A u \in Tasks \ {t} : call'[u] = call[u]
          /\ call'[t].what = "exchange" /\ call'[t].flow = n /\ call'[t].verifier = v
          /\ call' = [u \in Tasks |-> call'[u]]
      BY DEF Ask, Request, FlowsInvariant, FlowsTypes
    <3>3. FlowsTypes' /\ RefusedIfOvertaken'
      BY <3>1, <3>2 DEF FlowsInvariant, FlowsTypes, Flows, RefusedIfOvertaken
    <3>4. OnePlace'
      BY <3>1, <3>2 DEF FlowsInvariant, OnePlace, Linking, Exchanged, Flows
    <3>5. VerifierKept'
      BY <3>1, <3>2 DEF FlowsInvariant, VerifierKept, Linking, Exchanging, Flows, Kept
    <3> QED
      BY <3>3, <3>4, <3>5 DEF FlowsInvariant
  <2>5. ASSUME NEW t \in Tasks, ServerExchanges(t)
        PROVE  FlowsInvariant'
    <3> DEFINE n == call[t].flow
    <3>1. Exchanging(t, n) /\ n \in Flows /\ UNCHANGED <<flows, verifier, opened, overtaken>>
      BY <2>5 DEF ServerExchanges, Exchanging, FlowsInvariant, FlowsTypes
    <3>2. CASE n \in codes /\ call[t].verifier = n
      <4>1. /\ \A u \in Tasks \ {t} : call'[u] = call[u]
            /\ call'[t].what = "exchanged" /\ call'[t].flow = n
            /\ call' = [u \in Tasks |-> call'[u]]
            /\ codes' = codes \ {n} /\ UNCHANGED refused
        BY <2>5, <3>2 DEF ServerExchanges, Request, FlowsInvariant, FlowsTypes
      <4>2. FlowsTypes' /\ RefusedIfOvertaken'
        BY <3>1, <4>1 DEF FlowsInvariant, FlowsTypes, Flows, RefusedIfOvertaken
      <4>3. OnePlace'
        BY <3>1, <3>2, <4>1 DEF FlowsInvariant, OnePlace, Linking, Exchanged, Flows
      <4>4. VerifierKept'
        BY <3>1, <4>1 DEF FlowsInvariant, VerifierKept, Linking, Exchanging, Flows, Kept
      <4> QED
        BY <4>2, <4>3, <4>4 DEF FlowsInvariant
    <3>3. CASE ~(n \in codes /\ call[t].verifier = n)
      <4>1. /\ \A u \in Tasks \ {t} : call'[u] = call[u]
            /\ call'[t] = Idle /\ call' = [u \in Tasks |-> call'[u]]
            /\ refused' \subseteq refused \cup (IF n \in codes THEN {n} ELSE {}) /\ UNCHANGED codes
        BY <2>5, <3>3 DEF ServerExchanges, FlowsInvariant, FlowsTypes
      <4>2. FlowsTypes'
        BY <3>1, <4>1 DEF FlowsInvariant, FlowsTypes, Flows, Idle, Request
      <4>3. OnePlace'
        BY <3>1, <4>1 DEF FlowsInvariant, OnePlace, Linking, Exchanged, Flows, Idle, Request
      <4>4. VerifierKept'
        BY <3>1, <4>1 DEF FlowsInvariant, VerifierKept, Linking, Exchanging, Flows, Kept, Idle, Request
      <4>5. RefusedIfOvertaken'
        BY <3>1, <3>3, <4>1 DEF FlowsInvariant, VerifierKept, RefusedIfOvertaken
      <4> QED
        BY <4>2, <4>3, <4>4, <4>5 DEF FlowsInvariant
    <3> QED
      BY <3>2, <3>3
  <2>6. ASSUME NEW t \in Tasks, ExchangeAnswered(t)
        PROVE  FlowsInvariant'
    <3> DEFINE n == call[t].flow
    <3>1. Exchanged(t, n) /\ n \in Flows
      BY <2>6 DEF ExchangeAnswered, Ends, Exchanged, FlowsInvariant, FlowsTypes
    <3>2. /\ verifier' = 0 /\ overtaken' = overtaken \cup (Flows \ {n})
          /\ UNCHANGED <<flows, opened, codes, refused>>
      BY <2>6 DEF ExchangeAnswered, Flows
    <3>3. /\ \A u \in Tasks \ {t} : call'[u] = call[u]
          /\ call'[t] = Idle /\ call' = [u \in Tasks |-> call'[u]]
      BY <2>6 DEF ExchangeAnswered, Ends, FlowsInvariant, FlowsTypes
    <3>4. FlowsTypes' /\ RefusedIfOvertaken'
      BY <3>2, <3>3 DEF FlowsInvariant, FlowsTypes, Flows, Idle, Request, RefusedIfOvertaken
    <3>5. OnePlace'
      BY <3>2, <3>3 DEF FlowsInvariant, OnePlace, Linking, Exchanged, Flows, Idle, Request
    <3>6. \A m \in Flows : m # n => Kept(m)'
      BY <3>2 DEF Kept
    <3>7. n \notin opened \cup codes /\ \A u \in Tasks : ~Linking(u, n)
      BY <3>1 DEF FlowsInvariant, OnePlace
    <3>8. VerifierKept'
      BY <3>2, <3>3, <3>6, <3>7
      DEF FlowsInvariant, FlowsTypes, VerifierKept, Linking, Exchanging, Flows, Idle, Request
    <3> QED
      BY <3>4, <3>5, <3>8 DEF FlowsInvariant
  <2>7. CASE Redirected
    <3>1. FlowsTypes' /\ RefusedIfOvertaken'
      BY <2>7 DEF Redirected, FlowsInvariant, FlowsTypes, Flows, RefusedIfOvertaken
    <3>2. OnePlace'
      BY <2>7 DEF Redirected, FlowsInvariant, OnePlace, Linking, Exchanged, Flows
    <3>3. VerifierKept'
      BY <2>7 DEF Redirected, FlowsInvariant, VerifierKept, Linking, Exchanging, Flows, Kept
    <3> QED
      BY <3>1, <3>2, <3>3 DEF FlowsInvariant
  <2>8. CASE UNCHANGED flowVars
    BY <2>8 DEF flowVars, FlowsInvariant, FlowsTypes, OnePlace, VerifierKept, Flows, Kept, Linking, Exchanging,
      Exchanged, RefusedIfOvertaken
  <2> QED
    BY <2>1, <2>2, <2>3, <2>4, <2>5, <2>6, <2>7, <2>8, OthersAreQuiet, QuietKeeps DEF FlowsNext, FlowsInvariant
<1> QED
  BY <1>1, <1>2, PTL DEF FlowsSpec

(* The server refuses a code for its verifier only if another flow was      *)
(* begun after its own, or another's code was exchanged.                    *)
THEOREM RefusedIfOvertakenAlways == FlowsSpec => []RefusedIfOvertaken
<1>1. FlowsInvariant => RefusedIfOvertaken
  BY DEF FlowsInvariant
<1> QED
  BY <1>1, FlowsInvariantAlways, PTL


-----------------------------------------------------------------------------
(* Claims                                                                   *)

USE TimesAssumption, AbsentAssumption

Lookups ==
  [at : {"idle", "keys", "answered", "user"}, kid : Kids \cup {Absent}, exp : Nat,
   sent : Nat, missing : BOOLEAN, keys : SUBSET Kids]
Verdicts ==
  [result : {"none", "claims", "no_key"}, kid : Kids \cup {Absent}, exp : Nat,
   missing : BOOLEAN, trusted : BOOLEAN]

(* The values of the variables                                              *)
ClaimsTypes ==
  /\ now \in Nat
  /\ published \subseteq Kids
  /\ retired \in [Kids -> Nat \cup {Absent}]
  /\ jwks \subseteq Kids /\ cachedAt \in Nat \cup {Absent}
  /\ lookup \in [Callers -> Lookups]
  /\ verdict \in Verdicts

(* A key published has not been withdrawn, and none was in the future.      *)
KeysDated ==
  \A k \in Kids :
    /\ k \in published => retired[k] = Absent
    /\ retired[k] # Absent => retired[k] <= now

(* A request was sent no longer ago than httpx waits, for a token that had  *)
(* not expired then; what the server answered it published since.           *)
RequestsDated ==
  \A t \in Callers : lookup[t].at # "idle" =>
    /\ lookup[t].sent <= now /\ now <= lookup[t].sent + MaxDelay
    /\ lookup[t].sent < lookup[t].exp
    /\ \A k \in lookup[t].keys : retired[k] # Absent => lookup[t].sent <= retired[k]

(* The keys cached were published at most a request's delay before the      *)
(* cache was stamped: it is stamped with the time of the answer             *)
(* (_fetch_jwks), so their age is not only that of the stamp.               *)
CacheDated ==
  /\ cachedAt # Absent => cachedAt <= now
  /\ jwks # {} =>
       /\ cachedAt # Absent
       /\ \A k \in jwks : retired[k] # Absent => cachedAt <= retired[k] + MaxDelay

Dated == KeysDated /\ RequestsDated /\ CacheDated

(* A key that is missing when it is looked for was missed in the call.      *)
MissingNoted ==
  \A t \in Callers :
    /\ lookup[t].at = "keys" /\ lookup[t].kid \notin published => lookup[t].missing
    /\ lookup[t].at = "answered" /\ lookup[t].kid \notin lookup[t].keys => lookup[t].missing

-----------------------------------------------------------------------------
(* What the steps put into the variables                                    *)
LEMMA VerdictTyped ==
  ASSUME NEW result \in {"none", "claims", "no_key"}, NEW kid \in Kids \cup {Absent},
         NEW exp \in Nat, NEW missing \in BOOLEAN, NEW trusted \in BOOLEAN
  PROVE  Verdict(result, kid, exp, missing, trusted) \in Verdicts
BY DEF Verdict, Verdicts

LEMMA NothingTyped == Nothing \in Verdicts /\ Nothing.result = "none"
BY DEF Nothing, Verdicts

LEMMA IdleTyped == NoLookup \in Lookups /\ NoLookup.at = "idle"
BY DEF NoLookup, Lookups

LEMMA SendTyped ==
  ASSUME NEW t \in Callers, NEW what \in {"keys", "user"}, NEW kid \in Kids \cup {Absent},
         NEW exp \in Nat, ClaimsTypes, Send(t, what, kid, exp), UNCHANGED <<now, server>>
  PROVE  ClaimsTypes'
<1>1. [at |-> what, kid |-> kid, exp |-> exp, sent |-> now,
       missing |-> kid \notin published, keys |-> {}] \in Lookups
  BY DEF Lookups, ClaimsTypes
<1> QED
  BY <1>1, NothingTyped DEF Send, ClaimsTypes, cache, server

(* The values of the variables of get_claims are what they should be        *)
(* whatever the calls that overlap and the answers they are given.          *)
THEOREM ClaimsTyped == ClaimsSpec => []ClaimsTypes
<1> USE DEF cache, server
<1>1. ClaimsInit => ClaimsTypes
  BY IdleTyped, NothingTyped DEF ClaimsInit, ClaimsTypes
<1>2. ClaimsTypes /\ [ClaimsNext]_claimsVars => ClaimsTypes'
  <2> SUFFICES ASSUME ClaimsTypes, [ClaimsNext]_claimsVars
               PROVE  ClaimsTypes'
    OBVIOUS
  <2>1. ASSUME NEW t \in Callers, NEW kid \in Kids \cup {Absent}, NEW exp \in {now, now + 1},
               NEW supplied \in BOOLEAN, GetClaims(t, kid, exp, supplied)
        PROVE  ClaimsTypes'
    <3>1. exp \in Nat
      BY DEF ClaimsTypes
    <3>2. CASE \E missing, trusted \in BOOLEAN :
                 verdict' = Verdict("claims", kid, exp, missing, trusted) /\ UNCHANGED <<cache, lookup>>
      BY <2>1, <3>1, <3>2, VerdictTyped DEF GetClaims, ClaimsTypes
    <3>3. CASE verdict' = Nothing /\ UNCHANGED <<cache, lookup>>
      BY <2>1, <3>3, NothingTyped DEF GetClaims, ClaimsTypes
    <3>4. CASE \E what \in {"keys", "user"} : Send(t, what, kid, exp)
      BY <2>1, <3>1, <3>4, SendTyped DEF GetClaims
    <3> QED
      BY <2>1, <3>2, <3>3, <3>4 DEF GetClaims, FetchJwks
  <2>2. ASSUME NEW t \in Callers, RequestFails(t)
        PROVE  ClaimsTypes'
    BY <2>2, IdleTyped, NothingTyped DEF RequestFails, ClaimsTypes
  <2>3. ASSUME NEW t \in Callers, UserAnswered(t)
        PROVE  ClaimsTypes'
    <3>1. lookup[t].exp \in Nat
      BY DEF ClaimsTypes, Lookups
    <3> QED
      BY <2>3, <3>1, IdleTyped, VerdictTyped DEF UserAnswered, ClaimsTypes
  <2>4. ASSUME NEW t \in Callers, ServerAnswers(t)
        PROVE  ClaimsTypes'
    <3>1. [lookup[t] EXCEPT !.at = "answered", !.keys = published] \in Lookups
      BY DEF ClaimsTypes, Lookups
    <3> QED
      BY <2>4, <3>1, NothingTyped DEF ServerAnswers, ClaimsTypes
  <2>5. ASSUME NEW t \in Callers, KeysAnswered(t)
        PROVE  ClaimsTypes'
    <3>1. /\ lookup[t].keys \subseteq Kids /\ lookup[t].kid \in Kids \cup {Absent}
          /\ lookup[t].exp \in Nat /\ lookup[t].missing \in BOOLEAN
      BY DEF ClaimsTypes, Lookups
    <3>2. verdict' \in Verdicts
      BY <2>5, <3>1, VerdictTyped DEF KeysAnswered
    <3> QED
      BY <2>5, <3>1, <3>2, IdleTyped DEF KeysAnswered, ClaimsTypes
  <2>6. CASE Publish
    BY <2>6, NothingTyped DEF Publish, ClaimsTypes
  <2>7. CASE Withdraw
    <3>1. ASSUME NEW c \in Lookups
          PROVE  [c EXCEPT !.missing = TRUE] \in Lookups
      BY DEF Lookups
    <3> QED
      BY <2>7, <3>1, NothingTyped DEF Withdraw, ClaimsTypes
  <2>8. CASE Tick \/ \E t \in Callers : Malformed(t)
    BY <2>8, NothingTyped DEF Tick, Malformed, ClaimsTypes
  <2>9. CASE UNCHANGED claimsVars
    BY <2>9 DEF claimsVars, ClaimsTypes
  <2> QED
    BY <2>1, <2>2, <2>3, <2>4, <2>5, <2>6, <2>7, <2>8, <2>9 DEF ClaimsNext
<1> QED
  BY <1>1, <1>2, PTL DEF ClaimsSpec

-----------------------------------------------------------------------------
(* What the fields of a call are                                            *)
LEMMA LookupTyped ==
  ASSUME ClaimsTypes, NEW t \in Callers
  PROVE  /\ lookup[t].sent \in Nat /\ lookup[t].exp \in Nat /\ lookup[t].kid \in Kids \cup {Absent}
         /\ lookup[t].keys \subseteq Kids /\ lookup[t].missing \in BOOLEAN
BY DEF ClaimsTypes, Lookups

(* A request for a token that has not expired is one that was just sent.    *)
LEMMA SendDated ==
  ASSUME NEW t \in Callers, NEW what, NEW kid, NEW exp \in Nat, now < exp,
         ClaimsTypes, Dated, Send(t, what, kid, exp), UNCHANGED <<now, server>>
  PROVE  Dated'
<1> USE DEF Dated, ClaimsTypes, Send, server, cache
<1>1. KeysDated' /\ CacheDated'
  BY DEF KeysDated, CacheDated
<1>2. ASSUME NEW u \in Callers, lookup'[u].at # "idle"
      PROVE  /\ lookup'[u].sent <= now' /\ now' <= lookup'[u].sent + MaxDelay
             /\ lookup'[u].sent < lookup'[u].exp
             /\ \A k \in lookup'[u].keys : retired'[k] # Absent => lookup'[u].sent <= retired'[k]
  <2>1. CASE u = t
    BY <2>1
  <2>2. CASE u # t
    BY <1>2, <2>2 DEF RequestsDated
  <2> QED
    BY <2>1, <2>2
<1> QED
  BY <1>1, <1>2 DEF RequestsDated

(* A call that has ended leaves the dates of the others.                    *)
LEMMA EndDated ==
  ASSUME NEW t \in Callers, ClaimsTypes, RequestsDated,
         lookup' = [lookup EXCEPT ![t] = NoLookup], UNCHANGED <<now, server>>
  PROVE  RequestsDated'
BY IdleTyped DEF RequestsDated, ClaimsTypes, server

(* The dates of keys, requests and cache hold whatever overtakes what.      *)
THEOREM DatedAlways == ClaimsSpec => []Dated
<1>1. ClaimsInit => Dated
  BY IdleTyped DEF ClaimsInit, Dated, KeysDated, RequestsDated, CacheDated
<1>2. ClaimsTypes /\ ClaimsTypes' /\ Dated /\ [ClaimsNext]_claimsVars => Dated'
  <2> SUFFICES ASSUME ClaimsTypes, ClaimsTypes', Dated, [ClaimsNext]_claimsVars
               PROVE  Dated'
    OBVIOUS
  <2> USE DEF cache, server
  <2>1. ASSUME NEW t \in Callers, NEW kid \in Kids \cup {Absent}, NEW exp \in {now, now + 1},
               NEW supplied \in BOOLEAN, GetClaims(t, kid, exp, supplied)
        PROVE  Dated'
    <3>1. exp \in Nat /\ now \in Nat
      BY DEF ClaimsTypes
    <3>2. CASE UNCHANGED <<cache, lookup>>
      BY <2>1, <3>2 DEF GetClaims, Dated, KeysDated, RequestsDated, CacheDated
    <3>3. CASE ~HasExpired(exp) /\ \E what \in {"keys", "user"} : Send(t, what, kid, exp)
      BY <2>1, <3>1, <3>3, SendDated DEF GetClaims, HasExpired
    <3> QED
      BY <2>1, <3>2, <3>3 DEF GetClaims, FetchJwks
  <2>2. ASSUME NEW t \in Callers, RequestFails(t) \/ UserAnswered(t)
        PROVE  Dated'
    BY <2>2, EndDated DEF RequestFails, UserAnswered, Dated, KeysDated, CacheDated
  <2>3. ASSUME NEW t \in Callers, ServerAnswers(t)
        PROVE  Dated'
    <3>1. KeysDated' /\ CacheDated'
      BY <2>3 DEF ServerAnswers, Dated, KeysDated, CacheDated
    <3>2. /\ lookup'[t].sent = lookup[t].sent /\ lookup'[t].exp = lookup[t].exp /\ lookup'[t].keys = published
          /\ lookup[t].at # "idle"
      BY <2>3 DEF ServerAnswers, ClaimsTypes, Lookups
    <3>3. \A u \in Callers \ {t} : lookup'[u] = lookup[u]
      BY <2>3 DEF ServerAnswers, ClaimsTypes
    <3> QED
      BY <2>3, <3>1, <3>2, <3>3 DEF ServerAnswers, Dated, RequestsDated, KeysDated, ClaimsTypes
  <2>4. ASSUME NEW t \in Callers, KeysAnswered(t)
        PROVE  Dated'
    <3>1. KeysDated' /\ RequestsDated'
      BY <2>4, EndDated DEF KeysAnswered, Dated, KeysDated
    <3>2. now <= lookup[t].sent + MaxDelay
      BY <2>4 DEF KeysAnswered, Dated, RequestsDated
    <3>3. \A k \in lookup[t].keys : retired[k] # Absent => lookup[t].sent <= retired[k]
      BY <2>4 DEF KeysAnswered, Dated, RequestsDated
    <3>4. ASSUME NEW k \in lookup[t].keys, retired[k] # Absent
          PROVE  now <= retired[k] + MaxDelay
      BY <3>2, <3>3, <3>4, LookupTyped DEF ClaimsTypes
    <3>5. CacheDated'
      BY <2>4, <3>4 DEF KeysAnswered, Dated, CacheDated, ClaimsTypes
    <3> QED
      BY <3>1, <3>5 DEF Dated
  <2>5. CASE Publish
    BY <2>5 DEF Publish, Dated, KeysDated, RequestsDated, CacheDated
  <2>6. CASE Withdraw
    <3> PICK k \in published :
          /\ published' = published \ {k} /\ retired' = [retired EXCEPT ![k] = now]
          /\ lookup' = [t \in Callers |-> IF lookup[t].kid = k /\ lookup[t].at = "keys"
                                      THEN [lookup[t] EXCEPT !.missing = TRUE] ELSE lookup[t]]
      BY <2>6 DEF Withdraw
    <3>1. UNCHANGED <<now, cache>>
      BY <2>6 DEF Withdraw
    <3>2. KeysDated'
      BY <3>1 DEF Dated, KeysDated, ClaimsTypes
    <3>3. CacheDated'
      BY <3>1 DEF Dated, CacheDated, ClaimsTypes
    <3>4. \A t \in Callers :
            /\ lookup'[t].sent = lookup[t].sent /\ lookup'[t].exp = lookup[t].exp
            /\ lookup'[t].keys = lookup[t].keys /\ lookup'[t].at = lookup[t].at
      BY DEF ClaimsTypes, Lookups
    <3>5. RequestsDated'
      BY <3>1, <3>4, LookupTyped DEF Dated, RequestsDated, ClaimsTypes
    <3> QED
      BY <3>2, <3>3, <3>5 DEF Dated
  <2>7. CASE Tick
    <3>1. KeysDated' /\ CacheDated'
      BY <2>7 DEF Tick, Dated, KeysDated, CacheDated, ClaimsTypes
    <3>2. ASSUME NEW t \in Callers, lookup[t].at # "idle"
          PROVE  now < lookup[t].sent + MaxDelay
      BY <2>7, <3>2, LookupTyped, IdleTyped DEF Tick, ClaimsTypes
    <3>3. RequestsDated'
      BY <2>7, <3>2, LookupTyped DEF Tick, Dated, RequestsDated, ClaimsTypes
    <3> QED
      BY <3>1, <3>3 DEF Dated
  <2>8. CASE UNCHANGED claimsVars \/ \E t \in Callers : Malformed(t)
    BY <2>8 DEF claimsVars, Malformed, Dated, KeysDated, RequestsDated, CacheDated
  <2> QED
    BY <2>1, <2>2, <2>3, <2>4, <2>5, <2>6, <2>7, <2>8 DEF ClaimsNext
<1> QED
  BY <1>1, <1>2, ClaimsTyped, PTL DEF ClaimsSpec

-----------------------------------------------------------------------------
(* A verdict of a step that did not come to claims says nothing.            *)
LEMMA NoClaims == verdict' = Nothing => ClaimsAreRecent' /\ RefusedKeyUnknown'
BY NothingTyped DEF ClaimsAreRecent, RefusedKeyUnknown

(* Claims are given for a token that had not expired before the longest     *)
(* request, and whose key was withdrawn less than the cache's life and the  *)
(* longest request ago: the invariant of get_claims.                        *)
THEOREM ClaimsAreRecentAlways == ClaimsSpec => []ClaimsAreRecent
<1>1. ClaimsInit => ClaimsAreRecent
  BY NothingTyped DEF ClaimsInit, ClaimsAreRecent
<1>2. ClaimsTypes /\ Dated /\ ClaimsAreRecent /\ [ClaimsNext]_claimsVars => ClaimsAreRecent'
  <2> SUFFICES ASSUME ClaimsTypes, Dated, ClaimsAreRecent, [ClaimsNext]_claimsVars
               PROVE  ClaimsAreRecent'
    OBVIOUS
  <2> USE DEF cache, server
  <2>1. ASSUME NEW t \in Callers, NEW kid \in Kids \cup {Absent}, NEW exp \in {now, now + 1},
               NEW supplied \in BOOLEAN, GetClaims(t, kid, exp, supplied)
        PROVE  ClaimsAreRecent'
    <3>1. exp \in Nat /\ now \in Nat
      BY DEF ClaimsTypes
    <3>2. CASE verdict' = Nothing
      BY <3>2, NoClaims
    <3>3. CASE ~HasExpired(exp) /\ supplied /\ verdict' = Verdict("claims", kid, exp, FALSE, TRUE)
      BY <2>1, <3>1, <3>3 DEF GetClaims, HasExpired, Verdict, ClaimsAreRecent
    <3>4. CASE /\ ~HasExpired(exp) /\ CacheFresh /\ kid \in jwks
               /\ verdict' = Verdict("claims", kid, exp, FALSE, FALSE)
      <4>1. retired[kid] # Absent => cachedAt <= retired[kid] + MaxDelay
        BY <3>4 DEF Dated, CacheDated
      <4>2. cachedAt \in Nat /\ now < cachedAt + TTL
        BY <3>4 DEF CacheFresh, ClaimsTypes
      <4>3. retired[kid] # Absent => now < retired[kid] + TTL + MaxDelay
        BY <3>4, <4>1, <4>2 DEF ClaimsTypes
      <4> QED
        BY <2>1, <3>1, <3>4, <4>3 DEF GetClaims, HasExpired, Verdict, ClaimsAreRecent
    <3> QED
      BY <2>1, <3>2, <3>3, <3>4 DEF GetClaims, FetchJwks, Send
  <2>2. ASSUME NEW t \in Callers, UserAnswered(t)
        PROVE  ClaimsAreRecent'
    <3>1. now < lookup[t].exp + MaxDelay
      BY <2>2, LookupTyped DEF UserAnswered, Dated, RequestsDated, ClaimsTypes
    <3> QED
      BY <2>2, <3>1 DEF UserAnswered, Verdict, ClaimsAreRecent
  <2>3. ASSUME NEW t \in Callers, KeysAnswered(t)
        PROVE  ClaimsAreRecent'
    <3> DEFINE c == lookup[t]
    <3>1. /\ now <= c.sent + MaxDelay /\ c.sent < c.exp
          /\ \A k \in c.keys : retired[k] # Absent => c.sent <= retired[k]
      BY <2>3 DEF KeysAnswered, Dated, RequestsDated
    <3>2. now < c.exp + MaxDelay
      BY <3>1, LookupTyped DEF ClaimsTypes
    <3>3. ASSUME c.kid \in c.keys, retired[c.kid] # Absent
          PROVE  now < retired[c.kid] + TTL + MaxDelay
      BY <3>1, <3>3, LookupTyped DEF ClaimsTypes
    <3> QED
      BY <2>3, <3>2, <3>3 DEF KeysAnswered, Verdict, ClaimsAreRecent
  <2>4. CASE UNCHANGED claimsVars
    BY <2>4 DEF claimsVars, ClaimsAreRecent
  <2>5. CASE \/ \E t \in Callers : Malformed(t) \/ RequestFails(t) \/ ServerAnswers(t)
             \/ Publish \/ Withdraw \/ Tick
    BY <2>5, NoClaims DEF Malformed, RequestFails, ServerAnswers, Publish, Withdraw, Tick
  <2> QED
    BY <2>1, <2>2, <2>3, <2>4, <2>5 DEF ClaimsNext
<1> QED
  BY <1>1, <1>2, ClaimsTyped, DatedAlways, PTL DEF ClaimsSpec

-----------------------------------------------------------------------------
(* What a call missed it has noted, whichever of withdrawal and answer came *)
(* first.                                                                   *)
THEOREM MissingNotedAlways == ClaimsSpec => []MissingNoted
<1>1. ClaimsInit => MissingNoted
  BY IdleTyped DEF ClaimsInit, MissingNoted
<1>2. ClaimsTypes /\ MissingNoted /\ [ClaimsNext]_claimsVars => MissingNoted'
  <2> SUFFICES ASSUME ClaimsTypes, MissingNoted, [ClaimsNext]_claimsVars
               PROVE  MissingNoted'
    OBVIOUS
  <2> USE DEF cache, server
  <2>1. ASSUME NEW t \in Callers, lookup' = [lookup EXCEPT ![t] = NoLookup], UNCHANGED published
        PROVE  MissingNoted'
    BY <2>1, IdleTyped DEF MissingNoted, ClaimsTypes
  <2>2. ASSUME NEW t \in Callers, NEW what, NEW kid, NEW exp, Send(t, what, kid, exp), UNCHANGED published,
               what \in {"keys", "user"}
        PROVE  MissingNoted'
    <3>1. /\ lookup'[t].at = what /\ lookup'[t].kid = kid /\ lookup'[t].missing = (kid \notin published)
          /\ \A u \in Callers \ {t} : lookup'[u] = lookup[u]
      BY <2>2 DEF Send, ClaimsTypes
    <3> QED
      BY <2>2, <3>1 DEF MissingNoted
  <2>3. ASSUME NEW t \in Callers, NEW kid \in Kids \cup {Absent}, NEW exp \in {now, now + 1},
               NEW supplied \in BOOLEAN, GetClaims(t, kid, exp, supplied)
        PROVE  MissingNoted'
    <3>1. CASE UNCHANGED lookup
      BY <2>3, <3>1 DEF GetClaims, MissingNoted
    <3>2. CASE \E what \in {"keys", "user"} : Send(t, what, kid, exp)
      BY <2>2, <2>3, <3>2 DEF GetClaims
    <3> QED
      BY <2>3, <3>1, <3>2 DEF GetClaims, FetchJwks
  <2>4. ASSUME NEW t \in Callers, ServerAnswers(t)
        PROVE  MissingNoted'
    <3>1. /\ lookup'[t].at = "answered" /\ lookup'[t].keys = published
          /\ lookup'[t].kid = lookup[t].kid /\ lookup'[t].missing = lookup[t].missing
          /\ \A u \in Callers \ {t} : lookup'[u] = lookup[u]
      BY <2>4 DEF ServerAnswers, ClaimsTypes, Lookups
    <3> QED
      BY <2>4, <3>1 DEF ServerAnswers, MissingNoted
  <2>5. CASE Publish
    BY <2>5 DEF Publish, MissingNoted
  <2>6. CASE Withdraw
    <3> PICK k \in published :
          /\ published' = published \ {k}
          /\ lookup' = [t \in Callers |-> IF lookup[t].kid = k /\ lookup[t].at = "keys"
                                      THEN [lookup[t] EXCEPT !.missing = TRUE] ELSE lookup[t]]
      BY <2>6 DEF Withdraw
    <3>1. ASSUME NEW t \in Callers
          PROVE  /\ lookup'[t].at = lookup[t].at /\ lookup'[t].kid = lookup[t].kid /\ lookup'[t].keys = lookup[t].keys
                 /\ lookup[t].missing => lookup'[t].missing
                 /\ lookup[t].kid = k /\ lookup[t].at = "keys" => lookup'[t].missing
      BY <3>1 DEF ClaimsTypes, Lookups
    <3> QED
      BY <3>1 DEF MissingNoted
  <2>7. CASE \/ UNCHANGED claimsVars \/ Tick \/ \E t \in Callers : Malformed(t)
    BY <2>7 DEF claimsVars, Tick, Malformed, MissingNoted
  <2>8. CASE \E t \in Callers : RequestFails(t) \/ UserAnswered(t) \/ KeysAnswered(t)
    BY <2>1, <2>8 DEF RequestFails, UserAnswered, KeysAnswered
  <2> QED
    BY <2>3, <2>4, <2>5, <2>6, <2>7, <2>8 DEF ClaimsNext
<1> QED
  BY <1>1, <1>2, ClaimsTyped, PTL DEF ClaimsSpec

(* A token is refused for its key only if there was a moment in the call    *)
(* when the server did not publish it: a fresh cache never refuses a key.   *)
THEOREM RefusedKeyUnknownAlways == ClaimsSpec => []RefusedKeyUnknown
<1>1. ClaimsInit => RefusedKeyUnknown
  BY NothingTyped DEF ClaimsInit, RefusedKeyUnknown
<1>2. MissingNoted /\ RefusedKeyUnknown /\ [ClaimsNext]_claimsVars => RefusedKeyUnknown'
  <2> SUFFICES ASSUME MissingNoted, RefusedKeyUnknown, [ClaimsNext]_claimsVars
               PROVE  RefusedKeyUnknown'
    OBVIOUS
  <2> USE DEF cache, server
  <2>1. ASSUME NEW t \in Callers, NEW kid \in Kids \cup {Absent}, NEW exp \in {now, now + 1},
               NEW supplied \in BOOLEAN, GetClaims(t, kid, exp, supplied)
        PROVE  RefusedKeyUnknown'
    <3>1. verdict' = Nothing \/ verdict'.result = "claims"
      BY <2>1 DEF GetClaims, FetchJwks, Send, Verdict
    <3> QED
      BY <3>1, NoClaims DEF RefusedKeyUnknown
  <2>2. ASSUME NEW t \in Callers, KeysAnswered(t)
        PROVE  RefusedKeyUnknown'
    BY <2>2 DEF KeysAnswered, Verdict, MissingNoted, RefusedKeyUnknown
  <2>3. CASE UNCHANGED claimsVars
    BY <2>3 DEF claimsVars, RefusedKeyUnknown
  <2>4. CASE \E t \in Callers : UserAnswered(t)
    BY <2>4 DEF UserAnswered, Verdict, RefusedKeyUnknown
  <2>5. CASE \/ \E t \in Callers : Malformed(t) \/ RequestFails(t) \/ ServerAnswers(t)
             \/ Publish \/ Withdraw \/ Tick
    BY <2>5, NoClaims DEF Malformed, RequestFails, ServerAnswers, Publish, Withdraw, Tick
  <2> QED
    BY <2>1, <2>2, <2>3, <2>4, <2>5 DEF ClaimsNext
<1> QED
  BY <1>1, <1>2, MissingNotedAlways, PTL DEF ClaimsSpec

=============================================================================
