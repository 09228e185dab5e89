------------------------------- MODULE AuthFlows -------------------------------
(****************************************************************************)
(* The flows of the auth client (supabase_auth/_async/gotrue_client.py)     *)
(* that sign a user in, change or ask about the user, and go through a      *)
(* browser: which session each leaves in the storage, and the PKCE code     *)
(* verifier between the redirect and the exchange of its code.              *)
(*                                                                          *)
(* Several tasks make calls at once; a call goes to its request in one step *)
(* and on from the answer in another.  Storage does not suspend and no      *)
(* session ends meanwhile (both are in GoTrueSession).  A token is the      *)
(* account it is for; a code and a verifier, the number of their flow.      *)
(****************************************************************************)
EXTENDS Naturals

CONSTANTS
  Tasks,       \* application tasks that call the client
  Accounts,    \* users at the server
  None,        \* no session, no account
  FlowTypes,   \* what the client's flow_type may be
  MaxFlows     \* bound on the redirects begun

ASSUME FlowsAssumption ==
  FlowTypes \subseteq {"pkce", "implicit"} /\ MaxFlows \in Nat /\ None \notin Accounts

VARIABLES
  flowType,
  slot,        \* the stored session: whose token it has, and whose user
  told,        \* the last event and its account
  verifier,    \* storage: {storage_key}-code-verifier; 0 if there is none
  flows,       \* code verifiers made so far
  opened,      \* flows whose URL the application was given
  codes,       \* server: flows whose code came back and was not exchanged
  call,        \* what each task waits for
  refused,     \* flows with a code the server refused for its verifier
  overtaken    \* flows after which another was begun or exchanged

userVars == <<slot, told>>
pkceVars == <<verifier, flows, opened>>
history == <<flowType, codes, refused, overtaken>>
flowVars == <<userVars, pkceVars, history, call>>

Session(token, user) == [token |-> token, user |-> user]
NoSession == Session(None, None)
Request(what, account, n, v) == [what |-> what, account |-> account, flow |-> n, verifier |-> v]
Idle == Request("idle", None, 0, 0)

FlowsInit ==
  /\ flowType \in FlowTypes
  /\ slot = NoSession /\ told = <<"none", None>>
  /\ verifier = 0 /\ flows = 0 /\ opened = {} /\ codes = {}
  /\ call = [t \in Tasks |-> Idle]
  /\ refused = {} /\ overtaken = {}

Ask(t, r) == call[t] = Idle /\ call' = [call EXCEPT ![t] = r]
Raise(t) == call[t] = Idle /\ UNCHANGED call
Ends(t, what) == call[t].what = what /\ call' = [call EXCEPT ![t] = Idle]

RemoveSession == slot' = NoSession
SaveAndTell(s, event) == slot' = s /\ told' = <<event, s.token>>

-----------------------------------------------------------------------------
(* Signing in: the session that was there goes first                        *)

SignInAnonymously(t) ==
  /\ RemoveSession
  /\ \E a \in Accounts : Ask(t, Request("sign_in", a, 0, 0))
  /\ UNCHANGED <<told, pkceVars, history>>

(* An address and a password are wanted.                                    *)
SignUp(t) ==
  \/ SignInAnonymously(t)
  \/ RemoveSession /\ Raise(t) /\ UNCHANGED <<told, pkceVars, history>>

SignInWithPassword(t) == SignUp(t)

SignInWithIdToken(t) == SignInAnonymously(t)
VerifyOtp(t) == SignInAnonymously(t)

(* parse_auth_response: a session, or a user alone (yet to be confirmed)    *)
SignInAnswered(t) ==
  /\ Ends(t, "sign_in")
  /\ \/ SaveAndTell(Session(call[t].account, call[t].account), "SIGNED_IN")
     \/ UNCHANGED userVars
  /\ UNCHANGED <<pkceVars, history>>

(* A domain, an address or a number is wanted, or the call raises; what     *)
(* follows is for the user to do.                                           *)
SignInWithSso(t) ==
  /\ RemoveSession
  /\ Ask(t, Request("nothing", None, 0, 0)) \/ Raise(t)
  /\ UNCHANGED <<told, pkceVars, history>>

SignInWithOtp(t) == SignInWithSso(t)

Resend(t) ==
  /\ Ask(t, Request("nothing", None, 0, 0)) \/ Raise(t)
  /\ UNCHANGED <<userVars, pkceVars, history>>

ResetPassword(t) ==
  /\ Ask(t, Request("nothing", None, 0, 0))
  /\ UNCHANGED <<userVars, pkceVars, history>>

-----------------------------------------------------------------------------
(* The admin API: no session; an id of a user is checked first.             *)

InviteUser(t) == ResetPassword(t)
ManageUsers(t) == Resend(t)
ManageFactors(t) == Resend(t)
ListOAuthClients(t) == ResetPassword(t)
ManageOAuthClients(t) == Resend(t)

-----------------------------------------------------------------------------
(* Through a browser                                                        *)

(* _get_url_for_provider: a new verifier takes the place of the last        *)
NewVerifier ==
  IF flowType = "pkce"
  THEN /\ flows < MaxFlows /\ flows' = flows + 1 /\ verifier' = flows + 1
       /\ overtaken' = overtaken \cup 1..flows
  ELSE UNCHANGED <<flows, verifier, overtaken>>

Opened == opened' = IF flowType = "pkce" THEN opened \cup {flows + 1} ELSE opened

SignInWithOAuth(t) ==
  /\ RemoveSession /\ Raise(t)
  /\ NewVerifier /\ Opened
  /\ UNCHANGED <<told, flowType, codes, refused>>

(* link_identity: the verifier is made before the session is looked for,    *)
(* and before the server answers with the URL                               *)
LinkIdentity(t) ==
  /\ NewVerifier
  /\ IF slot = NoSession THEN Raise(t)
                         ELSE Ask(t, Request("link", slot.token, IF flowType = "pkce" THEN flows + 1 ELSE 0, 0))
  /\ UNCHANGED <<userVars, opened, flowType, codes, refused>>

LinkAnswered(t) ==
  /\ Ends(t, "link")
  /\ opened' = opened \cup ({call[t].flow} \ {0})
  /\ UNCHANGED <<userVars, verifier, flows, history>>

Redirected ==
  /\ \E n \in opened : opened' = opened \ {n} /\ codes' = codes \cup {n}
  /\ UNCHANGED <<userVars, verifier, flows, call, flowType, refused, overtaken>>

(* Mutant: the verifier is taken out of the storage.                        *)
ExchangeTakes(t) ==
  /\ \E n \in codes : Ask(t, Request("exchange", None, n, verifier))
  /\ verifier' = 0
  /\ UNCHANGED <<userVars, flows, opened, history>>

(* exchange_code_for_session, with the verifier stored or with one given    *)
Exchange(t) ==
  /\ \E n \in codes : \E v \in {verifier, n} : Ask(t, Request("exchange", None, n, v))
  /\ UNCHANGED <<userVars, pkceVars, history>>

(* The server takes a code once, with its verifier.                         *)
ServerExchanges(t) ==
  /\ call[t].what = "exchange"
  /\ LET n == call[t].flow IN
     IF n \in codes /\ call[t].verifier = n
     THEN /\ codes' = codes \ {n}
          /\ \E a \in Accounts : call' = [call EXCEPT ![t] = Request("exchanged", a, n, n)]
          /\ UNCHANGED refused
     ELSE /\ call' = [call EXCEPT ![t] = Idle]
          /\ refused' = IF n \in codes THEN refused \cup {n} ELSE refused
          /\ UNCHANGED codes
  /\ UNCHANGED <<userVars, pkceVars, flowType, overtaken>>

ExchangeAnswered(t) ==
  /\ Ends(t, "exchanged")
  /\ verifier' = 0
  /\ overtaken' = overtaken \cup (1..flows \ {call[t].flow})
  /\ \/ SaveAndTell(Session(call[t].account, call[t].account), "SIGNED_IN")
     \/ UNCHANGED userVars
  /\ UNCHANGED <<flows, opened, flowType, codes, refused>>

(* initialize_from_url: the tokens are in the URL, an error of the provider *)
(* may be                                                                   *)
InitializeFromUrl(t) ==
  /\ \/ \E a \in Accounts : Ask(t, Request("url", a, 0, 0)) /\ UNCHANGED slot
     \/ Raise(t) /\ RemoveSession
  /\ UNCHANGED <<told, pkceVars, history>>

UrlAnswered(t) ==
  /\ Ends(t, "url")
  /\ \E event \in {"SIGNED_IN", "PASSWORD_RECOVERY"} :
       SaveAndTell(Session(call[t].account, call[t].account), event)
  /\ UNCHANGED <<pkceVars, history>>

-----------------------------------------------------------------------------
(* With the session                                                         *)

(* get_user_identities, unlink_identity: a request with the token           *)
AskAsUser(t) ==
  /\ IF slot = NoSession THEN Raise(t) ELSE Ask(t, Request("nothing", None, 0, 0))
  /\ UNCHANGED <<userVars, pkceVars, history>>

GetUser(t) == AskAsUser(t)
Reauthenticate(t) == AskAsUser(t)
Enroll(t) == AskAsUser(t)
Unenroll(t) == AskAsUser(t)

(* challenge_and_verify looks for the session twice: once for each request. *)
Challenge(t) ==
  /\ IF slot = NoSession THEN Raise(t) ELSE Ask(t, Request("challenge", None, 0, 0))
  /\ UNCHANGED <<userVars, pkceVars, history>>

Challenged(t) ==
  /\ call[t].what = "challenge"
  /\ call' = [call EXCEPT ![t] = IF slot = NoSession THEN Idle ELSE Request("verify", slot.token, 0, 0)]
  /\ UNCHANGED <<userVars, pkceVars, history>>

(* update_user and mfa.verify                                               *)
AskToChange(t) ==
  /\ IF slot = NoSession THEN Raise(t)
     ELSE \E what \in {"update", "verify"} : Ask(t, Request(what, slot.token, 0, 0))
  /\ UNCHANGED <<userVars, pkceVars, history>>

(* The user is put into the session that was read before the request.       *)
UserUpdated(t) ==
  /\ Ends(t, "update")
  /\ SaveAndTell(Session(call[t].account, call[t].account), "USER_UPDATED")
  /\ UNCHANGED <<pkceVars, history>>

FactorVerified(t) ==
  /\ Ends(t, "verify")
  /\ SaveAndTell(Session(call[t].account, call[t].account), "MFA_CHALLENGE_VERIFIED")
  /\ UNCHANGED <<pkceVars, history>>

(* set_session: the user is asked for, or the token refreshed if it ended;  *)
(* without a refresh token it raises                                        *)
SetSession(t) ==
  /\ \/ \E a \in Accounts : Ask(t, Request("set", a, 0, 0))
     \/ Raise(t)
  /\ UNCHANGED <<userVars, pkceVars, history>>

SetSessionAnswered(t) ==
  /\ Ends(t, "set")
  /\ \/ SaveAndTell(Session(call[t].account, call[t].account), "TOKEN_REFRESHED")
     \/ UNCHANGED userVars
  /\ UNCHANGED <<pkceVars, history>>

(* sign_out, of all sessions, of this one or of the others                  *)
SignOut(t) ==
  /\ \E what \in {"sign_out", "nothing"} :
       IF slot = NoSession
       THEN Raise(t) /\ (IF what = "nothing" THEN UNCHANGED userVars
                         ELSE RemoveSession /\ told' = <<"SIGNED_OUT", None>>)
       ELSE Ask(t, Request(what, slot.token, 0, 0)) /\ UNCHANGED userVars
  /\ UNCHANGED <<pkceVars, history>>

(* Its request succeeded or was refused.                                    *)
SignedOut(t) ==
  /\ Ends(t, "sign_out")
  /\ RemoveSession /\ told' = <<"SIGNED_OUT", None>>
  /\ UNCHANGED <<pkceVars, history>>

NothingAnswered(t) ==
  /\ Ends(t, "nothing")
  /\ UNCHANGED <<userVars, pkceVars, history>>

(* A request fails, and the call raises; from_url removes the session.      *)
Fails(t) ==
  /\ call[t] # Idle /\ call' = [call EXCEPT ![t] = Idle]
  /\ IF call[t].what = "url" THEN RemoveSession ELSE UNCHANGED slot
  /\ UNCHANGED <<told, pkceVars, history>>

FlowsNext ==
  \/ \E t \in Tasks :
       \/ SignInAnonymously(t) \/ SignUp(t) \/ SignInWithPassword(t) \/ SignInWithIdToken(t)
       \/ VerifyOtp(t) \/ SignInAnswered(t)
       \/ SignInWithSso(t) \/ SignInWithOtp(t) \/ Resend(t) \/ ResetPassword(t)
       \/ InviteUser(t) \/ ManageUsers(t) \/ ManageFactors(t)
       \/ ListOAuthClients(t) \/ ManageOAuthClients(t)
       \/ SignInWithOAuth(t) \/ LinkIdentity(t) \/ LinkAnswered(t)
       \/ Exchange(t) \/ ServerExchanges(t) \/ ExchangeAnswered(t)
       \/ InitializeFromUrl(t) \/ UrlAnswered(t)
       \/ AskAsUser(t) \/ GetUser(t) \/ Reauthenticate(t) \/ Enroll(t) \/ Unenroll(t)
       \/ Challenge(t) \/ Challenged(t) \/ AskToChange(t)
       \/ UserUpdated(t) \/ FactorVerified(t) \/ SetSession(t) \/ SetSessionAnswered(t)
       \/ SignOut(t) \/ SignedOut(t) \/ NothingAnswered(t) \/ Fails(t)
  \/ Redirected

FlowsSpec == FlowsInit /\ [][FlowsNext]_flowVars

-----------------------------------------------------------------------------
(* The server refuses a code for its verifier only if another flow was      *)
(* begun after its own, or another's code was exchanged: signing in some    *)
(* other way, signing out and requests that fail leave the verifier for     *)
(* another try (gotrue_client.py:1181, 1196-1210).                          *)
RefusedIfOvertaken == refused \subseteq overtaken

=============================================================================
