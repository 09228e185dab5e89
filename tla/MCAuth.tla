--------------------------------- MODULE MCAuth ---------------------------------
(* AuthFlows and AuthClaims for TLC.  The redirects and the claims of one   *)
(* client share no variable and no step of one is enabled by the other, so  *)
(* a run takes the steps of one of them only: what their product would add  *)
(* is the same states side by side.  Tasks, accounts and keys are           *)
(* interchangeable.                                                         *)
EXTENDS AuthFlows, AuthClaims, TLC

AuthInit == FlowsInit /\ ClaimsInit

AuthNext ==
  \/ ClaimsInit /\ FlowsNext /\ UNCHANGED claimsVars
  \/ FlowsInit /\ ClaimsNext /\ UNCHANGED flowVars

AuthSpec == AuthInit /\ [][AuthNext]_<<flowVars, claimsVars>>

AuthSymmetry == Permutations(Tasks) \cup Permutations(Accounts) \cup Permutations(Kids)

=============================================================================
