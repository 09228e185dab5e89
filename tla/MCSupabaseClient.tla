---------------------------- MODULE MCSupabaseClient ----------------------------
(* SupabaseClient for TLC                                                   *)
EXTENDS SupabaseClient, TLC

ClientSymmetry == Permutations(Tokens)

=============================================================================
