---------------------------- MODULE MCGoTrueSession ----------------------------
(* GoTrueSession for TLC: every call of an application task.                *)
EXTENDS GoTrueSession

AllOperations ==
  {"get_session", "refresh_session", "sign_in", "exchange", "update_user",
   "verify", "sign_out", "recover"}

=============================================================================
