---------------------------- MODULE MCAuthSessions ----------------------------
(* Instances of AuthSessions small enough for TLC. *)
EXTENDS AuthSessions, TLC

Symmetric ==
  Permutations(Requests) \cup Permutations(Sessions) \cup Permutations(Mails)
=============================================================================
