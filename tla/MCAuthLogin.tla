----------------------------- MODULE MCAuthLogin -----------------------------
(* Two logins and two codes, two requests at a time, two accounts. *)
EXTENDS AuthLogin, TLC

MCSymmetry == Permutations(Uids) \cup Permutations(Codes) \cup Permutations(Handlers)
                \cup Permutations(Accounts)

=============================================================================
