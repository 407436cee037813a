--------------------------- MODULE MCAuthSession ---------------------------
(* Small instances of AuthSession for TLC.                                 *)
EXTENDS AuthSession, TLC

CONSTANTS u1, adm, ops

MCUsers == {u1}
MCRoles == {adm, ops}
\* Requests and roles are interchangeable: nothing orders or names them.
Sym == Permutations(Requests) \cup Permutations(Roles)
MCFirst == {1}

=============================================================================
