--------------------------- MODULE MCRateLimiter ---------------------------
(* Small instances of RateLimiter for TLC.                                 *)
EXTENDS RateLimiter, TLC

CONSTANTS ip, usr

\* One template on either key, and two templates in either order.
MixedLists == {<<ip>>, <<usr>>, <<ip, usr>>, <<usr, ip>>}
OneKey == {<<ip>>}

Sym == Permutations(Requests) \cup Permutations(Keys)

=============================================================================
