---------------------------- MODULE IdealLimiter ----------------------------
(***************************************************************************)
(* The token bucket a Limiter promises (middleware/auth/rate_limit.go):    *)
(* every key has a bucket that always exists, gains Refill units with      *)
(* every tick of the clock up to a full one, and pays Unit for a request.  *)
(***************************************************************************)
EXTENDS Naturals

CONSTANTS Keys, Full, Unit, Refill

VARIABLE level

IdealInit == level = [k \in Keys |-> Full]

\* What a bucket at x holds a tick later.
Topped(x) == IF x + Refill < Full THEN x + Refill ELSE Full

RefillAll == level' = [k \in Keys |-> Topped(level[k])]

Spend(k) ==
    /\ level[k] >= Unit
    /\ level' = [level EXCEPT ![k] = @ - Unit]

IdealNext == RefillAll \/ \E k \in Keys : Spend(k)

IdealSpec == IdealInit /\ [][IdealNext]_level

=============================================================================
