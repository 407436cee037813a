---------------------------- MODULE RateLimiter ----------------------------
(***************************************************************************)
(* The RateLimit middleware (middleware/auth/rate_limit.go) over the       *)
(* in-memory token buckets of memoryLimiter                                *)
(* (middleware/auth/rate_limit_memory.go).  Requests run concurrently and  *)
(* ask for one token per key template, one Allow after the other; Allow    *)
(* and the janitor's sweep each hold the limiter's mutex.                  *)
(*                                                                         *)
(* The float64 token count is an integer here: a token is Unit units and   *)
(* Refill units arrive per tick, so Refill / Unit is the rate.  Rounding   *)
(* of float64 is not modelled; the truncation of the wait to a Duration is. *)
(***************************************************************************)
EXTENDS Integers, Sequences

CONSTANTS
    Keys,       \* expanded bucket keys
    KeyLists,   \* what expandKey makes of the templates, per request
    Requests,
    Capacity,   \* burst, in tokens
    Unit,       \* units in a token
    Refill,     \* units per tick
    Idle,       \* the janitor's period and idle limit, in ticks
    MaxTime     \* bound on the clock

ASSUME LimiterAssumption ==
    /\ KeyLists \subseteq Seq(Keys) \ {<<>>}
    /\ {Capacity, Unit, Refill, Idle} \subseteq Nat \ {0}
    /\ MaxTime \in Nat

VARIABLES
    now,
    present,    \* the keys of the buckets map
    tokens,     \* tokens of each bucket, in units
    last,       \* lastRefill of each bucket
    todo,       \* the keys each request still has to pass
    due,        \* the instant in ticker.C; 0 = nothing to receive
    from,       \* history: where the current observation window starts
    grants,     \* history: tokens granted per key since then
    retryAt     \* history: the instant retryAfter named; 0 = spent since

bucketVars == <<present, tokens, last>>
ghostVars == <<from, grants, retryAt>>
vars == <<now, bucketVars, todo, due, ghostVars>>

FullLevel == Capacity * Unit

Init ==
    /\ now = 0
    /\ present = {}
    /\ tokens = [k \in Keys |-> 0]
    /\ last = [k \in Keys |-> 0]
    /\ todo = [r \in Requests |-> <<>>]
    /\ due = 0
    /\ from = 0
    /\ grants = [k \in Keys |-> 0]
    /\ retryAt = [k \in Keys |-> 0]

-----------------------------------------------------------------------------
\* Mutant of Refilled: the refill is not capped.
RefilledUncapped(x, elapsed) == x + elapsed * Refill

\* math.Min(capacity, tokens + elapsed * refill).
Refilled(x, elapsed) ==
    IF x + elapsed * Refill < FullLevel THEN x + elapsed * Refill ELSE FullLevel

\* What Allow finds in the bucket of k after its lazy refill; an unknown key
\* starts full.
Level(k) == IF k \in present THEN Refilled(tokens[k], now - last[k]) ELSE FullLevel

\* The bucket of k is written back.
Keep(k, x) ==
    /\ present' = present \cup {k}
    /\ tokens' = [tokens EXCEPT ![k] = x]
    /\ last' = [last EXCEPT ![k] = now]

\* Mutant of RetryAfter: the time until the bucket is full again.
RetryAfterFull(x) == (FullLevel - x) \div Refill

\* deficit / refill, truncated to a Duration.
RetryAfter(x) == (Unit - x) \div Refill

-----------------------------------------------------------------------------
\* A request for the protected path arrives.
Arrive(r, ks) ==
    /\ todo[r] = <<>>
    /\ todo' = [todo EXCEPT ![r] = ks]
    /\ UNCHANGED <<now, bucketVars, due, ghostVars>>

\* Allow grants the next key of r; after the last one r is served.
Allowed(r) ==
    LET k == Head(todo[r]) IN
    /\ todo[r] # <<>>
    /\ Level(k) >= Unit
    /\ Keep(k, Level(k) - Unit)
    /\ todo' = [todo EXCEPT ![r] = Tail(@)]
    /\ grants' = [grants EXCEPT ![k] = @ + 1]
    /\ retryAt' = [retryAt EXCEPT ![k] = 0]
    /\ UNCHANGED <<now, due, from>>

\* Allow refuses the next key: r ends, the tokens of earlier keys are spent.
Denied(r) ==
    LET k == Head(todo[r]) IN
    /\ todo[r] # <<>>
    /\ Level(k) < Unit
    /\ Keep(k, Level(k))
    /\ todo' = [todo EXCEPT ![r] = <<>>]
    /\ retryAt' = [retryAt EXCEPT ![k] = now + RetryAfter(Level(k))]
    /\ UNCHANGED <<now, due, from, grants>>

\* Mutant of IdleSince: half the idle window is enough.
IdleSinceHalf(k) == 2 * (due - last[k]) > Idle

\* The janitor's condition on a bucket, with the ticker's instant as "now".
IdleSince(k) == due - last[k] > Idle

\* The janitor receives a tick and sweeps.
Janitor ==
    /\ due # 0
    /\ present' = {k \in present : ~IdleSince(k)}
    /\ due' = 0
    /\ UNCHANGED <<now, tokens, last, todo, ghostVars>>

\* The clock; the ticker fires every Idle and drops a tick nobody received.
Tick ==
    /\ now < MaxTime
    /\ now' = now + 1
    /\ due' = IF due = 0 /\ (now + 1) % Idle = 0 THEN now + 1 ELSE due
    /\ UNCHANGED <<bucketVars, todo, ghostVars>>

\* An observer starts a new window (history only).
OpenWindow ==
    /\ from' = now
    /\ grants' = [k \in Keys |-> 0]
    /\ UNCHANGED <<now, bucketVars, todo, due, retryAt>>

Next ==
    \/ \E r \in Requests :
         \/ \E ks \in KeyLists : Arrive(r, ks)
         \/ Allowed(r)
         \/ Denied(r)
    \/ Janitor
    \/ Tick
    \/ OpenWindow

Spec == Init /\ [][Next]_vars

-----------------------------------------------------------------------------
(* Properties.                                                             *)

\* The variables range over what the limiter can hold; a bucket never holds
\* more than the burst.
TypeOK ==
    /\ now \in Nat
    /\ present \subseteq Keys
    /\ tokens \in [Keys -> 0..FullLevel]
    /\ last \in [Keys -> Nat]
    /\ todo \in [Requests -> Seq(Keys)]
    /\ due \in Nat
    /\ from \in Nat
    /\ grants \in [Keys -> Nat]
    /\ retryAt \in [Keys -> Nat]

\* The limit itself: in every window of time, however requests interleave
\* and the janitor sweeps, a key is granted at most the burst plus what the
\* window refilled.
BurstBound ==
    \A k \in Keys : grants[k] * Unit <= FullLevel + (now - from) * Refill

\* retryAfter is right to the tick: while nobody spends on the key there is
\* no token before the instant it names, and there is one a tick after it.
RetryAfterTight ==
    \A k \in Keys : retryAt[k] # 0 =>
        /\ now < retryAt[k] => Level(k) < Unit
        /\ now > retryAt[k] => Level(k) >= Unit

\* The janitor's comment on a bucket it drops: "refill has fully replenished
\* it by then".
DroppedBucketsAreFull ==
    \A k \in present : due # 0 /\ IdleSince(k) => Level(k) = FullLevel

-----------------------------------------------------------------------------
(* The inductive strengthening of BurstBound.                              *)

\* The janitor's period is long enough for an empty bucket to fill up.
FullyRefills == Idle * Refill >= FullLevel

\* No recorded instant lies in the future.
ClockOK ==
    /\ due <= now
    /\ from <= now
    /\ \A k \in Keys : last[k] <= now

\* What was granted and what is left came from the burst or from the refill.
Accounted ==
    \A k \in Keys : grants[k] * Unit + Level(k) <= FullLevel + (now - from) * Refill

LimiterInv == TypeOK /\ ClockOK /\ Accounted

-----------------------------------------------------------------------------
\* The lazily refilled, garbage-collected buckets implement the ideal ones:
\* the janitor's sweep and the lazy refill are invisible.
Ideal == INSTANCE IdealLimiter
    WITH Full <- FullLevel, level <- [k \in Keys |-> Level(k)]
ImplementsIdealLimiter == Ideal!IdealSpec

=============================================================================
