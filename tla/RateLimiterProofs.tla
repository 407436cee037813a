------------------------- MODULE RateLimiterProofs -------------------------
(***************************************************************************)
(* Proofs about RateLimiter: for any keys, requests, burst, rate and clock *)
(* bound, provided a bucket fills up within the janitor's idle window.     *)
(***************************************************************************)
EXTENDS RateLimiter, TLAPS

-----------------------------------------------------------------------------
(* Arithmetic of the lazy refill.                                          *)

\* The parameters are positive.
LEMMA Params ==
    /\ Capacity \in Nat /\ Unit \in Nat /\ Refill \in Nat /\ Idle \in Nat
    /\ Capacity > 0 /\ Unit > 0 /\ Refill > 0 /\ Idle > 0
    /\ MaxTime \in Nat
    /\ FullLevel \in Nat /\ FullLevel >= Unit
<1>1. /\ Capacity \in Nat /\ Unit \in Nat /\ Refill \in Nat /\ Idle \in Nat
      /\ Capacity > 0 /\ Unit > 0 /\ Refill > 0 /\ Idle > 0
      /\ MaxTime \in Nat
  BY LimiterAssumption DEF LimiterAssumption
<1>2. FullLevel \in Nat /\ FullLevel >= Unit
  BY <1>1 DEF FullLevel
<1>3. QED
  BY <1>1, <1>2

\* elapsed * refill is a natural number, grows by Refill per tick and with
\* the elapsed time.
LEMMA RefillGrows ==
    ASSUME NEW m \in Nat
    PROVE  /\ m * Refill \in Nat
           /\ (m + 1) * Refill = m * Refill + Refill
           /\ \A n \in Nat : n <= m => n * Refill <= m * Refill
BY Params

\* math.Min keeps the level between empty and full.
LEMMA RefilledRange ==
    ASSUME NEW x \in 0..FullLevel, NEW m \in Nat
    PROVE  /\ Refilled(x, m) \in 0..FullLevel
           /\ Refilled(x, 0) = x
           /\ Refilled(x, m + 1) =
                IF Refilled(x, m) + Refill < FullLevel THEN Refilled(x, m) + Refill ELSE FullLevel
           /\ m * Refill >= FullLevel => Refilled(x, m) = FullLevel
<1>1. m * Refill \in Nat /\ (m + 1) * Refill = m * Refill + Refill /\ 0 * Refill = 0
  BY RefillGrows, Params
<1> DEFINE e == m * Refill
<1>2. e \in Nat
  BY <1>1
<1>3. /\ Refilled(x, m) = IF x + e < FullLevel THEN x + e ELSE FullLevel
      /\ Refilled(x, m + 1) = IF x + (e + Refill) < FullLevel THEN x + (e + Refill) ELSE FullLevel
      /\ Refilled(x, 0) = IF x + 0 < FullLevel THEN x + 0 ELSE FullLevel
  BY <1>1 DEF Refilled
<1> HIDE DEF e
<1>4. QED
  BY <1>2, <1>3, Params DEF e

-----------------------------------------------------------------------------
(* Every step, seen from one bucket.                                       *)

\* The level of a bucket is between empty and full.
LEMMA LevelRange ==
    ASSUME TypeOK, ClockOK, NEW k \in Keys
    PROVE  Level(k) \in 0..FullLevel
<1>1. CASE k \in present
  <2>1. tokens[k] \in 0..FullLevel /\ now - last[k] \in Nat
    BY DEF TypeOK, ClockOK
  <2>2. QED
    BY <1>1, <2>1, RefilledRange DEF Level
<1>2. CASE k \notin present
  BY <1>2, Params DEF Level
<1>3. QED
  BY <1>1, <1>2

\* Keep: the written bucket holds x, the others what they held.
LEMMA KeepLevel ==
    ASSUME TypeOK, ClockOK, NEW k \in Keys, NEW x \in 0..FullLevel, Keep(k, x), now' = now
    PROVE  /\ present' \subseteq Keys
           /\ tokens' \in [Keys -> 0..FullLevel]
           /\ last' \in [Keys -> Nat]
           /\ \A i \in Keys : last'[i] <= now
           /\ \A i \in Keys : Level(i)' = IF i = k THEN x ELSE Level(i)
<1>1. /\ present' = present \cup {k}
      /\ tokens' = [tokens EXCEPT ![k] = x]
      /\ last' = [last EXCEPT ![k] = now]
  BY DEF Keep
<1>2. /\ present' \subseteq Keys
      /\ tokens' \in [Keys -> 0..FullLevel]
      /\ last' \in [Keys -> Nat]
      /\ \A i \in Keys : last'[i] <= now
  BY <1>1 DEF TypeOK, ClockOK
<1>3. \A i \in Keys : i # k => Level(i)' = Level(i)
  BY <1>1 DEF Level, TypeOK, Refilled, FullLevel
<1>4. Level(k)' = x
  <2>1. Level(k)' = Refilled(x, now - now)
    BY <1>1 DEF Level, TypeOK, Refilled, FullLevel
  <2>2. now - now = 0
    BY DEF TypeOK
  <2>3. QED
    BY <2>1, <2>2, RefilledRange
<1>5. QED
  BY <1>2, <1>3, <1>4

\* The clock: a tick of refill for every bucket.
LEMMA TickLevel ==
    ASSUME TypeOK, ClockOK, Tick
    PROVE  \A k \in Keys :
             Level(k)' = IF Level(k) + Refill < FullLevel THEN Level(k) + Refill ELSE FullLevel
<1> SUFFICES ASSUME NEW k \in Keys
             PROVE  Level(k)' = IF Level(k) + Refill < FullLevel THEN Level(k) + Refill ELSE FullLevel
  OBVIOUS
<1>1. now' = now + 1 /\ UNCHANGED <<present, tokens, last>>
  BY DEF Tick, bucketVars
<1>2. CASE k \in present
  <2>1. tokens[k] \in 0..FullLevel /\ now - last[k] \in Nat
    BY DEF TypeOK, ClockOK
  <2>2. now' - last[k] = (now - last[k]) + 1
    BY <1>1 DEF TypeOK
  <2>3. Level(k)' = Refilled(tokens[k], (now - last[k]) + 1)
    BY <1>1, <1>2, <2>2 DEF Level, Refilled, FullLevel
  <2>4. QED
    BY <1>2, <2>1, <2>3, RefilledRange DEF Level
<1>3. CASE k \notin present
  BY <1>1, <1>3, Params DEF Level, FullLevel
<1>4. QED
  BY <1>2, <1>3

\* The janitor's comment, for rules that refill within the idle window: the
\* buckets it drops are full.
LEMMA DroppedFull ==
    ASSUME FullyRefills, TypeOK, ClockOK
    PROVE  DroppedBucketsAreFull
<1> SUFFICES ASSUME NEW k \in present, due # 0, IdleSince(k) PROVE Level(k) = FullLevel
  BY DEF DroppedBucketsAreFull
<1>1. /\ k \in Keys /\ tokens[k] \in 0..FullLevel
      /\ now - last[k] \in Nat /\ Idle <= now - last[k]
  BY Params DEF TypeOK, ClockOK, IdleSince
<1>2. Idle * Refill <= (now - last[k]) * Refill /\ (now - last[k]) * Refill \in Nat
  BY <1>1, RefillGrows, Params
<1>3. (now - last[k]) * Refill >= FullLevel
  <2>1. \A p, q \in Nat : p >= FullLevel /\ p <= q => q >= FullLevel
    BY Params
  <2>2. Idle * Refill \in Nat
    BY RefillGrows, Params
  <2>3. QED
    BY <1>2, <2>1, <2>2 DEF FullyRefills
<1>4. QED
  BY <1>1, <1>3, RefilledRange DEF Level

\* The sweep leaves every level as it was.
LEMMA JanitorLevel ==
    ASSUME FullyRefills, TypeOK, ClockOK, Janitor
    PROVE  \A k \in Keys : Level(k)' = Level(k)
<1>1. /\ present' = {k \in present : ~IdleSince(k)} /\ due # 0
      /\ UNCHANGED <<now, tokens, last>>
  BY DEF Janitor
<1>2. \A k \in present : IdleSince(k) => Level(k) = FullLevel
  BY <1>1, DroppedFull DEF DroppedBucketsAreFull
<1>3. \A k \in Keys : k \in present' => Level(k)' = Level(k)
  BY <1>1 DEF Level, Refilled, FullLevel
<1>4. \A k \in Keys : k \notin present' => Level(k)' = FullLevel
  BY DEF Level, FullLevel
<1>5. \A k \in Keys : k \notin present' => Level(k) = FullLevel
  BY <1>1, <1>2 DEF Level
<1>6. QED
  BY <1>3, <1>4, <1>5

-----------------------------------------------------------------------------
(* The invariant.                                                          *)

\* retryAfter is a natural number of ticks.
LEMMA RetryAfterIsNat ==
    ASSUME NEW x \in Nat, x < Unit
    PROVE  RetryAfter(x) \in Nat
  BY Params DEF RetryAfter

\* The limiter starts with no bucket and an empty window.
LEMMA InitLimiterInv == Init => LimiterInv
<1> SUFFICES ASSUME Init PROVE LimiterInv
  OBVIOUS
<1>1. TypeOK /\ ClockOK
  BY Params DEF Init, TypeOK, ClockOK
<1>2. \A k \in Keys : Level(k) = FullLevel
  BY DEF Init, Level
<1>3. 0 * Unit = 0 /\ (0 - 0) * Refill = 0
  BY Params
<1>4. ASSUME NEW k \in Keys
      PROVE  grants[k] * Unit + Level(k) <= FullLevel + (now - from) * Refill
  <2>1. grants[k] = 0 /\ now = 0 /\ from = 0
    BY DEF Init
  <2>2. grants[k] * Unit = 0 /\ (now - from) * Refill = 0
    BY <2>1, <1>3
  <2>3. QED
    BY <2>2, <1>2, Params
<1>40. Accounted
  BY <1>4 DEF Accounted
<1>5. QED
  BY <1>1, <1>40 DEF LimiterInv

\* Every step keeps the buckets between empty and full and no instant in the
\* future, whatever the janitor's window.
LEMMA NextTypeClock == TypeOK /\ ClockOK /\ [Next]_vars => (TypeOK /\ ClockOK)'
<1> SUFFICES ASSUME TypeOK, ClockOK, [Next]_vars PROVE (TypeOK /\ ClockOK)'
  OBVIOUS
<1>0. /\ \A k \in Keys : Level(k) \in 0..FullLevel
      /\ now \in Nat /\ from \in Nat /\ from <= now /\ due \in Nat /\ due <= now
  BY LevelRange DEF TypeOK, ClockOK
<1>1. ASSUME NEW r \in Requests, NEW ks \in KeyLists, Arrive(r, ks) PROVE TypeOK' /\ ClockOK'
  <2>1. ks \in Seq(Keys)
    BY LimiterAssumption DEF LimiterAssumption
  <2>2. QED
    BY <1>0, <1>1, <2>1 DEF Arrive, TypeOK, ClockOK, bucketVars, ghostVars, FullLevel
<1>2. ASSUME NEW r \in Requests, Allowed(r) PROVE TypeOK' /\ ClockOK'
  <2> DEFINE k == Head(todo[r])
  <2>1. /\ k \in Keys /\ Tail(todo[r]) \in Seq(Keys)
        /\ Level(k) >= Unit /\ Keep(k, Level(k) - Unit)
        /\ UNCHANGED <<now, due, from>>
    BY <1>0, <1>2 DEF Allowed, TypeOK
  <2>2. Level(k) - Unit \in 0..FullLevel
    BY <1>0, <2>1, Params
  <2>3. /\ present' \subseteq Keys
        /\ tokens' \in [Keys -> 0..FullLevel]
        /\ last' \in [Keys -> Nat]
        /\ \A i \in Keys : last'[i] <= now
    BY <1>0, <2>1, <2>2, KeepLevel
  <2>4. todo' \in [Requests -> Seq(Keys)]
    BY <1>0, <1>2, <2>1 DEF Allowed, TypeOK
  <2>5. grants' \in [Keys -> Nat] /\ retryAt' \in [Keys -> Nat]
    <3>1. /\ grants' = [grants EXCEPT ![k] = @ + 1]
          /\ retryAt' = [retryAt EXCEPT ![k] = 0]
      BY <1>2 DEF Allowed
    <3>2. /\ grants \in [Keys -> Nat] /\ retryAt \in [Keys -> Nat]
          /\ k \in Keys
      BY <1>0, <2>1 DEF TypeOK
    <3> HIDE DEF k
    <3>3. QED
      BY <3>1, <3>2
  <2>6. QED
    BY <1>0, <2>1, <2>3, <2>4, <2>5 DEF TypeOK, ClockOK, FullLevel
<1>3. ASSUME NEW r \in Requests, Denied(r) PROVE TypeOK' /\ ClockOK'
  <2> DEFINE k == Head(todo[r])
             d == RetryAfter(Level(k))
  <2>1. /\ k \in Keys /\ Level(k) < Unit /\ Keep(k, Level(k))
        /\ UNCHANGED <<now, due, from, grants>>
    BY <1>0, <1>3 DEF Denied, TypeOK
  <2>2. /\ present' \subseteq Keys
        /\ tokens' \in [Keys -> 0..FullLevel]
        /\ last' \in [Keys -> Nat]
        /\ \A i \in Keys : last'[i] <= now
    BY <1>0, <2>1, KeepLevel
  <2>3. d \in Nat
    BY <1>0, <2>1, RetryAfterIsNat
  <2>4. todo' \in [Requests -> Seq(Keys)]
    BY <1>0, <1>3 DEF Denied, TypeOK
  <2>5. retryAt' \in [Keys -> Nat]
    <3>1. retryAt' = [retryAt EXCEPT ![k] = now + d]
      BY <1>3 DEF Denied
    <3>2. retryAt \in [Keys -> Nat] /\ now + d \in Nat
      BY <1>0, <2>3 DEF TypeOK
    <3> HIDE DEF d, k
    <3>3. QED
      BY <3>1, <3>2
  <2>6. QED
    BY <1>0, <2>1, <2>2, <2>4, <2>5 DEF TypeOK, ClockOK, FullLevel
<1>4. CASE Janitor
  BY <1>0, <1>4 DEF Janitor, TypeOK, ClockOK, ghostVars, FullLevel
<1>5. CASE Tick
  <2>1. now' = now + 1 /\ UNCHANGED <<bucketVars, todo, ghostVars>> /\ due' \in {due, now + 1}
    BY <1>5 DEF Tick
  <2>2. QED
    BY <1>0, <2>1 DEF TypeOK, ClockOK, bucketVars, ghostVars, FullLevel
<1>6. CASE OpenWindow
  BY <1>0, <1>6 DEF OpenWindow, TypeOK, ClockOK, bucketVars, FullLevel
<1>7. CASE UNCHANGED vars
  BY <1>0, <1>7 DEF vars, bucketVars, ghostVars, TypeOK, ClockOK, FullLevel
<1>8. QED
  BY <1>1, <1>2, <1>3, <1>4, <1>5, <1>6, <1>7 DEF Next

\* Allow and the sweep keep every bucket between empty and the burst, for every
\* rule, the ones that outlast the idle window included.
THEOREM LimiterTypeTheorem == Spec => []TypeOK
<1>1. Init => TypeOK /\ ClockOK
  BY Params DEF Init, TypeOK, ClockOK
<1>2. QED
  BY <1>1, NextTypeClock, PTL DEF Spec

\* Every step keeps the account of every key.
LEMMA NextLimiterInv == ASSUME FullyRefills PROVE LimiterInv /\ [Next]_vars => LimiterInv'
<1> SUFFICES ASSUME LimiterInv, [Next]_vars PROVE LimiterInv'
  OBVIOUS
<1>0. /\ TypeOK /\ ClockOK /\ Accounted
      /\ \A k \in Keys : Level(k) \in 0..FullLevel
      /\ now \in Nat /\ from \in Nat /\ from <= now /\ due \in Nat /\ due <= now
  BY LevelRange DEF LimiterInv, TypeOK, ClockOK
<1>00. \A k \in Keys :
         /\ grants[k] \in Nat /\ grants[k] * Unit \in Nat
         /\ (grants[k] + 1) * Unit = grants[k] * Unit + Unit
         /\ grants[k] * Unit + Level(k) <= FullLevel + (now - from) * Refill
  BY <1>0, Params DEF TypeOK, Accounted
<1>T. TypeOK' /\ ClockOK'
  BY <1>0, NextTypeClock
<1>000. (now - from) * Refill \in Nat /\ ((now + 1) - from) * Refill = (now - from) * Refill + Refill
  <2>1. now - from \in Nat /\ (now + 1) - from = (now - from) + 1
    BY <1>0
  <2>2. QED
    BY <2>1, RefillGrows
<1>1. ASSUME NEW r \in Requests, NEW ks \in KeyLists, Arrive(r, ks) PROVE LimiterInv'
  <2>1. Accounted'
    BY <1>0, <1>1 DEF Arrive, bucketVars, ghostVars, Accounted, Level, Refilled, FullLevel
  <2>2. QED
    BY <1>T, <2>1 DEF LimiterInv
<1>2. ASSUME NEW r \in Requests, Allowed(r) PROVE LimiterInv'
  <2> DEFINE k == Head(todo[r])
  <2>1. /\ k \in Keys
        /\ Level(k) >= Unit /\ Keep(k, Level(k) - Unit)
        /\ grants' = [grants EXCEPT ![k] = @ + 1]
        /\ UNCHANGED <<now, due, from>>
    BY <1>0, <1>2 DEF Allowed, TypeOK
  <2>2. Level(k) - Unit \in 0..FullLevel
    BY <1>0, <2>1, Params
  <2>3. \A i \in Keys : Level(i)' = IF i = k THEN Level(k) - Unit ELSE Level(i)
    BY <1>0, <2>1, <2>2, KeepLevel
  <2>7. ASSUME NEW i \in Keys
        PROVE  grants'[i] * Unit + Level(i)' <= FullLevel + (now - from) * Refill
    <3>1. CASE i = k
      <4>1. grants'[i] * Unit = grants[i] * Unit + Unit /\ Level(i)' = Level(i) - Unit
        <5>1. grants'[i] = grants[i] + 1
          BY <1>0, <2>1, <3>1 DEF TypeOK
        <5>2. QED
          BY <1>00, <2>3, <3>1, <5>1
      <4>2. QED
        BY <1>0, <1>00, <1>000, <4>1, Params
    <3>2. CASE i # k
      BY <1>0, <1>00, <2>1, <2>3, <3>2 DEF TypeOK
    <3>3. QED
      BY <3>1, <3>2
  <2>8. Accounted'
    BY <2>1, <2>7 DEF Accounted, FullLevel
  <2>9. QED
    BY <1>T, <2>8 DEF LimiterInv
<1>3. ASSUME NEW r \in Requests, Denied(r) PROVE LimiterInv'
  <2> DEFINE k == Head(todo[r])
  <2>1. /\ k \in Keys /\ Level(k) < Unit /\ Keep(k, Level(k))
        /\ UNCHANGED <<now, due, from, grants>>
    BY <1>0, <1>3 DEF Denied, TypeOK
  <2>2. \A i \in Keys : Level(i)' = Level(i)
    BY <1>0, <2>1, KeepLevel
  <2>3. Accounted'
    BY <1>00, <2>1, <2>2 DEF Accounted, FullLevel
  <2>4. QED
    BY <1>T, <2>3 DEF LimiterInv
<1>4. CASE Janitor
  <2>1. TypeOK' /\ ClockOK'
    BY <1>T
  <2>2. \A k \in Keys : Level(k)' = Level(k)
    BY <1>0, <1>4, JanitorLevel
  <2>3. Accounted'
    BY <1>00, <1>4, <2>2 DEF Janitor, ghostVars, Accounted, FullLevel
  <2>4. QED
    BY <2>1, <2>3 DEF LimiterInv
<1>5. CASE Tick
  <2>1. now' = now + 1 /\ UNCHANGED <<bucketVars, todo, ghostVars>> /\ due' \in {due, now + 1}
    BY <1>5 DEF Tick
  <2>2. TypeOK' /\ ClockOK'
    BY <1>T
  <2>3. \A k \in Keys : Level(k)' <= Level(k) + Refill /\ Level(k)' \in Nat
    BY <1>0, <1>5, TickLevel, Params
  <2>4. ASSUME NEW k \in Keys
        PROVE  grants[k] * Unit + Level(k)' <= FullLevel + ((now + 1) - from) * Refill
    <3> DEFINE g == grants[k] * Unit
               w == (now - from) * Refill
    <3>1. /\ g \in Nat /\ w \in Nat /\ Level(k) \in Nat
          /\ g + Level(k) <= FullLevel + w /\ ((now + 1) - from) * Refill = w + Refill
      BY <1>0, <1>00, <1>000
    <3> HIDE DEF g, w
    <3>2. g + Level(k)' <= FullLevel + (w + Refill)
      BY <2>3, <3>1, Params
    <3>3. QED
      BY <3>1, <3>2 DEF g
  <2>5. Accounted'
    BY <2>1, <2>4 DEF Accounted, ghostVars, FullLevel
  <2>6. QED
    BY <2>2, <2>5 DEF LimiterInv
<1>6. CASE OpenWindow
  <2>1. /\ from' = now /\ grants' = [k \in Keys |-> 0]
        /\ UNCHANGED <<now, bucketVars, todo, due, retryAt>>
    BY <1>6 DEF OpenWindow
  <2>2. TypeOK' /\ ClockOK'
    BY <1>T
  <2>3. \A k \in Keys : Level(k)' = Level(k)
    BY <2>1 DEF Level, Refilled, FullLevel, bucketVars
  <2>4. 0 * Unit = 0 /\ (now - now) * Refill = 0
    BY <1>0, Params
  <2>5. \A k \in Keys : grants'[k] * Unit + Level(k)' <= FullLevel + (now' - from') * Refill
    BY <1>0, <2>1, <2>3, <2>4, Params
  <2>6. Accounted'
    BY <2>5 DEF Accounted, FullLevel
  <2>7. QED
    BY <2>2, <2>6 DEF LimiterInv
<1>7. CASE UNCHANGED vars
  <2>1. TypeOK' /\ ClockOK'
    BY <1>T
  <2>2. Accounted'
    BY <1>0, <1>7 DEF vars, bucketVars, ghostVars, Accounted, Level, Refilled, FullLevel
  <2>3. QED
    BY <2>1, <2>2 DEF LimiterInv
<1>8. QED
  BY <1>1, <1>2, <1>3, <1>4, <1>5, <1>6, <1>7 DEF Next

\* The account of every key balances, whenever a bucket fills up within the
\* janitor's idle window.
THEOREM LimiterInvariant == ASSUME FullyRefills PROVE Spec => []LimiterInv
BY InitLimiterInv, NextLimiterInv, PTL DEF Spec

\* The rate limit: in every window of time and in every instance that fills up
\* within the idle window, a key is granted at most the burst plus the refill.
THEOREM BurstTheorem == ASSUME FullyRefills PROVE Spec => []BurstBound
<1>1. LimiterInv => BurstBound
  <2> SUFFICES ASSUME LimiterInv, NEW k \in Keys
               PROVE  grants[k] * Unit <= FullLevel + (now - from) * Refill
    BY DEF BurstBound
  <2>1. /\ TypeOK /\ ClockOK /\ Level(k) \in 0..FullLevel
        /\ grants[k] * Unit + Level(k) <= FullLevel + (now - from) * Refill
    BY LevelRange DEF LimiterInv, Accounted
  <2>2. grants[k] * Unit \in Nat /\ (now - from) * Refill \in Nat
    <3>1. grants[k] \in Nat /\ now - from \in Nat
      BY <2>1 DEF TypeOK, ClockOK
    <3>2. QED
      BY <3>1, RefillGrows, Params
  <2>3. QED
    BY <2>1, <2>2, Params
<1>2. QED
  BY <1>1, LimiterInvariant, PTL

\* What the janitor's comment says holds of every rule that refills within the
\* idle window: a bucket it is about to drop is full.
THEOREM DroppedTheorem == ASSUME FullyRefills PROVE Spec => []DroppedBucketsAreFull
<1>1. LimiterInv => DroppedBucketsAreFull
  BY DroppedFull DEF LimiterInv
<1>2. QED
  BY <1>1, LimiterInvariant, PTL

-----------------------------------------------------------------------------
(* Refinement: the lazy, swept buckets are the ideal ones.                 *)

\* A step changes the levels as the ideal limiter's next-state relation does,
\* or not at all.
LEMMA IdealStep ==
    ASSUME FullyRefills, LimiterInv, [Next]_vars
    PROVE  [Ideal!IdealNext]_([k \in Keys |-> Level(k)])
<1> DEFINE level == [k \in Keys |-> Level(k)]
           Same == \A k \in Keys : Level(k)' = Level(k)
<1>0. /\ TypeOK /\ ClockOK
      /\ \A k \in Keys : Level(k) \in 0..FullLevel
  BY LevelRange DEF LimiterInv
<1>00. Same => UNCHANGED level
  OBVIOUS
<1>1. ASSUME NEW r \in Requests, NEW ks \in KeyLists, Arrive(r, ks) PROVE Same
  BY <1>1 DEF Arrive, bucketVars, Level, Refilled, FullLevel
<1>2. ASSUME NEW r \in Requests, Allowed(r) PROVE \E k \in Keys : Ideal!Spend(k)
  <2> DEFINE k == Head(todo[r])
  <2>1. /\ k \in Keys /\ Level(k) >= Unit /\ Keep(k, Level(k) - Unit) /\ now' = now
    BY <1>0, <1>2 DEF Allowed, TypeOK
  <2>2. Level(k) - Unit \in 0..FullLevel
    BY <1>0, <2>1, Params
  <2>3. \A i \in Keys : Level(i)' = IF i = k THEN Level(k) - Unit ELSE Level(i)
    BY <1>0, <2>1, <2>2, KeepLevel
  <2> HIDE DEF k
  <2>4. level' = [level EXCEPT ![k] = @ - Unit]
    BY <2>1, <2>3
  <2>5. level[k] >= Unit
    BY <2>1
  <2>6. QED
    BY <2>1, <2>4, <2>5 DEF Ideal!Spend
<1>3. ASSUME NEW r \in Requests, Denied(r) PROVE Same
  <2> DEFINE k == Head(todo[r])
  <2>1. k \in Keys /\ Level(k) < Unit /\ Keep(k, Level(k)) /\ now' = now
    BY <1>0, <1>3 DEF Denied, TypeOK
  <2>2. QED
    BY <1>0, <2>1, KeepLevel
<1>4. CASE Janitor
  <2>1. Same
    BY <1>0, <1>4, JanitorLevel
  <2>2. QED
    BY <1>00, <2>1
<1>5. CASE Tick
  <2>1. \A k \in Keys :
          Level(k)' = IF Level(k) + Refill < FullLevel THEN Level(k) + Refill ELSE FullLevel
    BY <1>0, <1>5, TickLevel
  <2>2. level' = [k \in Keys |-> Ideal!Topped(level[k])]
    BY <2>1 DEF Ideal!Topped
  <2>3. QED
    BY <2>2 DEF Ideal!IdealNext, Ideal!RefillAll
<1>6. CASE OpenWindow \/ UNCHANGED vars
  <2>1. Same
    BY <1>6 DEF OpenWindow, vars, bucketVars, Level, Refilled, FullLevel
  <2>2. QED
    BY <1>00, <2>1
<1>7. CASE \E r \in Requests : (\E ks \in KeyLists : Arrive(r, ks)) \/ Denied(r)
  <2>1. Same
    BY <1>1, <1>3, <1>7
  <2>2. QED
    BY <1>00, <2>1
<1>8. CASE \E r \in Requests : Allowed(r)
  BY <1>2, <1>8 DEF Ideal!IdealNext
<1>9. QED
  BY <1>4, <1>5, <1>6, <1>7, <1>8 DEF Next

\* The middleware over memoryLimiter implements the limiter that a Limiter
\* promises, in every instance that refills within the idle window.
THEOREM IdealTheorem == ASSUME FullyRefills PROVE Spec => ImplementsIdealLimiter
<1>1. Init => Ideal!IdealInit
  BY DEF Init, Level, Ideal!IdealInit
<1>2. LimiterInv /\ [Next]_vars => [Ideal!IdealNext]_([k \in Keys |-> Level(k)])
  BY IdealStep
<1>3. QED
  BY <1>1, <1>2, LimiterInvariant, PTL DEF Spec, ImplementsIdealLimiter, Ideal!IdealSpec

-----------------------------------------------------------------------------
(* retryAfter.                                                             *)

\* The refill still to come until the instant retryAfter named, negative after it.
Gap(k) == (retryAt[k] - now) * Refill

\* While nobody spends on k: the refill up to the named instant does not overshoot
\* one token, and with one more tick it reaches it.
NamedInstant(k) ==
    retryAt[k] # 0 =>
        /\ Level(k) + Gap(k) <= Unit
        /\ Level(k) >= Unit \/ Level(k) + Gap(k) + Refill > Unit

RetryInv == \A k \in Keys : NamedInstant(k)

\* The gap closes by one tick's refill per tick.
LEMMA GapArith ==
    ASSUME NEW m \in Int
    PROVE  /\ m * Refill \in Int
           /\ (m - 1) * Refill = m * Refill - Refill
           /\ m >= 1 => m * Refill >= Refill
           /\ m <= -1 => m * Refill + Refill <= 0
BY Params

\* deficit / refill, truncated: the last whole tick before the deficit is made up.
LEMMA RetryAfterBounds ==
    ASSUME NEW x \in Nat, x < Unit
    PROVE  /\ x + RetryAfter(x) * Refill <= Unit
           /\ x + RetryAfter(x) * Refill + Refill > Unit
<1> DEFINE d == Unit - x
           q == d \div Refill
           e == d % Refill
<1>1. d \in Nat /\ Refill \in Nat \ {0} /\ x + d = Unit
  BY Params
<1>2. q \in Nat
  BY RetryAfterIsNat DEF RetryAfter
<1> HIDE DEF d
<1>3. e \in Nat /\ e < Refill
  BY <1>1
<1>4. d = q * Refill + e
  BY <1>1
<1> HIDE DEF q, e
<1>5. q * Refill \in Nat
  BY <1>1, <1>2
<1> DEFINE m == q * Refill
<1>6. m \in Nat /\ d = m + e
  BY <1>4, <1>5
<1> HIDE DEF m
<1>7. x + m <= Unit /\ x + m + Refill > Unit
  BY <1>1, <1>3, <1>6, Params
<1>8. RetryAfter(x) * Refill = m
  BY DEF RetryAfter, m, q, d
<1>9. QED
  BY <1>7, <1>8

\* Every step keeps the named instants: spending on a key withdraws its instant,
\* a refusal names a new one, and the clock closes the gap as it refills.
LEMMA NextRetryInv ==
    ASSUME FullyRefills PROVE LimiterInv /\ RetryInv /\ [Next]_vars => RetryInv'
<1> SUFFICES ASSUME LimiterInv, RetryInv, [Next]_vars, NEW k \in Keys PROVE NamedInstant(k)'
  BY DEF RetryInv
<1>0. /\ TypeOK /\ ClockOK /\ NamedInstant(k)
      /\ \A i \in Keys : Level(i) \in 0..FullLevel
      /\ now \in Nat /\ retryAt[k] \in Nat
  BY LevelRange DEF LimiterInv, TypeOK, RetryInv
<1>1. ASSUME now' = now, retryAt'[k] = retryAt[k], Level(k)' = Level(k) PROVE NamedInstant(k)'
  BY <1>0, <1>1 DEF NamedInstant, Gap
<1>2. ASSUME NEW r \in Requests, NEW ks \in KeyLists, Arrive(r, ks) PROVE NamedInstant(k)'
  BY <1>1, <1>2 DEF Arrive, bucketVars, ghostVars, Level, Refilled, FullLevel
<1>3. ASSUME NEW r \in Requests, Allowed(r) PROVE NamedInstant(k)'
  <2> DEFINE h == Head(todo[r])
  <2>1. /\ h \in Keys /\ Level(h) >= Unit /\ Keep(h, Level(h) - Unit) /\ now' = now
        /\ retryAt' = [retryAt EXCEPT ![h] = 0]
    BY <1>0, <1>3 DEF Allowed, TypeOK
  <2>2. Level(h) - Unit \in 0..FullLevel
    BY <1>0, <2>1, Params
  <2>3. \A i \in Keys : Level(i)' = IF i = h THEN Level(h) - Unit ELSE Level(i)
    BY <1>0, <2>1, <2>2, KeepLevel
  <2> HIDE DEF h
  <2>4. CASE k = h
    BY <1>0, <2>1, <2>4 DEF NamedInstant, TypeOK
  <2>5. CASE k # h
    BY <1>0, <1>1, <2>1, <2>3, <2>5 DEF TypeOK
  <2>6. QED
    BY <2>4, <2>5
<1>4. ASSUME NEW r \in Requests, Denied(r) PROVE NamedInstant(k)'
  <2> DEFINE h == Head(todo[r])
             d == RetryAfter(Level(h))
  <2>1. /\ h \in Keys /\ Level(h) < Unit /\ Keep(h, Level(h)) /\ now' = now
        /\ retryAt' = [retryAt EXCEPT ![h] = now + d]
    BY <1>0, <1>4 DEF Denied, TypeOK
  <2>2. \A i \in Keys : Level(i)' = Level(i)
    BY <1>0, <2>1, KeepLevel
  <2>3. Level(h) \in Nat /\ d \in Nat
    BY <1>0, <2>1, RetryAfterIsNat
  <2>4. Level(h) + d * Refill <= Unit /\ Level(h) + d * Refill + Refill > Unit
    BY <2>1, <2>3, RetryAfterBounds
  <2> HIDE DEF h, d
  <2>5. CASE k = h
    <3>1. retryAt'[k] - now' = d
      BY <1>0, <2>1, <2>3, <2>5 DEF TypeOK
    <3>2. Gap(k)' = d * Refill
      BY <3>1 DEF Gap
    <3>3. QED
      BY <2>2, <2>4, <2>5, <3>2 DEF NamedInstant
  <2>6. CASE k # h
    BY <1>0, <1>1, <2>1, <2>2, <2>6 DEF TypeOK
  <2>7. QED
    BY <2>5, <2>6
<1>5. CASE Janitor
  <2>1. Level(k)' = Level(k)
    BY <1>0, <1>5, JanitorLevel
  <2>2. QED
    BY <1>1, <1>5, <2>1 DEF Janitor, ghostVars
<1>6. CASE Tick
  <2>1. now' = now + 1 /\ retryAt' = retryAt
    BY <1>6 DEF Tick, ghostVars
  <2>2. Level(k)' = IF Level(k) + Refill < FullLevel THEN Level(k) + Refill ELSE FullLevel
    BY <1>0, <1>6, TickLevel
  <2>3. Gap(k) \in Int /\ Gap(k)' = Gap(k) - Refill
    <3> DEFINE m == retryAt[k] - now
    <3>1. m \in Int /\ retryAt'[k] - now' = m - 1
      BY <1>0, <2>1
    <3> HIDE DEF m
    <3>2. m * Refill \in Int /\ (m - 1) * Refill = m * Refill - Refill
      BY <3>1, GapArith
    <3>3. Gap(k)' = (m - 1) * Refill
      BY <3>1 DEF Gap
    <3>4. Gap(k) = m * Refill
      BY DEF Gap, m
    <3>5. QED
      BY <3>2, <3>3, <3>4
  <2> DEFINE l == Level(k)
             g == Gap(k)
  <2>4. l \in 0..FullLevel /\ g \in Int
    BY <1>0, <2>3
  <2>5. retryAt'[k] # 0 => l + g <= Unit /\ (l >= Unit \/ l + g + Refill > Unit)
    BY <1>0, <2>1 DEF NamedInstant
  <2>6. Level(k)' = (IF l + Refill < FullLevel THEN l + Refill ELSE FullLevel) /\ Gap(k)' = g - Refill
    BY <2>2, <2>3
  <2> HIDE DEF l, g
  <2>7. retryAt'[k] # 0 =>
          /\ Level(k)' + Gap(k)' <= Unit
          /\ Level(k)' >= Unit \/ Level(k)' + Gap(k)' + Refill > Unit
    BY <2>4, <2>5, <2>6, Params
  <2>8. QED
    BY <2>7 DEF NamedInstant
<1>7. CASE OpenWindow \/ UNCHANGED vars
  <2>1. now' = now /\ retryAt' = retryAt /\ UNCHANGED bucketVars
    BY <1>7 DEF OpenWindow, vars, ghostVars
  <2>2. Level(k)' = Level(k)
    BY <2>1 DEF bucketVars, Level, Refilled, FullLevel
  <2>3. QED
    BY <1>1, <2>1, <2>2
<1>8. QED
  BY <1>2, <1>3, <1>4, <1>5, <1>6, <1>7 DEF Next

\* retryAfter is right to the tick, for every burst, rate and interleaving: until
\* somebody spends on the key there is no token before the instant it names, and
\* there is one a tick after it.
THEOREM RetryTheorem == ASSUME FullyRefills PROVE Spec => []RetryAfterTight
<1>1. Init => RetryInv
  BY DEF Init, RetryInv, NamedInstant
<1>2. LimiterInv /\ RetryInv /\ [Next]_vars => RetryInv'
  BY NextRetryInv
<1>3. LimiterInv /\ RetryInv => RetryAfterTight
  <2> SUFFICES ASSUME LimiterInv, RetryInv, NEW k \in Keys, retryAt[k] # 0
               PROVE  /\ now < retryAt[k] => Level(k) < Unit
                      /\ now > retryAt[k] => Level(k) >= Unit
    BY DEF RetryAfterTight
  <2>1. now \in Nat /\ retryAt[k] \in Nat /\ Level(k) \in Nat
    BY LevelRange, Params DEF LimiterInv, TypeOK
  <2>2. Level(k) + Gap(k) <= Unit /\ (Level(k) >= Unit \/ Level(k) + Gap(k) + Refill > Unit)
    BY DEF RetryInv, NamedInstant
  <2> DEFINE m == retryAt[k] - now
  <2>3. m \in Int /\ Gap(k) = m * Refill
    BY <2>1 DEF Gap
  <2>4. Gap(k) \in Int /\ (m >= 1 => Gap(k) >= Refill) /\ (m <= -1 => Gap(k) + Refill <= 0)
    BY <2>3, GapArith
  <2>5. CASE now < retryAt[k]
    <3>1. m >= 1
      BY <2>1, <2>5
    <3>2. QED
      BY <2>1, <2>2, <2>4, <2>5, <3>1, Params
  <2>6. CASE now > retryAt[k]
    <3>1. m <= -1
      BY <2>1, <2>6
    <3>2. QED
      BY <2>1, <2>2, <2>4, <2>6, <3>1, Params
  <2>7. QED
    BY <2>1, <2>5, <2>6
<1>4. QED
  BY <1>1, <1>2, <1>3, LimiterInvariant, PTL DEF Spec

=============================================================================
