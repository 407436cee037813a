----------------------------- MODULE TokenStore -----------------------------
(***************************************************************************)
(* MemoryTokenStore (admin/service/memory_token_store.go): the bounded     *)
(* in-memory denylist of revoked JWT ids that Logout, RefreshToken and the *)
(* JWT middleware share.  Each operation runs under the store's mutex, so  *)
(* each is one atomic operator here; AuthSession composes them with the    *)
(* code that calls them.                                                   *)
(***************************************************************************)
EXTENDS Naturals, FiniteSets

CONSTANTS
    Jti,       \* the JWT ids that can be minted
    Capacity   \* __revocationCapacity

ASSUME TokenStoreAssumption ==
    /\ IsFiniteSet(Jti)
    /\ Capacity \in Nat \ {0}

VARIABLES
    now,       \* the wall clock
    revoked,   \* the map: Jti -> instant the entry holds until; 0 = no entry
    forgotten  \* history: ids whose unexpired entry was evicted or lost

storeVars == <<now, revoked, forgotten>>

StoreInit ==
    /\ now = 0
    /\ revoked = [j \in Jti |-> 0]
    /\ forgotten = {}

-----------------------------------------------------------------------------
(* The denylist entry of j exists and its window has not passed.           *)
Held(j) == revoked[j] > now

Entries(m) == {j \in Jti : m[j] # 0}

\* Mutant of Sweep: the comparison the wrong way round, live entries go.
SweepDropsLive == [j \in Jti |-> IF revoked[j] > now + 1 THEN revoked[j] ELSE 0]

\* sweepLocked: every entry whose window has passed is dropped.
Sweep == [j \in Jti |-> IF revoked[j] > now THEN revoked[j] ELSE 0]

\* evictOneLocked: the entries that expire soonest.  Map iteration order
\* decides between equals, so the victim is any of them.
Soonest(m) == {v \in Entries(m) : \A k \in Entries(m) : m[v] <= m[k]}

\* Mutant of Full: one entry too many is let in.
FullOffByOne(m, j) == m[j] = 0 /\ Cardinality(Entries(m)) > Capacity

\* The new id needs room that the map does not have.
Full(m, j) == m[j] = 0 /\ Cardinality(Entries(m)) >= Capacity

\* The tail both writers share: sweep, evict one if full, insert.
Insert(j, until) ==
    \/ /\ ~Full(Sweep, j)
       /\ revoked' = [Sweep EXCEPT ![j] = until]
       /\ UNCHANGED forgotten
    \/ /\ Full(Sweep, j)
       /\ \E victim \in Soonest(Sweep) :
            /\ revoked' = [Sweep EXCEPT ![victim] = 0, ![j] = until]
            /\ forgotten' = forgotten \cup {victim}

\* Revoke: a window that has already passed is ignored.
Revoke(j, until) ==
    IF until > now THEN Insert(j, until) ELSE UNCHANGED <<revoked, forgotten>>

\* Mutant of Claimable: an existing entry does not refuse the claim.
ClaimableAlways(j, until) == until > now

\* RevokeIfNotRevoked reports true: the window is open and nobody holds j.
Claimable(j, until) == until > now /\ ~Held(j)

\* RevokeIfNotRevoked, the winning call.  The losing call changes nothing.
Claim(j, until) == Claimable(j, until) /\ Insert(j, until)

\* Revoked: an expired entry reads as not revoked and is dropped.
ReadRevoked(j) ==
    /\ revoked' = [revoked EXCEPT ![j] = IF Held(j) THEN @ ELSE 0]
    /\ UNCHANGED forgotten

\* The process restarts: the map is per-process memory (NewMemoryTokenStore).
StoreRestart ==
    /\ revoked' = [j \in Jti |-> 0]
    /\ forgotten' = forgotten \cup {j \in Jti : Held(j)}

=============================================================================
