---------------------------- MODULE DbCacheProofs ----------------------------
(***************************************************************************)
(* Proofs about the read-through cache of role grants: for any roles,      *)
(* readers, processes, windows and bounds, whatever the writers do between *)
(* the statements of a reload.  The marker stays an opaque function of the *)
(* table: nothing below depends on its being a sum.                        *)
(***************************************************************************)
EXTENDS DbCache, FunctionTheorems, FiniteSetTheorems, TLAPS

Row == [id : Nat, role : Roles, data : Data]
Markers == {0} \cup {GrantsMarker(table) : table \in SUBSET Row}
Entry == [value : SUBSET Data, marker : Markers, created : Nat, expires : Nat]
Request ==
    [pc : {"idle", "revalidate", "delete", "reload", "wait", "mark", "load", "store"},
     key : Roles \cup {Nil}, began : Nat, entry : Entry \cup {Nil},
     marker : Markers, value : SUBSET Data, loaded : Nat]

\* Value v was the grants of k at instant t - c, or at some later one.
Since(k, v, t, c) == v = Grants(rows, k) \/ t <= leftAt[k][v] + c

\* Marker m is the marker of a table in which v was the grants of k: of the
\* current one, or of one that has changed since.
Tagged(k, v, m) == IF m = GrantsMarker(rows) THEN v = Grants(rows, k) ELSE m \in past

\* An entry of k: stored at created for TTL, its value loaded at most Lag before,
\* and, as long as no marker repeated, its marker no younger than its value.
GoodEntry(k, e) ==
    /\ e \in Entry /\ k \in Wanted
    /\ e.created <= now /\ e.expires = e.created + TTL
    /\ Since(k, e.value, e.created, Lag)
    /\ repeated \/ Tagged(k, e.value, e.marker)

\* A call of Try: what it has read before its next statement stays true of the
\* table as it was then, whatever has been written since.
GoodReq(q) ==
    /\ q \in Request
    /\ q.pc # "idle" => q.key \in Wanted
    /\ q.began <= now
    /\ q.pc = "revalidate" => GoodEntry(q.key, q.entry) /\ q.began <= q.entry.expires
    /\ q.pc = "load" => repeated \/ q.marker \in past \cup {GrantsMarker(rows)}
    /\ q.pc = "store" => /\ q.loaded <= now /\ now <= q.loaded + Lag
                         /\ Since(q.key, q.value, q.loaded, 0)
                         /\ repeated \/ Tagged(q.key, q.value, q.marker)

\* The types of what the database keeps.
DbTypeInv ==
    /\ now \in Nat /\ nextId \in Nat
    /\ rows \subseteq Row
    /\ leftAt \in [Wanted -> [SUBSET Data -> Nat]]

\* The inductive invariant.
CacheInv ==
    /\ DbTypeInv
    /\ cache \in [Roles -> Entry \cup {Nil}]
    /\ \A k \in Roles : cache[k] # Nil => GoodEntry(k, cache[k])
    /\ req \in [Readers -> Request]
    /\ \A r \in Readers : GoodReq(req[r])

\* What the step served was no staler than the windows allow.
AgeInv == age <= TTL + Lag /\ (repeated \/ age <= Grace + Lag)

------------------------------------------------------------------------------
(* The operators.                                                           *)

\* The bounds are numbers, and the wanted keys are roles.
LEMMA DbParams ==
    /\ Grace \in Nat /\ TTL \in Nat /\ Lag \in Nat
    /\ Wanted \subseteq Roles /\ IsFiniteSet(Data) /\ Nil \notin Roles
BY DbCacheAssumption DEF DbCacheAssumption

\* The loader returns menu components and permission codes.
LEMMA GrantsData ==
    ASSUME NEW table \in SUBSET Row, NEW k
    PROVE  Grants(table, k) \in SUBSET Data
BY DEF Grants, Row

\* AUTO_INCREMENT has an id for every new row.
LEMMA FreshRows ==
    ASSUME NEW k \in Roles, NEW S \in SUBSET Data, nextId \in Nat
    PROVE  Fresh(k, S) \subseteq Row /\ Cardinality(S) \in Nat
<1> DEFINE n == Cardinality(S)
           ids == FirstId..(FirstId + n - 1)
<1>1. IsFiniteSet(S)
      BY DbParams, FS_Subset
<1>2. n \in Nat /\ ExistsBijection(1..n, S)
      BY <1>1, FS_CardinalityType
<1>3. ExistsBijection(S, 1..n)
      BY <1>2, Fun_ExistsBijSymmetric
<1>4. PICK h \in [S -> 1..n] : \A d, e \in S : h[d] = h[e] => d = e
      BY <1>3 DEF ExistsBijection, Bijection, Injection, IsInjective
<1> HIDE DEF n
<1> DEFINE g == [d \in S |-> FirstId + h[d] - 1]
<1>5. g \in [S -> ids]
      BY <1>2, <1>4 DEF FirstId
<1>6. \A d, e \in S : g[d] = g[e] => d = e
      BY <1>2, <1>4 DEF FirstId
<1> HIDE DEF g
<1> DEFINE f == CHOOSE x \in [S -> ids] : \A d, e \in S : x[d] = x[e] => d = e
<1>7. f \in [S -> ids]
      BY <1>5, <1>6
<1> HIDE DEF f
<1>8. \A d \in S : f[d] \in Nat
      BY <1>2, <1>7 DEF FirstId
<1>9. \A d \in S : [id |-> f[d], role |-> k, data |-> d] \in Row
      BY <1>8 DEF Row
<1>10. Fresh(k, S) = {[id |-> f[d], role |-> k, data |-> d] : d \in S}
      BY DEF Fresh, f, n
<1>11. QED
      BY <1>2, <1>9, <1>10 DEF n

\* A non-empty set of numbers that are all at most b has a largest, and Max is it.
LEMMA MaxBound ==
    ASSUME NEW S \in SUBSET Nat, S # {}, NEW b \in Nat, \A x \in S : x <= b
    PROVE  Max(S) <= b /\ Max(S) \in S
<1> DEFINE T == {b - x : x \in S}
<1>1. T \subseteq Nat /\ T # {}
  <2>1. \A x \in S : b - x \in Nat
        OBVIOUS
  <2>2. QED
        BY <2>1
<1>2. IsWellFoundedOn(OpToRel(<, Nat), Nat)
      BY NatLessThanWellFounded
<1>3. PICK m \in T : \A y \in T : ~(<<y, m>> \in OpToRel(<, Nat))
      BY <1>1, <1>2, WFMin
<1>4. \A y \in T : ~(y < m)
      BY <1>1, <1>3 DEF OpToRel
<1>5. PICK x \in S : m = b - x
      BY <1>3
<1>6. \A y \in S : x >= y
  <2>1. SUFFICES ASSUME NEW y \in S PROVE x >= y
        OBVIOUS
  <2>2. b - y \in T
        OBVIOUS
  <2>3. ~(b - y < b - x)
        BY <1>4, <1>5, <2>2
  <2>4. QED
        BY <2>3
<1>7. Max(S) \in S
      BY <1>6 DEF Max
<1>8. QED
      BY <1>7

\* How stale a value can be that was current c before t: a request that began by
\* t + d gets it at most c + d late.
LEMMA StalenessBound ==
    ASSUME DbTypeInv, NEW k \in Wanted, NEW v \in SUBSET Data, NEW t \in Nat, NEW c \in Nat,
           NEW d \in Nat, Since(k, v, t, c), NEW b \in Nat, b <= t + d
    PROVE  Staleness(k, v, b) \in Nat /\ Staleness(k, v, b) <= c + d
<1>1. leftAt[k][v] \in Nat
      BY DEF DbTypeInv
<1>2. QED
      BY <1>1 DEF Staleness, Since

\* What a singleton's Max is.
LEMMA MaxOne ==
    ASSUME NEW x \in Nat
    PROVE  Max({x}) = x
BY MaxBound

------------------------------------------------------------------------------
(* Steps of the readers.                                                    *)

\* The table and the clock as a reader's step leaves them.
DbStill == UNCHANGED <<now, dbVars>>

\* What is known of entries and calls is about the table and the clock only.
LEMMA Frame ==
    ASSUME DbStill
    PROVE  /\ DbTypeInv' <=> DbTypeInv
           /\ \A k, e : GoodEntry(k, e)' <=> GoodEntry(k, e)
           /\ \A q : GoodReq(q)' <=> GoodReq(q)
<1>1. UNCHANGED <<now, rows, nextId, writes, past, repeated, leftAt>>
      BY DEF DbStill, dbVars
<1>2. DbTypeInv' <=> DbTypeInv
      BY <1>1 DEF DbTypeInv
<1>3. ASSUME NEW k, NEW e
      PROVE  GoodEntry(k, e)' <=> GoodEntry(k, e)
      BY <1>1 DEF GoodEntry, Since, Tagged
<1>4. ASSUME NEW q
      PROVE  GoodReq(q)' <=> GoodReq(q)
  <2>1. GoodEntry(q.key, q.entry)' <=> GoodEntry(q.key, q.entry)
        BY <1>3
  <2>2. QED
        BY <1>1, <2>1 DEF GoodReq, Since, Tagged
<1>5. QED
      BY <1>2, <1>3, <1>4

\* A step that changes one call, to a good one, and no entry.
LEMMA OneCallMoves ==
    ASSUME CacheInv, DbStill, UNCHANGED cache, NEW r \in Readers, NEW q, GoodReq(q),
           req' = [req EXCEPT ![r] = q]
    PROVE  CacheInv'
<1>1. q \in Request
      BY DEF GoodReq
<1>2. req' \in [Readers -> Request]
      BY <1>1 DEF CacheInv
<1>3. \A s \in Readers : GoodReq(req'[s])
      BY DEF CacheInv
<1>4. \A s \in Readers : GoodReq(req[s])'
      BY <1>3, Frame
<1>5. QED
      BY <1>2, <1>4, Frame DEF CacheInv

\* An idle call is good at any time.
LEMMA IdleGood ==
    ASSUME now \in Nat
    PROVE  GoodReq(IdleReq) /\ IdleReq \in Request
<1>1. 0 \in Markers
      BY DEF Markers
<1>2. IdleReq \in Request
      BY <1>1 DEF IdleReq, Request
<1>3. QED
      BY <1>2 DEF GoodReq, IdleReq

\* A call begun now, with the entry it found or none.
Begun(pc, k, x) == [IdleReq EXCEPT !.pc = pc, !.key = k, !.began = now, !.entry = x]

\* What a call knows when it has looked at the cache.
LEMMA BegunReq ==
    ASSUME NEW pc \in {"reload", "revalidate"}, NEW k \in Roles, now \in Nat,
           NEW x \in Entry \cup {Nil}
    PROVE  /\ Begun(pc, k, x) \in Request
           /\ Begun(pc, k, x).pc = pc /\ Begun(pc, k, x).key = k
           /\ Begun(pc, k, x).began = now /\ Begun(pc, k, x).entry = x
<1>1. IdleReq \in Request
      BY IdleGood
<1>2. QED
      BY <1>1 DEF Request, Begun

\* A step that makes calls idle, and no other change of them.
LEMMA CallsReturn ==
    ASSUME CacheInv, NEW S,
           req' = [r \in Readers |-> IF r \in S THEN IdleReq ELSE req[r]]
    PROVE  req' \in [Readers -> Request] /\ \A s \in Readers : GoodReq(req'[s])
<1>1. GoodReq(IdleReq) /\ IdleReq \in Request
      BY IdleGood DEF CacheInv, DbTypeInv
<1>2. QED
      BY <1>1 DEF CacheInv

\* Beginning with a hit past the grace window or with a miss.
LEMMA TryLoadKeeps ==
    ASSUME CacheInv, AgeInv, NEW r \in Readers, NEW k \in Wanted,
           TryLoad(r, k) \/ TryLoadFails(r, k)
    PROVE  CacheInv' /\ AgeInv'
<1> DEFINE e == cache[k]
           hit == e # Nil /\ ~Expired(e)
<1>1. DbStill /\ UNCHANGED cache
      BY DEF TryLoad, TryLoadFails, DbStill
<1>2. k \in Roles /\ now \in Nat /\ DbTypeInv
      BY DbParams DEF CacheInv, DbTypeInv
<1>3. ASSUME hit
      PROVE  GoodEntry(k, e) /\ e \in Entry /\ now <= e.expires
  <2>1. GoodEntry(k, e) /\ e \in Entry
        BY <1>2, <1>3 DEF CacheInv, GoodEntry
  <2>2. QED
        BY <1>2, <1>3, <2>1 DEF Expired, Entry
<1>4. GoodReq(Begun("reload", k, Nil))
      BY <1>2, BegunReq DEF GoodReq
<1>5. hit => GoodReq(Begun("revalidate", k, e))
      BY <1>2, <1>3, BegunReq DEF GoodReq
<1>6. CASE hit /\ InGrace(e) /\ age' = Staleness(k, e.value, now) /\ UNCHANGED req
  <2>1. e.value \in SUBSET Data /\ e.created \in Nat /\ e.expires = e.created + TTL
           /\ Since(k, e.value, e.created, Lag) /\ e.created <= now
        BY <1>3, <1>6 DEF Entry, GoodEntry
  <2>2. now <= e.created + TTL /\ now <= e.created + Grace
        BY <1>2, <1>3, <1>6, <2>1, DbParams DEF InGrace
  <2>3. age' <= Lag + TTL /\ age' <= Lag + Grace /\ age' \in Nat
        BY <1>2, <1>6, <2>1, <2>2, StalenessBound, DbParams
  <2>4. AgeInv'
        BY <2>3, DbParams DEF AgeInv
  <2>5. CacheInv'
        BY <1>1, <1>6, Frame DEF CacheInv
  <2>6. QED
        BY <2>4, <2>5
<1>7. CASE \/ ~hit /\ req' = [req EXCEPT ![r] = Begun("reload", k, Nil)] /\ age' = 0
           \/ req' = [req EXCEPT ![r] = Begun("reload", k, Nil)] /\ age' = 0
           \/ hit /\ req' = [req EXCEPT ![r] = Begun("revalidate", k, e)] /\ age' = 0
  <2>1. CacheInv'
        BY <1>1, <1>4, <1>5, <1>7, OneCallMoves
  <2>2. AgeInv'
        BY <1>7, DbParams DEF AgeInv
  <2>3. QED
        BY <2>1, <2>2
<1>8. QED
  <2>1. CASE TryLoad(r, k)
        BY <1>6, <1>7, <2>1 DEF TryLoad, Begun
  <2>2. CASE TryLoadFails(r, k)
    <3>1. [IdleReq EXCEPT !.pc = "reload", !.key = k, !.began = now] = Begun("reload", k, Nil)
      <4>1. IdleReq \in Request /\ IdleReq.entry = Nil
            BY <1>2, IdleGood DEF IdleReq
      <4>2. QED
            BY <4>1 DEF Request, Begun
    <3>2. QED
          BY <1>7, <2>2, <3>1 DEF TryLoadFails
  <2>3. QED
        BY <2>1, <2>2

\* A call that goes on without having read anything.
LEMMA GotoKeeps ==
    ASSUME CacheInv, DbStill, NEW r \in Readers, req[r].pc # "idle",
           NEW pc \in {"delete", "reload", "wait", "mark"}, Goto(r, pc),
           UNCHANGED cache
    PROVE  CacheInv' /\ AgeInv'
<1> DEFINE q == [req[r] EXCEPT !.pc = pc, !.entry = Nil]
<1>1. GoodReq(req[r]) /\ req[r] \in Request
      BY DEF CacheInv
<1>2. q \in Request /\ q.pc = pc /\ q.key = req[r].key /\ q.began = req[r].began
      BY <1>1 DEF Request
<1>3. GoodReq(q)
      BY <1>1, <1>2 DEF GoodReq
<1>4. req' = [req EXCEPT ![r] = q] /\ age' = 0
      BY DEF Goto
<1>5. CacheInv'
      BY <1>3, <1>4, OneCallMoves
<1>6. QED
      BY <1>4, <1>5, DbParams DEF AgeInv

\* Revalidation: the marker the query returns equals the entry's, and then the
\* value is current unless a marker repeated; in any case the entry had not
\* expired when the call began.
LEMMA RevalidateKeeps ==
    ASSUME CacheInv, NEW r \in Readers, Revalidate(r)
    PROVE  CacheInv' /\ AgeInv'
<1> DEFINE e == req[r].entry
           k == req[r].key
           b == req[r].began
<1>1. DbStill /\ UNCHANGED cache /\ req[r].pc = "revalidate"
      BY DEF Revalidate, DbStill
<1>2. GoodReq(req[r]) /\ req[r] \in Request /\ DbTypeInv
      BY DEF CacheInv
<1>3. GoodEntry(k, e) /\ b <= e.expires /\ b \in Nat
      BY <1>1, <1>2 DEF GoodReq, Request
<1>4. CASE e.marker = GrantsMarker(rows) /\ Serve({r}, e.value)
  <2>1. k \in Wanted /\ e.value \in SUBSET Data /\ e.created \in Nat
           /\ e.expires = e.created + TTL /\ Since(k, e.value, e.created, Lag)
        BY <1>3 DEF GoodEntry, Entry
  <2> HIDE DEF e, k, b
  <2>2. Staleness(k, e.value, b) \in Nat /\ Staleness(k, e.value, b) <= Lag + TTL
        BY <1>2, <1>3, <2>1, StalenessBound, DbParams
  <2>3. repeated \/ Staleness(k, e.value, b) = 0
        BY <1>3, <1>4 DEF GoodEntry, Tagged, Staleness
  <2>4. age' = Staleness(k, e.value, b)
    <3>1. age' = Max({Staleness(req[s].key, e.value, req[s].began) : s \in {r}})
          BY <1>4 DEF Serve
    <3>2. {Staleness(req[s].key, e.value, req[s].began) : s \in {r}} = {Staleness(k, e.value, b)}
          BY DEF k, b
    <3>3. QED
          BY <2>2, <3>1, <3>2, MaxOne
  <2>5. UNCHANGED repeated
        BY <1>1 DEF DbStill, dbVars
  <2>6. AgeInv'
        BY <2>2, <2>3, <2>4, <2>5, DbParams DEF AgeInv
  <2>7. req' \in [Readers -> Request] /\ \A s \in Readers : GoodReq(req'[s])
        BY <1>4, CallsReturn DEF Serve
  <2>8. CacheInv'
    <3>1. \A s \in Readers : GoodReq(req[s])'
          BY <1>1, <2>7, Frame
    <3>2. QED
          BY <1>1, <2>7, <3>1, Frame DEF CacheInv
  <2>9. QED
        BY <2>6, <2>8
<1>5. CASE Goto(r, "delete") \/ Goto(r, "reload")
      BY <1>1, <1>5, GotoKeeps
<1>6. QED
      BY <1>4, <1>5 DEF Revalidate

\* Dropping an entry, another's included, loses nothing that is relied on.
LEMMA DropStaleKeeps ==
    ASSUME CacheInv, NEW r \in Readers, DropStale(r)
    PROVE  CacheInv' /\ AgeInv'
<1> DEFINE q == [req[r] EXCEPT !.pc = "reload", !.entry = Nil]
<1>1. DbStill /\ req[r].pc = "delete" /\ age' = 0
      BY DEF DropStale, DbStill, Goto
<1>2. GoodReq(req[r]) /\ req[r] \in Request
      BY DEF CacheInv
<1>3. q \in Request /\ q.pc = "reload" /\ q.key = req[r].key /\ q.began = req[r].began
      BY <1>2 DEF Request
<1>4. GoodReq(q)
      BY <1>1, <1>2, <1>3 DEF GoodReq
<1>5. req' = [req EXCEPT ![r] = q]
      BY DEF DropStale, Goto
<1> HIDE DEF q
<1>6. req' \in [Readers -> Request] /\ \A s \in Readers : GoodReq(req'[s])
      BY <1>3, <1>4, <1>5 DEF CacheInv
<1>7. cache' \in [Roles -> Entry \cup {Nil}]
      BY DEF DropStale, CacheInv
<1>8. \A k \in Roles : cache'[k] # Nil => cache'[k] = cache[k]
      BY DEF DropStale, CacheInv
<1>9. \A k \in Roles : cache'[k] # Nil => GoodEntry(k, cache[k])'
      BY <1>1, <1>8, Frame DEF CacheInv
<1>10. \A s \in Readers : GoodReq(req[s])'
      BY <1>1, <1>6, Frame
<1>11. CacheInv'
      BY <1>1, <1>6, <1>7, <1>9, <1>10, Frame DEF CacheInv
<1>12. QED
      BY <1>1, <1>11, DbParams DEF AgeInv

\* The marker is read first: a value loaded later is of this table or of a later one.
LEMMA ReadMarkerKeeps ==
    ASSUME CacheInv, NEW r \in Readers, ReadMarker(r)
    PROVE  CacheInv' /\ AgeInv'
<1> DEFINE q == [req[r] EXCEPT !.pc = "load", !.marker = GrantsMarker(rows)]
<1>1. DbStill /\ UNCHANGED cache /\ req[r].pc = "mark" /\ age' = 0
      BY DEF ReadMarker, DbStill
<1>2. GoodReq(req[r]) /\ req[r] \in Request
      BY DEF CacheInv
<1>3. GrantsMarker(rows) \in Markers
      BY DEF Markers, CacheInv, DbTypeInv
<1>4. q \in Request /\ q.pc = "load" /\ q.key = req[r].key /\ q.began = req[r].began
         /\ q.marker = GrantsMarker(rows)
      BY <1>2, <1>3 DEF Request
<1>5. req' = [req EXCEPT ![r] = q]
      BY DEF ReadMarker
<1> HIDE DEF q
<1>6. GoodReq(q)
      BY <1>1, <1>2, <1>4 DEF GoodReq
<1>7. CacheInv'
      BY <1>1, <1>5, <1>6, OneCallMoves
<1>8. QED
      BY <1>1, <1>7, DbParams DEF AgeInv

\* The value is the grants of this very moment: if the marker has not moved since
\* it was read they belong together, and if it has the entry will not revalidate.
LEMMA LoadRowsKeeps ==
    ASSUME CacheInv, NEW r \in Readers, LoadRows(r)
    PROVE  CacheInv' /\ AgeInv'
<1> DEFINE v == Grants(rows, req[r].key)
           q == [req[r] EXCEPT !.pc = "store", !.loaded = now, !.value = v]
<1>1. DbStill /\ UNCHANGED cache /\ req[r].pc = "load" /\ age' = 0
      BY DEF LoadRows, DbStill
<1>2. GoodReq(req[r]) /\ req[r] \in Request /\ now \in Nat
      BY DEF CacheInv, DbTypeInv
<1>3. v \in SUBSET Data
      BY GrantsData DEF CacheInv, DbTypeInv
<1>4. q \in Request /\ q.pc = "store" /\ q.key = req[r].key /\ q.began = req[r].began
         /\ q.marker = req[r].marker /\ q.loaded = now /\ q.value = v
      BY <1>2, <1>3 DEF Request
<1>5. req' = [req EXCEPT ![r] = q]
      BY DEF LoadRows
<1> HIDE DEF q
<1>6. Since(q.key, q.value, q.loaded, 0)
      BY <1>4 DEF Since
<1>7. repeated \/ Tagged(q.key, q.value, q.marker)
      BY <1>1, <1>2, <1>4 DEF Tagged, GoodReq
<1>8. GoodReq(q)
      BY <1>1, <1>2, <1>4, <1>6, <1>7, DbParams DEF GoodReq
<1>9. CacheInv'
      BY <1>1, <1>5, <1>8, OneCallMoves
<1>10. QED
      BY <1>1, <1>9, DbParams DEF AgeInv

\* Storing: every call of the flight, whenever it began, gets a value that was
\* current at most Lag ago, and the entry is a faithful pair.
LEMMA StoreEntryKeeps ==
    ASSUME CacheInv, NEW r \in Readers, StoreEntry(r)
    PROVE  CacheInv' /\ AgeInv'
<1> DEFINE v == req[r].value
           k == req[r].key
           entry == [value |-> v, marker |-> req[r].marker, created |-> now, expires |-> now + TTL]
           late == {Staleness(req[s].key, v, req[s].began) : s \in Party(r)}
<1>1. DbStill /\ req[r].pc = "store" /\ Serve(Party(r), v)
      BY DEF StoreEntry, DbStill
<1>2. GoodReq(req[r]) /\ req[r] \in Request /\ DbTypeInv /\ now \in Nat
      BY DEF CacheInv, DbTypeInv
<1>3. k \in Wanted /\ v \in SUBSET Data /\ req[r].loaded \in Nat /\ req[r].loaded <= now
         /\ now <= req[r].loaded + Lag /\ Since(k, v, req[r].loaded, 0)
         /\ (repeated \/ Tagged(k, v, req[r].marker))
      BY <1>1, <1>2 DEF GoodReq, Request
<1>4. ASSUME NEW s \in Party(r)
      PROVE  Staleness(req[s].key, v, req[s].began) \in 0..Lag
  <2>1. s \in Readers /\ req[s].key = k
        BY DEF Party, SameFlight
  <2>2. req[s].began \in Nat /\ req[s].began <= now
        BY <2>1 DEF CacheInv, GoodReq, Request
  <2>3. req[s].began <= req[r].loaded + Lag
        BY <1>2, <1>3, <2>2, DbParams
  <2> HIDE DEF k, v
  <2>4. Staleness(k, v, req[s].began) \in Nat /\ Staleness(k, v, req[s].began) <= 0 + Lag
        BY <1>2, <1>3, <2>2, <2>3, StalenessBound, DbParams
  <2>5. QED
        BY <2>1, <2>4, DbParams
<1>5. late \subseteq 0..Lag /\ late # {}
  <2>1. late \subseteq 0..Lag
        BY <1>4
  <2>2. r \in Party(r)
        BY DEF Party
  <2>3. QED
        BY <2>1, <2>2
<1>6. age' \in 0..Lag
  <2>1. age' = Max(late)
        BY <1>1 DEF Serve
  <2> HIDE DEF late
  <2>2. late \subseteq Nat /\ \A x \in late : x <= Lag
        BY <1>5, DbParams
  <2>3. Max(late) \in late
        BY <1>5, <2>2, MaxBound, DbParams
  <2>4. QED
        BY <1>5, <2>1, <2>3
<1>7. AgeInv'
      BY <1>6, DbParams DEF AgeInv
<1>8. req' \in [Readers -> Request] /\ \A s \in Readers : GoodReq(req'[s])
      BY <1>1, CallsReturn DEF Serve
<1>9. GoodEntry(k, entry)
  <2>1. entry \in Entry
        BY <1>2, <1>3, DbParams DEF Entry, Request
  <2>2. QED
        BY <1>2, <1>3, <2>1, DbParams DEF GoodEntry, Since, DbTypeInv
<1>10. cache' \in [Roles -> Entry \cup {Nil}]
         /\ \A x \in Roles : cache'[x] # Nil => GoodEntry(x, cache'[x])
  <2>1. CASE UNCHANGED cache
        BY <2>1 DEF CacheInv
  <2>2. CASE cache' = [cache EXCEPT ![k] = entry]
    <3>1. entry \in Entry /\ k \in Roles
          BY <1>3, <1>9, DbParams DEF GoodEntry
    <3> HIDE DEF entry, k
    <3>2. QED
          BY <1>9, <2>2, <3>1 DEF CacheInv
  <2>3. QED
        BY <2>1, <2>2 DEF StoreEntry, StoredMarker
<1>11. CacheInv'
  <2>1. \A s \in Readers : GoodReq(req[s])'
        BY <1>1, <1>8, Frame
  <2>2. \A x \in Roles : cache'[x] # Nil => GoodEntry(x, cache[x])'
        BY <1>1, <1>10, Frame
  <2>3. QED
        BY <1>1, <1>2, <1>8, <1>10, <2>1, <2>2, Frame DEF CacheInv
<1>12. QED
      BY <1>7, <1>11

\* A flight that fails returns its calls and stores nothing.
LEMMA FlightFailsKeeps ==
    ASSUME CacheInv, NEW r \in Readers, FlightFails(r)
    PROVE  CacheInv' /\ AgeInv'
<1>1. DbStill /\ UNCHANGED cache /\ age' = 0
      BY DEF FlightFails, DbStill
<1>2. req' \in [Readers -> Request] /\ \A s \in Readers : GoodReq(req'[s])
      BY CallsReturn DEF FlightFails
<1>3. \A s \in Readers : GoodReq(req[s])'
      BY <1>1, <1>2, Frame
<1>4. CacheInv'
      BY <1>1, <1>2, <1>3, Frame DEF CacheInv
<1>5. QED
      BY <1>1, <1>4, DbParams DEF AgeInv

------------------------------------------------------------------------------
(* Steps of the writers and of the clock.                                   *)

\* Every writer commits a table of rows.
LEMMA WritersCommit ==
    ASSUME DbTypeInv,
           \/ \E k \in Roles, S \in SUBSET Data :
                 ReplacePermissions(k, S) \/ GrantMissingPermissions(k, S)
           \/ \E d \in Data : PurgeData(d)
           \/ \E k \in Roles : PurgeRole(k) \/ \E new \in Roles \ {k} : RenameRole(k, new)
    PROVE  \E table \in SUBSET Row, next \in Nat : Commit(table, next)
<1>1. rows \subseteq Row /\ nextId \in Nat
      BY DEF DbTypeInv
<1>2. ASSUME NEW k \in Roles, NEW S \in SUBSET Data, ReplacePermissions(k, S)
      PROVE  \E table \in SUBSET Row, next \in Nat : Commit(table, next)
  <2>1. Commit((rows \ RowsOf(k)) \cup Fresh(k, S), nextId + Cardinality(S))
        BY <1>2 DEF ReplacePermissions
  <2>2. (rows \ RowsOf(k)) \cup Fresh(k, S) \in SUBSET Row /\ nextId + Cardinality(S) \in Nat
        BY <1>1, FreshRows
  <2>3. QED
        BY <2>1, <2>2
<1>3. ASSUME NEW k \in Roles, NEW S \in SUBSET Data, GrantMissingPermissions(k, S)
      PROVE  \E table \in SUBSET Row, next \in Nat : Commit(table, next)
  <2> DEFINE missing == S \ Grants(rows, k)
  <2>1. Commit(rows \cup Fresh(k, missing), nextId + Cardinality(missing))
        BY <1>3 DEF GrantMissingPermissions
  <2>2. missing \in SUBSET Data
        OBVIOUS
  <2> HIDE DEF missing
  <2>3. rows \cup Fresh(k, missing) \in SUBSET Row /\ nextId + Cardinality(missing) \in Nat
        BY <1>1, <2>2, FreshRows
  <2>4. QED
        BY <2>1, <2>3
<1>4. ASSUME NEW d \in Data, PurgeData(d)
      PROVE  \E table \in SUBSET Row, next \in Nat : Commit(table, next)
  <2>1. Commit({w \in rows : w.data # d}, nextId)
        BY <1>4 DEF PurgeData
  <2>2. {w \in rows : w.data # d} \in SUBSET Row
        BY <1>1
  <2>3. QED
        BY <1>1, <2>1, <2>2
<1>5. ASSUME NEW k \in Roles, PurgeRole(k)
      PROVE  \E table \in SUBSET Row, next \in Nat : Commit(table, next)
  <2>1. Commit(rows \ RowsOf(k), nextId)
        BY <1>5 DEF PurgeRole
  <2>2. rows \ RowsOf(k) \in SUBSET Row
        BY <1>1
  <2>3. QED
        BY <1>1, <2>1, <2>2
<1>6. ASSUME NEW k \in Roles, NEW new \in Roles, RenameRole(k, new)
      PROVE  \E table \in SUBSET Row, next \in Nat : Commit(table, next)
  <2> DEFINE moved == {[w EXCEPT !.role = new] : w \in RowsOf(k)}
  <2>1. Commit((rows \ RowsOf(k)) \cup moved, nextId)
        BY <1>6 DEF RenameRole
  <2>2. \A w \in Row : [w EXCEPT !.role = new] \in Row
        BY DEF Row
  <2>3. RowsOf(k) \subseteq Row
        BY <1>1 DEF RowsOf
  <2>4. moved \subseteq Row
        BY <2>2, <2>3
  <2> HIDE DEF moved
  <2>5. (rows \ RowsOf(k)) \cup moved \in SUBSET Row
        BY <1>1, <2>4
  <2>6. QED
        BY <1>1, <2>1, <2>5
<1>7. QED
      BY <1>2, <1>3, <1>4, <1>5, <1>6

\* A commit notes when a value ceases to be current, so that what was current at
\* some instant is known to have been current then.
LEMMA CommitSince ==
    ASSUME DbTypeInv, NEW table \in SUBSET Row, NEW next, Commit(table, next),
           NEW k \in Wanted, NEW v \in SUBSET Data, NEW t \in Nat, NEW c \in Nat, t <= now,
           Since(k, v, t, c)
    PROVE  Since(k, v, t, c)'
<1>1. rows' = table /\ now \in Nat
      BY DEF Commit, DbTypeInv
<1>2. leftAt'[k] = IF Grants(table, k) = Grants(rows, k) THEN leftAt[k]
                   ELSE [leftAt[k] EXCEPT ![Grants(rows, k)] = now]
      BY DEF Commit
<1>3. leftAt[k] \in [SUBSET Data -> Nat] /\ Grants(rows, k) \in SUBSET Data
      BY GrantsData DEF DbTypeInv
<1>4. CASE Grants(table, k) = Grants(rows, k)
      BY <1>1, <1>2, <1>4 DEF Since
<1>5. CASE Grants(table, k) # Grants(rows, k) /\ v = Grants(rows, k)
  <2>1. leftAt'[k][v] = now
        BY <1>2, <1>3, <1>5
  <2>2. QED
        BY <1>1, <2>1 DEF Since
<1>6. CASE Grants(table, k) # Grants(rows, k) /\ v # Grants(rows, k)
  <2>1. leftAt'[k][v] = leftAt[k][v]
        BY <1>2, <1>3, <1>6
  <2>2. QED
        BY <1>6, <2>1 DEF Since
<1>7. QED
      BY <1>4, <1>5, <1>6

\* A commit whose marker is new leaves every older marker behind for good.
LEMMA CommitTagged ==
    ASSUME NEW table, NEW next, Commit(table, next), ~repeated', NEW m
    PROVE  /\ ~repeated
           /\ \A k, v : Tagged(k, v, m) => Tagged(k, v, m)'
           /\ m \in past \cup {GrantsMarker(rows)} => m \in past' \cup {GrantsMarker(rows')}
<1>1. ~repeated /\ past' = past \cup {GrantsMarker(rows)} /\ rows' = table
      BY DEF Commit
<1>2. table # rows => GrantsMarker(table) \notin past \cup {GrantsMarker(rows)}
      BY <1>1 DEF Commit
<1>3. \A k, v : Tagged(k, v, m) => Tagged(k, v, m)'
      BY <1>1, <1>2 DEF Tagged
<1>4. QED
      BY <1>1, <1>3

\* A commit leaves the entries and the calls as good as they were.
LEMMA CommitKeeps ==
    ASSUME CacheInv, NEW table \in SUBSET Row, NEW next \in Nat, Commit(table, next)
    PROVE  CacheInv' /\ AgeInv'
<1>1. UNCHANGED <<now, cache, req>> /\ age' = 0 /\ rows' = table /\ nextId' = next
      BY DEF Commit
<1>2. DbTypeInv /\ now \in Nat
      BY DEF CacheInv, DbTypeInv
<1>3. DbTypeInv'
  <2>1. \A k \in Wanted : leftAt[k] \in [SUBSET Data -> Nat] /\ Grants(rows, k) \in SUBSET Data
        BY <1>2, GrantsData DEF DbTypeInv
  <2>2. leftAt' \in [Wanted -> [SUBSET Data -> Nat]]
        BY <1>2, <2>1 DEF Commit
  <2>3. QED
        BY <1>1, <1>2, <2>2 DEF DbTypeInv
<1>4. ASSUME NEW k, NEW e, GoodEntry(k, e)
      PROVE  GoodEntry(k, e)'
  <2>1. k \in Wanted /\ e \in Entry /\ e.value \in SUBSET Data /\ e.created \in Nat
           /\ e.created <= now
        BY <1>4 DEF GoodEntry, Entry
  <2>2. Since(k, e.value, e.created, Lag)'
        BY <1>2, <1>4, <2>1, CommitSince, DbParams DEF GoodEntry
  <2>3. repeated' \/ Tagged(k, e.value, e.marker)'
        BY <1>4, CommitTagged DEF GoodEntry
  <2>4. QED
        BY <1>1, <1>4, <2>2, <2>3 DEF GoodEntry
<1>5. ASSUME NEW q, GoodReq(q)
      PROVE  GoodReq(q)'
  <2>1. q.pc = "revalidate" => GoodEntry(q.key, q.entry)'
        BY <1>4, <1>5 DEF GoodReq
  <2>2. q.pc = "load" => repeated' \/ q.marker \in past' \cup {GrantsMarker(rows')}
        BY <1>5, CommitTagged DEF GoodReq
  <2>3. ASSUME q.pc = "store"
        PROVE  Since(q.key, q.value, q.loaded, 0)' /\ (repeated' \/ Tagged(q.key, q.value, q.marker)')
    <3>1. q.key \in Wanted /\ q.value \in SUBSET Data /\ q.loaded \in Nat /\ q.loaded <= now
          BY <1>5, <2>3 DEF GoodReq, Request
    <3>2. Since(q.key, q.value, q.loaded, 0)'
          BY <1>2, <1>5, <2>3, <3>1, CommitSince DEF GoodReq
    <3>3. repeated' \/ Tagged(q.key, q.value, q.marker)'
          BY <1>5, <2>3, CommitTagged DEF GoodReq
    <3>4. QED
          BY <3>2, <3>3
  <2>4. QED
        BY <1>1, <1>5, <2>1, <2>2, <2>3 DEF GoodReq
<1>6. CacheInv'
      BY <1>1, <1>3, <1>4, <1>5 DEF CacheInv
<1>7. QED
      BY <1>1, <1>6, DbParams DEF AgeInv

\* The clock moves only as far as a reload under way allows.
LEMMA TickKeeps == CacheInv /\ Tick => CacheInv' /\ AgeInv'
<1> SUFFICES ASSUME CacheInv, Tick PROVE CacheInv' /\ AgeInv'
      OBVIOUS
<1>1. UNCHANGED <<rows, nextId, past, repeated, leftAt, cache, req>> /\ age' = 0
         /\ now' = now + 1
      BY DEF Tick, dbVars
<1>2. now \in Nat /\ DbTypeInv'
  <2>1. now \in Nat /\ nextId \in Nat /\ rows \subseteq Row
           /\ leftAt \in [Wanted -> [SUBSET Data -> Nat]]
        BY DEF CacheInv, DbTypeInv
  <2>2. now' \in Nat
        BY <1>1, <2>1
  <2>3. QED
        BY <1>1, <2>1, <2>2 DEF DbTypeInv
<1>3. ASSUME NEW k, NEW e, GoodEntry(k, e)
      PROVE  GoodEntry(k, e)'
  <2>1. e.created \in Nat
        BY <1>3 DEF GoodEntry, Entry
  <2>2. QED
        BY <1>1, <1>2, <1>3, <2>1 DEF GoodEntry, Since, Tagged
<1>4. ASSUME NEW r \in Readers
      PROVE  GoodReq(req[r])'
  <2> DEFINE q == req[r]
  <2>1. GoodReq(q) /\ q \in Request
        BY DEF CacheInv
  <2>2. q.began \in Nat /\ q.loaded \in Nat
        BY <2>1 DEF Request
  <2>3. q.pc = "revalidate" => GoodEntry(q.key, q.entry)'
        BY <1>1, <1>3, <2>1 DEF GoodReq
  <2>4. q.pc = "store" => now' <= q.loaded + Lag
        BY <1>1, <1>2, <2>2, DbParams DEF Tick
  <2>5. req'[r] = q
        BY <1>1
  <2>6. QED
        BY <1>1, <1>2, <2>1, <2>2, <2>3, <2>4, <2>5 DEF GoodReq, Since, Tagged
<1>5. CacheInv'
      BY <1>1, <1>2, <1>3, <1>4 DEF CacheInv
<1>6. QED
      BY <1>1, <1>5, DbParams DEF AgeInv

------------------------------------------------------------------------------
(* The theorems.                                                            *)

\* An empty cache and no calls.
LEMMA InitCacheInv == Init => CacheInv /\ AgeInv
<1> SUFFICES ASSUME Init PROVE CacheInv /\ AgeInv
      OBVIOUS
<1>1. DbTypeInv
      BY DEF Init, DbTypeInv
<1>2. GoodReq(IdleReq) /\ IdleReq \in Request
      BY <1>1, IdleGood DEF DbTypeInv
<1>3. CacheInv
      BY <1>1, <1>2 DEF Init, CacheInv
<1>4. QED
      BY <1>3, DbParams DEF Init, AgeInv

\* Every step of readers, writers and the clock keeps the invariant.
LEMMA NextCacheInv == CacheInv /\ AgeInv /\ [Next]_vars => CacheInv' /\ AgeInv'
<1> SUFFICES ASSUME CacheInv, AgeInv, [Next]_vars PROVE CacheInv' /\ AgeInv'
      OBVIOUS
<1>1. ASSUME NEW r \in Readers, NEW k \in Wanted, TryLoad(r, k) \/ TryLoadFails(r, k)
      PROVE  CacheInv' /\ AgeInv'
      BY <1>1, TryLoadKeeps
<1>2. ASSUME NEW r \in Readers, Reload(r)
      PROVE  CacheInv' /\ AgeInv'
  <2>1. DbStill /\ UNCHANGED cache /\ req[r].pc # "idle"
        BY <1>2 DEF Reload, DbStill
  <2>2. Goto(r, "wait") \/ Goto(r, "mark")
        BY <1>2 DEF Reload
  <2>3. QED
        BY <2>1, <2>2, GotoKeeps
<1>3. ASSUME NEW r \in Readers,
             Revalidate(r) \/ DropStale(r) \/ ReadMarker(r) \/ LoadRows(r) \/ StoreEntry(r)
                \/ FlightFails(r)
      PROVE  CacheInv' /\ AgeInv'
      BY <1>3, RevalidateKeeps, DropStaleKeeps, ReadMarkerKeeps, LoadRowsKeeps,
         StoreEntryKeeps, FlightFailsKeeps
<1>4. CASE \/ \E k \in Roles, S \in SUBSET Data :
                 ReplacePermissions(k, S) \/ GrantMissingPermissions(k, S)
           \/ \E d \in Data : PurgeData(d)
           \/ \E k \in Roles : PurgeRole(k) \/ \E new \in Roles \ {k} : RenameRole(k, new)
  <2>1. PICK table \in SUBSET Row, next \in Nat : Commit(table, next)
        BY <1>4, WritersCommit DEF CacheInv
  <2>2. QED
        BY <2>1, CommitKeeps
<1>5. CASE Tick
      BY <1>5, TickKeeps
<1>6. CASE UNCHANGED vars
  <2>1. DbStill /\ UNCHANGED <<cache, req, age, repeated>>
        BY <1>6 DEF vars, DbStill, dbVars
  <2>2. QED
        BY <2>1, Frame DEF CacheInv, AgeInv
<1>7. QED
      BY <1>1, <1>2, <1>3, <1>4, <1>5, <1>6 DEF Next

\* The invariant holds in every reachable state.
LEMMA CacheInvariant == Spec => [](CacheInv /\ AgeInv)
<1>1. Init => CacheInv /\ AgeInv
      BY InitCacheInv
<1>2. CacheInv /\ AgeInv /\ [Next]_vars => CacheInv' /\ AgeInv'
      BY NextCacheInv
<1>3. QED
      BY <1>1, <1>2, PTL DEF Spec

\* An entry whose marker still matches the table holds the role's grants as they
\* are, as long as no table content repeated the marker of another: reading the
\* marker before the rows is what makes the pair safe, whatever commits between
\* the statements of Try, in however many processes.
THEOREM RevalidatedTheorem == Spec => []RevalidatedIsCurrent
<1>1. CacheInv => RevalidatedIsCurrent
      BY DEF CacheInv, RevalidatedIsCurrent, GoodEntry, Tagged
<1>2. QED
      BY <1>1, CacheInvariant, PTL

\* A change of the grants reaches every request that begins more than the grace
\* window and one reload after it, markers that repeat aside.
THEOREM PropagationTheorem == Spec => []PropagatesAfterGrace
<1>1. AgeInv => PropagatesAfterGrace
      BY DEF AgeInv, PropagatesAfterGrace
<1>2. QED
      BY <1>1, CacheInvariant, PTL

\* Whatever the markers do, nothing is served that ceased to be current more than
\* the entry's duration and one reload before the request.
THEOREM TTLTheorem == Spec => []TTLBoundsStaleness
<1>1. AgeInv => TTLBoundsStaleness
      BY DEF AgeInv, TTLBoundsStaleness
<1>2. QED
      BY <1>1, CacheInvariant, PTL

==============================================================================
