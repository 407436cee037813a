------------------------------ MODULE DbCache ------------------------------
(***************************************************************************)
(* The read-through cache of role grants: dbcache.Try                      *)
(* (admin/dbcache/cacher.go) with the SUM(id) dependency that the          *)
(* permission checker and the user service configure                       *)
(* (admin/permission.go, admin/service/user.go), over sys_role_permissions *)
(* as admin/models/role.go writes it.  Several processes may share the     *)
(* cache backend; singleflight joins readers of one process only.          *)
(*                                                                         *)
(* Each database statement outside a transaction, and each committed       *)
(* transaction, is one step.  The wall clock does not go backwards here.   *)
(***************************************************************************)
EXTENDS Naturals, FiniteSets, FiniteSetsExt

CONSTANTS
    Roles,       \* role keys; a cache key is the grant set of one of them
    Wanted,      \* the roles whose grants requests ask for
    Data,        \* menu components and permission codes
    Readers,     \* concurrent callers of Try
    ProcOf,      \* the process each reader runs in
    Grace,       \* graceWindow
    TTL,         \* the entry's duration
    Lag,         \* how long a reload may take from the loader's query to Store
    MaxTime, MaxReads, MaxWrites,   \* bounds
    Nil

ASSUME DbCacheAssumption ==
    /\ IsFiniteSet(Data)
    /\ {Grace, TTL, Lag, MaxTime, MaxReads, MaxWrites} \subseteq Nat
    /\ Wanted \subseteq Roles
    /\ DOMAIN ProcOf = Readers
    /\ Nil \notin Roles

VARIABLES
    now,
    rows,        \* the live rows of sys_role_permissions
    nextId,      \* its AUTO_INCREMENT
    cache,       \* the backend: role key -> entry, or Nil
    req,         \* the calls of Try in progress
    reads, writes,   \* how many of each have happened
    past,        \* history: the markers of earlier table contents, until one repeats
    repeated,    \* history: a change of the table left or restored a marker
    leftAt,      \* history: when each value last ceased to be a wanted role's grants
    age          \* history: how stale the values this step served were; 0 if none

dbVars == <<rows, nextId, writes, past, repeated, leftAt>>
vars == <<now, dbVars, cache, req, reads, age>>

IdleReq == [pc |-> "idle", key |-> Nil, began |-> 0, entry |-> Nil,
            marker |-> 0, value |-> {}, loaded |-> 0]

\* The scalar the dependency query returns: SUM(id), an empty sum being "".
GrantsMarker(table) == SumSet({w.id : w \in table})

\* What the loader of role k returns.
Grants(table, k) == {w.data : w \in {x \in table : x.role = k}}

Init ==
    /\ now = 0
    /\ rows = {}
    /\ nextId = 1
    /\ cache = [k \in Roles |-> Nil]
    /\ req = [r \in Readers |-> IdleReq]
    /\ reads = 0
    /\ writes = 0
    /\ past = {}
    /\ repeated = FALSE
    /\ leftAt = [k \in Wanted |-> [v \in SUBSET Data |-> 0]]
    /\ age = 0

-----------------------------------------------------------------------------
(* Try.                                                                    *)

\* How long before instant t the value v had ceased to be the grants of k.
Staleness(k, v, t) ==
    IF v = Grants(rows, k) \/ leftAt[k][v] >= t THEN 0 ELSE t - leftAt[k][v]

\* The readers in S return v; everyone else is where they were.
Serve(S, v) ==
    /\ req' = [r \in Readers |-> IF r \in S THEN IdleReq ELSE req[r]]
    /\ age' = Max({Staleness(req[r].key, v, req[r].began) : r \in S})

\* r goes on at pc; the entry it had found is of no more use.
Goto(r, pc) == req' = [req EXCEPT ![r].pc = pc, ![r].entry = Nil] /\ age' = 0

\* Mutant of Expired: entries never expire.
ExpiredNever(e) == FALSE

\* Item.Expired: past the expiry, not at it.
Expired(e) == now > e.expires

\* Mutant of InGrace: every entry that has not expired is fresh.
InGraceAlways(e) == TRUE

\* The entry was stored at most graceWindow ago.
InGrace(e) == now - e.created <= Grace

\* cache.Load and the grace check; a miss goes to the reload path.
TryLoad(r, k) ==
    LET e == cache[k]
        hit == e # Nil /\ ~Expired(e) IN
    /\ req[r].pc = "idle"
    /\ reads < MaxReads /\ reads' = reads + 1
    /\ \/ /\ hit /\ InGrace(e)
          /\ age' = Staleness(k, e.value, now)
          /\ UNCHANGED req
       \/ /\ ~(hit /\ InGrace(e))
          /\ req' = [req EXCEPT ![r] =
                       [IdleReq EXCEPT !.pc = IF hit THEN "revalidate" ELSE "reload",
                                       !.key = k, !.began = now,
                                       !.entry = IF hit THEN e ELSE Nil]]
          /\ age' = 0
    /\ UNCHANGED <<now, dbVars, cache>>

\* The backend fails: any Load error is a miss.
TryLoadFails(r, k) ==
    /\ req[r].pc = "idle"
    /\ reads < MaxReads /\ reads' = reads + 1
    /\ req' = [req EXCEPT ![r] = [IdleReq EXCEPT !.pc = "reload", !.key = k, !.began = now]]
    /\ age' = 0
    /\ UNCHANGED <<now, dbVars, cache>>

\* The dependency query; its error falls through to the reload.
Revalidate(r) ==
    /\ req[r].pc = "revalidate"
    /\ \/ req[r].entry.marker = GrantsMarker(rows) /\ Serve({r}, req[r].entry.value)
       \/ req[r].entry.marker # GrantsMarker(rows) /\ Goto(r, "delete")
       \/ Goto(r, "reload")
    /\ UNCHANGED <<now, dbVars, cache, reads>>

\* The moved marker's entry is dropped, or whatever is there by now; a
\* failed Delete is ignored.
DropStale(r) ==
    /\ req[r].pc = "delete"
    /\ \/ cache' = [cache EXCEPT ![req[r].key] = Nil]
       \/ UNCHANGED cache
    /\ Goto(r, "reload")
    /\ UNCHANGED <<now, dbVars, reads>>

Leads(r) == req[r].pc \in {"mark", "load", "store"}
SameFlight(r, s) == req[r].key = req[s].key /\ ProcOf[r] = ProcOf[s]

\* A reload of r's key is running in r's process.
FlightOpen(r) == \E s \in Readers : Leads(s) /\ SameFlight(r, s)

\* singleflight.Do: lead, or wait for the leader of this process.
Reload(r) ==
    /\ req[r].pc = "reload"
    /\ Goto(r, IF FlightOpen(r) THEN "wait" ELSE "mark")
    /\ UNCHANGED <<now, dbVars, cache, reads>>

\* The marker is read before the rows.
ReadMarker(r) ==
    /\ req[r].pc = "mark"
    /\ req' = [req EXCEPT ![r].pc = "load", ![r].marker = GrantsMarker(rows)]
    /\ age' = 0
    /\ UNCHANGED <<now, dbVars, cache, reads>>

\* The loader's query.
LoadRows(r) ==
    /\ req[r].pc = "load"
    /\ req' = [req EXCEPT ![r].pc = "store", ![r].loaded = now,
                          ![r].value = Grants(rows, req[r].key)]
    /\ age' = 0
    /\ UNCHANGED <<now, dbVars, cache, reads>>

\* The readers that get the result of r's flight.
Party(r) == {r} \cup {s \in Readers : req[s].pc = "wait" /\ SameFlight(r, s)}

\* Mutant of StoredMarker: the marker is read when the entry is stored.
StoredMarkerLate(r) == GrantsMarker(rows)

\* CompareValue of the new entry: the marker captured before the load.
StoredMarker(r) == req[r].marker

\* cache.Store, or its ignored failure; all of the flight return the value.
StoreEntry(r) ==
    /\ req[r].pc = "store"
    /\ \/ cache' = [cache EXCEPT ![req[r].key] =
                      [value |-> req[r].value, marker |-> StoredMarker(r),
                       created |-> now, expires |-> now + TTL]]
       \/ UNCHANGED cache
    /\ Serve(Party(r), req[r].value)
    /\ UNCHANGED <<now, dbVars, reads>>

\* The marker query or the loader fails (the leader's context included):
\* all of the flight return the error.
FlightFails(r) ==
    /\ req[r].pc \in {"mark", "load"}
    /\ req' = [s \in Readers |-> IF s \in Party(r) THEN IdleReq ELSE req[s]]
    /\ age' = 0
    /\ UNCHANGED <<now, dbVars, cache, reads>>

-----------------------------------------------------------------------------
(* The writers, one committed transaction each.                            *)

\* The table becomes `table`; history is kept.
Commit(table, next) ==
    /\ rows' = table
    /\ nextId' = next
    /\ repeated' = \/ repeated
                   \/ table # rows /\ GrantsMarker(table) \in past \cup {GrantsMarker(rows)}
    /\ past' = IF repeated' THEN {} ELSE past \cup {GrantsMarker(rows)}
    /\ leftAt' = [k \in Wanted |->
                    IF Grants(table, k) = Grants(rows, k) THEN leftAt[k]
                    ELSE [leftAt[k] EXCEPT ![Grants(rows, k)] = now]]
    /\ age' = 0
    /\ UNCHANGED <<now, cache, req, reads>>

\* AUTO_INCREMENT hands out the ids from here on.
FirstId == nextId

\* New rows for the data in S, with consecutive ids.
Fresh(k, S) ==
    LET ids == FirstId..(FirstId + Cardinality(S) - 1)
        f == CHOOSE g \in [S -> ids] : \A d, e \in S : g[d] = g[e] => d = e
    IN  {[id |-> f[d], role |-> k, data |-> d] : d \in S}

RowsOf(k) == {w \in rows : w.role = k}

\* Role.ReplacePermissions: soft-delete the role's rows, insert the new ones.
ReplacePermissions(k, S) ==
    /\ writes < MaxWrites /\ writes' = writes + 1
    /\ Commit((rows \ RowsOf(k)) \cup Fresh(k, S), nextId + Cardinality(S))

\* Role.GrantMissingPermissions: insert what the role does not hold.
GrantMissingPermissions(k, S) ==
    LET missing == S \ Grants(rows, k) IN
    /\ missing # {}
    /\ writes < MaxWrites /\ writes' = writes + 1
    /\ Commit(rows \cup Fresh(k, missing), nextId + Cardinality(missing))

\* purgeRolePermissions: a deleted permission or menu takes its grants along.
PurgeData(d) ==
    /\ \E w \in rows : w.data = d
    /\ writes < MaxWrites /\ writes' = writes + 1
    /\ Commit({w \in rows : w.data # d}, nextId)

\* Role.BeforeUpdate and Role.AfterDelete: a deleted role takes its grants along.
PurgeRole(k) ==
    /\ RowsOf(k) # {}
    /\ writes < MaxWrites /\ writes' = writes + 1
    /\ Commit(rows \ RowsOf(k), nextId)

\* Role.BeforeUpdate with a new Key that no other role has: the grants are
\* re-pointed in place.
RenameRole(k, new) ==
    /\ RowsOf(new) = {} /\ RowsOf(k) # {}
    /\ writes < MaxWrites /\ writes' = writes + 1
    /\ Commit((rows \ RowsOf(k)) \cup {[w EXCEPT !.role = new] : w \in RowsOf(k)}, nextId)

Tick ==
    /\ now < MaxTime
    /\ \A r \in Readers : req[r].pc = "store" => now < req[r].loaded + Lag
    /\ now' = now + 1
    /\ age' = 0
    /\ UNCHANGED <<dbVars, cache, req, reads>>

Next ==
    \/ \E r \in Readers :
         \/ \E k \in Wanted : TryLoad(r, k) \/ TryLoadFails(r, k)
         \/ Revalidate(r)
         \/ DropStale(r)
         \/ Reload(r)
         \/ ReadMarker(r)
         \/ LoadRows(r)
         \/ StoreEntry(r)
         \/ FlightFails(r)
    \/ \E k \in Roles, S \in SUBSET Data :
         ReplacePermissions(k, S) \/ GrantMissingPermissions(k, S)
    \/ \E d \in Data : PurgeData(d)
    \/ \E k \in Roles : PurgeRole(k) \/ \E new \in Roles \ {k} : RenameRole(k, new)
    \/ Tick

Spec == Init /\ [][Next]_vars

-----------------------------------------------------------------------------
(* Properties.                                                             *)

\* The entry dbcache keeps is a faithful pair: as long as no table content
\* repeated the marker of another, an entry that revalidates holds exactly the
\* role's grants, whatever writes fell between its marker, its load, its
\* Store and the Stores of other processes.
RevalidatedIsCurrent ==
    \A k \in Roles :
        ~repeated /\ cache[k] # Nil /\ cache[k].marker = GrantsMarker(rows)
            => cache[k].value = Grants(rows, k)

\* NewPermissionChecker: "grant changes propagate to the next request after
\* dbcache's 1s grace window".  A served value was current at most Grace
\* before the request, plus the time a reload takes; markers that repeat aside.
PropagatesAfterGrace ==
    repeated \/ age <= Grace + Lag

\* The TTL is the hard bound for markers that repeat: no value is served that
\* ceased to be current more than TTL, plus a reload, before the request.
TTLBoundsStaleness == age <= TTL + Lag

\* grantsMarker: "a same-second revoke+grant still changes the sum because a
\* fresh auto-increment id is always larger than any it replaces"; and in
\* NewUserService: "the id sum moves on every change".
MarkerMovesOnEveryChange == [][rows' # rows => GrantsMarker(rows') # GrantsMarker(rows)]_rows

=============================================================================
