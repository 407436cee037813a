------------------------------ MODULE Bootstrap ------------------------------
(***************************************************************************)
(* What admin.Server.Setup and admin.Seed write when processes boot on one *)
(* database (admin/server.go, derive.go, setup_converge.go, seed.go), with *)
(* crashes, restarts and an operator editing menus meanwhile.              *)
(*                                                                         *)
(* A catalog entry is a menu component or a permission code.  Setup looks  *)
(* each one up, soft-deleted rows included, and inserts what is missing in *)
(* a statement of its own: no unique index stands behind that check.  Seed *)
(* is one transaction, reading the snapshot it began with; a second insert *)
(* of a tenant's primary key fails it.                                     *)
(***************************************************************************)
EXTENDS Naturals, Sequences, FiniteSets, FiniteSetsExt, SequencesExt

CONSTANTS
    Procs,           \* processes that boot
    Registered,      \* the entries of the models Setup always registers, in order
    TenantModel,     \* those of the tenant resource, registered when multi-tenant
    TenantMenu,      \* the menu among them
    Endpoints,       \* those of the metadata endpoints, registered last
    Sections,        \* the menus Seed itself inserts
    Permissions,     \* the entries that are permission codes, not menus
    Default, Legacy, \* tenant ids: DefaultTenantID, and one of an older database
    MaxBoots, MaxEdits    \* bounds: boots, operator edits

ASSUME BootstrapAssumption ==
    /\ IsFiniteSet(Procs) /\ Default # Legacy /\ "" \notin {Default, Legacy}
    /\ Registered \in Seq(STRING) /\ TenantModel \in Seq(STRING) /\ Endpoints \in Seq(STRING)
    /\ {"remove menu", "purge grants", "remove permissions"}
          \cap (Range(Registered) \cup Range(TenantModel) \cup Range(Endpoints)) = {}
    /\ TenantMenu \in Range(TenantModel) \ Permissions
    /\ Range(TenantModel) \cap (Range(Registered) \cup Range(Endpoints) \cup Sections) = {}
    /\ {MaxBoots, MaxEdits} \subseteq Nat

VARIABLES
    multi,           \* the deployment is multi-tenant
    rows,            \* sys_menus and sys_permissions: id, entry, live
    tenants,         \* ids with a sys_tenants row
    clones,          \* a tenant's copies of the sys_schemas templates: id, tenant
    roles, adminUsers, \* sys_roles rows of key "admin", sys_users rows of uid "admin"
    grants,          \* the entries the admin role is granted
    nextId,
    proc,            \* each process: where its boot is, Seed's snapshot, and whether
                     \* (history) the entry it is to insert had no row when looked up
    boots, edits,
    began,           \* history: what the database began with: a default tenant, an admin
                     \* role, one that is the operator's own, an admin user
    seeded,          \* history: some Seed has committed
    ungranted        \* history: entries whose grant was removed and not renewed

dbState == <<rows, tenants, clones, roles, adminUsers, grants>>
bootVars == <<multi, dbState, nextId, proc, boots, edits, began, seeded, ungranted>>

NoSnap == [rows |-> {}, tenants |-> {}, clones |-> {}, roles |-> {}, adminUsers |-> {}, grants |-> {}]
Off == [pc |-> "off", next |-> 1, absent |-> FALSE, snap |-> NoSnap]
Live(table) == {r.entry : r \in {x \in table : x.live}}
Known(table) == {r.entry : r \in table}

\* The row of the smallest id.
Least(table) == CHOOSE r \in table : \A s \in table : r.id <= s.id

\* The tenant resource's menu and permissions, by their exact content.
TenantEntries == Range(TenantModel)
TenantPermissions == TenantEntries \ {TenantMenu}

\* getModels leaves the tenant resource out of a single-tenant deployment.
GetModels == IF multi THEN Registered \o TenantModel ELSE Registered

\* removeTenantManagementArtifacts, statement by statement: a single-tenant
\* Setup's own steps.
CleanupSteps == IF multi THEN <<>> ELSE <<"remove menu", "purge grants", "remove permissions">>

\* Setup, step by step: an entry to look up, or a statement of the cleanup.
SetupSteps == GetModels \o CleanupSteps \o Endpoints

FreshDatabase ==
    rows = {} /\ clones = {} /\ grants = {} /\ roles = {} /\ adminUsers = {} /\ tenants = {}

\* One an earlier version left: its admin role may be missing, the operator's
\* own (not builtin), or a builtin one that lacks is_super, on no tenant or on
\* another; its admin user may be missing or elsewhere; and the tenant
\* resource's entries may be left over, with a row each.
OlderDatabase ==
    \E left \in {{}, TenantEntries}, t \in {"", Legacy, Default},
       kind \in {"missing", "own", "builtin", "super"}, u \in {{}, {""}} :
        /\ rows = {[id |-> 0, entry |-> e, live |-> TRUE] : e \in left}
        /\ grants = left
        /\ roles = {[id |-> 0, tenant |-> t, builtin |-> kind # "own", isSuper |-> kind = "super"] :
                       k \in {kind} \ {"missing"}}
        /\ adminUsers = {[id |-> 0, tenant |-> x] : x \in u}
        /\ tenants \in {{}, {Default}} /\ clones = {}

BootsBegin ==
    /\ nextId = 1
    /\ proc = [p \in Procs |-> Off]
    /\ boots = 0 /\ edits = 0
    /\ began = [tenant |-> Default \in tenants, role |-> roles # {}, user |-> adminUsers # {},
                own |-> \E r \in roles : ~r.builtin /\ ~r.isSuper]
    /\ seeded = FALSE /\ ungranted = {}

BootInit == multi \in BOOLEAN /\ (FreshDatabase \/ OlderDatabase) /\ BootsBegin

-----------------------------------------------------------------------------
(* Setup.                                                                  *)

Boot(p) ==
    /\ proc[p].pc = "off" /\ boots < MaxBoots
    /\ boots' = boots + 1
    /\ proc' = [proc EXCEPT ![p] = [Off EXCEPT !.pc = "setup"]]
    /\ UNCHANGED <<multi, dbState, nextId, edits, began, seeded, ungranted>>

\* Mutant of Found: a soft-deleted row does not count.
FoundLive(e) == e \in Live(rows)

Found(e) == e \in Known(rows)

\* ensureMenuRow, ensurePermissionRows and ensureEndpointPermissions look an
\* entry up Unscoped: a soft-deleted row counts as there.
Lookup(p) ==
    /\ proc[p].pc = "setup" /\ proc[p].next <= Len(SetupSteps)
    /\ SetupSteps[proc[p].next] \notin Range(CleanupSteps)
    /\ LET e == SetupSteps[proc[p].next] IN
       IF Found(e)
       THEN proc' = [proc EXCEPT ![p].next = @ + 1]
       ELSE proc' = [proc EXCEPT ![p].pc = "insert", ![p].absent = e \notin Known(rows)]
    /\ UNCHANGED <<multi, dbState, nextId, boots, edits, began, seeded, ungranted>>

Insert(p) ==
    /\ proc[p].pc = "insert"
    /\ rows' = rows \cup {[id |-> nextId, entry |-> SetupSteps[proc[p].next], live |-> TRUE]}
    /\ nextId' = nextId + 1
    /\ proc' = [proc EXCEPT ![p].pc = "setup", ![p].next = @ + 1, ![p].absent = FALSE]
    /\ UNCHANGED <<multi, tenants, clones, roles, adminUsers, grants, boots, edits, began,
                   seeded, ungranted>>

\* The statements of removeTenantManagementArtifacts, outside any transaction.
CleanupStep(p, step) ==
    /\ proc[p].pc = "setup" /\ proc[p].next <= Len(SetupSteps)
    /\ SetupSteps[proc[p].next] = step
    /\ proc' = [proc EXCEPT ![p].next = @ + 1]
    /\ UNCHANGED <<multi, tenants, clones, roles, adminUsers, nextId, boots, edits, began,
                   seeded, ungranted>>

\* The first row of the menu, soft-deleted ones included, is hard-deleted, and
\* Menu.AfterDelete purges the grants of its component.  (Looking it up and
\* deleting it by id are one step here: a single-tenant deployment has no
\* statement that inserts one in between.)
RemoveTenantMenu(p) ==
    LET found == {r \in rows : r.entry = TenantMenu} IN
    /\ CleanupStep(p, "remove menu")
    /\ \/ found = {} /\ UNCHANGED <<rows, grants>>
       \/ found # {} /\ rows' = rows \ {Least(found)} /\ grants' = grants \ {TenantMenu}

\* Permission rows have no hook: their grants go first, then they do.
PurgeTenantGrants(p) ==
    /\ CleanupStep(p, "purge grants")
    /\ grants' = grants \ TenantPermissions
    /\ UNCHANGED rows

RemoveTenantPermissions(p) ==
    /\ CleanupStep(p, "remove permissions")
    /\ rows' = {r \in rows : r.entry \notin TenantPermissions}
    /\ UNCHANGED grants

Cleanup(p) == RemoveTenantMenu(p) \/ PurgeTenantGrants(p) \/ RemoveTenantPermissions(p)

-----------------------------------------------------------------------------
(* Seed.                                                                   *)

SeedBegin(p) ==
    /\ proc[p].pc = "setup" /\ proc[p].next > Len(SetupSteps)
    /\ proc' = [proc EXCEPT ![p].pc = "commit",
                            ![p].snap = [rows |-> rows, tenants |-> tenants, clones |-> clones, roles |-> roles,
                                         adminUsers |-> adminUsers, grants |-> grants]]
    /\ UNCHANGED <<multi, dbState, nextId, boots, edits, began, seeded, ungranted>>

\* FirstOrCreate: the row of the smallest id in the snapshot, else a new one.
First(table, fresh) ==
    IF table = {} THEN fresh ELSE Least(table)

\* EnsureSectionMenus and EnsureRolePermissionMenu.
MissingSections(snap) == Sections \ Known(snap.rows)

NewRole == [id |-> nextId, tenant |-> Default, builtin |-> TRUE, isSuper |-> TRUE]

\* Mutant of SeedRole: every role found is made super.
SeedRoleUpgraded(snap) ==
    [First(snap.roles, NewRole) EXCEPT !.tenant = IF @ = "" THEN Default ELSE @, !.isSuper = TRUE]

\* The role Seed works with: an empty tenant becomes the default one, and a
\* builtin role from before IsSuper is upgraded; the operator's own is not.
SeedRole(snap) ==
    LET r == First(snap.roles, NewRole)
    IN  [r EXCEPT !.tenant = IF @ = "" THEN Default ELSE @, !.isSuper = r.builtin \/ r.isSuper]

\* The tenant rows Seed inserts: the default one, and the role's.
SeedTenants(snap) == {Default, SeedRole(snap).tenant} \ snap.tenants

Put(table, r) == {x \in table : x.id # r.id} \cup {r}

\* ensureTenantSchemas, when the tenant scope is installed: a copy of the
\* templates for every tenant that the snapshot shows without one.
TenantSchemas(snap) ==
    LET lacking == (snap.tenants \cup SeedTenants(snap)) \ {c.tenant : c \in snap.clones}
    IN  IF multi THEN {[id |-> nextId, tenant |-> t] : t \in lacking} ELSE {}

\* Mutant of FullCatalog: the grants are written before the section menus.
FullCatalogEarly(snap) == Live(snap.rows)

\* grantFullCatalog: every live menu and permission, the new sections included.
FullCatalog(snap) == Live(snap.rows) \cup MissingSections(snap)

\* The grants of a Seed, which tops up the roles that are super.
SeedGrants(snap) ==
    IF \E r \in Put(snap.roles, SeedRole(snap)) : r.isSuper THEN FullCatalog(snap) ELSE {}

SeedCommit(p) ==
    LET snap == proc[p].snap
        role == SeedRole(snap)
        user == [First(snap.adminUsers, [id |-> nextId, tenant |-> ""]) EXCEPT !.tenant = role.tenant]
        menus == MissingSections(snap)
    IN
    /\ proc[p].pc = "commit"
    /\ SeedTenants(snap) \cap tenants = {}
    /\ rows' = rows \cup {[id |-> nextId, entry |-> e, live |-> TRUE] : e \in menus}
    /\ tenants' = tenants \cup SeedTenants(snap)
    /\ clones' = clones \cup TenantSchemas(snap)
    /\ roles' = Put(roles, role)
    /\ adminUsers' = Put(adminUsers, user)
    /\ grants' = grants \cup SeedGrants(snap)
    /\ nextId' = nextId + 1
    /\ seeded' = TRUE
    /\ ungranted' = ungranted \ grants'
    /\ proc' = [proc EXCEPT ![p] = [Off EXCEPT !.pc = "up"]]
    /\ UNCHANGED <<multi, boots, edits, began>>

\* Another Seed inserted one of the tenants meanwhile: a duplicate primary key,
\* and the whole transaction is rolled back.
SeedFails(p) ==
    /\ proc[p].pc = "commit"
    /\ SeedTenants(proc[p].snap) \cap tenants # {}
    /\ proc' = [proc EXCEPT ![p] = Off]
    /\ UNCHANGED <<multi, dbState, nextId, boots, edits, began, seeded, ungranted>>

\* A crash anywhere: Setup's inserts stay, Seed's transaction does not.
ProcCrash(p) ==
    /\ proc[p].pc # "off"
    /\ proc' = [proc EXCEPT ![p] = Off]
    /\ UNCHANGED <<multi, dbState, nextId, boots, edits, began, seeded, ungranted>>

-----------------------------------------------------------------------------
(* The operator.                                                           *)

\* A menu row is soft-deleted; Menu.AfterDelete purges the grants of its
\* component.  (Permission rows are read-only through REST.)
DeleteMenu(r) ==
    /\ edits < MaxEdits /\ r.live /\ r.entry \notin Permissions
    /\ edits' = edits + 1
    /\ rows' = (rows \ {r}) \cup {[r EXCEPT !.live = FALSE]}
    /\ grants' = grants \ {r.entry}
    /\ ungranted' = ungranted \cup {r.entry}
    /\ UNCHANGED <<multi, tenants, clones, roles, adminUsers, nextId, proc, boots, began, seeded>>

\* A grant of the admin role disappears out of band.
LoseGrant(e) ==
    /\ edits < MaxEdits /\ e \in grants
    /\ edits' = edits + 1
    /\ grants' = grants \ {e}
    /\ ungranted' = ungranted \cup {e}
    /\ UNCHANGED <<multi, rows, tenants, clones, roles, adminUsers, nextId, proc, boots, began, seeded>>

BootNext ==
    \/ \E p \in Procs : \/ Boot(p) \/ Lookup(p) \/ Insert(p) \/ Cleanup(p)
                        \/ SeedBegin(p) \/ SeedCommit(p) \/ SeedFails(p) \/ ProcCrash(p)
    \/ \E r \in rows : DeleteMenu(r)
    \/ \E e \in grants : LoseGrant(e)

BootstrapSpec == BootInit /\ [][BootNext]_bootVars

-----------------------------------------------------------------------------
(* Properties.                                                             *)

\* However many processes boot together, the database ends with an admin role
\* and an admin user on one tenant that has its row, the role super if it is
\* builtin and never made so if it is the operator's own, and every tenant with
\* a copy of the schema templates if there are tenants.  The tenant's primary key
\* makes all but one Seed of a fresh database fail, so that there is one of each.
\* A database that had the default tenant's row is not so protected: there two
\* Seeds may both insert the admin role or user it lacks (Login refuses an
\* ambiguous uid), or both copy the templates.
BootConverges ==
    /\ (began.tenant => began.role) => Cardinality(roles) <= 1
    /\ (began.tenant => began.user) => Cardinality(adminUsers) <= 1
    /\ ~began.tenant => \A c, d \in clones : c.tenant = d.tenant => c = d
    /\ began.own => \A r \in roles : ~r.isSuper
    /\ seeded => \A r \in roles, u \in adminUsers :
         (r.builtin => r.isSuper) /\ r.tenant \in tenants /\ u.tenant = r.tenant
    /\ seeded /\ multi => tenants \subseteq {c.tenant : c \in clones}

\* Once a Seed has committed a super admin role holds every live entry, whatever
\* interleaving of boots inserted it, but for the grants removed since.
SuperCovers ==
    seeded /\ (\E r \in roles : r.isSuper) => Live(rows) \subseteq grants \cup ungranted

\* A menu the operator deleted does not come back, unless a boot had found it
\* missing, or taken its snapshot, before the row existed at all.
DeletedStaysDeleted ==
    [][\A e \in Known(rows) \ Live(rows) :
         e \in Live(rows)' =>
             \E p \in Procs : \/ proc[p].pc = "insert" /\ proc[p].absent /\ SetupSteps[proc[p].next] = e
                              \/ proc[p].pc = "commit" /\ e \notin Known(proc[p].snap.rows)]_bootVars

\* "INSERT would collide with the unique Component index": no component has
\* two rows.
ComponentUnique == \A r, s \in rows : r.entry = s.entry => r = s

=============================================================================
