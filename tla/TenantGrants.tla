----------------------------- MODULE TenantGrants -----------------------------
(***************************************************************************)
(* sys_role_permissions across tenants: RoleService.ReplaceRolePermissions *)
(* (service/role.go, models/role.go), the hooks of models/role.go and      *)
(* models/menu.go that purge grants, and the callbacks of tenant_scope.go  *)
(* that restrict every statement to the tenant of the request, unless the  *)
(* resolver finds none or the context opts out (WithoutTenant).            *)
(*                                                                         *)
(* A replacement is a transaction of three statements that other ones      *)
(* interleave with: it validates the role and the items, soft-deletes the  *)
(* grants it then sees, and inserts the new list.  An item stands for a    *)
(* menu component.                                                         *)
(***************************************************************************)
EXTENDS Naturals, FiniteSets

CONSTANTS
    Editors,          \* concurrent replacements
    Tenants,
    Keys, Items,      \* role keys, menu components
    SuperRole,        \* the role Seed made super: the default tenant, and its key
    MaxEditorOps      \* bound: requests

ASSUME GrantsAssumption ==
    /\ IsFiniteSet(Editors) /\ "" \notin Tenants /\ MaxEditorOps \in Nat
    /\ SuperRole \in [tenant : Tenants, key : Keys]

VARIABLES
    scoped,           \* the tenant callbacks are installed (WithMultiTenant)
    roleRows,         \* sys_roles: tenant and key of the live rows
    supers,           \* those with is_super
    menus,            \* the components with a live sys_menus row
    roleGrants,       \* sys_role_permissions: tenant, key and item
    editor,           \* each replacement in flight
    editorOps,
    touched,          \* history: the tenant whose request made the last step, "" for
                      \* none or for a request outside the scope
    excused           \* history: grants whose role or menu went while they were being written

grantsTables == <<roleRows, supers, menus, roleGrants>>
grantsVars == <<scoped, grantsTables, editor, editorOps, touched, excused>>

RoleIds == [tenant : Tenants, key : Keys]
Grants == [tenant : Tenants, key : Keys, item : Items]

\* What the resolver makes of a request: its tenant, or "" (no claims, a super
\* tool's resolver, WithoutTenant).  Without the callbacks nobody asks it.
Contexts == IF scoped THEN Tenants \cup {""} ELSE {""}

AtRest == [pc |-> "rest", ctx |-> "", role |-> SuperRole, items |-> {}, seen |-> {}]

\* Any roles, the super one among them, and no grants of ordinary ones yet.
GrantsInit ==
    /\ scoped \in BOOLEAN
    /\ \E r \in SUBSET (RoleIds \ {SuperRole}) : roleRows = r \cup {SuperRole}
    /\ supers = {SuperRole}
    /\ menus = Items
    /\ roleGrants = {[tenant |-> SuperRole.tenant, key |-> SuperRole.key, item |-> i] : i \in Items}
    /\ editor = [e \in Editors |-> AtRest]
    /\ editorOps = 0 /\ touched = "" /\ excused = {}

-----------------------------------------------------------------------------
(* The tenant scope.                                                       *)

\* Mutant of InScope: the statement is not restricted.
InScopeAll(table, t) == table

\* The callbacks bail out when the resolver returns "" or the context opted out.
Restricts(t) == scoped /\ t # ""

\* applyTenantScope: the rows of table a statement of context t reaches.
InScope(table, t) == {r \in table : Restricts(t) => r.tenant = t}

\* setTenantID: the callback's tenant wins over the one the row was given (by
\* the request, ApplyDefaultTenant, or the role).
Stamped(t, given) == IF Restricts(t) THEN t ELSE given

\* Mutant of Purge: the hook leaves the grants.
PurgeNothing(gone) == UNCHANGED roleGrants

\* purgeRolePermissions.
Purge(gone) == roleGrants' = roleGrants \ gone

OneMoreOp(t) == editorOps < MaxEditorOps /\ editorOps' = editorOps + 1 /\ touched' = t

-----------------------------------------------------------------------------
(* ReplaceRolePermissions.                                                 *)

\* The role is looked up by key within the scope (any one, if several), must
\* not be super, and every item must have a live row.
ReplaceValidate(e, t, k, items) ==
    /\ editor[e].pc = "rest" /\ OneMoreOp(t)
    /\ items \subseteq menus
    /\ \E r \in InScope(roleRows, t) :
          /\ r.key = k /\ r \notin supers
          /\ editor' = [editor EXCEPT ![e] = [pc |-> "delete", ctx |-> t, role |-> r,
                                              items |-> items, seen |-> {}]]
    /\ UNCHANGED <<scoped, grantsTables, excused>>

\* DELETE ... WHERE role_key = ?: by key alone, within the scope.
ReplaceSees(e) == {g \in InScope(roleGrants, editor[e].ctx) : g.key = editor[e].role.key}

ReplaceDelete(e) ==
    /\ editor[e].pc = "delete"
    /\ editor' = [editor EXCEPT ![e].pc = "commit", ![e].seen = ReplaceSees(e)]
    /\ touched' = editor[e].ctx
    /\ UNCHANGED <<scoped, grantsTables, editorOps, excused>>

\* The rows ReplacePermissions inserts, in the role's tenant.
ReplaceInserts(e) ==
    {[tenant |-> Stamped(editor[e].ctx, editor[e].role.tenant), key |-> editor[e].role.key,
      item |-> i] : i \in editor[e].items}

ReplaceCommit(e) ==
    /\ editor[e].pc = "commit"
    /\ roleGrants' = (roleGrants \ editor[e].seen) \cup ReplaceInserts(e)
    /\ editor' = [editor EXCEPT ![e] = AtRest]
    /\ touched' = editor[e].ctx
    /\ UNCHANGED <<scoped, roleRows, supers, menus, editorOps, excused>>

-----------------------------------------------------------------------------
(* Roles and menus.                                                        *)

\* What a replacement in flight is going to insert.
Pending == UNION {ReplaceInserts(e) : e \in {x \in Editors : editor[x].pc # "rest"}}

\* hardenResource clears is_super; the tenant is the request's unless stamped.
CreateTenantRole(t, r) ==
    /\ r \notin roleRows /\ r.tenant = Stamped(t, r.tenant) /\ OneMoreOp(t)
    /\ roleRows' = roleRows \cup {r}
    /\ UNCHANGED <<scoped, supers, menus, roleGrants, editor, excused>>

\* AfterDelete purges the grants of the key in the role's tenant.  guardDelete
\* and guardUpdate let a super caller change a super role too.
DeleteTenantRole(t, r) ==
    /\ r \in InScope(roleRows, t) /\ OneMoreOp(t)
    /\ roleRows' = roleRows \ {r}
    /\ supers' = supers \ {r}
    /\ Purge({g \in InScope(roleGrants, t) : g.key = r.key /\ g.tenant = r.tenant})
    /\ excused' = excused \cup {g \in Pending : g.key = r.key /\ g.tenant = r.tenant}
    /\ UNCHANGED <<scoped, menus, editor>>

\* BeforeUpdate re-points the grants at a new key.
RenameTenantRole(t, r, k) ==
    LET new == [r EXCEPT !.key = k]
        held == {g \in InScope(roleGrants, t) : g.key = r.key /\ g.tenant = r.tenant}
    IN
    /\ r \in InScope(roleRows, t) /\ new \notin roleRows /\ OneMoreOp(t)
    /\ roleRows' = (roleRows \ {r}) \cup {new}
    /\ supers' = {IF x = r THEN new ELSE x : x \in supers}
    /\ roleGrants' = (roleGrants \ held) \cup {[g EXCEPT !.key = k] : g \in held}
    /\ excused' = excused \cup {[g EXCEPT !.key = k] : g \in held \cap excused}
                          \cup {g \in Pending : g.key = r.key /\ g.tenant = r.tenant}
    /\ UNCHANGED <<scoped, menus, editor>>

\* Menu.AfterDelete purges the grants of the component, those the scope of the
\* request reaches (purgeRolePermissions' session keeps the context and the
\* callbacks): under a tenant the other tenants' stay behind.
DeleteTenantMenu(t, i) ==
    LET gone == {g \in InScope(roleGrants, t) : g.item = i} IN
    /\ i \in menus /\ OneMoreOp(t)
    /\ menus' = menus \ {i}
    /\ Purge(gone)
    /\ excused' = excused \cup {g \in (roleGrants \ gone) \cup Pending : g.item = i}
    /\ UNCHANGED <<scoped, roleRows, supers, editor>>

GrantsNext ==
    \E t \in Contexts :
        \/ \E e \in Editors :
             \/ \E k \in Keys, items \in SUBSET Items : ReplaceValidate(e, t, k, items)
             \/ editor[e].ctx = t /\ (ReplaceDelete(e) \/ ReplaceCommit(e))
        \/ \E r \in RoleIds :
             \/ CreateTenantRole(t, r) \/ DeleteTenantRole(t, r)
             \/ \E k \in Keys : RenameTenantRole(t, r, k)
        \/ \E i \in Items : DeleteTenantMenu(t, i)

GrantsSpec == GrantsInit /\ [][GrantsNext]_grantsVars

-----------------------------------------------------------------------------
(* Properties.                                                             *)

\* With the scope installed no request of a tenant changes the role grants that
\* another tenant's roles hold on menus that are still there, though the deletes
\* name a role key alone, which every tenant may use, and run statements after
\* the role was looked up.  Requests outside the scope may.
TenantsApart ==
    [][scoped /\ touched' # "" => \A t \in Tenants \ {touched'} :
          {g \in roleGrants : g.tenant = t /\ g.item \in menus'}
             = {g \in roleGrants' : g.tenant = t /\ g.item \in menus'}]_grantsVars

\* Every grant has its role and its menu, through deletions, new keys and
\* replacements in any order, so that a role created or renamed to a key starts
\* with no grants it was not given.  The exceptions are those of a replacement
\* that had validated before, and those another tenant held on a deleted menu.
GrantsBacked ==
    \A g \in roleGrants \ excused :
        [tenant |-> g.tenant, key |-> g.key] \in roleRows /\ g.item \in menus

===============================================================================
