----------------------------- MODULE AccessProofs -----------------------------
(***************************************************************************)
(* Proofs about who may do what in the back office.                        *)
(*                                                                         *)
(* The grants of tenants: for any tenants, roles and menus and any number  *)
(* of replacements in flight, with the tenant callbacks installed or not,  *)
(* no request reaches another tenant's grants, and no grant outlives its   *)
(* role or its menu but for the cases excused.                             *)
(*                                                                         *)
(* The permission gate: for any paths, patterns, headers, allowlists,      *)
(* catalogs and grants, the allowlists and the checker open exactly what   *)
(* they promise.                                                           *)
(*                                                                         *)
(* The validators in front of every RPC: for any message, Validate and     *)
(* ValidateAll agree with its rules and with each other.                   *)
(***************************************************************************)
EXTENDS TenantGrants, PermissionGate, Validators,
        FiniteSetTheorems, SequenceTheorems, WellFoundedInduction, TLAPS

-----------------------------------------------------------------------------
(* The grants of tenants.                                                  *)

EditorType ==
    [pc : {"rest", "delete", "commit"}, ctx : Tenants \cup {""}, role : RoleIds,
     items : SUBSET Items, seen : SUBSET Grants]

\* The tables hold rows of their columns' types.
GrantsTypeInv ==
    /\ roleRows \subseteq RoleIds
    /\ menus \subseteq Items
    /\ roleGrants \subseteq Grants
    /\ editor \in [Editors -> EditorType]

\* The rows a replacement has deleted are of the tenant it runs under, and so
\* is its role, unless it runs outside the scope: both came from statements the
\* callbacks scoped.
SeenInScope ==
    \A e \in Editors : Restricts(editor[e].ctx) =>
        /\ \A g \in editor[e].seen : g.tenant = editor[e].ctx
        /\ editor[e].pc # "rest" => editor[e].role.tenant = editor[e].ctx

RoleOf(g) == [tenant |-> g.tenant, key |-> g.key]
Backed(g) == g \in excused \/ (RoleOf(g) \in roleRows /\ g.item \in menus)

\* GrantsBacked, and the same of the rows that replacements in flight are going
\* to insert: what was validated stays true until the commit or is excused.
GrantsAndPendingBacked ==
    /\ \A g \in roleGrants : Backed(g)
    /\ \A e \in Editors : editor[e].pc # "rest" => \A g \in ReplaceInserts(e) : Backed(g)

-------------------------------------------------------------------------------
(* Types and scope.                                                          *)

\* The first state has well-typed rows, and no replacement.
LEMMA InitGrantsType == GrantsInit => GrantsTypeInv /\ SeenInScope
<1>1. SUFFICES ASSUME GrantsInit PROVE GrantsTypeInv /\ SeenInScope
      OBVIOUS
<1>2. SuperRole \in RoleIds /\ SuperRole.tenant \in Tenants /\ SuperRole.key \in Keys
      BY GrantsAssumption DEF RoleIds
<1>3. roleRows \subseteq RoleIds
      BY <1>1, <1>2 DEF GrantsInit
<1>4. roleGrants \subseteq Grants
  <2>1. roleGrants = {[tenant |-> SuperRole.tenant, key |-> SuperRole.key, item |-> i] : i \in Items}
        BY <1>1 DEF GrantsInit
  <2>2. \A i \in Items : [tenant |-> SuperRole.tenant, key |-> SuperRole.key, item |-> i] \in Grants
        BY <1>2 DEF Grants
  <2>3. QED
        BY <2>1, <2>2
<1>5. AtRest \in EditorType
      BY <1>2 DEF AtRest, EditorType
<1>6. GrantsTypeInv
      BY <1>1, <1>3, <1>4, <1>5 DEF GrantsTypeInv, GrantsInit
<1>7. SeenInScope
      BY <1>1 DEF SeenInScope, GrantsInit, AtRest, Restricts
<1>8. QED
      BY <1>6, <1>7

\* Validating, deleting and committing a replacement keep the types.
LEMMA ReplaceKeepsType ==
    ASSUME GrantsTypeInv, SeenInScope, NEW e \in Editors, NEW t \in Contexts,
           \/ \E k \in Keys, items \in SUBSET Items : ReplaceValidate(e, t, k, items)
           \/ ReplaceDelete(e)
           \/ ReplaceCommit(e)
    PROVE  GrantsTypeInv' /\ SeenInScope'
<1>1. editor[e] \in EditorType
      BY DEF GrantsTypeInv
<1>2. CASE \E k \in Keys, items \in SUBSET Items : ReplaceValidate(e, t, k, items)
  <2>1. PICK k \in Keys, items \in SUBSET Items : ReplaceValidate(e, t, k, items)
        BY <1>2
  <2>2. PICK r \in InScope(roleRows, t) :
            editor' = [editor EXCEPT ![e] = [pc |-> "delete", ctx |-> t, role |-> r,
                                             items |-> items, seen |-> {}]]
        BY <2>1 DEF ReplaceValidate
  <2>3. r \in RoleIds /\ (Restricts(t) => r.tenant = t)
        BY <2>2 DEF InScope, GrantsTypeInv
  <2>4. [pc |-> "delete", ctx |-> t, role |-> r, items |-> items, seen |-> {}] \in EditorType
        BY <2>3 DEF EditorType, Contexts
  <2>5. UNCHANGED <<scoped, roleRows, menus, roleGrants>>
        BY <2>1 DEF ReplaceValidate, grantsTables
  <2>6. GrantsTypeInv'
        BY <2>2, <2>4, <2>5 DEF GrantsTypeInv
  <2>7. SeenInScope'
        BY <2>2, <2>3, <2>5 DEF SeenInScope, GrantsTypeInv, Restricts
  <2>8. QED
        BY <2>6, <2>7
<1>3. CASE ReplaceDelete(e)
  <2>1. ReplaceSees(e) \subseteq roleGrants
        BY DEF ReplaceSees, InScope
  <2>2. ReplaceSees(e) \in SUBSET Grants
        BY <2>1 DEF GrantsTypeInv
  <2>3. editor' = [editor EXCEPT ![e] = [editor[e] EXCEPT !.pc = "commit", !.seen = ReplaceSees(e)]]
        BY <1>3 DEF ReplaceDelete
  <2>4. [editor[e] EXCEPT !.pc = "commit", !.seen = ReplaceSees(e)] \in EditorType
        BY <1>1, <2>2 DEF EditorType
  <2>5. UNCHANGED <<scoped, roleRows, menus, roleGrants>>
        BY <1>3 DEF ReplaceDelete, grantsTables
  <2>6. GrantsTypeInv'
        BY <2>3, <2>4, <2>5 DEF GrantsTypeInv
  <2>7. Restricts(editor[e].ctx) => \A g \in ReplaceSees(e) : g.tenant = editor[e].ctx
        BY DEF ReplaceSees, InScope
  <2>8. editor[e].pc # "rest"
        BY <1>3 DEF ReplaceDelete
  <2>9. SeenInScope'
        BY <1>1, <2>3, <2>5, <2>7, <2>8 DEF SeenInScope, GrantsTypeInv, EditorType, Restricts
  <2>10. QED
        BY <2>6, <2>9
<1>4. CASE ReplaceCommit(e)
  <2>1. ReplaceInserts(e) \subseteq Grants
    <3>1. editor[e].pc # "rest" /\ editor[e].role \in RoleIds /\ editor[e].items \subseteq Items
          BY <1>1, <1>4 DEF ReplaceCommit, EditorType
    <3>2. Stamped(editor[e].ctx, editor[e].role.tenant) \in Tenants
          BY <3>1 DEF Stamped, SeenInScope, RoleIds
    <3>3. QED
          BY <3>1, <3>2 DEF ReplaceInserts, Grants, RoleIds
  <2>2. SuperRole \in RoleIds
        BY GrantsAssumption DEF RoleIds
  <2>3. AtRest \in EditorType
        BY <2>2 DEF AtRest, EditorType
  <2>4. UNCHANGED <<scoped, roleRows, menus>>
        BY <1>4 DEF ReplaceCommit
  <2>5. GrantsTypeInv'
        BY <1>4, <2>1, <2>3, <2>4 DEF GrantsTypeInv, ReplaceCommit
  <2>6. editor' = [editor EXCEPT ![e] = AtRest] /\ AtRest.pc = "rest" /\ AtRest.seen = {}
        BY <1>4 DEF ReplaceCommit, AtRest
  <2>7. SeenInScope'
        BY <2>4, <2>6 DEF SeenInScope, GrantsTypeInv, Restricts
  <2>8. QED
        BY <2>5, <2>7
<1>5. QED
      BY <1>2, <1>3, <1>4

\* A grant moved to another key is a grant of the same tenant.
LEMMA Rekeyed ==
    ASSUME NEW g \in Grants, NEW k \in Keys
    PROVE  /\ [g EXCEPT !.key = k] \in Grants
           /\ [g EXCEPT !.key = k].tenant = g.tenant
           /\ [g EXCEPT !.key = k].key = k
           /\ [g EXCEPT !.key = k].item = g.item
BY DEF Grants

\* Creating, deleting and renaming roles and deleting menus keep the types.
LEMMA TablesKeepType ==
    ASSUME GrantsTypeInv, SeenInScope, NEW t \in Contexts,
           \/ \E r \in RoleIds : CreateTenantRole(t, r) \/ DeleteTenantRole(t, r)
           \/ \E r \in RoleIds, k \in Keys : RenameTenantRole(t, r, k)
           \/ \E i \in Items : DeleteTenantMenu(t, i)
    PROVE  GrantsTypeInv' /\ SeenInScope'
<1>1. UNCHANGED <<scoped, editor>>
      BY DEF CreateTenantRole, DeleteTenantRole, RenameTenantRole, DeleteTenantMenu
<1>2. SeenInScope'
      BY <1>1 DEF SeenInScope, Restricts
<1>3. CASE \E r \in RoleIds : CreateTenantRole(t, r) \/ DeleteTenantRole(t, r)
  <2>1. roleRows' \subseteq RoleIds /\ UNCHANGED menus
        BY <1>3 DEF CreateTenantRole, DeleteTenantRole, GrantsTypeInv
  <2>2. roleGrants' \subseteq roleGrants
        BY <1>3 DEF CreateTenantRole, DeleteTenantRole, Purge
  <2>3. QED
        BY <1>1, <1>2, <2>1, <2>2 DEF GrantsTypeInv
<1>4. CASE \E r \in RoleIds, k \in Keys : RenameTenantRole(t, r, k)
  <2>1. PICK r \in RoleIds, k \in Keys : RenameTenantRole(t, r, k)
        BY <1>4
  <2> DEFINE held == {g \in InScope(roleGrants, t) : g.key = r.key /\ g.tenant = r.tenant}
             moved == {[g EXCEPT !.key = k] : g \in held}
  <2>2. held \subseteq Grants
        BY DEF InScope, GrantsTypeInv
  <2>3. moved \subseteq Grants
        BY <2>2, Rekeyed
  <2>4. roleGrants' = (roleGrants \ held) \cup moved
        BY <2>1 DEF RenameTenantRole
  <2>5. roleGrants' \subseteq Grants
        BY <2>3, <2>4 DEF GrantsTypeInv
  <2>6. [r EXCEPT !.key = k] \in RoleIds
        BY DEF RoleIds
  <2>7. roleRows' \subseteq RoleIds /\ UNCHANGED menus
        BY <2>1, <2>6 DEF RenameTenantRole, GrantsTypeInv
  <2>8. QED
        BY <1>1, <1>2, <2>5, <2>7 DEF GrantsTypeInv
<1>5. CASE \E i \in Items : DeleteTenantMenu(t, i)
  <2>1. menus' \subseteq menus /\ UNCHANGED roleRows /\ roleGrants' \subseteq roleGrants
        BY <1>5 DEF DeleteTenantMenu, Purge
  <2>2. QED
        BY <1>1, <1>2, <2>1 DEF GrantsTypeInv
<1>6. QED
      BY <1>2, <1>3, <1>4, <1>5

\* The disjuncts of GrantsNext, grouped as the lemmas take them.
LEMMA GrantsSteps ==
    ASSUME GrantsNext
    PROVE  \E t \in Contexts :
              \/ \E e \in Editors :
                    \/ \E k \in Keys, items \in SUBSET Items : ReplaceValidate(e, t, k, items)
                    \/ ReplaceDelete(e)
                    \/ ReplaceCommit(e)
              \/ \E r \in RoleIds : CreateTenantRole(t, r) \/ DeleteTenantRole(t, r)
              \/ \E r \in RoleIds, k \in Keys : RenameTenantRole(t, r, k)
              \/ \E i \in Items : DeleteTenantMenu(t, i)
BY DEF GrantsNext

\* Every step keeps the types and the scope of what replacements hold.
LEMMA NextGrantsType ==
    GrantsTypeInv /\ SeenInScope /\ [GrantsNext]_grantsVars => GrantsTypeInv' /\ SeenInScope'
<1>1. SUFFICES ASSUME GrantsTypeInv, SeenInScope, [GrantsNext]_grantsVars
               PROVE  GrantsTypeInv' /\ SeenInScope'
      OBVIOUS
<1>2. CASE GrantsNext
      BY <1>1, <1>2, GrantsSteps, ReplaceKeepsType, TablesKeepType
<1>3. CASE UNCHANGED grantsVars
      BY <1>1, <1>3 DEF GrantsTypeInv, SeenInScope, Restricts, grantsVars, grantsTables
<1>4. QED
      BY <1>1, <1>2, <1>3

-------------------------------------------------------------------------------
(* Tenants are apart.                                                        *)

\* The grants of tenant t in a table.
OfTenant(table, t) == {g \in table : g.tenant = t}

\* A commit removes rows the replacement saw in its scope and inserts rows the
\* callback stamped with its tenant: no other tenant's grants move.
LEMMA CommitApart ==
    ASSUME GrantsTypeInv, SeenInScope, NEW e \in Editors, Restricts(editor[e].ctx),
           ReplaceCommit(e), NEW u \in Tenants, u # editor[e].ctx
    PROVE  OfTenant(roleGrants, u) = OfTenant(roleGrants', u)
<1>1. \A g \in editor[e].seen : g.tenant # u
      BY DEF SeenInScope
<1>2. \A g \in ReplaceInserts(e) : g.tenant # u
      BY DEF ReplaceInserts, Stamped
<1>3. roleGrants' = (roleGrants \ editor[e].seen) \cup ReplaceInserts(e)
      BY DEF ReplaceCommit
<1>4. QED
      BY <1>1, <1>2, <1>3 DEF OfTenant

\* A change of the key keeps a grant in its tenant.
LEMMA RenameApart ==
    ASSUME GrantsTypeInv, NEW t \in Contexts, Restricts(t), NEW r \in RoleIds, NEW k \in Keys,
           RenameTenantRole(t, r, k), NEW u \in Tenants, u # t
    PROVE  OfTenant(roleGrants, u) = OfTenant(roleGrants', u)
<1> DEFINE held == {g \in InScope(roleGrants, t) : g.key = r.key /\ g.tenant = r.tenant}
           moved == {[g EXCEPT !.key = k] : g \in held}
<1>1. \A g \in held : g.tenant = t /\ g \in Grants
      BY DEF InScope, GrantsTypeInv
<1>2. \A g \in held : [g EXCEPT !.key = k].tenant = t
      BY <1>1, Rekeyed
<1>3. roleGrants' = (roleGrants \ held) \cup moved
      BY DEF RenameTenantRole
<1> HIDE DEF held
<1>4. \A g \in moved : g.tenant = t
      BY <1>2
<1> HIDE DEF moved
<1>5. QED
      BY <1>1, <1>3, <1>4 DEF OfTenant

\* A step of a tenant's request changes the grants of that tenant, and no others.
LEMMA StepApart ==
    ASSUME GrantsTypeInv, SeenInScope, GrantsNext, scoped, touched' # "",
           NEW u \in Tenants, u # touched'
    PROVE  OfTenant(roleGrants, u) = OfTenant(roleGrants', u)
<1>1. PICK t \in Contexts :
         \/ \E e \in Editors :
               \/ \E k \in Keys, items \in SUBSET Items : ReplaceValidate(e, t, k, items)
               \/ ReplaceDelete(e)
               \/ ReplaceCommit(e)
         \/ \E r \in RoleIds : CreateTenantRole(t, r) \/ DeleteTenantRole(t, r)
         \/ \E r \in RoleIds, k \in Keys : RenameTenantRole(t, r, k)
         \/ \E i \in Items : DeleteTenantMenu(t, i)
      BY GrantsSteps
<1>2. ASSUME NEW e \in Editors,
             (\E k \in Keys, items \in SUBSET Items : ReplaceValidate(e, t, k, items))
                \/ ReplaceDelete(e)
      PROVE  UNCHANGED roleGrants
      BY <1>2 DEF ReplaceValidate, ReplaceDelete, grantsTables
<1>3. ASSUME NEW e \in Editors, ReplaceCommit(e)
      PROVE  OfTenant(roleGrants, u) = OfTenant(roleGrants', u)
  <2>1. u # editor[e].ctx /\ Restricts(editor[e].ctx)
        BY <1>3 DEF ReplaceCommit, Restricts
  <2>2. QED
        BY <1>3, <2>1, CommitApart
<1>4. ASSUME NEW r \in RoleIds, CreateTenantRole(t, r)
      PROVE  UNCHANGED roleGrants
      BY <1>4 DEF CreateTenantRole
<1>5. ASSUME NEW r \in RoleIds, DeleteTenantRole(t, r)
      PROVE  OfTenant(roleGrants, u) = OfTenant(roleGrants', u)
  <2>1. u # t /\ Restricts(t)
        BY <1>5 DEF DeleteTenantRole, OneMoreOp, Restricts
  <2>2. PICK gone \in SUBSET InScope(roleGrants, t) : roleGrants' = roleGrants \ gone
        BY <1>5 DEF DeleteTenantRole, Purge
  <2>3. QED
        BY <2>1, <2>2 DEF InScope, OfTenant
<1>6. ASSUME NEW r \in RoleIds, NEW k \in Keys, RenameTenantRole(t, r, k)
      PROVE  OfTenant(roleGrants, u) = OfTenant(roleGrants', u)
  <2>1. u # t /\ Restricts(t)
        BY <1>6 DEF RenameTenantRole, OneMoreOp, Restricts
  <2>2. QED
        BY <1>6, <2>1, RenameApart
<1>7. ASSUME NEW i \in Items, DeleteTenantMenu(t, i)
      PROVE  OfTenant(roleGrants, u) = OfTenant(roleGrants', u)
  <2>1. u # t /\ Restricts(t)
        BY <1>7 DEF DeleteTenantMenu, OneMoreOp, Restricts
  <2>2. PICK gone \in SUBSET InScope(roleGrants, t) : roleGrants' = roleGrants \ gone
        BY <1>7 DEF DeleteTenantMenu, Purge
  <2>3. QED
        BY <2>1, <2>2 DEF InScope, OfTenant
<1>8. QED
      BY <1>1, <1>2, <1>3, <1>4, <1>5, <1>6, <1>7

\* With the tenant callbacks installed no request of a tenant changes another
\* tenant's grants on the menus that remain, though ReplacePermissions deletes by
\* role key alone and the rows it inserts were given a tenant statements earlier:
\* for any tenants, keys and interleaving of replacements, and whatever requests
\* outside the scope (resolver "", WithoutTenant) do in between.
THEOREM TenantsTheorem == GrantsSpec => TenantsApart
<1> DEFINE Left(table, t) == {g \in table : g.tenant = t /\ g.item \in menus'}
           Apart == scoped /\ touched' # "" => \A t \in Tenants \ {touched'} :
                        Left(roleGrants, t) = Left(roleGrants', t)
<1>1. GrantsInit => GrantsTypeInv /\ SeenInScope
      BY InitGrantsType
<1>2. GrantsTypeInv /\ SeenInScope /\ [GrantsNext]_grantsVars => GrantsTypeInv' /\ SeenInScope'
      BY NextGrantsType
<1>3. GrantsTypeInv /\ SeenInScope /\ [GrantsNext]_grantsVars => [Apart]_grantsVars
  <2>1. ASSUME GrantsTypeInv, SeenInScope, GrantsNext, scoped, touched' # "",
               NEW t \in Tenants \ {touched'}
        PROVE  Left(roleGrants, t) = Left(roleGrants', t)
    <3>1. OfTenant(roleGrants, t) = OfTenant(roleGrants', t)
          BY <2>1, StepApart
    <3>2. QED
          BY <3>1 DEF OfTenant
  <2>2. QED
        BY <2>1
<1>4. QED
      BY <1>1, <1>2, <1>3, PTL DEF GrantsSpec, TenantsApart

-------------------------------------------------------------------------------
(* Grants are backed.                                                        *)

\* The rows a replacement in flight is going to insert are grants of its role.
InsertsOfRole ==
    \A e \in Editors : editor[e].pc # "rest" =>
        \A g \in ReplaceInserts(e) :
            g \in Grants /\ RoleOf(g) = editor[e].role /\ g.item \in editor[e].items

\* setTenantID stamps the tenant the role was found in, so that ReplacePermissions
\* inserts rows of the role's tenant and key.
LEMMA InsertsType == GrantsTypeInv /\ SeenInScope => InsertsOfRole
<1> SUFFICES ASSUME GrantsTypeInv, SeenInScope, NEW e \in Editors, editor[e].pc # "rest"
             PROVE  \A g \in ReplaceInserts(e) :
                       g \in Grants /\ RoleOf(g) = editor[e].role /\ g.item \in editor[e].items
      BY DEF InsertsOfRole
<1>1. editor[e] \in EditorType
      BY DEF GrantsTypeInv
<1>2. editor[e].role \in RoleIds /\ editor[e].items \subseteq Items
      BY <1>1 DEF EditorType
<1>3. Stamped(editor[e].ctx, editor[e].role.tenant) = editor[e].role.tenant
      BY DEF Stamped, SeenInScope
<1>4. editor[e].role.tenant \in Tenants /\ editor[e].role.key \in Keys
      BY <1>2 DEF RoleIds
<1>5. editor[e].role = [tenant |-> editor[e].role.tenant, key |-> editor[e].role.key]
      BY <1>2 DEF RoleIds
<1>6. SUFFICES ASSUME NEW i \in editor[e].items,
                      NEW g, g = [tenant |-> editor[e].role.tenant, key |-> editor[e].role.key,
                                  item |-> i]
               PROVE  g \in Grants /\ RoleOf(g) = editor[e].role /\ g.item \in editor[e].items
      BY <1>3 DEF ReplaceInserts
<1>7. g \in Grants
      BY <1>2, <1>4, <1>6 DEF Grants
<1>8. RoleOf(g) = editor[e].role
      BY <1>5, <1>6 DEF RoleOf
<1>9. QED
      BY <1>6, <1>7, <1>8

\* Validation: the role's row was found within the scope and every item has its
\* row, so what will be inserted is backed at that moment.
LEMMA ValidateBacked ==
    ASSUME GrantsTypeInv, SeenInScope, GrantsAndPendingBacked, NEW e \in Editors,
           NEW t \in Contexts, NEW k \in Keys, NEW items \in SUBSET Items,
           ReplaceValidate(e, t, k, items)
    PROVE  GrantsAndPendingBacked'
<1>1. UNCHANGED <<scoped, roleRows, menus, roleGrants, excused>>
      BY DEF ReplaceValidate, grantsTables
<1>2. PICK r \in InScope(roleRows, t) :
          editor' = [editor EXCEPT ![e] = [pc |-> "delete", ctx |-> t, role |-> r,
                                           items |-> items, seen |-> {}]]
      BY DEF ReplaceValidate
<1>3. items \subseteq menus /\ r \in roleRows
      BY <1>2 DEF ReplaceValidate, InScope
<1>4. GrantsTypeInv' /\ SeenInScope'
      BY ReplaceKeepsType
<1>5. editor'[e].pc # "rest" /\ editor'[e].role = r /\ editor'[e].items = items
      BY <1>2 DEF GrantsTypeInv
<1>6. \A g \in ReplaceInserts(e)' : RoleOf(g) = r /\ g.item \in items
  <2>1. InsertsOfRole'
        BY <1>4, InsertsType, PTL
  <2>2. QED
        BY <1>5, <2>1 DEF InsertsOfRole, RoleOf
<1>7. \A g \in ReplaceInserts(e)' : Backed(g)'
      BY <1>1, <1>3, <1>6 DEF Backed, RoleOf
<1>8. ASSUME NEW x \in Editors, x # e, editor'[x].pc # "rest"
      PROVE  \A g \in ReplaceInserts(x)' : Backed(g)'
  <2>1. editor'[x] = editor[x]
        BY <1>2, <1>8 DEF GrantsTypeInv
  <2>2. ReplaceInserts(x)' = ReplaceInserts(x)
        BY <1>1, <2>1 DEF ReplaceInserts, Stamped, Restricts
  <2>3. QED
        BY <1>1, <1>8, <2>1, <2>2 DEF GrantsAndPendingBacked, Backed, RoleOf
<1>9. \A g \in roleGrants' : Backed(g)'
      BY <1>1 DEF GrantsAndPendingBacked, Backed, RoleOf
<1>10. QED
      BY <1>7, <1>8, <1>9 DEF GrantsAndPendingBacked

\* The statement that deletes changes no grant: the transaction has not committed.
LEMMA DeleteBacked ==
    ASSUME GrantsTypeInv, GrantsAndPendingBacked, NEW e \in Editors, ReplaceDelete(e)
    PROVE  GrantsAndPendingBacked'
<1>1. UNCHANGED <<scoped, roleRows, menus, roleGrants, excused>>
      BY DEF ReplaceDelete, grantsTables
<1>2. \A x \in Editors : /\ editor'[x].pc # "rest" => editor[x].pc # "rest"
                         /\ editor'[x].ctx = editor[x].ctx
                         /\ editor'[x].role = editor[x].role
                         /\ editor'[x].items = editor[x].items
      BY DEF ReplaceDelete, GrantsTypeInv, EditorType
<1>3. \A x \in Editors : ReplaceInserts(x)' = ReplaceInserts(x)
      BY <1>1, <1>2 DEF ReplaceInserts, Stamped, Restricts
<1>4. QED
      BY <1>1, <1>2, <1>3 DEF GrantsAndPendingBacked, Backed, RoleOf

\* The commit inserts rows that were backed, or excused, all along.
LEMMA CommitBacked ==
    ASSUME GrantsTypeInv, GrantsAndPendingBacked, NEW e \in Editors, ReplaceCommit(e)
    PROVE  GrantsAndPendingBacked'
<1>1. UNCHANGED <<scoped, roleRows, menus, excused>> /\ editor[e].pc # "rest"
      BY DEF ReplaceCommit
<1>2. \A x \in Editors : editor'[x].pc # "rest" => editor'[x] = editor[x]
      BY DEF ReplaceCommit, GrantsTypeInv, AtRest
<1>3. \A x \in Editors : editor'[x].pc # "rest" => ReplaceInserts(x)' = ReplaceInserts(x)
      BY <1>1, <1>2 DEF ReplaceInserts, Stamped, Restricts
<1>4. roleGrants' \subseteq roleGrants \cup ReplaceInserts(e)
      BY DEF ReplaceCommit
<1>5. QED
      BY <1>1, <1>2, <1>3, <1>4 DEF GrantsAndPendingBacked, Backed, RoleOf

\* What the hooks leave of the grants and pending rows: a change of the tables
\* keeps them backed when it excuses, or leaves backed, all it does not remove.
LEMMA TablesBacked ==
    ASSUME GrantsAndPendingBacked, UNCHANGED <<scoped, editor>>,
           \A g \in roleGrants' : Backed(g)',
           \A g \in Pending : Backed(g) => Backed(g)'
    PROVE  GrantsAndPendingBacked'
<1>1. \A x \in Editors : ReplaceInserts(x)' = ReplaceInserts(x)
      BY DEF ReplaceInserts, Stamped, Restricts
<1>2. \A x \in Editors : editor[x].pc # "rest" => ReplaceInserts(x) \subseteq Pending
      BY DEF Pending
<1>3. QED
      BY <1>1, <1>2 DEF GrantsAndPendingBacked

\* A new role's row backs no less.
LEMMA CreateBacked ==
    ASSUME GrantsAndPendingBacked, NEW t \in Contexts, NEW r \in RoleIds, CreateTenantRole(t, r)
    PROVE  GrantsAndPendingBacked'
<1>1. UNCHANGED <<scoped, menus, roleGrants, editor, excused>> /\ roleRows \subseteq roleRows'
      BY DEF CreateTenantRole
<1>2. \A g : Backed(g) => Backed(g)'
      BY <1>1 DEF Backed, RoleOf
<1>3. \A g \in roleGrants' : Backed(g)'
      BY <1>1, <1>2 DEF GrantsAndPendingBacked
<1>4. QED
      BY <1>1, <1>2, <1>3, TablesBacked

\* AfterDelete purges every grant of the role: its row was found within the
\* scope, and so are all grants of its tenant.
LEMMA DeleteRoleBacked ==
    ASSUME GrantsTypeInv, GrantsAndPendingBacked, NEW t \in Contexts, NEW r \in RoleIds,
           DeleteTenantRole(t, r)
    PROVE  GrantsAndPendingBacked'
<1> DEFINE held == {g \in InScope(roleGrants, t) : g.key = r.key /\ g.tenant = r.tenant}
           left == {g \in Pending : g.key = r.key /\ g.tenant = r.tenant}
<1>1. UNCHANGED <<scoped, menus, editor>> /\ roleRows' = roleRows \ {r}
      BY DEF DeleteTenantRole
<1>2. roleGrants' = roleGrants \ held /\ excused' = excused \cup left
      BY DEF DeleteTenantRole, Purge
<1>3. Restricts(t) => r.tenant = t
      BY DEF DeleteTenantRole, InScope
<1>4. r = [tenant |-> r.tenant, key |-> r.key]
      BY DEF RoleIds
<1>5. \A g \in roleGrants' : RoleOf(g) # r
  <2>1. SUFFICES ASSUME NEW g \in roleGrants', RoleOf(g) = r PROVE FALSE
        OBVIOUS
  <2>2. g.tenant = r.tenant /\ g.key = r.key
        BY <2>1 DEF RoleOf
  <2>3. g \in held
        BY <1>2, <1>3, <2>1, <2>2 DEF InScope
  <2>4. QED
        BY <1>2, <2>1, <2>3
<1>6. \A g \in Pending : RoleOf(g) = r => g \in left
  <2>1. SUFFICES ASSUME NEW g \in Pending, RoleOf(g) = r PROVE g \in left
        OBVIOUS
  <2>2. g.tenant = r.tenant /\ g.key = r.key
        BY <2>1 DEF RoleOf
  <2>3. QED
        BY <2>1, <2>2
<1> HIDE DEF held, left
<1>7. \A g : Backed(g) /\ RoleOf(g) # r => Backed(g)'
      BY <1>1, <1>2 DEF Backed, RoleOf
<1>8. \A g \in roleGrants' : Backed(g)'
      BY <1>2, <1>5, <1>7 DEF GrantsAndPendingBacked
<1>9. \A g \in Pending : Backed(g) => Backed(g)'
      BY <1>2, <1>6, <1>7 DEF Backed
<1>10. QED
      BY <1>1, <1>8, <1>9, TablesBacked

\* BeforeUpdate takes the role's grants along to the new key, whose row is there
\* from then on; a replacement that had validated the old key is excused.
LEMMA RenameBacked ==
    ASSUME GrantsTypeInv, GrantsAndPendingBacked, NEW t \in Contexts, NEW r \in RoleIds,
           NEW k \in Keys, RenameTenantRole(t, r, k)
    PROVE  GrantsAndPendingBacked'
<1> DEFINE new == [r EXCEPT !.key = k]
           held == {g \in InScope(roleGrants, t) : g.key = r.key /\ g.tenant = r.tenant}
           moved == {[g EXCEPT !.key = k] : g \in held}
           keptExcused == {[g EXCEPT !.key = k] : g \in held \cap excused}
           left == {g \in Pending : g.key = r.key /\ g.tenant = r.tenant}
<1>1. UNCHANGED <<scoped, menus, editor>> /\ roleRows' = (roleRows \ {r}) \cup {new}
      BY DEF RenameTenantRole
<1>2. roleGrants' = (roleGrants \ held) \cup moved /\ excused' = excused \cup keptExcused \cup left
      BY DEF RenameTenantRole
<1>3. (Restricts(t) => r.tenant = t) /\ r \in roleRows
      BY DEF RenameTenantRole, InScope
<1>4. r = [tenant |-> r.tenant, key |-> r.key] /\ new = [tenant |-> r.tenant, key |-> k]
      BY DEF RoleIds
<1>5. \A g \in roleGrants \ held : RoleOf(g) # r
  <2>1. SUFFICES ASSUME NEW g \in roleGrants, RoleOf(g) = r PROVE g \in held
        OBVIOUS
  <2>2. g.tenant = r.tenant /\ g.key = r.key
        BY <2>1 DEF RoleOf
  <2>3. QED
        BY <1>3, <2>1, <2>2 DEF InScope
<1>6. \A g \in Pending : RoleOf(g) = r => g \in left
  <2>1. SUFFICES ASSUME NEW g \in Pending, RoleOf(g) = r PROVE g \in left
        OBVIOUS
  <2>2. g.tenant = r.tenant /\ g.key = r.key
        BY <2>1 DEF RoleOf
  <2>3. QED
        BY <2>1, <2>2
<1>7. \A g : Backed(g) /\ RoleOf(g) # r => Backed(g)'
      BY <1>1, <1>2 DEF Backed, RoleOf
<1>8. \A g \in moved : Backed(g)'
  <2>1. SUFFICES ASSUME NEW g \in held PROVE Backed([g EXCEPT !.key = k])'
        OBVIOUS
  <2>2. g \in roleGrants /\ g \in Grants /\ g.tenant = r.tenant /\ g.key = r.key
        BY <2>1 DEF InScope, GrantsTypeInv
  <2>3. CASE g \in excused
    <3>1. [g EXCEPT !.key = k] \in keptExcused
          BY <2>1, <2>3
    <3>2. [g EXCEPT !.key = k] \in excused'
          BY <1>2, <3>1
    <3>3. QED
          BY <3>2 DEF Backed
  <2>4. CASE g \notin excused
    <3>1. g.item \in menus
          BY <2>2, <2>4 DEF GrantsAndPendingBacked, Backed
    <3>2. RoleOf([g EXCEPT !.key = k]) = new
          BY <1>4, <2>2, Rekeyed DEF RoleOf
    <3>3. [g EXCEPT !.key = k].item = g.item
          BY <2>2, Rekeyed
    <3>4. RoleOf([g EXCEPT !.key = k]) \in roleRows'
          BY <1>1, <3>2
    <3>5. [g EXCEPT !.key = k].item \in menus'
          BY <1>1, <3>1, <3>3
    <3>6. QED
          BY <3>4, <3>5 DEF Backed, RoleOf
  <2>5. QED
        BY <2>3, <2>4
<1> HIDE DEF new, held, moved, keptExcused, left
<1>9. \A g \in roleGrants' : Backed(g)'
      BY <1>2, <1>5, <1>7, <1>8 DEF GrantsAndPendingBacked
<1>10. \A g \in Pending : Backed(g) => Backed(g)'
      BY <1>2, <1>6, <1>7 DEF Backed
<1>11. QED
      BY <1>1, <1>9, <1>10, TablesBacked

\* Menu.AfterDelete removes the component's grants the scope reaches; the rest,
\* and those being written, are excused.
LEMMA DeleteMenuBacked ==
    ASSUME GrantsAndPendingBacked, NEW t \in Contexts, NEW i \in Items, DeleteTenantMenu(t, i)
    PROVE  GrantsAndPendingBacked'
<1> DEFINE gone == {g \in InScope(roleGrants, t) : g.item = i}
           left == {g \in (roleGrants \ gone) \cup Pending : g.item = i}
<1>1. UNCHANGED <<scoped, roleRows, editor>> /\ menus' = menus \ {i}
      BY DEF DeleteTenantMenu
<1>2. roleGrants' = roleGrants \ gone /\ excused' = excused \cup left
      BY DEF DeleteTenantMenu, Purge
<1>3. \A g \in (roleGrants \ gone) \cup Pending : g.item = i => g \in left
      OBVIOUS
<1> HIDE DEF gone, left
<1>4. \A g : Backed(g) /\ g.item # i => Backed(g)'
      BY <1>1, <1>2 DEF Backed, RoleOf
<1>5. \A g \in roleGrants' : Backed(g)'
      BY <1>2, <1>3, <1>4 DEF GrantsAndPendingBacked, Backed
<1>6. \A g \in Pending : Backed(g) => Backed(g)'
      BY <1>2, <1>3, <1>4 DEF Backed
<1>7. QED
      BY <1>1, <1>5, <1>6, TablesBacked

\* Every step keeps the grants, and those about to be inserted, backed.
LEMMA NextBacked ==
    GrantsTypeInv /\ SeenInScope /\ GrantsAndPendingBacked /\ [GrantsNext]_grantsVars
        => GrantsAndPendingBacked'
<1>1. SUFFICES ASSUME GrantsTypeInv, SeenInScope, GrantsAndPendingBacked, [GrantsNext]_grantsVars
               PROVE  GrantsAndPendingBacked'
      OBVIOUS
<1>2. CASE GrantsNext
      BY <1>1, <1>2, GrantsSteps, ValidateBacked, DeleteBacked, CommitBacked, CreateBacked,
         DeleteRoleBacked, RenameBacked, DeleteMenuBacked
<1>3. CASE UNCHANGED grantsVars
  <2>1. UNCHANGED <<scoped, roleRows, menus, roleGrants, editor, excused>>
        BY <1>3 DEF grantsVars, grantsTables
  <2>2. \A g : Backed(g) => Backed(g)'
        BY <2>1 DEF Backed, RoleOf
  <2>3. QED
        BY <1>1, <2>1, <2>2, TablesBacked DEF GrantsAndPendingBacked
<1>4. QED
      BY <1>1, <1>2, <1>3

\* At first only the super role has grants, of every menu.
LEMMA InitBacked == GrantsInit => GrantsAndPendingBacked
<1>1. SUFFICES ASSUME GrantsInit PROVE GrantsAndPendingBacked
      OBVIOUS
<1>2. SuperRole = [tenant |-> SuperRole.tenant, key |-> SuperRole.key]
      BY GrantsAssumption
<1>3. roleGrants = {[tenant |-> SuperRole.tenant, key |-> SuperRole.key, item |-> i] : i \in Items}
      BY <1>1 DEF GrantsInit
<1>4. \A g \in roleGrants : RoleOf(g) = SuperRole /\ g.item \in Items
      BY <1>2, <1>3 DEF RoleOf
<1>5. SuperRole \in roleRows /\ menus = Items
      BY <1>1 DEF GrantsInit
<1>6. \A e \in Editors : editor[e].pc = "rest"
      BY <1>1 DEF GrantsInit, AtRest
<1>7. QED
      BY <1>4, <1>5, <1>6 DEF GrantsAndPendingBacked, Backed

\* No grant outlives its role or its menu, through deletions, renames and
\* replacements in any order: a role created under, or renamed to, a key that was
\* used before starts with no grants it was not given.  The exceptions are the
\* rows of a replacement that had validated before its role or menu went, and
\* those that the scope kept Menu.AfterDelete from reaching.
THEOREM GrantsBackedTheorem == GrantsSpec => []GrantsBacked
<1>1. GrantsInit => GrantsTypeInv /\ SeenInScope /\ GrantsAndPendingBacked
      BY InitGrantsType, InitBacked
<1>2. GrantsTypeInv /\ SeenInScope /\ GrantsAndPendingBacked /\ [GrantsNext]_grantsVars
         => GrantsTypeInv' /\ SeenInScope' /\ GrantsAndPendingBacked'
      BY NextGrantsType, NextBacked
<1>3. GrantsAndPendingBacked => GrantsBacked
      BY DEF GrantsAndPendingBacked, GrantsBacked, Backed, RoleOf
<1>4. QED
      BY <1>1, <1>2, <1>3, PTL DEF GrantsSpec

-----------------------------------------------------------------------------
(* The allowlists.                                                         *)

\* The first n elements of a sequence.
LEMMA SubSeqIs ==
    ASSUME NEW S, NEW s \in Seq(S), NEW n \in 0..Len(s)
    PROVE  /\ SubSeq(s, 1, n) \in Seq(S)
           /\ Len(SubSeq(s, 1, n)) = n
           /\ \A i \in 1..n : SubSeq(s, 1, n)[i] = s[i]
OBVIOUS

\* Sequences with the same elements are the same.
LEMMA SeqsEqual ==
    ASSUME NEW S, NEW T, NEW s \in Seq(S), NEW t \in Seq(T), Len(s) = Len(t),
           \A i \in 1..Len(s) : s[i] = t[i]
    PROVE  s = t
OBVIOUS

\* A prefix, element by element.
LEMMA PrefixIs ==
    ASSUME NEW S, NEW T, NEW s \in Seq(S), NEW t \in Seq(T)
    PROVE  IsPrefix(s, t) <=> Len(s) <= Len(t) /\ \A i \in 1..Len(s) : s[i] = t[i]
<1>1. CASE Len(s) <= Len(t)
  <2>. Len(s) \in 0..Len(s) /\ Len(s) \in 0..Len(t)
       BY <1>1
  <2>1. PICK a : a = SubSeq(s, 1, Len(s))
        OBVIOUS
  <2>2. PICK b : b = SubSeq(t, 1, Len(s))
        OBVIOUS
  <2>3. a \in Seq(S) /\ Len(a) = Len(s) /\ \A i \in 1..Len(s) : a[i] = s[i]
        BY <2>1, SubSeqIs
  <2>4. b \in Seq(T) /\ Len(b) = Len(s) /\ \A i \in 1..Len(s) : b[i] = t[i]
        BY <2>2, SubSeqIs
  <2>5. a = b <=> \A i \in 1..Len(s) : s[i] = t[i]
        <3>1. ASSUME \A i \in 1..Len(s) : s[i] = t[i]
              PROVE  a = b
              BY <2>3, <2>4, <3>1, SeqsEqual
        <3>. QED  BY <2>3, <2>4, <3>1
  <2>. QED  BY <1>1, <2>1, <2>2, <2>5 DEF IsPrefix
<1>. QED  BY <1>1 DEF IsPrefix

\* An ancestor, element by element: the path goes on with a slash.
LEMMA AncestorIs ==
    ASSUME NEW S, NEW T, NEW root \in Seq(S), NEW path \in Seq(T)
    PROVE  root \in Ancestors(path) <=>
             /\ Len(path) > Len(root) /\ path[Len(root) + 1] = "/"
             /\ \A i \in 1..Len(root) : path[i] = root[i]
<1>1. ASSUME root \in Ancestors(path)
      PROVE  /\ Len(path) > Len(root) /\ path[Len(root) + 1] = "/"
             /\ \A i \in 1..Len(root) : path[i] = root[i]
  <2>1. PICK k \in 1..Len(path) : path[k] = "/" /\ root = SubSeq(path, 1, k - 1)
        BY <1>1 DEF Ancestors
  <2>2. k - 1 \in 0..Len(path)
        BY <2>1
  <2>3. Len(root) = k - 1 /\ \A i \in 1..(k - 1) : root[i] = path[i]
        BY <2>1, <2>2, SubSeqIs
  <2>. QED  BY <2>1, <2>2, <2>3
<1>2. ASSUME Len(path) > Len(root), path[Len(root) + 1] = "/",
             \A i \in 1..Len(root) : path[i] = root[i]
      PROVE  root \in Ancestors(path)
  <2>1. PICK k : k = Len(root) + 1
        OBVIOUS
  <2>2. k \in 1..Len(path) /\ path[k] = "/" /\ k - 1 = Len(root) /\ k - 1 \in 0..Len(path)
        BY <1>2, <2>1
  <2>3. PICK a : a = SubSeq(path, 1, k - 1)
        OBVIOUS
  <2>4. a \in Seq(T) /\ Len(a) = Len(root) /\ \A i \in 1..Len(root) : a[i] = path[i]
        BY <2>2, <2>3, SubSeqIs
  <2>5. a = root
        BY <1>2, <2>4, SeqsEqual
  <2>. QED  BY <2>2, <2>3, <2>5 DEF Ancestors
<1>. QED  BY <1>1, <1>2

\* All elements but the last.
LEMMA FrontIs ==
    ASSUME NEW S, NEW s \in Seq(S), Len(s) > 0
    PROVE  /\ Front(s) \in Seq(S)
           /\ Len(Front(s)) = Len(s) - 1
           /\ \A i \in 1..(Len(s) - 1) : Front(s)[i] = s[i]
<1>1. Len(s) - 1 \in 0..Len(s)
      OBVIOUS
<1>. QED  BY <1>1, SubSeqIs DEF Front

\* The promise of a pattern that ends in "*", character by character.
LEMMA StarPromises ==
    ASSUME NEW S, NEW T, NEW pattern \in Seq(S), NEW path \in Seq(T), Len(pattern) > 1
    PROVE  LET prefix == Front(pattern)
               root == IF Last(prefix) = "/" THEN Front(prefix) ELSE prefix
           IN  root \in Ancestors(path) <=>
                 /\ IsPrefix(prefix, path)
                 /\ \/ Last(prefix) = "/"
                    \/ Len(path) > Len(prefix) /\ path[Len(prefix) + 1] = "/"
<1>1. PICK f : f = Front(pattern)
      OBVIOUS
<1>2. f \in Seq(S) /\ Len(f) > 0 /\ Len(f) \in Nat
      BY <1>1, FrontIs
<1>3. IsPrefix(f, path) <=> Len(f) <= Len(path) /\ \A i \in 1..Len(f) : f[i] = path[i]
      BY <1>2, PrefixIs
<1>4. CASE Last(f) = "/"
  <2>1. PICK r : r = Front(f)
        OBVIOUS
  <2>2. r \in Seq(S) /\ Len(r) = Len(f) - 1 /\ \A i \in 1..(Len(f) - 1) : r[i] = f[i]
        BY <1>2, <2>1, FrontIs
  <2>3. f[Len(r) + 1] = "/"
        BY <1>2, <1>4, <2>2 DEF Last
  <2>4. r \in Ancestors(path) <=>
             /\ Len(path) > Len(r) /\ path[Len(r) + 1] = "/"
             /\ \A i \in 1..Len(r) : path[i] = r[i]
        BY <2>2, AncestorIs
  <2>5. ASSUME r \in Ancestors(path)
        PROVE  IsPrefix(f, path)
    <3>1. \A i \in 1..Len(f) : i = Len(r) + 1 \/ i \in 1..Len(r)
          BY <1>2, <2>2
    <3>2. \A i \in 1..Len(f) : f[i] = path[i]
          BY <2>2, <2>3, <2>4, <2>5, <3>1
    <3>. QED  BY <1>2, <1>3, <2>2, <2>4, <2>5, <3>2
  <2>6. ASSUME IsPrefix(f, path)
        PROVE  r \in Ancestors(path)
    <3>1. Len(r) + 1 \in 1..Len(f) /\ \A i \in 1..Len(r) : i \in 1..Len(f)
          BY <1>2, <2>2
    <3>2. path[Len(r) + 1] = "/" /\ \A i \in 1..Len(r) : path[i] = r[i]
          BY <1>3, <2>2, <2>3, <2>6, <3>1
    <3>. QED  BY <1>2, <1>3, <2>2, <2>4, <2>6, <3>2
  <2>. QED  BY <1>1, <1>4, <2>1, <2>5, <2>6
<1>5. CASE Last(f) # "/"
  <2>1. f \in Ancestors(path) <=>
             /\ Len(path) > Len(f) /\ path[Len(f) + 1] = "/"
             /\ \A i \in 1..Len(f) : path[i] = f[i]
        BY <1>2, AncestorIs
  <2>2. f \in Ancestors(path) <=>
             IsPrefix(f, path) /\ Len(path) > Len(f) /\ path[Len(f) + 1] = "/"
        BY <1>2, <1>3, <2>1
  <2>. QED  BY <1>1, <1>5, <2>2
<1>. QED  BY <1>4, <1>5

\* matchPattern opens exactly what a pattern promises, whatever its characters.
LEMMA MatchIsPromise ==
    ASSUME NEW S, NEW T, NEW pattern \in Seq(S), NEW path \in Seq(T)
    PROVE  MatchPattern(pattern, path) <=> Promised(pattern, path)
<1>1. CASE Len(pattern) > 1
  <2>1. PICK f : f = Front(pattern)
        OBVIOUS
  <2>2. f \in Seq(S) /\ Len(f) = Len(pattern) - 1 /\ f[Len(f)] = pattern[Len(pattern) - 1]
        BY <1>1, <2>1, FrontIs
  <2>3. PICK root : root = IF Last(f) = "/" THEN Front(f) ELSE f
        OBVIOUS
  <2>4. root \in Ancestors(path) <=>
                 /\ IsPrefix(f, path)
                 /\ \/ Last(f) = "/"
                    \/ Len(path) > Len(f) /\ path[Len(f) + 1] = "/"
        BY <1>1, <2>1, <2>3, StarPromises
  <2>5. (Len(path) > Len(f) /\ path[Len(f) + 1] = "/") <=>
        (Len(path) >= Len(pattern) /\ path[Len(pattern)] = "/")
        BY <2>2
  <2>6. Last(f) = pattern[Len(pattern) - 1]
        BY <2>2 DEF Last
  <2>. QED  BY <1>1, <2>1, <2>3, <2>4, <2>5, <2>6 DEF MatchPattern, Promised
<1>2. CASE ~(Len(pattern) > 1)
  <2>1. Len(pattern) <= 1
        BY <1>2
  <2>. QED  BY <1>2, <2>1 DEF MatchPattern, Promised
<1>. QED  BY <1>1, <1>2

\* So does isAllowed, for any list of patterns.
LEMMA AllowedIsPromise ==
    ASSUME NEW S, NEW T, NEW allows \in Seq(Seq(S)), NEW path \in Seq(T)
    PROVE  IsAllowed(path, allows) <=> \E k \in 1..Len(allows) : Promised(allows[k], path)
<1>1. ASSUME NEW pattern \in Seq(S), Len(pattern) > 1
      PROVE  LET prefix == Front(pattern)
                 root == IF Last(prefix) = "/" THEN Front(prefix) ELSE prefix
             IN  root \in Ancestors(path) <=>
                 /\ IsPrefix(prefix, path)
                 /\ \/ Last(prefix) = "/"
                    \/ Len(path) > Len(prefix) /\ path[Len(prefix) + 1] = "/"
      BY <1>1, StarPromises
<1>2. \A k \in 1..Len(allows) : allows[k] \in Seq(S)
      OBVIOUS
<1>. QED  BY <1>1, <1>2 DEF IsAllowed, Promised

-----------------------------------------------------------------------------
(* The permission checker.                                                 *)

\* A request, over any vocabulary S of words, methods, tenants and roles: any
\* headers, paths, allowlist, catalog and grants.
AllowEntries(S) ==
    {<<>>} \cup {<<p>> : p \in Seq(S)} \cup (S \X Seq(S))
Codings(S) == (S \X Seq(S))
Requests(S) ==
    [caller : {"http", "grpc", "embedder", "other claims"},
     headers : [protocol : Seq(S), path : Seq(S), route : Seq(S), method : Seq(S)],
     method : S, url : Seq(S), route : Seq(S), tenant : S, role : S,
     allowlist : Seq(AllowEntries(S)), failOpen : BOOLEAN,
     failing : {"none", "catalog", "grants"}, catalog : SUBSET Codings(S),
     grants : SUBSET [tenant : S, role : S, data : Codings(S)]]

DefaultWords ==
    {"/", "user", "profile", "change-password", "set-avatar", "menus", "permissions", "menu", "tree",
     "breadcrumb", "dashboard", "overview", "GET", "PATCH", "POST"}

\* Set puts a value where Get finds it, and leaves the other keys alone.
LEMMA SetThenGet ==
    ASSUME NEW md, NEW key, NEW val, NEW other, md = [variables |-> md.variables, headers |-> md.headers]
    PROVE  /\ MdSet(md, key, val) = [variables |-> MdSet(md, key, val).variables, headers |-> md.headers]
           /\ MdGet(MdSet(md, key, val), key).val = val /\ MdGet(MdSet(md, key, val), key).ok
           /\ other # key => MdGet(MdSet(md, key, val), other) = MdGet(md, other)
<1>1. PICK v : v = [k \in DOMAIN md.variables \cup {key} |-> IF k = key THEN val ELSE md.variables[k]]
      OBVIOUS
<1>2. DOMAIN v = DOMAIN md.variables \cup {key} /\ v[key] = val
      BY <1>1
<1>3. other # key => \A x \in DOMAIN md.variables : x = other => v[x] = md.variables[x]
      BY <1>1
<1>4. MdSet(md, key, val) = [variables |-> v, headers |-> md.headers]
      BY <1>1 DEF MdSet
<1>5. MdGet(MdSet(md, key, val), key).val = val /\ MdGet(MdSet(md, key, val), key).ok
      BY <1>2, <1>4 DEF MdGet
<1>6. other # key => MdGet(MdSet(md, key, val), other) = MdGet(md, other)
  <2>1. CASE other \in DOMAIN md.variables
    <3>1. other # key => v[other] = md.variables[other] /\ other \in DOMAIN v
          BY <1>2, <1>3, <2>1
    <3>2. MdSet(md, key, val).variables = v
          BY <1>4
    <3>. QED  BY <2>1, <3>1, <3>2, Zenon DEF MdGet
  <2>2. CASE other \notin DOMAIN md.variables
        BY <1>2, <1>4, <2>2 DEF MdGet
  <2>. QED  BY <2>1, <2>2
<1>. QED  BY <1>4, <1>5, <1>6

\* What the three callers leave for the checker to read: headers never show
\* through what was set, and only an embedder sets no route.
LEMMA MetadataRead ==
    ASSUME NEW S, NEW g \in Requests(S), NEW md, md = RequestMetadata(g)
    PROVE  /\ g.caller = "grpc" => MdGet(md, "protocol").val # <<"http">>
           /\ g.caller # "grpc" =>
                /\ MdGet(md, "protocol").val = <<"http">>
                /\ MdGet(md, "method").val = <<g.method>>
                /\ MdGet(md, "path").val =
                      IF g.caller # "embedder" /\ g.route # <<>> THEN g.route ELSE g.url
                /\ g.caller # "embedder" => MdGet(md, "route").val = g.route /\ MdGet(md, "route").ok
                /\ g.caller = "embedder" /\ g.headers.route = <<>> => ~MdGet(md, "route").ok
                /\ g.caller = "embedder" /\ g.headers.route # <<>> =>
                      MdGet(md, "route").val = g.headers.route /\ MdGet(md, "route").ok
<1>1. CASE g.caller = "grpc"
  <2>1. PICK m0 : m0 = NewMetadata(g.headers)
        OBVIOUS
  <2>2. PICK m1 : m1 = MdSet(m0, "path", g.url)
        OBVIOUS
  <2>3. m0 = [variables |-> m0.variables, headers |-> m0.headers]
        BY <2>1 DEF NewMetadata
  <2>4. m1 = [variables |-> m1.variables, headers |-> m1.headers]
        BY <2>2, <2>3, SetThenGet
  <2>5. md = MdSet(m1, "protocol", <<"grpc">>)
        BY <1>1, <2>1, <2>2 DEF RequestMetadata, GrpcMetadata
  <2>6. MdGet(md, "protocol").val = <<"grpc">> /\ MdGet(md, "protocol").ok
        BY <2>4, <2>5, SetThenGet
  <2>7. <<"grpc">> # <<"http">>
        OBVIOUS
  <2>. QED  BY <1>1, <2>6, <2>7
<1>2. CASE g.caller = "embedder"
  <2>1. PICK m0 : m0 = NewMetadata(g.headers)
        OBVIOUS
  <2>2. PICK m1 : m1 = MdSet(m0, "protocol", <<"http">>)
        OBVIOUS
  <2>3. PICK m2 : m2 = MdSet(m1, "path", g.url)
        OBVIOUS
  <2>4. md = MdSet(m2, "method", <<g.method>>)
        BY <1>2, <2>1, <2>2, <2>3 DEF RequestMetadata, EmbedderMetadata
  <2>5. m0 = [variables |-> m0.variables, headers |-> m0.headers]
        BY <2>1 DEF NewMetadata
  <2>6. m1 = [variables |-> m1.variables, headers |-> m1.headers]
        BY <2>2, <2>5, SetThenGet
  <2>7. m2 = [variables |-> m2.variables, headers |-> m2.headers]
        BY <2>3, <2>6, SetThenGet
  <2>8. /\ g.headers.route = <<>> => ~MdGet(m0, "route").ok
        /\ g.headers.route # <<>> =>
              MdGet(m0, "route").val = g.headers.route /\ MdGet(m0, "route").ok
    <3>1. m0.headers = g.headers /\ g.headers["route"] = g.headers.route /\ m0.variables = <<>>
          BY <2>1 DEF NewMetadata
    <3>2. "route" \notin DOMAIN <<>>
          OBVIOUS
    <3>3. MdGet(m0, "route") = [val |-> g.headers.route, ok |-> g.headers.route # <<>>]
          BY <3>1, <3>2, Zenon DEF MdGet
    <3>4. MdGet(m0, "route").val = g.headers.route /\ MdGet(m0, "route").ok = (g.headers.route # <<>>)
          BY <3>3
    <3>. QED  BY <3>4, Zenon
  <2>9. MdGet(m1, "route") = MdGet(m0, "route") /\ MdGet(m1, "protocol").val = <<"http">> /\ MdGet(m1, "protocol").ok
        BY <2>2, <2>5, SetThenGet
  <2>10. /\ MdGet(m2, "route") = MdGet(m1, "route") /\ MdGet(m2, "protocol") = MdGet(m1, "protocol")
         /\ MdGet(m2, "path").val = g.url /\ MdGet(m2, "path").ok
        BY <2>3, <2>6, SetThenGet
  <2>11. /\ MdGet(md, "route") = MdGet(m2, "route") /\ MdGet(md, "protocol") = MdGet(m2, "protocol")
         /\ MdGet(md, "path") = MdGet(m2, "path") /\ MdGet(md, "method").val = <<g.method>> /\ MdGet(md, "method").ok
        BY <2>4, <2>7, SetThenGet
  <2>. QED  BY <1>2, <2>8, <2>9, <2>10, <2>11
<1>3. CASE g.caller \in {"http", "other claims"}
  <2>. DEFINE path == IF g.route = <<>> THEN g.url ELSE g.route
  <2>1. PICK m0 : m0 = NewMetadata(g.headers)
        OBVIOUS
  <2>2. PICK m1 : m1 = MdSet(m0, "protocol", <<"http">>)
        OBVIOUS
  <2>3. PICK m2 : m2 = MdSet(m1, "path", path)
        OBVIOUS
  <2>4. PICK m3 : m3 = MdSet(m2, "route", g.route)
        OBVIOUS
  <2>5. md = MdSet(m3, "method", <<g.method>>)
        BY <1>3, <2>1, <2>2, <2>3, <2>4 DEF RequestMetadata, HttpMetadata
  <2>6. m0 = [variables |-> m0.variables, headers |-> m0.headers]
        BY <2>1 DEF NewMetadata
  <2>7. m1 = [variables |-> m1.variables, headers |-> m1.headers]
        BY <2>2, <2>6, SetThenGet
  <2>. HIDE DEF path
  <2>8. m2 = [variables |-> m2.variables, headers |-> m2.headers]
        BY <2>3, <2>7, SetThenGet
  <2>9. m3 = [variables |-> m3.variables, headers |-> m3.headers]
        BY <2>4, <2>8, SetThenGet
  <2>10. MdGet(m1, "protocol").val = <<"http">> /\ MdGet(m1, "protocol").ok
        BY <2>2, <2>6, SetThenGet
  <2>11. MdGet(m2, "protocol") = MdGet(m1, "protocol") /\ MdGet(m2, "path").val = path /\ MdGet(m2, "path").ok
        BY <2>3, <2>7, SetThenGet
  <2>12. /\ MdGet(m3, "route").val = g.route /\ MdGet(m3, "route").ok
         /\ MdGet(m3, "protocol") = MdGet(m2, "protocol") /\ MdGet(m3, "path") = MdGet(m2, "path")
        BY <2>4, <2>8, SetThenGet
  <2>13. /\ MdGet(md, "route") = MdGet(m3, "route") /\ MdGet(md, "protocol") = MdGet(m3, "protocol")
         /\ MdGet(md, "path") = MdGet(m3, "path") /\ MdGet(md, "method").val = <<g.method>> /\ MdGet(md, "method").ok
        BY <2>5, <2>9, SetThenGet
  <2>. QED  BY <1>3, <2>10, <2>11, <2>12, <2>13 DEF path
<1>. QED  BY <1>1, <1>2, <1>3 DEF Requests

\* Every entry of the allowlist, a default or an added one, is a method and a
\* pattern.
LEMMA EntriesSplit ==
    ASSUME NEW S, NEW w \in AllowEntries(S)
    PROVE  SplitAllowEntry(w).pattern \in Seq(S)
<1>1. ASSUME NEW m, NEW p \in Seq(S), NEW r, r = [method |-> m, pattern |-> p]
      PROVE  r.pattern \in Seq(S)
      BY <1>1
<1>2. CASE w = <<>>
  <2>1. Len(w) = 0 /\ <<>> \in Seq(S)
        BY <1>2
  <2>2. SplitAllowEntry(w) = [method |-> "", pattern |-> <<>>]
        BY <2>1 DEF SplitAllowEntry
  <2>. QED  BY <1>1, <2>1, <2>2, Zenon
<1>3. ASSUME NEW p \in Seq(S), w = <<p>>
      PROVE  SplitAllowEntry(w).pattern \in Seq(S)
  <2>1. ~(Len(w) = 0) /\ Len(w) = 1 /\ ~(Len(w) = 2) /\ w[1] = p
        BY <1>3
  <2>2. SplitAllowEntry(w) = [method |-> "", pattern |-> p]
        BY <2>1 DEF SplitAllowEntry
  <2>. QED  BY <1>1, <2>2, Zenon
<1>4. ASSUME NEW m \in S, NEW p \in Seq(S), w = <<m, p>>
      PROVE  SplitAllowEntry(w).pattern \in Seq(S)
  <2>1. ~(Len(w) = 0) /\ ~(Len(w) = 1) /\ Len(w) = 2 /\ w[2] = p
        BY <1>4
  <2>2. SplitAllowEntry(w) = [method |-> IF w[1] = "*" THEN "" ELSE w[1], pattern |-> p]
        BY <2>1 DEF SplitAllowEntry
  <2>. QED  BY <1>1, <2>2, Zenon
<1>. QED  BY <1>2, <1>3, <1>4 DEF AllowEntries

\* The checker's default entries are a method and four words each.
LEMMA DefaultsTyped ==
    ASSUME NEW S, DefaultWords \subseteq S
    PROVE  DefaultCheckerAllowlist \in Seq(AllowEntries(S))
<1>1. \A m, a, b, c, d \in S : <<m, <<a, b, c, d>> >> \in AllowEntries(S)
  <2>1. \A a, b, c, d \in S : <<a, b, c, d>> \in Seq(S)
        OBVIOUS
  <2>2. \A m \in S, p \in Seq(S) : <<m, p>> \in AllowEntries(S)
        BY Zenon DEF AllowEntries
  <2>. QED  BY <2>1, <2>2, Zenon
<1>2. \A w \in DefaultWords : w \in S
      OBVIOUS
<1>3. PICK E : E = AllowEntries(S)
      OBVIOUS
<1>4. /\ <<"GET", UserPath("profile")>> \in E /\ <<"PATCH", UserPath("profile")>> \in E
      /\ <<"POST", UserPath("change-password")>> \in E /\ <<"POST", UserPath("set-avatar")>> \in E
      /\ <<"GET", UserPath("menus")>> \in E /\ <<"GET", UserPath("permissions")>> \in E
      /\ <<"GET", <<"/", "menu", "/", "tree">> >> \in E /\ <<"GET", <<"/", "menu", "/", "breadcrumb">> >> \in E
      /\ <<"GET", <<"/", "dashboard", "/", "overview">> >> \in E
      BY <1>1, <1>2, <1>3, Zenon DEF UserPath, DefaultWords
<1>. QED  BY <1>3, <1>4 DEF DefaultCheckerAllowlist

\* Default or added, the pattern of every entry is a sequence of words.
LEMMA AllowlistPatterns ==
    ASSUME NEW S, DefaultWords \subseteq S, NEW g \in Requests(S)
    PROVE  \A k \in 1..Len(Allowlist(g)) : Allowlist(g)[k].pattern \in Seq(S)
<1>1. PICK e : e = DefaultCheckerAllowlist \o g.allowlist
      OBVIOUS
<1>2. e \in Seq(AllowEntries(S))
  <2>1. DefaultCheckerAllowlist \in Seq(AllowEntries(S)) /\ g.allowlist \in Seq(AllowEntries(S))
        BY DefaultsTyped, Zenon DEF Requests
  <2>. QED  BY <1>1, <2>1
<1>3. PICK a : a = Allowlist(g)
      OBVIOUS
<1>4. a = [k \in 1..Len(e) |-> SplitAllowEntry(e[k])]
      BY <1>1, <1>3 DEF Allowlist
<1>5. Len(a) = Len(e) /\ \A k \in 1..Len(e) : a[k] = SplitAllowEntry(e[k]) /\ e[k] \in AllowEntries(S)
      BY <1>2, <1>4
<1>6. \A k \in 1..Len(e) : SplitAllowEntry(e[k]).pattern \in Seq(S)
      BY <1>5, EntriesSplit
<1>. QED  BY <1>3, <1>5, <1>6

\* pathMatcher.match: an entry of the request's method, or of any.
LEMMA MatchIsListed ==
    ASSUME NEW S, NEW entries, \A k \in 1..Len(entries) : entries[k].pattern \in Seq(S),
           NEW method, NEW path \in Seq(S)
    PROVE  AllowlistMatch(entries, method, path) <=>
             \E k \in 1..Len(entries) :
                /\ entries[k].method \in {"", method}
                /\ Promised(entries[k].pattern, path)
<1>1. \A k \in 1..Len(entries) :
         MatchPattern(entries[k].pattern, path) <=> Promised(entries[k].pattern, path)
      BY MatchIsPromise
<1>. QED  BY <1>1 DEF AllowlistMatch

\* The grants of the caller's role on the caller's tenant.
LEMMA GrantIs ==
    ASSUME NEW S, NEW g \in Requests(S), NEW code
    PROVE  code \in GrantSet(g) <=> [tenant |-> g.tenant, role |-> g.role, data |-> code] \in g.grants
<1>1. g.grants \subseteq [tenant : S, role : S, data : Codings(S)]
      BY DEF Requests
<1>. HIDE DEF Codings
<1>2. \A r \in g.grants : (r.tenant = g.tenant /\ r.role = g.role /\ r.data = code) <=>
                           r = [tenant |-> g.tenant, role |-> g.role, data |-> code]
      BY <1>1
<1>. QED  BY <1>2 DEF GrantSet

\* Whatever the headers, the paths, the allowlist, the catalog and the grants,
\* the checker passes a request for one of its documented reasons only, and
\* for each of them (NewPermissionChecker).
THEOREM CheckerIsExact ==
    ASSUME NEW S, DefaultWords \subseteq S, NEW g \in Requests(S)
    PROVE  CheckerExact(g)
<1>. DEFINE path == IF g.caller # "embedder" /\ g.route # <<>> THEN g.route ELSE g.url
            route == IF g.caller # "embedder" THEN g.route
                     ELSE IF g.headers.route # <<>> THEN g.headers.route ELSE g.url
            entries == Allowlist(g)
            code == <<g.method, route>>
            listed == \E k \in 1..Len(entries) :
                         entries[k].method \in {"", g.method} /\ Promised(entries[k].pattern, path)
            granted == [tenant |-> g.tenant, role |-> g.role, data |-> code] \in g.grants
<1>1. PICK md : md = RequestMetadata(g)
      OBVIOUS
<1>2. path \in Seq(S) /\ route \in Seq(S)
      BY DEF Requests
<1>3. \A k \in 1..Len(entries) : entries[k].pattern \in Seq(S)
      BY AllowlistPatterns
<1>4. g.caller \in {"http", "grpc", "embedder", "other claims"} /\ g.failing \in {"none", "catalog", "grants"}
      BY DEF Requests
<1>5. CASE g.caller = "grpc"
  <2>1. MdGet(md, "protocol").val # <<"http">>
        BY <1>1, <1>5, MetadataRead
  <2>2. Checker(g) = "pass"
        BY <1>1, <2>1 DEF Checker
  <2>. QED  BY <1>5, <2>2 DEF CheckerExact
<1>6. CASE g.caller # "grpc"
  <2>1. /\ MdGet(md, "protocol").val = <<"http">>
        /\ MdGet(md, "method").val = <<g.method>>
        /\ MdGet(md, "path").val = path
        BY <1>1, <1>6, MetadataRead
  <2>2. PICK set : set = MdGet(md, "route")
        OBVIOUS
  <2>3. (IF set.ok THEN set.val ELSE path) = route
    <3>1. CASE g.caller = "embedder"
          BY <1>1, <1>6, <2>2, <3>1, MetadataRead
    <3>2. CASE g.caller # "embedder"
          BY <1>1, <1>6, <2>2, <3>2, MetadataRead
    <3>. QED  BY <3>1, <3>2
  <2>4. <<g.method>>[1] = g.method
        OBVIOUS
  <2>. HIDE DEF path, route, entries
  <2>5. AllowlistMatch(entries, g.method, path) <=> listed
        BY <1>2, <1>3, MatchIsListed
  <2>6. code \in GrantSet(g) <=> granted
        BY GrantIs
  <2>. HIDE DEF listed, granted
  <2>7. Checker(g) =
          IF g.caller = "other claims" THEN "access denied"
          ELSE IF IsInfrastructurePath(route) \/ AllowlistMatch(entries, g.method, path) THEN "pass"
          ELSE IF g.failing = "catalog" THEN "error"
          ELSE IF code \notin g.catalog THEN (IF g.failOpen THEN "pass" ELSE "permission denied")
          ELSE IF g.failing = "grants" THEN "error"
          ELSE IF code \in GrantSet(g) THEN "pass"
          ELSE "permission denied"
    <3>1. ~(MdGet(md, "protocol").val # <<"http">>)
          BY <2>1
    <3>. QED  BY <1>1, <2>1, <2>2, <2>3, <2>4, <3>1, Zenon DEF Checker, entries
  <2>8. (Checker(g) = "pass") <=>
             /\ g.caller # "other claims"
             /\ \/ IsInfrastructurePath(route) \/ listed
                \/ g.failing # "catalog" /\ g.failOpen /\ code \notin g.catalog
                \/ g.failing = "none" /\ granted /\ code \in g.catalog
    <3>. HIDE DEF code
    <3>. QED  BY <1>4, <2>5, <2>6, <2>7
  <2>. QED  BY <1>6, <2>8 DEF CheckerExact, path, route, entries, listed, granted
<1>. QED  BY <1>5, <1>6

\* A request's path and an entry of an allowlist, over any characters.
Accesses(S) == [path : Seq(S), pattern : Seq(S), method : {"", "GET", "POST"}]

\* The two allowlists open what patterns promise, for every path and pattern
\* (isAllowed, matchPattern, pathMatcher.match) but the disputed ones of isAllowed.
THEOREM AllowlistsAreExact ==
    ASSUME NEW S, "*" \in S, access \in Accesses(S)
    PROVE  AllowlistsExact
<1>. DEFINE p == access.path
            e == [method |-> access.method, pattern |-> access.pattern]
            other == [method |-> "POST", pattern |-> <<"*">>]
            both == <<other, e>>
<1>1. p \in Seq(S) /\ access.pattern \in Seq(S) /\ access.method \in {"", "GET", "POST"}
      BY DEF Accesses
<1>2. IsAllowed(p, <<access.pattern>>) <=> Promised(access.pattern, p)
  <2>1. PICK allows : allows = <<access.pattern>>
        OBVIOUS
  <2>2. allows \in Seq(Seq(S)) /\ Len(allows) = 1 /\ allows[1] = access.pattern
    <3>1. \A T : \A q \in T : <<q>> \in Seq(T)
          OBVIOUS
    <3>2. allows \in Seq(Seq(S))
          BY <1>1, <2>1, <3>1, Zenon
    <3>. QED  BY <2>1, <3>2
  <2>3. IsAllowed(p, allows) <=> \E k \in 1..Len(allows) : Promised(allows[k], p)
        BY <1>1, <2>2, AllowedIsPromise
  <2>4. 1..Len(allows) = {1}
        BY <2>2
  <2>. QED  BY <2>1, <2>2, <2>3, <2>4, Zenon
<1>3. MatchPattern(access.pattern, p) <=> Promised(access.pattern, p)
      BY <1>1, MatchIsPromise
<1>4. AllowlistMatch(both, "GET", p) <=> access.method # "POST" /\ Promised(access.pattern, p)
  <2>1. PICK b : b = both
        OBVIOUS
  <2>2. Len(b) = 2 /\ b[1] = other /\ b[2] = e
        BY <2>1
  <2>3. b[1].method = "POST" /\ b[1].pattern = <<"*">> /\ b[2].method = access.method
        /\ b[2].pattern = access.pattern
        BY <2>2
  <2>4. 1..Len(b) = {1, 2} /\ <<"*">> \in Seq(S)
        BY <2>2
  <2>5. \A k \in 1..Len(b) : b[k].pattern \in Seq(S)
        BY <1>1, <2>3, <2>4, Zenon
  <2>6. AllowlistMatch(b, "GET", p) <=>
             \E k \in 1..Len(b) : b[k].method \in {"", "GET"} /\ Promised(b[k].pattern, p)
        BY <1>1, <2>5, MatchIsListed
  <2>7. AllowlistMatch(b, "GET", p) <=>
             b[2].method \in {"", "GET"} /\ Promised(b[2].pattern, p)
    <3>1. ~(b[1].method \in {"", "GET"})
          BY <2>3
    <3>. QED  BY <2>4, <2>6, <3>1, Zenon
  <2>8. access.method \in {"", "GET"} <=> access.method # "POST"
        BY <1>1
  <2>. QED  BY <2>1, <2>3, <2>7, <2>8, Zenon
<1>. HIDE DEF p, both
<1>5. /\ IsAllowed(p, <<access.pattern>>) = Promised(access.pattern, p)
      /\ MatchPattern(access.pattern, p) = Promised(access.pattern, p)
      /\ AllowlistMatch(both, "GET", p) = (access.method # "POST" /\ Promised(access.pattern, p))
      BY <1>2, <1>3, <1>4 DEF Promised, IsAllowed, MatchPattern, AllowlistMatch
<1>. QED  BY <1>5 DEF AllowlistsExact, p, both

\* The words of the requests that are tried.
GateWords ==
    DefaultWords \cup {"a", "b", "health", "mcp", "mcpa", "openapi.json", "*", "cli", "t1", "t2", "r1", "r2"}

\* The paths and patterns that are tried are some of those.
LEMMA AccessTyped ==
    AccessInit => access \in Accesses(Chars \cup {"*"})
<1>1. ASSUME NEW C, NEW n, NEW s \in BoundedSeq(C, n)
      PROVE  s \in Seq(C)
      BY <1>1 DEF BoundedSeq, SeqOf
<1>2. AccessInit => /\ access.path \in Seq(Chars) /\ access.pattern \in Seq(Chars \cup {"*"})
                    /\ access.method \in {"", "GET", "POST"}
                    /\ access = [path |-> access.path, pattern |-> access.pattern, method |-> access.method]
  <2>1. AccessInit => access \in [path : BoundedSeq(Chars, MaxPath),
                                   pattern : BoundedSeq(Chars \cup {"*"}, MaxPattern),
                                   method : {"", "GET", "POST"}]
        BY DEF AccessInit
  <2>. QED  BY <1>1, <2>1
<1>3. \A s \in Seq(Chars) : s \in Seq(Chars \cup {"*"})
      OBVIOUS
<1>4. \A a, b \in Seq(Chars \cup {"*"}), m \in {"", "GET", "POST"} :
         [path |-> a, pattern |-> b, method |-> m] \in Accesses(Chars \cup {"*"})
      BY DEF Accesses
<1>. QED  BY <1>2, <1>3, <1>4, Zenon

\* The requests that are tried are some of those.
LEMMA GateTyped ==
    GateInit => gate \in Requests(GateWords)
<1>. SUFFICES ASSUME GateInit
              PROVE  gate \in Requests(GateWords)
     OBVIOUS
<1>1. PICK W : W = GateWords
      OBVIOUS
<1>2. /\ \A a, b \in W : <<a, b>> \in Seq(W)
      /\ \A a, b, c, d \in W : <<a, b, c, d>> \in Seq(W)
      /\ \A a \in W : <<a>> \in Seq(W)
      /\ <<>> \in Seq(W)
      OBVIOUS
<1>3. \A w \in {"/", "a", "b", "user", "profile", "health", "mcp", "mcpa", "openapi.json", "*", "cli",
                  "t1", "t2", "r1", "r2", "GET", "POST"} : w \in W
      BY <1>1 DEF GateWords, DefaultWords
<1>4. /\ PathA \in Seq(W) /\ PathAB \in Seq(W) /\ UserPath("profile") \in Seq(W)
      /\ <<"/", "health">> \in Seq(W)
      BY <1>2, <1>3, Zenon DEF PathA, PathAB, UserPath
<1>5. \A p \in GatePaths : p \in Seq(W)
  <2>1. <<"/", "mcp">> \in Seq(W) /\ <<"/", "mcpa">> \in Seq(W)
        BY <1>2, <1>3, Zenon
  <2>2. <<"/", "mcp", "/", "a">> \in Seq(W) /\ <<"/", "a", "/", "openapi.json">> \in Seq(W)
        BY <1>2, <1>3, Zenon
  <2>. QED  BY <1>4, <2>1, <2>2, Zenon DEF GatePaths
<1>6. \A h \in {NoHeaders, SomeHeaders} :
         h \in [protocol : Seq(W), path : Seq(W), route : Seq(W), method : Seq(W)]
  <2>1. <<"cli">> \in Seq(W) /\ <<"GET">> \in Seq(W)
        BY <1>2, <1>3, Zenon
  <2>2. NoHeaders \in [protocol : Seq(W), path : Seq(W), route : Seq(W), method : Seq(W)]
        BY <1>2, Zenon DEF NoHeaders
  <2>3. SomeHeaders \in [protocol : Seq(W), path : Seq(W), route : Seq(W), method : Seq(W)]
        BY <1>4, <2>1, Zenon DEF SomeHeaders
  <2>. QED  BY <2>2, <2>3
<1>7. \A l \in {<<>>, << <<PathA \o <<"*">> >> >>, << <<"*", PathA>> >>, << <<"POST", PathAB>>, <<>> >>} :
         l \in Seq(AllowEntries(W))
  <2>1. PICK E : E = AllowEntries(W)
        OBVIOUS
  <2>2. /\ \A p \in Seq(W) : <<p>> \in E
        /\ \A m \in W, p \in Seq(W) : <<m, p>> \in E
        /\ <<>> \in E
        BY <2>1 DEF AllowEntries
  <2>3. PathA \o <<"*">> \in Seq(W)
        BY <1>2, <1>3, <1>4
  <2>4. /\ <<PathA \o <<"*">> >> \in E /\ <<"*", PathA>> \in E /\ <<"POST", PathAB>> \in E
        BY <1>3, <1>4, <2>2, <2>3, Zenon
  <2>5. <<>> \in Seq(E) /\ (\A e \in E : <<e>> \in Seq(E)) /\ (\A e, f \in E : <<e, f>> \in Seq(E))
        OBVIOUS
  <2>. QED  BY <2>1, <2>2, <2>4, <2>5, Zenon
<1>8. \A m \in {"GET", "POST"}, p \in Seq(W) : <<m, p>> \in Codings(W)
      BY <1>3 DEF Codings
<1>9. PICK caller \in {"http", "grpc", "embedder", "other claims"}, headers \in {NoHeaders, SomeHeaders},
       method \in {"GET", "POST"}, url \in {PathAB, UserPath("profile")}, route \in GatePaths \cup {<<>>},
       allowlist \in {<<>>, << <<PathA \o <<"*">> >> >>, << <<"*", PathA>> >>, << <<"POST", PathAB>>, <<>> >>},
       failOpen \in BOOLEAN, failing \in {"none", "catalog", "grants"},
       catalogued \in BOOLEAN, holders \in SUBSET {<<"t1", "r1">>, <<"t1", "r2">>, <<"t2", "r1">>} :
        LET code == <<method, IF caller = "embedder" THEN url ELSE route>> IN
        gate = [caller |-> caller, headers |-> headers, method |-> method, url |-> url, route |-> route,
                tenant |-> "t1", role |-> "r1", allowlist |-> allowlist, failOpen |-> failOpen,
                failing |-> failing, catalog |-> IF catalogued THEN {code} ELSE {},
                grants |-> {[tenant |-> h[1], role |-> h[2], data |-> code] : h \in holders}]
      BY Zenon DEF GateInit
<1>10. PICK code : code = <<method, IF caller = "embedder" THEN url ELSE route>>
      OBVIOUS
<1>11. url \in Seq(W) /\ route \in Seq(W)
      BY <1>2, <1>4, <1>5, <1>9
<1>12. code \in Codings(W)
      BY <1>8, <1>10, <1>11, Zenon
<1>13. PICK C : C = IF catalogued THEN {code} ELSE {}
      OBVIOUS
<1>14. PICK G : G = {[tenant |-> h[1], role |-> h[2], data |-> code] : h \in holders}
      OBVIOUS
<1>15. C \in SUBSET Codings(W)
      BY <1>12, <1>13
<1>16. G \in SUBSET [tenant : W, role : W, data : Codings(W)]
  <2>1. ASSUME NEW h \in holders
        PROVE  h[1] \in W /\ h[2] \in W
    <3>1. h \in {<<"t1", "r1">>, <<"t1", "r2">>, <<"t2", "r1">>}
          BY <1>9
    <3>2. h[1] \in {"t1", "t2"} /\ h[2] \in {"r1", "r2"}
      <4>1. \A a, b : <<a, b>>[1] = a /\ <<a, b>>[2] = b
            OBVIOUS
      <4>2. PICK t \in {"t1", "t2"}, r \in {"r1", "r2"} : h = <<t, r>>
            BY <3>1, Zenon
      <4>. QED  BY <4>1, <4>2, Zenon
    <3>. QED  BY <1>3, <3>2, Zenon
  <2>2. \A t, r \in W : [tenant |-> t, role |-> r, data |-> code] \in [tenant : W, role : W, data : Codings(W)]
        BY <1>12, Zenon
  <2>3. ASSUME NEW x \in G
        PROVE  x \in [tenant : W, role : W, data : Codings(W)]
    <3>1. PICK h \in holders : x = [tenant |-> h[1], role |-> h[2], data |-> code]
          BY <1>14
    <3>. QED  BY <2>1, <2>2, <3>1, Zenon
  <2>. QED  BY <2>3
<1>17. gate = [caller |-> caller, headers |-> headers, method |-> method, url |-> url, route |-> route,
                tenant |-> "t1", role |-> "r1", allowlist |-> allowlist, failOpen |-> failOpen,
                failing |-> failing, catalog |-> C, grants |-> G]
      BY <1>9, <1>10, <1>13, <1>14, Zenon
<1>18. headers \in [protocol : Seq(W), path : Seq(W), route : Seq(W), method : Seq(W)]
      BY <1>6
<1>19. allowlist \in Seq(AllowEntries(W))
      BY <1>7
<1>20. method \in W /\ "t1" \in W /\ "r1" \in W
      BY <1>3
<1>. QED  BY <1>1, <1>11, <1>15, <1>16, <1>17, <1>18, <1>19, <1>20, Zenon DEF Requests

\* So each case that is tried passes, and so does every other one.
THEOREM GateIsExact ==
    /\ \A S : DefaultWords \cup {"*"} \subseteq S /\ access \in Accesses(S) /\ gate \in Requests(S) => GateExact
    /\ AccessInit /\ GateInit => GateExact
<1>1. \A S : DefaultWords \cup {"*"} \subseteq S /\ access \in Accesses(S) /\ gate \in Requests(S) => GateExact
      BY AllowlistsAreExact, CheckerIsExact DEF GateExact
<1>2. AccessInit /\ GateInit => GateExact
      BY AccessTyped, GateTyped, AllowlistsAreExact, CheckerIsExact DEF GateExact, GateWords
<1>. QED  BY <1>1, <1>2

-----------------------------------------------------------------------------
(* The validators: the messages and their rules.                           *)

\* The messages that occur in others.
Embeddable ==
    {"MenuNode", "MenuItem", "OptionNode", "ListPermissionItem", "OptionEntry", "TenantOption", "MenuEntry"}

\* A rule the validators know, on the right kind of limits.
KnownRule(r) ==
    \/ r.kind = "any"
    \/ r.kind = "text" /\ r.lo \in Int /\ r.hi \in Int
    \/ r.kind = "int" /\ r.lo \in Int
    \/ r.kind = "texts" /\ r.max \in Int /\ r.lo \in Int /\ r.hi \in Int
    \/ r.kind = "nested" /\ r.type \in Embeddable

Known(rules) ==
    /\ Len(rules) \in Nat /\ DOMAIN rules = 1..Len(rules)
    /\ \A i \in 1..Len(rules) : KnownRule(rules[i])

\* Rules that test nothing themselves.
Lax(rules) == \A i \in 1..Len(rules) : rules[i].kind \in {"any", "nested"}

\* Fields without rules.
LEMMA FreeKnown ==
    ASSUME NEW fields, Len(fields) \in Nat
    PROVE  Known(Free(fields)) /\ Lax(Free(fields)) /\ Len(Free(fields)) = Len(fields)
<1>1. Len(Free(fields)) = Len(fields) /\ DOMAIN Free(fields) = 1..Len(fields)
      BY DEF Free
<1>2. \A i \in 1..Len(fields) : Free(fields)[i].kind = "any"
      BY DEF Free, NoRule
<1>. QED  BY <1>1, <1>2 DEF Known, Lax, KnownRule

\* The messages of free fields, those of free fields and nested messages, and
\* the others, which are not nested in any.
FreeMessages ==
    {LoginRequest, LoginResponse, RefreshTokenRequest, RefreshTokenResponse,
     LogoutRequest, LogoutResponse, MenuItem, MenuBreadcrumbResponse,
     ListCatalogRequest, ListCatalogResponse, ListPermissionItem,
     ListPermissionsRequest, RolePermissionsResponse, ReplaceRolePermissionsResponse,
     OptionEntry, TenantInfo, TenantOption, UserProfile, UpdateProfileRequest,
     ChangePasswordRequest, ResetPasswordRequest, ResetPasswordResponse,
     SetAvatarByURLRequest, SetAvatarByURLResponse, MenuEntry,
     ListPermissionCodesResponse}
LaxMessages == {MenuNode, OptionNode}
RuledMessages ==
    {MenuTreeResponse, MenuListAllResponse, MenuOptionsResponse, MenuBreadcrumbRequest,
     ListPermissionsResponse, RolePermissionsRequest, ReplaceRolePermissionsRequest,
     ListRoleOptionsResponse, RoleMenusRequest, TenantRequest,
     ListTenantOptionsResponse, ListVisibleMenusResponse}

\* No free field is tested.
LEMMA FreeMessagesLax == \A s \in FreeMessages : Known(s) /\ Lax(s)
BY FreeKnown DEF FreeMessages,
      LoginRequest, LoginResponse, RefreshTokenRequest, RefreshTokenResponse,
      LogoutRequest, LogoutResponse, MenuItem, MenuBreadcrumbResponse,
      ListCatalogRequest, ListCatalogResponse, ListPermissionItem,
      ListPermissionsRequest, RolePermissionsResponse, ReplaceRolePermissionsResponse,
      OptionEntry, TenantInfo, TenantOption, UserProfile, UpdateProfileRequest,
      ChangePasswordRequest, ResetPasswordRequest, ResetPasswordResponse,
      SetAvatarByURLRequest, SetAvatarByURLResponse, MenuEntry,
      ListPermissionCodesResponse

\* Nor is a menu or an option, which only has nested ones besides.
LEMMA LaxMessagesLax == \A s \in LaxMessages : Known(s) /\ Lax(s)
<1>1. Known(MenuNode) /\ Lax(MenuNode)
      BY FreeKnown DEF MenuNode, Nested, Known, Lax, KnownRule, Embeddable
<1>2. Known(OptionNode) /\ Lax(OptionNode)
      BY FreeKnown DEF OptionNode, Nested, Known, Lax, KnownRule, Embeddable
<1>. QED  BY <1>1, <1>2 DEF LaxMessages

\* The others' rules have limits of the right kind.
LEMMA RuledMessagesKnown == \A s \in RuledMessages : Known(s)
BY DEF RuledMessages, Nested, Text, AtLeast, TextList, NoRule, Known, KnownRule, Embeddable,
      MenuTreeResponse, MenuListAllResponse, MenuOptionsResponse,
      MenuBreadcrumbRequest, ListPermissionsResponse, RolePermissionsRequest,
      ReplaceRolePermissionsRequest, ListRoleOptionsResponse, RoleMenusRequest,
      TenantRequest, ListTenantOptionsResponse, ListVisibleMenusResponse

\* Every schema is known, and one that occurs in others tests nothing.
LEMMA SchemasKnown ==
    ASSUME NEW t \in DOMAIN Schemas
    PROVE  Known(Schemas[t]) /\ (t \in Embeddable => Lax(Schemas[t]))
<1>1. \/ Schemas[t] \in FreeMessages \cup LaxMessages
      \/ Schemas[t] \in RuledMessages /\ t \notin Embeddable
      BY DEF Schemas, FreeMessages, LaxMessages, RuledMessages, Embeddable
<1>. QED  BY <1>1, FreeMessagesLax, LaxMessagesLax, RuledMessagesKnown

\* A set that holds 0, and n + 1 whenever it holds an n below top, holds every
\* number up to top.
LEMMA Climb ==
    ASSUME NEW top \in Nat, NEW G, 0 \in G, \A n \in 0..top : n \in G /\ n # top => n + 1 \in G
    PROVE  \A n \in 0..top : n \in G
<1>. DEFINE T == {n \in 0..top : n \notin G}
<1>1. SUFFICES ASSUME T # {} PROVE FALSE
      OBVIOUS
<1>2. T \subseteq Nat
      OBVIOUS
<1>. HIDE DEF T
<1>3. PICK x \in T : \A y \in T : ~(<<y, x>> \in OpToRel(<, Nat))
      BY <1>1, <1>2, NatLessThanWellFounded, WFMin
<1>4. \A y \in T : <<y, x>> \in OpToRel(<, Nat) <=> y < x
      BY <1>2 DEF OpToRel
<1>5. \A y \in T : ~(y < x)
      BY <1>3, <1>4, Zenon
<1>6. x \in 0..top /\ x \notin G
      BY DEF T
<1>7. x # 0
      BY <1>6
<1>8. x - 1 \in 0..top /\ x - 1 # top /\ x - 1 < x /\ (x - 1) + 1 = x
      BY <1>6, <1>7
<1>9. x - 1 \notin G
      BY <1>6, <1>8
<1>. QED  BY <1>5, <1>8, <1>9 DEF T

-----------------------------------------------------------------------------
(* Appending errors and stopping at the first one.                         *)

\* What validate returns without all, given what it returns with it.
FirstOf(errors) == IF errors = <<>> THEN <<>> ELSE <<Head(errors)>>

\* The tests of Collect that fail.
Failed(checks) == {k \in 1..Len(checks) : checks[k].fails}

\* A finite set of numbers that is not empty has one least element, and this
\* is the only one with nothing before it.
LEMMA LeastOf ==
    ASSUME NEW n \in Nat, NEW S \in SUBSET (1..n), S # {}
    PROVE  /\ Min(S) \in S /\ \A k \in S : Min(S) <= k
           /\ IsFiniteSet(S) /\ Cardinality(S) \in Nat \ {0}
           /\ \A k \in S : Cardinality({i \in S : i <= k}) = 1 <=> k = Min(S)
<1>1. IsFiniteSet(S)
  <2>1. 1 \in Int /\ n \in Int
        OBVIOUS
  <2>2. IsFiniteSet(1..n)
        BY <2>1, FS_Interval
  <2>. QED  BY <2>2, FS_Subset
<1>2. PICK x \in S : \A y \in S : ~(<<y, x>> \in OpToRel(<, Nat))
  <2>1. S \subseteq Nat
        OBVIOUS
  <2>. QED  BY <2>1, NatLessThanWellFounded, WFMin
<1>3. \A y \in S : <<y, x>> \in OpToRel(<, Nat) <=> y < x
      BY DEF OpToRel
<1>4. \A y \in S : x <= y
  <2>1. \A y \in S : ~(y < x)
        BY <1>2, <1>3, Zenon
  <2>2. x \in Nat /\ \A y \in S : y \in Nat
        OBVIOUS
  <2>. QED  BY <2>1, <2>2
<1>5. Min(S) \in S /\ \A y \in S : Min(S) <= y
      BY <1>4 DEF Min
<1>6. Cardinality(S) \in Nat \ {0}
      BY <1>1, FS_CardinalityType, FS_EmptySet
<1>7. ASSUME NEW k \in S PROVE Cardinality({i \in S : i <= k}) = 1 <=> k = Min(S)
  <2>. DEFINE B == {i \in S : i <= k}
  <2>1. IsFiniteSet(B) /\ k \in B /\ Min(S) \in B
        BY <1>1, <1>5, FS_Subset
  <2>2. ASSUME Cardinality(B) = 1 PROVE k = Min(S)
    <3>1. \E x0 : B = {x0}
          BY <2>1, <2>2, FS_Singleton
    <3>. QED  BY <2>1, <3>1
  <2>3. ASSUME k = Min(S) PROVE Cardinality(B) = 1
    <3>1. \A i \in B : i = k
      <4>1. \A i \in B : i \in S /\ i <= k /\ k <= i
            BY <1>5, <2>3
      <4>. QED  BY <4>1
    <3>2. B = {k}
          BY <2>1, <3>1
    <3>. QED  BY <3>2, FS_Singleton
  <2>. QED  BY <2>2, <2>3
<1>. QED  BY <1>1, <1>5, <1>6, <1>7

\* A list of anything.
IsList(s) == \E E : s \in Seq(E)

\* A rule's tests add to the errors in order: none if none fails, and without
\* all just the first of all errors.
LEMMA CollectAgrees ==
    ASSUME NEW errors, IsList(errors), NEW checks, Len(checks) \in Nat
    PROVE  /\ IsList(Collect(TRUE, errors, checks))
           /\ Collect(TRUE, errors, checks) = <<>> <=> errors = <<>> /\ Failed(checks) = {}
           /\ Collect(FALSE, FirstOf(errors), checks) = FirstOf(Collect(TRUE, errors, checks))
<1>. DEFINE F == Failed(checks)
            c == Cardinality(F)
            Nth(j) == CHOOSE k \in F : Cardinality({i \in F : i <= k}) = j
            found == [j \in 1..c |-> checks[Nth(j)].error]
<1>1. F \in SUBSET (1..Len(checks))
      BY DEF Failed
<1>2. Collect(TRUE, errors, checks) = errors \o found
      BY Zenon DEF Collect, Failed
<1>3. Collect(FALSE, FirstOf(errors), checks) =
        IF FirstOf(errors) # <<>> \/ F = {} THEN FirstOf(errors) ELSE <<checks[Min(F)].error>>
      BY Zenon DEF Collect, Failed
<1>4. FirstOf(errors) = <<>> <=> errors = <<>>
      BY DEF FirstOf
<1>5. c \in Nat /\ (c = 0 <=> F = {})
  <2>1. CASE F = {}
        BY <2>1, FS_EmptySet
  <2>2. CASE F # {}
        BY <1>1, <2>2, LeastOf
  <2>. QED  BY <2>1, <2>2
<1>6. F # {} => found[1] = checks[Min(F)].error
  <2>1. SUFFICES ASSUME F # {} PROVE found[1] = checks[Min(F)].error
        OBVIOUS
  <2>. HIDE DEF F
  <2>2. /\ Min(F) \in F
        /\ \A k \in F : Cardinality({i \in F : i <= k}) = 1 <=> k = Min(F)
        BY <1>1, <2>1, LeastOf
  <2>3. Nth(1) = Min(F)
        BY <2>2
  <2>4. 1 \in 1..c
        BY <1>5, <2>1
  <2>. QED  BY <2>3, <2>4
<1>. DEFINE D == {found[j] : j \in 1..c}
<1>7. found \in Seq(D) /\ Len(found) = c
  <2>1. found \in [1..c -> D]
        OBVIOUS
  <2>. HIDE DEF found, D, c
  <2>. QED  BY <1>5, <2>1
<1>8. PICK E : errors \in Seq(E)
      BY DEF IsList
<1>. HIDE DEF F, c, found, D
<1>9. errors \in Seq(E \cup D) /\ found \in Seq(E \cup D)
      BY <1>7, <1>8
<1>10. errors \o found \in Seq(E \cup D) /\ Len(errors \o found) = Len(errors) + c
      BY <1>7, <1>9
<1>11. errors \o found = <<>> <=> errors = <<>> /\ F = {}
      BY <1>5, <1>9, <1>10
<1>12. CASE errors # <<>>
  <2>1. Head(errors \o found) = Head(errors)
        BY <1>9, <1>12
  <2>. QED  BY <1>2, <1>3, <1>4, <1>10, <1>11, <1>12, <2>1 DEF FirstOf, IsList, F
<1>13. CASE errors = <<>> /\ F = {}
      BY <1>2, <1>3, <1>4, <1>10, <1>11, <1>13 DEF FirstOf, IsList, F
<1>14. CASE errors = <<>> /\ F # {}
  <2>1. errors \o found = found
        BY <1>9, <1>14
  <2>2. Head(found) = checks[Min(F)].error
        BY <1>5, <1>6, <1>7, <1>14
  <2>. QED  BY <1>2, <1>3, <1>4, <1>10, <1>11, <1>14, <2>1, <2>2 DEF FirstOf, IsList, F
<1>. QED  BY <1>12, <1>13, <1>14

-----------------------------------------------------------------------------
(* One message: its rules in turn.                                         *)

\* The tests of the i-th rule.
FieldChecks(msg, embedded, i) ==
    Checks(Schemas[msg.type][i], msg.fields[Schemas[msg.type][i].field], embedded)

\* f is validate's list of errors after each of the first m rules.
Rules(all, msg, embedded, m, f) ==
    f = [i \in 0..m |-> IF i = 0 THEN <<>>
                        ELSE Collect(all, f[i - 1], FieldChecks(msg, embedded, i))]

\* There is such a list, and validate returns its last entry.
LEMMA RulesExist ==
    ASSUME NEW all, NEW msg, NEW embedded, Len(Schemas[msg.type]) \in Nat
    PROVE  \E f : /\ Rules(all, msg, embedded, Len(Schemas[msg.type]), f)
                  /\ ValidateFields(all, msg, embedded) = f[Len(Schemas[msg.type])]
<1>. DEFINE top == Len(Schemas[msg.type])
            Turn(e, i) == Collect(all, e, FieldChecks(msg, embedded, i))
            G == {m \in 0..top : \E f : Rules(all, msg, embedded, m, f)}
<1>0. top \in Nat
      OBVIOUS
<1>1. 0 \in G
  <2>. DEFINE f == [n \in 0..0 |-> <<>>]
  <2>1. f = [n \in 0..0 |-> IF n = 0 THEN <<>> ELSE Turn(f[n - 1], n)]
    <3>. HIDE DEF Turn
    <3>. QED  OBVIOUS
  <2>2. Rules(all, msg, embedded, 0, f)
        BY <2>1, Zenon DEF Rules
  <2>. QED  BY <1>0, <2>2
<1>2. ASSUME NEW m \in 0..top, m \in G, m # top
      PROVE  m + 1 \in G
  <2>1. PICK f : Rules(all, msg, embedded, m, f)
        BY <1>2
  <2>2. f = [n \in 0..m |-> IF n = 0 THEN <<>> ELSE Turn(f[n - 1], n)]
        BY <2>1, Zenon DEF Rules
  <2>. DEFINE g == [n \in 0..(m + 1) |-> IF n = m + 1 THEN Turn(f[m], n) ELSE f[n]]
  <2>. HIDE DEF Turn
  <2>3. ASSUME NEW n \in 0..(m + 1)
        PROVE  g[n] = IF n = 0 THEN <<>> ELSE Turn(g[n - 1], n)
    <3>1. CASE n = m + 1
          BY <3>1
    <3>2. CASE n # m + 1 /\ n # 0
      <4>1. n \in 0..m /\ n - 1 \in 0..m /\ n - 1 # m + 1 /\ n - 1 \in 0..(m + 1)
            BY <3>2
      <4>2. g[n] = f[n] /\ g[n - 1] = f[n - 1] /\ f[n] = Turn(f[n - 1], n)
            BY <2>2, <3>2, <4>1
      <4>. QED  BY <3>2, <4>2
    <3>3. CASE n # m + 1 /\ n = 0
      <4>1. n \in 0..m
            BY <3>3
      <4>. QED  BY <2>2, <3>3, <4>1
    <3>. QED  BY <3>1, <3>2, <3>3
  <2>4. g = [n \in 0..(m + 1) |-> IF n = 0 THEN <<>> ELSE Turn(g[n - 1], n)]
    <3>1. g = [n \in 0..(m + 1) |-> g[n]]
          OBVIOUS
    <3>. HIDE DEF g
    <3>. QED  BY <2>3, <3>1
  <2>. HIDE DEF g
  <2>5. Rules(all, msg, embedded, m + 1, g)
        BY <2>4, Zenon DEF Rules, Turn
  <2>6. m + 1 \in 0..top
        BY <1>2
  <2>. QED  BY <2>5, <2>6
<1>3. top \in G
  <2>. HIDE DEF G, top
  <2>1. \A n \in 0..top : n \in G /\ n # top => n + 1 \in G
        BY <1>2
  <2>2. top \in 0..top
        BY <1>0
  <2>3. \A n \in 0..top : n \in G
        BY <1>0, <1>1, <2>1, Climb, Zenon
  <2>. QED  BY <2>2, <2>3
<1>4. PICK f0 : Rules(all, msg, embedded, top, f0)
      BY <1>3
<1>. DEFINE f == CHOOSE f : f = [i \in 0..top |-> IF i = 0 THEN <<>> ELSE Turn(f[i - 1], i)]
<1>5. f = [n \in 0..top |-> IF n = 0 THEN <<>> ELSE Turn(f[n - 1], n)]
      BY <1>4, Zenon DEF Rules
<1>6. ValidateFields(all, msg, embedded) = f[top]
      BY Zenon DEF ValidateFields, FieldChecks
<1>. QED  BY <1>5, <1>6, Zenon DEF Rules

\* The tests look at whether a nested message has errors, not at which.
LEMMA ChecksAlike ==
    ASSUME NEW r, KnownRule(r), NEW n \in Nat, NEW v, Fits(r, v, n), NEW ea, NEW eb,
           \A k \in 0..(n - 1) : ea[k] = <<>> <=> eb[k] = <<>>
    PROVE  Checks(r, v, ea) = Checks(r, v, eb) /\ Len(Checks(r, v, ea)) \in Nat
<1>1. CASE r.kind = "any"
      BY <1>1 DEF Checks
<1>2. CASE r.kind = "text"
      BY <1>2 DEF Checks
<1>3. CASE r.kind = "int"
      BY <1>3 DEF Checks
<1>4. CASE r.kind = "texts"
  <2>. DEFINE w == [i \in 1..Len(v) |-> Check(r, i, Runes(v[i], r), "length")]
              u == <<Check(r, 0, Len(v) > r.max, "items")>>
  <2>1. \A e : Checks(r, v, e) = u \o w
        BY <1>4 DEF Checks
  <2>2. Len(v) \in Nat
        BY <1>4 DEF Fits
  <2>3. w \in Seq({w[i] : i \in 1..Len(v)}) /\ u \in Seq({u[1]})
    <3>1. w \in [1..Len(v) -> {w[i] : i \in 1..Len(v)}]
          OBVIOUS
    <3>2. u \in Seq({u[1]})
          OBVIOUS
    <3>. HIDE DEF w, u
    <3>. QED  BY <2>2, <3>1, <3>2
  <2>. HIDE DEF w, u
  <2>4. Len(u \o w) \in Nat
        BY <2>3
  <2>. QED  BY <2>1, <2>4
<1>5. CASE r.kind = "nested"
  <2>1. v \in Seq(0..(n - 1)) /\ Len(v) \in Nat
        BY <1>5 DEF Fits
  <2>2. \A e : Checks(r, v, e) = [i \in 1..Len(v) |-> Check(r, i, e[v[i]] # <<>>, "embedded")]
        BY <1>5 DEF Checks
  <2>3. \A i \in 1..Len(v) : (ea[v[i]] # <<>>) = (eb[v[i]] # <<>>)
    <3>1. \A i \in 1..Len(v) : v[i] \in 0..(n - 1)
          BY <2>1
    <3>. QED  BY <3>1
  <2>4. [i \in 1..Len(v) |-> Check(r, i, ea[v[i]] # <<>>, "embedded")] =
            [i \in 1..Len(v) |-> Check(r, i, eb[v[i]] # <<>>, "embedded")]
        BY <2>3
  <2>5. Checks(r, v, ea) = Checks(r, v, eb)
        BY <2>2, <2>4
  <2>6. Len([i \in 1..Len(v) |-> Check(r, i, ea[v[i]] # <<>>, "embedded")]) = Len(v)
        BY <2>1
  <2>. QED  BY <2>1, <2>2, <2>5, <2>6, Zenon
<1>. QED  BY <1>1, <1>2, <1>3, <1>4, <1>5 DEF KnownRule

\* If nothing nested has errors, no test of a rule fails exactly if it holds.
LEMMA ChecksExact ==
    ASSUME NEW r, KnownRule(r), NEW n \in Nat, NEW v, Fits(r, v, n), NEW embedded,
           r.kind = "nested" => \A k \in Range(v) : embedded[k] = <<>>
    PROVE  Failed(Checks(r, v, embedded)) = {} <=> Holds(r, v)
<1>1. CASE r.kind = "any"
      BY <1>1 DEF Checks, Failed, Holds
<1>2. CASE r.kind = "text"
  <2>1. v \in Int /\ r.lo \in Int /\ r.hi \in Int
        BY <1>2 DEF Fits, KnownRule
  <2>2. Holds(r, v) <=> ~Runes(v, r)
        BY <1>2, <2>1 DEF Holds, Runes
  <2>3. Failed(Checks(r, v, embedded)) = {} <=> ~Runes(v, r)
        BY <1>2 DEF Checks, Check, Failed
  <2>. QED  BY <2>2, <2>3
<1>3. CASE r.kind = "int"
  <2>1. v \in Int /\ r.lo \in Int
        BY <1>3 DEF Fits, KnownRule
  <2>2. Holds(r, v) <=> ~(v < r.lo)
        BY <1>3, <2>1 DEF Holds
  <2>. DEFINE c == <<Check(r, 0, v < r.lo, "minimum")>>
  <2>3. Checks(r, v, embedded) = c
        BY <1>3 DEF Checks
  <2>4. Len(c) = 1 /\ (c[1].fails <=> v < r.lo)
        BY DEF Check
  <2>. HIDE DEF c
  <2>5. Failed(c) = {} <=> ~c[1].fails
    <3>1. \A k : k \in 1..Len(c) <=> k = 1
          BY <2>4
    <3>. QED  BY <3>1, Zenon DEF Failed
  <2>. QED  BY <2>2, <2>3, <2>4, <2>5
<1>4. CASE r.kind = "texts"
  <2>. DEFINE w == [i \in 1..Len(v) |-> Check(r, i, Runes(v[i], r), "length")]
              u == <<Check(r, 0, Len(v) > r.max, "items")>>
              c == u \o w
  <2>1. Checks(r, v, embedded) = c
        BY <1>4 DEF Checks
  <2>2. v \in Seq(Int) /\ Len(v) \in Nat /\ r.max \in Int /\ r.lo \in Int /\ r.hi \in Int
        BY <1>4 DEF Fits, KnownRule
  <2>3. w \in Seq({w[i] : i \in 1..Len(v)}) /\ u \in Seq({u[1]}) /\ Len(w) = Len(v) /\ Len(u) = 1
    <3>1. w \in [1..Len(v) -> {w[i] : i \in 1..Len(v)}]
          OBVIOUS
    <3>2. u \in Seq({u[1]}) /\ Len(u) = 1
          OBVIOUS
    <3>. HIDE DEF w, u
    <3>3. Len(w) = Len(v)
          BY <2>2, <3>1
    <3>. QED  BY <2>2, <3>1, <3>2, <3>3
  <2>4. u[1].fails = (Len(v) > r.max)
        BY DEF Check
  <2>5. \A i \in 1..Len(v) : w[i].fails = Runes(v[i], r)
        BY DEF Check
  <2>. HIDE DEF w, u
  <2>6. Len(c) = Len(v) + 1 /\ c[1] = u[1] /\ \A i \in 1..Len(v) : c[i + 1] = w[i]
    <3>. DEFINE D == {w[i] : i \in 1..Len(v)} \cup {u[1]}
    <3>1. w \in Seq(D) /\ u \in Seq(D)
          BY <2>3
    <3>. HIDE DEF D
    <3>2. Len(c) = Len(u) + Len(w)
          BY <3>1
    <3>3. \A i \in 1..Len(w) : c[Len(u) + i] = w[i]
          BY <3>1
    <3>4. \A i \in 1..Len(u) : c[i] = u[i]
          BY <3>1
    <3>. HIDE DEF c
    <3>5. \A i \in 1..Len(v) : c[i + 1] = w[i]
      <4>1. \A i \in 1..Len(v) : i \in 1..Len(w) /\ i + 1 = Len(u) + i
            BY <2>2, <2>3
      <4>. QED  BY <3>3, <4>1
    <3>6. Len(c) = Len(v) + 1 /\ c[1] = u[1]
          BY <2>2, <2>3, <3>2, <3>4
    <3>. QED  BY <3>5, <3>6
  <2>. HIDE DEF c
  <2>7. (\A k \in 1..Len(c) : ~c[k].fails) <=>
            ~(Len(v) > r.max) /\ \A i \in 1..Len(v) : ~Runes(v[i], r)
    <3>1. ASSUME \A k \in 1..Len(c) : ~c[k].fails
          PROVE  ~(Len(v) > r.max) /\ \A i \in 1..Len(v) : ~Runes(v[i], r)
      <4>1. 1 \in 1..Len(c) /\ \A i \in 1..Len(v) : i + 1 \in 1..Len(c)
            BY <2>2, <2>6
      <4>. QED  BY <2>4, <2>5, <2>6, <3>1, <4>1
    <3>2. ASSUME ~(Len(v) > r.max), \A i \in 1..Len(v) : ~Runes(v[i], r), NEW k \in 1..Len(c)
          PROVE  ~c[k].fails
      <4>1. k = 1 \/ (k - 1 \in 1..Len(v) /\ k = (k - 1) + 1)
            BY <2>2, <2>6
      <4>2. CASE k = 1
            BY <2>4, <2>6, <3>2, <4>2
      <4>3. CASE k - 1 \in 1..Len(v) /\ k = (k - 1) + 1
        <5>1. c[k] = w[k - 1]
              BY <2>6, <4>3
        <5>. QED  BY <2>5, <3>2, <4>3, <5>1
      <4>. QED  BY <4>1, <4>2, <4>3
    <3>. QED  BY <3>1, <3>2
  <2>8. Holds(r, v) <=> Len(v) <= r.max /\ \A i \in 1..Len(v) : v[i] \in r.lo..r.hi
    <3>1. Range(v) = {v[i] : i \in 1..Len(v)}
          BY <2>2 DEF Range
    <3>. QED  BY <1>4, <3>1 DEF Holds
  <2>9. \A i \in 1..Len(v) : v[i] \in r.lo..r.hi <=> ~Runes(v[i], r)
    <3>1. \A i \in 1..Len(v) : v[i] \in Int
          BY <2>2
    <3>. QED  BY <2>2, <3>1 DEF Runes
  <2>10. Len(v) <= r.max <=> ~(Len(v) > r.max)
        BY <2>2
  <2>11. Failed(c) = {} <=> \A k \in 1..Len(c) : ~c[k].fails
        BY DEF Failed
  <2>. QED  BY <2>1, <2>7, <2>8, <2>9, <2>10, <2>11
<1>5. CASE r.kind = "nested"
  <2>. DEFINE c == [i \in 1..Len(v) |-> Check(r, i, embedded[v[i]] # <<>>, "embedded")]
  <2>1. v \in Seq(0..(n - 1)) /\ Len(v) \in Nat
        BY <1>5 DEF Fits
  <2>2. Checks(r, v, embedded) = c
        BY <1>5 DEF Checks
  <2>3. \A i \in 1..Len(v) : v[i] \in Range(v)
        BY <2>1 DEF Range
  <2>4. Len(c) = Len(v)
        BY <2>1
  <2>5. \A i \in 1..Len(v) : c[i].fails = FALSE
        BY <1>5, <2>3 DEF Check
  <2>. HIDE DEF c
  <2>6. Failed(c) = {}
        BY <2>4, <2>5 DEF Failed
  <2>. QED  BY <1>5, <2>2, <2>6 DEF Holds
<1>. QED  BY <1>1, <1>2, <1>3, <1>4, <1>5 DEF KnownRule

\* What is known of a message before it is validated: its fields fit, and of
\* those nested in it Validate returned the first error of ValidateAll's.
Ready(msg, n, ea, eb) ==
    /\ msg.type \in DOMAIN Schemas
    /\ \A r \in Range(Schemas[msg.type]) : Fits(r, msg.fields[r.field], n)
    /\ \A k \in 0..(n - 1) : eb[k] = FirstOf(ea[k])

\* And after: Validate returns the first error of ValidateAll's, which returns
\* none when no test fails.
Agreed(msg, ea, eb) ==
    /\ ValidateFields(FALSE, msg, eb) = FirstOf(ValidateFields(TRUE, msg, ea))
    /\ ValidateFields(TRUE, msg, ea) = <<>> <=>
         \A i \in 1..Len(Schemas[msg.type]) : Failed(FieldChecks(msg, ea, i)) = {}

\* Rule by rule, both go through the same tests.
LEMMA FieldsAgree ==
    ASSUME NEW msg, NEW n \in Nat, NEW ea, NEW eb, Ready(msg, n, ea, eb)
    PROVE  Agreed(msg, ea, eb)
<1>. DEFINE top == Len(Schemas[msg.type])
<1>1. Known(Schemas[msg.type]) /\ top \in Nat
      BY SchemasKnown DEF Ready, Known
<1>2. \A i \in 1..top : /\ FieldChecks(msg, ea, i) = FieldChecks(msg, eb, i)
                        /\ Len(FieldChecks(msg, ea, i)) \in Nat
  <2>1. TAKE i \in 1..top
  <2>. DEFINE r == Schemas[msg.type][i]
              v == msg.fields[r.field]
  <2>2. KnownRule(r) /\ r \in Range(Schemas[msg.type])
        BY <1>1 DEF Known, Range
  <2>3. Fits(r, v, n)
        BY <2>2 DEF Ready
  <2>4. \A k \in 0..(n - 1) : ea[k] = <<>> <=> eb[k] = <<>>
    <3>1. \A s : FirstOf(s) = <<>> <=> s = <<>>
          BY DEF FirstOf
    <3>. QED  BY <3>1, Zenon DEF Ready
  <2>. HIDE DEF r, v
  <2>5. Checks(r, v, ea) = Checks(r, v, eb) /\ Len(Checks(r, v, ea)) \in Nat
        BY <2>2, <2>3, <2>4, ChecksAlike
  <2>. QED  BY <2>5, Zenon DEF FieldChecks, r, v
<1>3. PICK f : Rules(TRUE, msg, ea, top, f) /\ ValidateFields(TRUE, msg, ea) = f[top]
      BY <1>1, RulesExist
<1>4. PICK g : Rules(FALSE, msg, eb, top, g) /\ ValidateFields(FALSE, msg, eb) = g[top]
      BY <1>1, RulesExist
<1>. DEFINE G == {i \in 0..top : /\ IsList(f[i]) /\ g[i] = FirstOf(f[i])
                                 /\ f[i] = <<>> <=> \A j \in 1..i : Failed(FieldChecks(msg, ea, j)) = {}}
<1>. HIDE DEF top
<1>5. /\ f[0] = <<>> /\ g[0] = <<>>
      /\ \A i \in 1..top : /\ f[i] = Collect(TRUE, f[i - 1], FieldChecks(msg, ea, i))
                           /\ g[i] = Collect(FALSE, g[i - 1], FieldChecks(msg, ea, i))
  <2>1. f = [i \in 0..top |-> IF i = 0 THEN <<>> ELSE Collect(TRUE, f[i - 1], FieldChecks(msg, ea, i))]
        BY <1>3, Zenon DEF Rules
  <2>2. g = [i \in 0..top |-> IF i = 0 THEN <<>> ELSE Collect(FALSE, g[i - 1], FieldChecks(msg, eb, i))]
        BY <1>4, Zenon DEF Rules
  <2>3. 0 \in 0..top /\ \A i \in 1..top : i \in 0..top /\ i # 0
        BY <1>1
  <2>4. f[0] = <<>> /\ \A i \in 1..top : f[i] = Collect(TRUE, f[i - 1], FieldChecks(msg, ea, i))
        BY <2>1, <2>3
  <2>5. g[0] = <<>> /\ \A i \in 1..top : g[i] = Collect(FALSE, g[i - 1], FieldChecks(msg, eb, i))
        BY <2>2, <2>3
  <2>. QED  BY <1>2, <2>4, <2>5
<1>6. 0 \in G
  <2>1. IsList(<<>>)
    <3>1. <<>> \in Seq({})
          OBVIOUS
    <3>. QED  BY <3>1, Zenon DEF IsList
  <2>. QED  BY <1>1, <1>5, <2>1 DEF FirstOf
<1>7. ASSUME NEW i \in 0..top, i \in G, i # top PROVE i + 1 \in G
  <2>1. i + 1 \in 1..top /\ i + 1 \in 0..top /\ (i + 1) - 1 = i
        BY <1>1, <1>7
  <2>. DEFINE c == FieldChecks(msg, ea, i + 1)
  <2>2. f[i + 1] = Collect(TRUE, f[i], c) /\ g[i + 1] = Collect(FALSE, g[i], c) /\ Len(c) \in Nat
        BY <1>2, <1>5, <2>1
  <2>3. IsList(f[i]) /\ g[i] = FirstOf(f[i])
        BY <1>7
  <2>. HIDE DEF c
  <2>4. /\ IsList(Collect(TRUE, f[i], c))
        /\ Collect(TRUE, f[i], c) = <<>> <=> f[i] = <<>> /\ Failed(c) = {}
        /\ Collect(FALSE, FirstOf(f[i]), c) = FirstOf(Collect(TRUE, f[i], c))
        BY <2>2, <2>3, CollectAgrees
  <2>5. IsList(f[i + 1]) /\ g[i + 1] = FirstOf(f[i + 1]) /\ (f[i + 1] = <<>> <=> f[i] = <<>> /\ Failed(c) = {})
        BY <2>2, <2>3, <2>4
  <2>6. f[i] = <<>> <=> \A j \in 1..i : Failed(FieldChecks(msg, ea, j)) = {}
        BY <1>7
  <2>7. \A j : j \in 1..(i + 1) <=> j \in 1..i \/ j = i + 1
        BY <2>1
  <2>8. f[i + 1] = <<>> <=> \A j \in 1..(i + 1) : Failed(FieldChecks(msg, ea, j)) = {}
        BY <2>5, <2>6, <2>7, Zenon DEF c
  <2>. QED  BY <2>1, <2>5, <2>8
<1>8. top \in G
  <2>. HIDE DEF G
  <2>1. \A i \in 0..top : i \in G /\ i # top => i + 1 \in G
        BY <1>7
  <2>2. top \in 0..top
        BY <1>1
  <2>3. \A i \in 0..top : i \in G
        BY <1>1, <1>6, <2>1, Climb, Zenon
  <2>. QED  BY <2>2, <2>3
<1>. QED  BY <1>3, <1>4, <1>8, Zenon DEF Agreed, top

-----------------------------------------------------------------------------
(* The messages, nested ones first.                                        *)

\* f is what validate returned for each of the first m messages.
Results(all, m, f) ==
    f = [n \in 0..m |-> IF n = Nil THEN <<>>
                        ELSE ValidateFields(all, message[n], [k \in 0..(n - 1) |-> f[k]])]

\* There are such results, and the last is the given message's.
LEMMA ResultsExist ==
    ASSUME NEW all, Len(message) \in Nat
    PROVE  \E f : Results(all, Len(message), f) /\ Validate(all) = f[Len(message)]
<1>. DEFINE top == Len(message)
            Turn(n, e) == ValidateFields(all, message[n], e)
            G == {m \in 0..top : \E f : Results(all, m, f)}
<1>0. top \in Nat
      OBVIOUS
<1>1. 0 \in G
  <2>. DEFINE f == [n \in 0..0 |-> <<>>]
  <2>1. f = [n \in 0..0 |-> IF n = Nil THEN <<>> ELSE Turn(n, [k \in 0..(n - 1) |-> f[k]])]
    <3>. HIDE DEF Turn
    <3>. QED  BY DEF Nil
  <2>2. Results(all, 0, f)
        BY <2>1, Zenon DEF Results
  <2>. QED  BY <1>0, <2>2
<1>2. ASSUME NEW m \in 0..top, m \in G, m # top
      PROVE  m + 1 \in G
  <2>1. PICK f : Results(all, m, f)
        BY <1>2
  <2>2. f = [n \in 0..m |-> IF n = Nil THEN <<>> ELSE Turn(n, [k \in 0..(n - 1) |-> f[k]])]
        BY <2>1, Zenon DEF Results
  <2>. DEFINE g == [n \in 0..(m + 1) |-> IF n = m + 1 THEN Turn(n, [k \in 0..(n - 1) |-> f[k]]) ELSE f[n]]
  <2>. HIDE DEF Turn
  <2>3. ASSUME NEW n \in 0..(m + 1)
        PROVE  g[n] = IF n = Nil THEN <<>> ELSE Turn(n, [k \in 0..(n - 1) |-> g[k]])
    <3>1. \A k \in 0..(n - 1) : g[k] = f[k]
      <4>1. \A k \in 0..(n - 1) : k \in 0..(m + 1) /\ k # m + 1
            OBVIOUS
      <4>. QED  BY <4>1
    <3>2. [k \in 0..(n - 1) |-> g[k]] = [k \in 0..(n - 1) |-> f[k]]
      <4>. HIDE DEF g
      <4>. QED  BY <3>1
    <3>3. CASE n = m + 1
      <4>1. g[n] = Turn(n, [k \in 0..(n - 1) |-> f[k]]) /\ n # Nil
            BY <3>3 DEF Nil
      <4>. HIDE DEF g
      <4>. QED  BY <3>2, <4>1, Zenon
    <3>4. CASE n # m + 1
      <4>1. n \in 0..m /\ g[n] = f[n]
            BY <3>4
      <4>2. f[n] = IF n = Nil THEN <<>> ELSE Turn(n, [k \in 0..(n - 1) |-> f[k]])
            BY <2>2, <4>1, Zenon
      <4>. HIDE DEF g
      <4>. QED  BY <3>2, <4>1, <4>2, Zenon
    <3>. QED  BY <3>3, <3>4
  <2>4. g = [n \in 0..(m + 1) |-> IF n = Nil THEN <<>> ELSE Turn(n, [k \in 0..(n - 1) |-> g[k]])]
    <3>1. g = [n \in 0..(m + 1) |-> g[n]]
          OBVIOUS
    <3>. HIDE DEF g
    <3>. QED  BY <2>3, <3>1, Zenon
  <2>. HIDE DEF g
  <2>5. Results(all, m + 1, g)
        BY <2>4, Zenon DEF Results, Turn
  <2>6. m + 1 \in 0..top
        BY <1>2
  <2>. QED  BY <2>5, <2>6
<1>3. top \in G
  <2>. HIDE DEF G, top
  <2>1. \A n \in 0..top : n \in G /\ n # top => n + 1 \in G
        BY <1>2
  <2>2. top \in 0..top
        BY <1>0
  <2>3. \A n \in 0..top : n \in G
        BY <1>0, <1>1, <2>1, Climb, Zenon
  <2>. QED  BY <2>2, <2>3
<1>4. PICK f0 : Results(all, top, f0)
      BY <1>3
<1>. DEFINE f == CHOOSE f : f = [n \in 0..top |-> IF n = Nil THEN <<>>
                                                  ELSE Turn(n, [k \in 0..(n - 1) |-> f[k]])]
<1>5. f = [n \in 0..top |-> IF n = Nil THEN <<>> ELSE Turn(n, [k \in 0..(n - 1) |-> f[k]])]
      BY <1>4, Zenon DEF Results
<1>6. Validate(all) = f[top]
      BY Zenon DEF Validate
<1>. QED  BY <1>5, <1>6, Zenon DEF Results

\* The message at n was validated: both results, and what they say of it.
Validated(n, f, g) ==
    /\ g[n] = FirstOf(f[n])
    /\ n # Nil =>
         /\ message[n].type \in Embeddable => f[n] = <<>>
         /\ f[n] = <<>> <=> \A r \in Range(Schemas[message[n].type]) :
                                Holds(r, message[n].fields[r.field])

\* A message whose nested ones were validated is.
LEMMA MessageValidated ==
    ASSUME WellTyped, NEW M, message \in Seq(M), NEW n \in 1..Len(message), NEW f, NEW g,
           f[0] = <<>>, \A k \in 0..(n - 1) : Validated(k, f, g),
           f[n] = ValidateFields(TRUE, message[n], [k \in 0..(n - 1) |-> f[k]]),
           g[n] = ValidateFields(FALSE, message[n], [k \in 0..(n - 1) |-> g[k]])
    PROVE  Validated(n, f, g)
<1>. DEFINE ea == [k \in 0..(n - 1) |-> f[k]]
            eb == [k \in 0..(n - 1) |-> g[k]]
            msg == message[n]
            rules == Schemas[msg.type]
<1>1. /\ msg.type \in DOMAIN Schemas
      /\ \A r \in Range(rules) : Fits(r, msg.fields[r.field], n)
      /\ n \in Nat
      BY DEF WellTyped
<1>2. Known(rules) /\ Len(rules) \in Nat /\ DOMAIN rules = 1..Len(rules)
      /\ (msg.type \in Embeddable => Lax(rules))
      BY <1>1, SchemasKnown DEF Known
<1>3. \A k \in 0..(n - 1) : ea[k] = f[k] /\ eb[k] = g[k]
      OBVIOUS
<1>4. Ready(msg, n, ea, eb)
  <2>. HIDE DEF ea, eb, msg
  <2>1. \A k \in 0..(n - 1) : eb[k] = FirstOf(ea[k])
        BY <1>3 DEF Validated
  <2>. QED  BY <1>1, <2>1, Zenon DEF Ready
<1>. HIDE DEF ea, eb, msg, rules
<1>5. /\ ValidateFields(FALSE, msg, eb) = FirstOf(ValidateFields(TRUE, msg, ea))
      /\ ValidateFields(TRUE, msg, ea) = <<>> <=>
            \A i \in 1..Len(Schemas[msg.type]) : Failed(FieldChecks(msg, ea, i)) = {}
  <2>1. n \in Nat
        BY <1>1
  <2>2. Agreed(msg, ea, eb)
        BY <1>4, <2>1, FieldsAgree
  <2>. QED  BY <2>2, Zenon DEF Agreed
<1>6. f[n] = ValidateFields(TRUE, msg, ea) /\ g[n] = ValidateFields(FALSE, msg, eb)
      BY Zenon DEF msg, ea, eb
<1>7. f[n] = <<>> <=> \A i \in 1..Len(rules) : Failed(FieldChecks(msg, ea, i)) = {}
      BY <1>5, <1>6, Zenon DEF rules
<1>8. ASSUME NEW i \in 1..Len(rules)
      PROVE  Failed(FieldChecks(msg, ea, i)) = {} <=> Holds(rules[i], msg.fields[rules[i].field])
  <2>. DEFINE r == rules[i]
              v == msg.fields[r.field]
  <2>1. KnownRule(r) /\ r \in Range(rules)
        BY <1>2, <1>8 DEF Known, Range
  <2>2. Fits(r, v, n)
        BY <1>1, <2>1
  <2>3. ASSUME r.kind = "nested", NEW k \in Range(v) PROVE ea[k] = <<>>
    <3>. HIDE DEF r, v
    <3>1. /\ v \in Seq(0..(n - 1)) /\ \A j \in Range(v) : j # Nil => message[j].type = r.type
          /\ r.type \in Embeddable
          BY <2>1, <2>2, <2>3 DEF Fits, KnownRule
    <3>2. k \in 0..(n - 1)
          BY <2>3, <3>1 DEF Range
    <3>3. CASE k = Nil
          BY <1>3, <3>2, <3>3 DEF Nil
    <3>4. CASE k # Nil
      <4>1. message[k].type \in Embeddable
            BY <2>3, <3>1, <3>4
      <4>2. f[k] = <<>>
            BY <3>2, <3>4, <4>1, Zenon DEF Validated
      <4>. QED  BY <1>3, <3>2, <4>2
    <3>. QED  BY <3>3, <3>4
  <2>. HIDE DEF r, v
  <2>4. Failed(Checks(r, v, ea)) = {} <=> Holds(r, v)
        BY <1>1, <2>1, <2>2, <2>3, ChecksExact
  <2>. QED  BY <2>4, Zenon DEF FieldChecks, r, v, rules
<1>9. f[n] = <<>> <=> \A r \in Range(rules) : Holds(r, msg.fields[r.field])
  <2>1. \A r : r \in Range(rules) <=> \E i \in 1..Len(rules) : r = rules[i]
        BY <1>2 DEF Range
  <2>2. (\A i \in 1..Len(rules) : Failed(FieldChecks(msg, ea, i)) = {}) <=>
            \A i \in 1..Len(rules) : Holds(rules[i], msg.fields[rules[i].field])
        BY <1>8, Zenon
  <2>3. (\A i \in 1..Len(rules) : Holds(rules[i], msg.fields[rules[i].field])) <=>
            \A r \in Range(rules) : Holds(r, msg.fields[r.field])
        BY <2>1, Zenon
  <2>. QED  BY <1>7, <2>2, <2>3, Zenon
<1>10. ASSUME msg.type \in Embeddable PROVE f[n] = <<>>
  <2>1. \A r \in Range(rules) : r.kind \in {"any", "nested"}
        BY <1>2, <1>10 DEF Lax, Range
  <2>2. \A r \in Range(rules) : Holds(r, msg.fields[r.field])
        BY <2>1 DEF Holds
  <2>. QED  BY <1>9, <2>2, Zenon
<1>. QED  BY <1>5, <1>6, <1>9, <1>10, Zenon DEF Validated, msg, rules

\* ReplaceRolePermissions takes texts of at most 120 runes.
LEMMA ReplacementsFit ==
    ASSUME NEW fields, \A r \in Range(ReplaceRolePermissionsRequest) : Holds(r, fields[r.field])
    PROVE  Range(fields.Menus) \cup Range(fields.Apis) \subseteq 1..120
<1>. DEFINE rm == TextList("Menus", 1024, 1, 120)
            ra == TextList("Apis", 1024, 1, 60)
<1>1. rm \in Range(ReplaceRolePermissionsRequest) /\ ra \in Range(ReplaceRolePermissionsRequest)
      BY DEF ReplaceRolePermissionsRequest, Range
<1>2. Range(fields.Menus) \subseteq 1..120
  <2>1. Holds(rm, fields.Menus)
        BY <1>1 DEF TextList
  <2>. QED  BY <2>1 DEF Holds, TextList
<1>3. Range(fields.Apis) \subseteq 1..60
  <2>1. Holds(ra, fields.Apis)
        BY <1>1 DEF TextList
  <2>. QED  BY <2>1 DEF Holds, TextList
<1>. QED  BY <1>2, <1>3

\* Of every well-typed message.
LEMMA ValidatedAgree ==
    ASSUME NEW M, message \in Seq(M), WellTyped
    PROVE  ValidatorsAgree
<1>. DEFINE top == Len(message)
<1>0. top \in Nat
      OBVIOUS
<1>1. PICK f : Results(TRUE, top, f) /\ Validate(TRUE) = f[top]
      BY <1>0, ResultsExist
<1>2. PICK g : Results(FALSE, top, g) /\ Validate(FALSE) = g[top]
      BY <1>0, ResultsExist
<1>. DEFINE G == {m \in 0..top : \A k \in 0..m : Validated(k, f, g)}
<1>. HIDE DEF top
<1>3. f[0] = <<>> /\ g[0] = <<>>
  <2>1. 0 \in 0..top
        BY <1>0
  <2>. QED  BY <1>1, <1>2, <2>1 DEF Results, Nil
<1>4. \A n \in 1..top : /\ f[n] = ValidateFields(TRUE, message[n], [k \in 0..(n - 1) |-> f[k]])
                        /\ g[n] = ValidateFields(FALSE, message[n], [k \in 0..(n - 1) |-> g[k]])
  <2>1. TAKE n \in 1..top
  <2>2. n \in 0..top /\ n # Nil
        BY <1>0 DEF Nil
  <2>3. f[n] = ValidateFields(TRUE, message[n], [k \in 0..(n - 1) |-> f[k]])
    <3>1. f = [i \in 0..top |-> IF i = Nil THEN <<>>
                                ELSE ValidateFields(TRUE, message[i], [k \in 0..(i - 1) |-> f[k]])]
          BY <1>1, Zenon DEF Results
    <3>. QED  BY <2>2, <3>1, Zenon
  <2>4. g[n] = ValidateFields(FALSE, message[n], [k \in 0..(n - 1) |-> g[k]])
    <3>1. g = [i \in 0..top |-> IF i = Nil THEN <<>>
                                ELSE ValidateFields(FALSE, message[i], [k \in 0..(i - 1) |-> g[k]])]
          BY <1>2, Zenon DEF Results
    <3>. QED  BY <2>2, <3>1, Zenon
  <2>. QED  BY <2>3, <2>4
<1>5. 0 \in G
  <2>1. Validated(0, f, g)
        BY <1>3 DEF Validated, FirstOf, Nil
  <2>2. \A k \in 0..0 : k = 0
        OBVIOUS
  <2>. QED  BY <1>0, <2>1, <2>2
<1>6. ASSUME NEW m \in 0..top, m \in G, m # top PROVE m + 1 \in G
  <2>1. m + 1 \in 1..top /\ m + 1 \in 0..top /\ (m + 1) - 1 = m
        BY <1>0, <1>6
  <2>2. \A k \in 0..((m + 1) - 1) : Validated(k, f, g)
        BY <1>6, <2>1
  <2>3. Validated(m + 1, f, g)
        BY <1>3, <1>4, <2>1, <2>2, MessageValidated, Zenon DEF top
  <2>4. \A k \in 0..(m + 1) : k \in 0..m \/ k = m + 1
        OBVIOUS
  <2>. QED  BY <1>6, <2>1, <2>3, <2>4
<1>7. Validated(top, f, g)
  <2>1. top \in 0..top
        BY <1>0
  <2>2. \A n \in 0..top : n \in G /\ n # top => n + 1 \in G
    <3>. HIDE DEF G
    <3>. QED  BY <1>6
  <2>3. top \in G
    <3>. HIDE DEF G
    <3>. QED  BY <1>0, <1>5, <2>1, <2>2, Climb, Zenon
  <2>. QED  BY <2>1, <2>3
<1>8. CASE message = NoMessage
  <2>1. top = 0
        BY <1>8 DEF top, NoMessage
  <2>. QED  BY <1>1, <1>2, <1>3, <1>8, <2>1 DEF ValidatorsAgree
<1>9. CASE message # NoMessage
  <2>1. top # Nil /\ Last(message) = message[top]
        BY <1>9 DEF top, NoMessage, Nil, Last
  <2>. DEFINE msg == Last(message)
              valid == \A r \in Range(Schemas[msg.type]) : Holds(r, msg.fields[r.field])
  <2>2. g[top] = FirstOf(f[top]) /\ (f[top] = <<>> <=> valid)
        BY <1>7, <2>1, Zenon DEF Validated
  <2>3. (Validate(TRUE) = <<>>) = (message = NoMessage \/ valid)
        BY <1>1, <1>9, <2>2
  <2>4. Validate(FALSE) = IF Validate(TRUE) = <<>> THEN <<>> ELSE <<Head(Validate(TRUE))>>
        BY <1>1, <1>2, <2>2, Zenon DEF FirstOf
  <2>5. ASSUME Validate(FALSE) = <<>>, msg.type = "ReplaceRolePermissionsRequest"
        PROVE  Range(msg.fields.Menus) \cup Range(msg.fields.Apis) \subseteq 1..120
    <3>1. Schemas[msg.type] = ReplaceRolePermissionsRequest
          BY <2>5 DEF Schemas
    <3>2. valid
      <4>1. f[top] = <<>>
        <5>1. FirstOf(f[top]) = <<>>
              BY <1>2, <2>2, <2>5, Zenon
        <5>2. \A s : FirstOf(s) = <<>> => s = <<>>
              BY DEF FirstOf
        <5>. QED  BY <5>1, <5>2, Zenon
      <4>. QED  BY <2>2, <4>1
    <3>. QED  BY <3>1, <3>2, ReplacementsFit, Zenon
  <2>. QED  BY <2>3, <2>4, <2>5, Zenon DEF ValidatorsAgree
<1>. QED  BY <1>8, <1>9

\* The messages TLC tries are sequences.
LEMMA TriesAreSequences ==
    ASSUME ValidatorsInit
    PROVE  \E M : message \in Seq(M)
<1>1. CASE message = NoMessage
  <2>1. message \in Seq({})
        BY <1>1 DEF NoMessage
  <2>. QED  BY <2>1
<1>2. CASE message # NoMessage
  <2>1. PICK t, m : message = Nest(t, m)
        BY <1>2, Zenon DEF ValidatorsInit
  <2>2. (\E x : Nest(t, m) = <<x>>) \/ \E x, y, z : Nest(t, m) = <<x, y, z>>
        BY Zenon DEF Nest
  <2>3. ASSUME NEW x, message = <<x>> PROVE \E M : message \in Seq(M)
    <3>1. message \in Seq({x})
          BY <2>3
    <3>. QED  BY <3>1
  <2>4. ASSUME NEW x, NEW y, NEW z, message = <<x, y, z>> PROVE \E M : message \in Seq(M)
    <3>1. message \in Seq({x, y, z})
          BY <2>4
    <3>. QED  BY <3>1
  <2>. QED  BY <2>1, <2>2, <2>3, <2>4
<1>. QED  BY <1>1, <1>2

\* For every message of every type, with messages nested in it to any depth and
\* values of any length, Validate and ValidateAll agree with the rules and with
\* each other.
THEOREM ValidatorsTheorem ==
    /\ \A M : message \in Seq(M) /\ WellTyped => ValidatorsAgree
    /\ ValidatorsInit => ValidatorsAgree
<1>1. \A M : message \in Seq(M) /\ WellTyped => ValidatorsAgree
      BY ValidatedAgree
<1>2. ValidatorsInit => WellTyped
      BY DEF ValidatorsInit
<1>. QED  BY <1>1, <1>2, TriesAreSequences

===============================================================================
