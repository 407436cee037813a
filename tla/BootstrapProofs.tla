--------------------------- MODULE BootstrapProofs ---------------------------
(***************************************************************************)
(* Proofs about booting, for any number of processes, of boots and of      *)
(* operator edits, and any catalog of models, endpoints and sections: a    *)
(* deleted menu stays deleted, the super role covers the catalog, and      *)
(* boots that race converge on one role, one user and one copy of the      *)
(* templates per tenant.  Then about the menus that booting leaves, as a   *)
(* tree (MenuTree), for any table of them.                                 *)
(***************************************************************************)
EXTENDS Bootstrap, MenuTree, FiniteSetTheorems, SequenceTheorems, WellFoundedInduction, TLAPS

-----------------------------------------------------------------------------
(* Types.                                                                  *)

Entries == Range(Registered) \cup TenantEntries \cup Range(Endpoints) \cup Sections
TenantIds == {"", Default, Legacy}
Row == [id : Nat, entry : Entries, live : BOOLEAN]
RoleRow == [id : Nat, tenant : TenantIds, builtin : BOOLEAN, isSuper : BOOLEAN]
TenantRow == [id : Nat, tenant : TenantIds]
Snap == [rows : SUBSET Row, tenants : SUBSET TenantIds, clones : SUBSET TenantRow,
         roles : SUBSET RoleRow, adminUsers : SUBSET TenantRow, grants : SUBSET Entries]
Process == [pc : {"off", "setup", "insert", "commit", "up"}, next : Nat \ {0},
            absent : BOOLEAN, snap : Snap]

BootType ==
    /\ rows \in SUBSET Row /\ tenants \in SUBSET TenantIds /\ clones \in SUBSET TenantRow
    /\ roles \in SUBSET RoleRow /\ adminUsers \in SUBSET TenantRow /\ grants \in SUBSET Entries
    /\ nextId \in Nat /\ proc \in [Procs -> Process]

-----------------------------------------------------------------------------
(* The catalog.                                                            *)

\* What the deployment's boots put in the database.
Catalog == Range(GetModels) \cup Range(Endpoints) \cup Sections

\* Granted, or taken back after it was granted.
Accounted == grants \cup ungranted

\* The statements of the cleanup.
Cleanups == {"remove menu", "purge grants", "remove permissions"}

\* Step i of Setup has left its entry in a table, or removed what it removes.
Ensured(i, table) ==
    /\ SetupSteps[i] \notin Cleanups => SetupSteps[i] \in Known(table)
    /\ SetupSteps[i] = "remove menu" => TenantMenu \notin Known(table)
    /\ SetupSteps[i] = "remove permissions" => TenantPermissions \cap Known(table) = {}

\* No row of the tenant resource is left where no boot inserts one.
Cleaned(table) == ~multi => TenantEntries \cap Known(table) = {}

\* Where a process q is in Setup and Seed, over a table T and the entries A
\* accounted for.
SetupAt(q, T, A) ==
    /\ q.pc \in {"setup", "insert"} =>
          \A i \in 1..Len(SetupSteps) : i < q.next => Ensured(i, T)
    /\ q.pc = "insert" =>
          q.next \in 1..Len(SetupSteps) /\ SetupSteps[q.next] \notin Cleanups /\ q.absent
    /\ q.pc = "commit" =>
          /\ \A i \in 1..Len(SetupSteps) : Ensured(i, q.snap.rows)
          /\ Catalog \cap (Known(q.snap.rows) \ Live(q.snap.rows)) \subseteq A
          /\ Cleaned(T)
SetupInv == \A p \in Procs : SetupAt(proc[p], rows, Accounted)

\* The cleanup takes the first row of the menu: so it takes all there are.
MenuOnce == ~multi => \A r, s \in rows : r.entry = TenantMenu /\ s.entry = TenantMenu => r = s

\* The account of the catalog, complete once a Seed has committed whose role is
\* not the operator's own.
CoverInv ==
    /\ Catalog \cap (Known(rows) \ Live(rows)) \subseteq Accounted
    /\ seeded /\ ~began.own => Catalog \subseteq Accounted
    /\ seeded => Cleaned(rows)
    /\ MenuOnce

-----------------------------------------------------------------------------
(* The rows of Seed.                                                       *)

\* The tenant Seed gives a role.
Home(r) == IF r.tenant = "" THEN Default ELSE r.tenant
Cloned(table) == {c.tenant : c \in table}
Single(table) == \A r, s \in table : r = s

\* The databases whose admin role, and whose admin user, no two Seeds can both
\* insert.
RoleGuarded == began.tenant => began.role
Guarded == began.tenant => began.user

\* An operator's own admin role stays what it is; any other is super, or becomes
\* super when a Seed finds it.
Kinds(table) ==
    IF began.own
    THEN table # {} /\ \A r \in table : ~r.builtin /\ ~r.isSuper
    ELSE \A r \in table : r.builtin \/ r.isSuper

SeededInv ==
    /\ Default \in tenants /\ adminUsers # {} /\ roles # {}
    /\ \A r \in roles : /\ r.builtin => r.isSuper
                        /\ r.tenant # "" /\ r.tenant \in tenants
                        /\ \A u \in adminUsers : u.tenant = r.tenant
    /\ multi => tenants \subseteq Cloned(clones)
UnseededInv ==
    /\ clones = {} /\ tenants \subseteq {Default} /\ Single(roles) /\ Single(adminUsers)
    /\ began.tenant <=> Default \in tenants
    /\ began.role <=> roles # {}
    /\ began.user <=> adminUsers # {}

\* A snapshot a Seed has left complete.
Complete(s) ==
    /\ s.adminUsers # {} /\ \A r \in s.roles : Home(r) \in s.tenants
    /\ s.roles # {} /\ (multi => s.tenants \subseteq Cloned(s.clones))

\* How a snapshot taken and the database of now differ.
SnapInv(s) ==
    /\ s.clones \subseteq clones /\ s.tenants \subseteq tenants
    /\ Kinds(s.roles) /\ (roles = {} => s.roles = {})
    /\ \A r \in roles, t \in s.roles : Home(r) = Home(t)
    /\ s.roles = {} => \A r \in roles : Home(r) = Default
    /\ ~seeded => s.roles = roles /\ s.tenants = tenants /\ s.adminUsers = adminUsers
    /\ RoleGuarded => /\ Single(s.roles) /\ \A r \in roles, t \in s.roles : r.id = t.id
                      /\ s.roles = {} => roles = {} \/ Default \notin s.tenants
    /\ Guarded => /\ Single(s.adminUsers) /\ \A u \in adminUsers, v \in s.adminUsers : u.id = v.id
                  /\ s.adminUsers = {} => adminUsers = {} \/ Default \notin s.tenants
    /\ ~began.tenant => Default \notin s.tenants \/ Complete(s)

\* Every snapshot a Seed in progress holds.
SnapsInv == \A p \in Procs : proc[p].pc = "commit" => SnapInv(proc[p].snap)

RaceInv ==
    /\ Kinds(roles)
    /\ seeded => SeededInv
    /\ ~seeded => UnseededInv
    /\ RoleGuarded => Single(roles)
    /\ Guarded => Single(adminUsers)
    /\ ~began.tenant => \A c, d \in clones : c.tenant = d.tenant => c = d
    /\ SnapsInv

-----------------------------------------------------------------------------
(* Seed's FirstOrCreate.                                                   *)

\* A set of row ids has a smallest one.
LEMMA LeastId ==
    ASSUME NEW T, T \subseteq Nat, T # {}
    PROVE  \E x \in T : \A y \in T : x <= y
<1>1. PICK x \in T : \A y \in T : ~(<<y, x>> \in OpToRel(<, Nat))
  BY NatLessThanWellFounded, WFMin
<1>2. \A y \in T : <<y, x>> \in OpToRel(<, Nat) <=> y < x
  BY DEF OpToRel
<1>3. \A y \in T : ~(y < x)
  BY <1>1, <1>2, Zenon
<1>. QED
  BY <1>3

\* FirstOrCreate returns a row of the table, or the new one if it has none.
LEMMA FirstRow ==
    ASSUME NEW table, \A r \in table : r.id \in Nat, NEW fresh
    PROVE  /\ table = {} => First(table, fresh) = fresh
           /\ table # {} => First(table, fresh) \in table
<1>1. ASSUME table # {} PROVE First(table, fresh) \in table
  <2> DEFINE T == {r.id : r \in table}
  <2>1. T \subseteq Nat /\ T # {}
    BY <1>1
  <2>2. PICK x \in T : \A y \in T : x <= y
    BY <2>1, LeastId
  <2>3. \E r \in table : \A s \in table : r.id <= s.id
    BY <2>2
  <2>4. Least(table) \in table
    BY <2>3 DEF Least
  <2>. QED
    BY <1>1, <2>4 DEF First
<1>. QED
  BY <1>1 DEF First

\* The role Seed writes: with a tenant, the one of the snapshot or a new one,
\* super exactly if that was builtin or super.
LEMMA RoleOfSeed ==
    ASSUME NEW s, s.roles \subseteq RoleRow, nextId \in Nat
    PROVE  /\ SeedRole(s) \in RoleRow /\ SeedRole(s).tenant # ""
           /\ SeedRole(s).builtin => SeedRole(s).isSuper
           /\ s.roles = {} => SeedRole(s).tenant = Default /\ SeedRole(s).isSuper
           /\ s.roles # {} => \E r \in s.roles : /\ SeedRole(s).id = r.id
                                                 /\ SeedRole(s).tenant = Home(r)
                                                 /\ SeedRole(s).builtin = r.builtin
                                                 /\ SeedRole(s).isSuper = (r.builtin \/ r.isSuper)
<1>1. PICK r : r = First(s.roles, NewRole)
  OBVIOUS
<1>2. \A x \in s.roles : x.id \in Nat
  BY DEF RoleRow
<1>3. (s.roles = {} => r = NewRole) /\ (s.roles # {} => r \in s.roles)
  BY <1>1, <1>2, FirstRow, Zenon
<1>4. NewRole \in RoleRow /\ NewRole.tenant = Default /\ NewRole.isSuper = TRUE
  BY DEF NewRole, RoleRow, TenantIds
<1>5. r \in RoleRow /\ (s.roles = {} => r.tenant = Default /\ r.isSuper = TRUE)
  BY <1>3, <1>4
<1>6. SeedRole(s) = [r EXCEPT !.tenant = IF @ = "" THEN Default ELSE @, !.isSuper = r.builtin \/ r.isSuper]
  BY <1>1, Zenon DEF SeedRole
<1>7. Default # ""
  BY BootstrapAssumption
<1>8. PICK b \in BOOLEAN : b = (r.builtin \/ r.isSuper)
  BY <1>5 DEF RoleRow
<1>9. SeedRole(s) = [r EXCEPT !.tenant = IF @ = "" THEN Default ELSE @, !.isSuper = b]
  BY <1>6, <1>8, Zenon
<1>10. /\ SeedRole(s) \in RoleRow /\ SeedRole(s).isSuper = b /\ SeedRole(s).tenant = Home(r)
       /\ SeedRole(s).id = r.id /\ SeedRole(s).builtin = r.builtin
  BY <1>5, <1>9 DEF RoleRow, TenantIds, Home
<1>11. Home(r) # "" /\ (s.roles = {} => Home(r) = Default)
  BY <1>5, <1>7 DEF Home
<1>12. SeedRole(s).isSuper = (r.builtin \/ r.isSuper)
  BY <1>8, <1>10, Zenon
<1>. QED
  BY <1>3, <1>5, <1>10, <1>11, <1>12, Zenon

\* The user Seed writes: in the role's tenant, and the one of the snapshot.
SeedUser(s) ==
    [First(s.adminUsers, [id |-> nextId, tenant |-> ""]) EXCEPT !.tenant = SeedRole(s).tenant]

\* It has the role's tenant, and the id of an admin user if there is one.
LEMMA UserOfSeed ==
    ASSUME NEW s, s.adminUsers \subseteq TenantRow, nextId \in Nat, SeedRole(s).tenant \in TenantIds
    PROVE  /\ SeedUser(s) \in TenantRow /\ SeedUser(s).tenant = SeedRole(s).tenant
           /\ s.adminUsers # {} => \E u \in s.adminUsers : SeedUser(s).id = u.id
<1> DEFINE fresh == [id |-> nextId, tenant |-> ""]
<1>1. PICK u : u = First(s.adminUsers, fresh)
  OBVIOUS
<1>2. \A x \in s.adminUsers : x.id \in Nat
  BY DEF TenantRow
<1>3. (s.adminUsers = {} => u = fresh) /\ (s.adminUsers # {} => u \in s.adminUsers)
  BY <1>1, <1>2, FirstRow, Zenon
<1>4. fresh \in TenantRow
  BY DEF TenantRow, TenantIds
<1>5. u \in TenantRow
  BY <1>3, <1>4
<1>. HIDE DEF fresh
<1>6. PICK t : t = SeedRole(s).tenant
  OBVIOUS
<1>7. SeedUser(s) = [u EXCEPT !.tenant = t]
  BY <1>1, <1>6, Zenon DEF SeedUser, fresh
<1>8. t \in TenantIds
  BY <1>6
<1>9. SeedUser(s) \in TenantRow /\ SeedUser(s).tenant = t /\ SeedUser(s).id = u.id
  BY <1>5, <1>7, <1>8 DEF TenantRow
<1>. QED
  BY <1>3, <1>6, <1>9

-----------------------------------------------------------------------------
(* Types are kept.                                                         *)

\* Writing a row into a table of rows.
LEMMA PutType ==
    ASSUME NEW S, NEW table \in SUBSET S, NEW r \in S
    PROVE  Put(table, r) \in SUBSET S
BY DEF Put

\* What a Seed that commits does, by its snapshot.
LEMMA CommitIs ==
    ASSUME NEW p \in Procs, SeedCommit(p), NEW s, s = proc[p].snap
    PROVE  /\ proc[p].pc = "commit" /\ SeedTenants(s) \cap tenants = {}
           /\ rows' = rows \cup {[id |-> nextId, entry |-> e, live |-> TRUE] : e \in MissingSections(s)}
           /\ tenants' = tenants \cup SeedTenants(s)
           /\ clones' = clones \cup TenantSchemas(s)
           /\ roles' = Put(roles, SeedRole(s)) /\ adminUsers' = Put(adminUsers, SeedUser(s))
           /\ grants' = grants \cup SeedGrants(s) /\ ungranted' = ungranted \ grants'
           /\ nextId' = nextId + 1 /\ seeded' = TRUE
           /\ proc' = [proc EXCEPT ![p] = [Off EXCEPT !.pc = "up"]] /\ UNCHANGED <<multi, began>>
BY Zenon DEF SeedCommit, SeedUser

\* The cleanup is the three statements, in a single-tenant deployment.
LEMMA CleanupIs ==
    /\ CleanupSteps \in Seq(STRING \cup Cleanups)
    /\ multi => Range(CleanupSteps) = {}
    /\ ~multi => Range(CleanupSteps) = Cleanups
<1>1. PICK S, a, b, c : /\ S = STRING \cup Cleanups
                        /\ a = "remove menu" /\ b = "purge grants" /\ c = "remove permissions"
  OBVIOUS
<1>2. a \in S /\ b \in S /\ c \in S
  BY <1>1 DEF Cleanups
<1>3. CASE multi
  <2>1. CleanupSteps = <<>> /\ <<>> \in Seq(S)
    BY <1>3 DEF CleanupSteps
  <2>2. Range(<<>>) = {}
    BY EmptySeq, RangeEquality DEF Range
  <2>. QED
    BY <1>1, <1>3, <2>1, <2>2
<1>4. CASE ~multi
  <2>1. CleanupSteps = <<a, b, c>>
    BY <1>1, <1>4, Zenon DEF CleanupSteps
  <2>2. /\ <<a, b, c>> \in Seq(S) /\ Len(<<a, b, c>>) = 3
        /\ <<a, b, c>>[1] = a /\ <<a, b, c>>[2] = b /\ <<a, b, c>>[3] = c
    BY <1>2
  <2>3. PICK q : q = <<a, b, c>>
    OBVIOUS
  <2>4. q \in Seq(S) /\ Len(q) = 3 /\ q[1] = a /\ q[2] = b /\ q[3] = c
    BY <2>2, <2>3, Zenon
  <2>5. Range(q) = {q[i] : i \in 1..Len(q)}
    BY <2>4, RangeEquality
  <2>6. 1..Len(q) = {1, 2, 3}
    BY <2>4
  <2>7. Range(q) = {a, b, c}
    BY <2>4, <2>5, <2>6
  <2>8. Cleanups = {a, b, c}
    BY <1>1, Zenon DEF Cleanups
  <2>. QED
    BY <1>1, <1>4, <2>1, <2>3, <2>4, <2>7, <2>8
<1>. QED
  BY <1>3, <1>4

\* The steps of Setup are the entries of the catalog and the cleanup.
LEMMA StepsAreCatalog ==
    /\ Len(SetupSteps) \in Nat
    /\ \A i \in 1..Len(SetupSteps) : SetupSteps[i] \notin Range(CleanupSteps) => SetupSteps[i] \notin Cleanups
    /\ \A i \in 1..Len(SetupSteps) : SetupSteps[i] \notin Cleanups => SetupSteps[i] \in Catalog
    /\ \A i \in 1..Len(SetupSteps) : SetupSteps[i] \in Cleanups => ~multi
    /\ \A e \in Range(GetModels) \cup Range(Endpoints) :
          e \notin Cleanups /\ \E i \in 1..Len(SetupSteps) : SetupSteps[i] = e
    /\ ~multi => \A c \in Cleanups : \E i \in 1..Len(SetupSteps) : SetupSteps[i] = c
    /\ Catalog \subseteq Entries
    /\ multi => TenantEntries \subseteq Catalog
    /\ ~multi => TenantEntries \cap Catalog = {}
    /\ TenantEntries \subseteq Entries
<1>1. /\ Registered \in Seq(STRING) /\ TenantModel \in Seq(STRING) /\ Endpoints \in Seq(STRING)
      /\ Cleanups \cap (Range(Registered) \cup Range(TenantModel) \cup Range(Endpoints)) = {}
      /\ Range(TenantModel) \cap (Range(Registered) \cup Range(Endpoints) \cup Sections) = {}
  BY BootstrapAssumption, Zenon DEF Cleanups
<1>2. /\ GetModels \in Seq(STRING)
      /\ multi => Range(GetModels) = Range(Registered) \cup Range(TenantModel)
      /\ ~multi => Range(GetModels) = Range(Registered)
  <2>1. CASE multi
    <3>1. GetModels = Registered \o TenantModel
      BY <2>1 DEF GetModels
    <3>2. Registered \o TenantModel \in Seq(STRING)
      BY <1>1, ConcatProperties
    <3>3. Range(Registered \o TenantModel) = Range(Registered) \cup Range(TenantModel)
      BY <1>1, RangeConcatenation
    <3>. QED
      BY <2>1, <3>1, <3>2, <3>3
  <2>2. CASE ~multi
    BY <1>1, <2>2 DEF GetModels
  <2>. QED
    BY <2>1, <2>2
<1>3. PICK m, e, c, S : m = GetModels /\ e = Endpoints /\ c = CleanupSteps /\ S = STRING \cup Cleanups
  OBVIOUS
<1>4. /\ m \in Seq(S) /\ e \in Seq(S) /\ c \in Seq(S)
      /\ SetupSteps = (m \o c) \o e
  <2>1. c \in Seq(S)
    BY <1>3, CleanupIs
  <2>2. SetupSteps = (m \o c) \o e
    BY <1>3, Zenon DEF SetupSteps
  <2>3. STRING \subseteq S
    BY <1>3
  <2>4. m \in Seq(STRING) /\ e \in Seq(STRING)
    BY <1>1, <1>2, <1>3
  <2>5. m \in Seq(S) /\ e \in Seq(S)
    BY <2>3, <2>4, SeqMonotonic
  <2>. QED
    BY <2>1, <2>2, <2>5, Zenon
<1>6. m \o c \in Seq(S) /\ Range(m \o c) = Range(m) \cup Range(c)
  BY <1>4, ConcatProperties, RangeConcatenation
<1>7. SetupSteps \in Seq(S) /\ Range(SetupSteps) = Range(m \o c) \cup Range(e)
  <2>1. PICK h : h = m \o c
    OBVIOUS
  <2>2. h \in Seq(S) /\ SetupSteps = h \o e
    BY <1>4, <1>6, <2>1, Zenon
  <2>3. h \o e \in Seq(S)
    BY <1>4, <2>2, ConcatProperties
  <2>4. Range(h \o e) = Range(h) \cup Range(e)
    BY <1>4, <2>2, RangeConcatenation
  <2>. QED
    BY <2>1, <2>2, <2>3, <2>4, Zenon
<1>8. Range(SetupSteps) = {SetupSteps[i] : i \in 1..Len(SetupSteps)} /\ Len(SetupSteps) \in Nat
  BY <1>7, RangeEquality
<1>9. Range(SetupSteps) = Range(GetModels) \cup Range(CleanupSteps) \cup Range(Endpoints)
  BY <1>3, <1>6, <1>7
<1>10. (multi => Range(CleanupSteps) = {}) /\ (~multi => Range(CleanupSteps) = Cleanups)
  BY CleanupIs
<1>11. \A e1 \in Range(GetModels) \cup Range(Endpoints) : e1 \notin Cleanups
  BY <1>1, <1>2
<1>12. /\ \A e1 \in Range(SetupSteps) : e1 \notin Range(CleanupSteps) => e1 \notin Cleanups
       /\ \A e1 \in Range(SetupSteps) : e1 \notin Cleanups => e1 \in Catalog
       /\ \A e1 \in Range(SetupSteps) : e1 \in Cleanups => ~multi
  BY <1>9, <1>10, <1>11 DEF Catalog
<1>13. /\ \A i \in 1..Len(SetupSteps) : SetupSteps[i] \in Range(SetupSteps)
       /\ \A e1 \in Range(SetupSteps) : \E i \in 1..Len(SetupSteps) : SetupSteps[i] = e1
  BY <1>8, Zenon
<1>14. /\ Range(GetModels) \cup Range(Endpoints) \subseteq Range(SetupSteps)
       /\ ~multi => Cleanups \subseteq Range(SetupSteps)
  BY <1>9, <1>10
<1>15. /\ Catalog \subseteq Entries /\ TenantEntries \subseteq Entries
       /\ multi => TenantEntries \subseteq Catalog
       /\ ~multi => TenantEntries \cap Catalog = {}
  BY <1>1, <1>2 DEF Catalog, Entries, TenantEntries
<1>. QED
  BY <1>8, <1>11, <1>12, <1>13, <1>14, <1>15

\* The menu of the tenant resource and its permissions are its entries.
LEMMA TenantParts ==
    /\ TenantMenu \in TenantEntries /\ TenantPermissions \subseteq TenantEntries
    /\ TenantEntries = TenantPermissions \cup {TenantMenu}
BY BootstrapAssumption DEF TenantEntries, TenantPermissions

\* Whatever the deployment, Setup registers the models it always registers.
LEMMA ModelsRegistered == Range(Registered) \subseteq Range(GetModels)
<1>1. Registered \in Seq(STRING) /\ TenantModel \in Seq(STRING)
  BY BootstrapAssumption
<1>2. CASE multi
  <2>1. Range(Registered \o TenantModel) = Range(Registered) \cup Range(TenantModel)
    BY <1>1, RangeConcatenation
  <2>. QED
    BY <1>2, <2>1 DEF GetModels
<1>3. CASE ~multi
  BY <1>3 DEF GetModels
<1>. QED
  BY <1>2, <1>3

\* The entries of more rows.
LEMMA MoreRows ==
    ASSUME NEW A, NEW B, A \subseteq B
    PROVE  Known(A) \subseteq Known(B) /\ Live(A) \subseteq Live(B)
BY DEF Known, Live

\* A live entry has a row.
LEMMA LiveKnown ==
    ASSUME NEW T
    PROVE  Live(T) \subseteq Known(T)
BY DEF Known, Live

\* The rows Seed inserts add their entries, live.
Fresh(n, E) == {[id |-> n, entry |-> e, live |-> TRUE] : e \in E}

\* Their entries, and no others, become known and live.
LEMMA NewRows ==
    ASSUME NEW T, NEW n, NEW E
    PROVE  /\ Known(T \cup Fresh(n, E)) = Known(T) \cup E
           /\ Live(T \cup Fresh(n, E)) = Live(T) \cup E
<1> USE DEF Fresh
<1>1. \A e \in E : /\ [id |-> n, entry |-> e, live |-> TRUE].entry = e
                   /\ [id |-> n, entry |-> e, live |-> TRUE].live = TRUE
  OBVIOUS
<1>2. Known(T \cup Fresh(n, E)) = Known(T) \cup E
  BY <1>1 DEF Known
<1>3. Live(T \cup Fresh(n, E)) = Live(T) \cup E
  BY <1>1 DEF Live
<1>. HIDE DEF Fresh
<1>. QED
  BY <1>2, <1>3

\* The same of one row.
LEMMA OneRow ==
    ASSUME NEW table, NEW d, d.live = TRUE
    PROVE  Known(table \cup {d}) = Known(table) \cup {d.entry} /\ Live(table \cup {d}) = Live(table) \cup {d.entry}
<1>2. Known(table \cup {d}) = Known(table) \cup {d.entry}
  BY DEF Known
<1>3. Live(table \cup {d}) = Live(table) \cup {d.entry}
  BY DEF Live
<1>. QED
  BY <1>2, <1>3

\* Such rows are rows.
LEMMA RowIsRow ==
    ASSUME NEW n \in Nat, NEW e \in Entries
    PROVE  [id |-> n, entry |-> e, live |-> TRUE] \in Row
BY DEF Row

\* A soft-deleted row is still a row.
LEMMA DeadRow ==
    ASSUME NEW T, T \subseteq Row, NEW r \in T, NEW U, U = (T \ {r}) \cup {[r EXCEPT !.live = FALSE]}
    PROVE  /\ U \subseteq Row /\ Known(U) = Known(T)
           /\ Live(U) \subseteq Live(T) /\ Live(T) \subseteq Live(U) \cup {r.entry}
<1>1. PICK d : d = [r EXCEPT !.live = FALSE]
  OBVIOUS
<1>2. d \in Row /\ d.entry = r.entry /\ d.live = FALSE
  BY <1>1 DEF Row
<1>3. U = (T \ {r}) \cup {d}
  BY <1>1
<1>4. U \subseteq Row
  BY <1>2, <1>3
<1>5. Known(U) = Known(T)
  BY <1>2, <1>3 DEF Known
<1>6. Live(U) \subseteq Live(T)
  BY <1>2, <1>3 DEF Live
<1>7. Live(T) \subseteq Live(U) \cup {r.entry}
  BY <1>3 DEF Live
<1>. QED
  BY <1>4, <1>5, <1>6, <1>7

\* A process that is down, starts its Setup, or has seeded.
LEMMA OffIs ==
    /\ Off \in Process /\ [Off EXCEPT !.pc = "setup"] \in Process /\ [Off EXCEPT !.pc = "up"] \in Process
    /\ Off.pc = "off" /\ [Off EXCEPT !.pc = "setup"].pc = "setup" /\ [Off EXCEPT !.pc = "up"].pc = "up"
    /\ [Off EXCEPT !.pc = "setup"].next = 1
<1>1. NoSnap \in Snap
  BY DEF NoSnap, Snap
<1>2. Off \in Process /\ Off.pc = "off" /\ Off.next = 1
  BY <1>1 DEF Off, Process
<1>3. PICK q : q = Off
  OBVIOUS
<1>4. [q EXCEPT !.pc = "setup"] \in Process /\ [q EXCEPT !.pc = "setup"].pc = "setup"
      /\ [q EXCEPT !.pc = "setup"].next = 1
      /\ [q EXCEPT !.pc = "up"] \in Process /\ [q EXCEPT !.pc = "up"].pc = "up"
  BY <1>2, <1>3 DEF Process
<1>. QED
  BY <1>2, <1>3, <1>4

\* A database begins with rows of the right types.
LEMMA InitType ==
    ASSUME BootInit PROVE BootType
<1>1. nextId = 1 /\ proc = [p \in Procs |-> Off]
  BY DEF BootInit, BootsBegin
<1>2. Off \in Process
  BY OffIs
<1>3. proc \in [Procs -> Process]
  BY <1>1, <1>2
<1>4. CASE FreshDatabase
  BY <1>1, <1>3, <1>4 DEF FreshDatabase, BootType
<1>5. CASE OlderDatabase
  <2>1. PICK left \in {{}, TenantEntries}, t \in {"", Legacy, Default},
             kind \in {"missing", "own", "builtin", "super"}, u \in {{}, {""}} :
            /\ rows = {[id |-> 0, entry |-> e, live |-> TRUE] : e \in left}
            /\ grants = left
            /\ roles = {[id |-> 0, tenant |-> t, builtin |-> kind # "own", isSuper |-> kind = "super"] :
                           k \in {kind} \ {"missing"}}
            /\ adminUsers = {[id |-> 0, tenant |-> x] : x \in u}
            /\ tenants \in {{}, {Default}} /\ clones = {}
    BY <1>5, Zenon DEF OlderDatabase
  <2>2. left \subseteq Entries
    BY StepsAreCatalog
  <2>3. rows \subseteq Row
    <3>1. \A e \in left : [id |-> 0, entry |-> e, live |-> TRUE] \in Row
      BY <2>2, RowIsRow
    <3>. QED
      BY <2>1, <3>1
  <2>4. roles \subseteq RoleRow /\ adminUsers \subseteq TenantRow /\ tenants \subseteq TenantIds
    <3>1. t \in TenantIds /\ (\A x \in u : x \in TenantIds) /\ tenants \subseteq TenantIds
      BY <2>1 DEF TenantIds
    <3>2. [id |-> 0, tenant |-> t, builtin |-> kind # "own", isSuper |-> kind = "super"] \in RoleRow
      BY <3>1 DEF RoleRow
    <3>3. \A x \in u : [id |-> 0, tenant |-> x] \in TenantRow
      BY <3>1 DEF TenantRow
    <3>. QED
      BY <2>1, <3>1, <3>2, <3>3
  <2>. QED
    BY <1>1, <1>3, <2>1, <2>2, <2>3, <2>4 DEF BootType
<1>. QED
  BY <1>4, <1>5 DEF BootInit

\* Every step keeps the types.
LEMMA NextType ==
    ASSUME BootType, SetupInv, [BootNext]_bootVars
    PROVE  BootType'
<1> USE DEF dbState
<1>0. /\ rows \in SUBSET Row /\ tenants \in SUBSET TenantIds /\ clones \in SUBSET TenantRow
      /\ roles \in SUBSET RoleRow /\ adminUsers \in SUBSET TenantRow /\ grants \in SUBSET Entries
      /\ nextId \in Nat /\ proc \in [Procs -> Process]
  BY DEF BootType
<1>o. Off \in Process /\ [Off EXCEPT !.pc = "setup"] \in Process /\ [Off EXCEPT !.pc = "up"] \in Process
  BY OffIs
<1>1. ASSUME NEW p \in Procs, Boot(p) \/ SeedFails(p) \/ ProcCrash(p)
      PROVE  BootType'
  <2>1. /\ proc' = [proc EXCEPT ![p] = Off] \/ proc' = [proc EXCEPT ![p] = [Off EXCEPT !.pc = "setup"]]
        /\ UNCHANGED <<dbState, nextId>>
    BY <1>1 DEF Boot, SeedFails, ProcCrash
  <2>2. proc' \in [Procs -> Process]
    BY <1>0, <1>o, <2>1
  <2>. QED
    BY <1>0, <2>1, <2>2 DEF BootType
<1>2. ASSUME NEW p \in Procs, Lookup(p) PROVE BootType'
  <2>1. proc' \in [Procs -> Process]
    BY <1>0, <1>2, SMTT(30) DEF Lookup, Process
  <2>. QED
    BY <1>0, <1>2, <2>1 DEF BootType, Lookup
<1>3. ASSUME NEW p \in Procs, Insert(p) PROVE BootType'
  <2>1. proc' \in [Procs -> Process] /\ nextId' \in Nat
    BY <1>0, <1>3 DEF Insert, Process
  <2>2. SetupSteps[proc[p].next] \in Entries
    BY <1>3, StepsAreCatalog DEF SetupInv, SetupAt, Insert
  <2>3. rows' \in SUBSET Row
    <3>1. PICK d : d = [id |-> nextId, entry |-> SetupSteps[proc[p].next], live |-> TRUE]
      OBVIOUS
    <3>2. d \in Row
      BY <1>0, <2>2, <3>1, RowIsRow
    <3>3. rows' = rows \cup {d}
      BY <1>3, <3>1 DEF Insert
    <3>. QED
      BY <1>0, <3>2, <3>3
  <2>. QED
    BY <1>0, <1>3, <2>1, <2>3 DEF BootType, Insert
<1>4. ASSUME NEW p \in Procs, Cleanup(p) PROVE BootType'
  <2>1. PICK step : CleanupStep(p, step)
    BY <1>4, Zenon DEF Cleanup, RemoveTenantMenu, PurgeTenantGrants, RemoveTenantPermissions
  <2>2. /\ proc' = [proc EXCEPT ![p].next = @ + 1]
        /\ UNCHANGED <<tenants, clones, roles, adminUsers, nextId>>
    BY <2>1 DEF CleanupStep
  <2>3. proc' \in [Procs -> Process]
    BY <1>0, <2>2 DEF Process
  <2>4. rows' \subseteq rows /\ grants' \subseteq grants
    BY <1>4 DEF Cleanup, RemoveTenantMenu, PurgeTenantGrants, RemoveTenantPermissions
  <2>. QED
    BY <1>0, <2>2, <2>3, <2>4 DEF BootType
<1>5. ASSUME NEW p \in Procs, SeedBegin(p) PROVE BootType'
  <2> DEFINE s == [rows |-> rows, tenants |-> tenants, clones |-> clones, roles |-> roles,
                   adminUsers |-> adminUsers, grants |-> grants]
  <2>1. s \in Snap
    BY <1>0 DEF Snap
  <2>2. proc' = [proc EXCEPT ![p].pc = "commit", ![p].snap = s]
    BY <1>5 DEF SeedBegin
  <2>. HIDE DEF s
  <2>3. proc' \in [Procs -> Process]
    BY <1>0, <2>1, <2>2 DEF Process
  <2>. QED
    BY <1>0, <1>5, <2>3 DEF BootType, SeedBegin
<1>6. ASSUME NEW p \in Procs, SeedCommit(p) PROVE BootType'
  <2>1. PICK s : s = proc[p].snap
    OBVIOUS
  <2>2. /\ rows' = rows \cup {[id |-> nextId, entry |-> e, live |-> TRUE] : e \in MissingSections(s)}
        /\ tenants' = tenants \cup SeedTenants(s)
        /\ clones' = clones \cup TenantSchemas(s)
        /\ roles' = Put(roles, SeedRole(s)) /\ adminUsers' = Put(adminUsers, SeedUser(s))
        /\ grants' = grants \cup SeedGrants(s) /\ nextId' = nextId + 1
        /\ proc' = [proc EXCEPT ![p] = [Off EXCEPT !.pc = "up"]]
    BY <1>6, <2>1, CommitIs
  <2>3. s \in Snap
    BY <1>0, <2>1 DEF Process
  <2>4. /\ s.rows \in SUBSET Row /\ s.tenants \in SUBSET TenantIds /\ s.clones \in SUBSET TenantRow
        /\ s.roles \in SUBSET RoleRow /\ s.adminUsers \in SUBSET TenantRow
    BY <2>3 DEF Snap
  <2>5. SeedRole(s) \in RoleRow /\ SeedRole(s).tenant \in TenantIds
    BY <1>0, <2>4, RoleOfSeed DEF RoleRow
  <2>6. SeedUser(s) \in TenantRow
    BY <1>0, <2>4, <2>5, UserOfSeed
  <2>7. roles' \in SUBSET RoleRow /\ adminUsers' \in SUBSET TenantRow
    BY <1>0, <2>2, <2>5, <2>6, PutType
  <2>8. SeedTenants(s) \subseteq TenantIds
    BY <2>5 DEF SeedTenants, TenantIds
  <2>9. TenantSchemas(s) \subseteq TenantRow
    BY <1>0, <2>4, <2>8 DEF TenantSchemas, TenantRow
  <2>10. MissingSections(s) \subseteq Entries
    BY DEF MissingSections, Entries
  <2>11. rows' \in SUBSET Row
    <3>1. \A e \in MissingSections(s) : [id |-> nextId, entry |-> e, live |-> TRUE] \in Row
      BY <1>0, <2>10, RowIsRow
    <3>. QED
      BY <1>0, <2>2, <3>1
  <2>12. SeedGrants(s) \subseteq Entries
    BY <2>4, <2>10 DEF SeedGrants, FullCatalog, Live, Row
  <2>13. proc' \in [Procs -> Process] /\ nextId' \in Nat
    BY <1>0, <1>o, <2>2
  <2>. QED
    BY <1>0, <2>2, <2>7, <2>8, <2>9, <2>11, <2>12, <2>13 DEF BootType
<1>7. ASSUME NEW r \in rows, DeleteMenu(r) PROVE BootType'
  <2>1. rows' \in SUBSET Row
    BY <1>0, <1>7, DeadRow DEF DeleteMenu
  <2>. QED
    BY <1>0, <1>7, <2>1 DEF BootType, DeleteMenu
<1>8. ASSUME NEW e \in grants, LoseGrant(e) PROVE BootType'
  BY <1>0, <1>8 DEF BootType, LoseGrant
<1>9. CASE UNCHANGED bootVars
  BY <1>0, <1>9 DEF BootType, bootVars
<1>. QED
  BY <1>1, <1>2, <1>3, <1>4, <1>5, <1>6, <1>7, <1>8, <1>9 DEF BootNext

-----------------------------------------------------------------------------
(* Seeds that race.                                                        *)

\* A Seed that is not refused works in the tenant of the roles there are; and
\* it saw the role there is, unless the database had a default tenant and no
\* admin role: the default tenant's row, inserted by whichever Seed created the
\* role, would refuse it.
LEMMA OneRole ==
    ASSUME BootType, RaceInv, NEW s \in Snap, SnapInv(s), SeedTenants(s) \cap tenants = {}
    PROVE  /\ \A r \in roles : SeedRole(s).tenant = Home(r)
           /\ roles = {} => SeedRole(s).tenant = Default
           /\ RoleGuarded => /\ \A r \in roles : SeedRole(s).id = r.id
                             /\ Put(roles, SeedRole(s)) = {SeedRole(s)}
           /\ ~seeded => Put(roles, SeedRole(s)) = {SeedRole(s)}
           /\ {Default, SeedRole(s).tenant} \subseteq tenants \cup SeedTenants(s)
           /\ seeded => Default \in s.tenants
<1>1. PICK R : R = SeedRole(s)
  OBVIOUS
<1>2. s.roles \subseteq RoleRow /\ nextId \in Nat
  BY DEF Snap, BootType
<1>3. /\ s.roles = {} => R.tenant = Default
      /\ s.roles # {} => \E r \in s.roles : R.id = r.id /\ R.tenant = Home(r)
  BY <1>1, <1>2, RoleOfSeed, Zenon
<1>4. SeedTenants(s) = {Default, R.tenant} \ s.tenants
  BY <1>1, Zenon DEF SeedTenants
<1>5. s.tenants \subseteq tenants /\ (roles = {} => s.roles = {}) /\ (~seeded => s.roles = roles)
  BY Zenon DEF SnapInv
<1>6. /\ \A r \in roles, x \in s.roles : Home(r) = Home(x)
      /\ s.roles = {} => \A r \in roles : Home(r) = Default
  BY Zenon DEF SnapInv
<1>7. seeded => Default \in tenants
  BY Zenon DEF RaceInv, SeededInv
<1>8. seeded => Default \in s.tenants
  BY <1>4, <1>7
<1>9. \A r \in roles : R.tenant = Home(r)
  BY <1>3, <1>6
<1>10. roles = {} => R.tenant = Default
  BY <1>3, <1>5
<1>11. ASSUME \A r \in roles : R.id = r.id PROVE Put(roles, R) = {R}
  BY <1>11 DEF Put
<1>12. ASSUME RoleGuarded PROVE \A r \in roles : R.id = r.id
  <2>1. \A r \in roles, x \in s.roles : r.id = x.id
    BY <1>12, Zenon DEF SnapInv
  <2>2. s.roles = {} => roles = {} \/ Default \notin s.tenants
    BY <1>12, Zenon DEF SnapInv
  <2>3. s.roles = {} => roles = {}
    BY <1>5, <1>8, <2>2
  <2>. QED
    BY <1>3, <2>1, <2>3
<1>13. ASSUME ~seeded PROVE \A r \in roles : R.id = r.id
  <2>1. Single(roles)
    BY <1>13, Zenon DEF RaceInv, UnseededInv
  <2>. QED
    BY <1>3, <1>5, <1>13, <2>1 DEF Single
<1>14. {Default, R.tenant} \subseteq tenants \cup SeedTenants(s)
  BY <1>4, <1>5
<1>. QED
  BY <1>1, <1>8, <1>9, <1>10, <1>11, <1>12, <1>13, <1>14, Zenon

\* The role a Seed writes has the kind of those it saw; if it is not the
\* operator's own, the Seed makes it super and grants the catalog.
LEMMA KindOfSeed ==
    ASSUME NEW s \in Snap, nextId \in Nat, Kinds(s.roles)
    PROVE  /\ began.own => ~SeedRole(s).builtin /\ ~SeedRole(s).isSuper
           /\ ~began.own => SeedRole(s).isSuper /\ SeedGrants(s) = FullCatalog(s)
<1>1. PICK R : R = SeedRole(s)
  OBVIOUS
<1>2. s.roles \subseteq RoleRow
  BY DEF Snap
<1>3. /\ s.roles = {} => R.isSuper
      /\ s.roles # {} => \E r \in s.roles : R.builtin = r.builtin /\ R.isSuper = (r.builtin \/ r.isSuper)
  BY <1>1, <1>2, RoleOfSeed, Zenon
<1>4. ASSUME began.own PROVE ~R.builtin /\ ~R.isSuper
  <2>1. s.roles # {} /\ \A r \in s.roles : ~r.builtin /\ ~r.isSuper
    BY <1>4, Zenon DEF Kinds
  <2>. QED
    BY <1>3, <2>1, Zenon
<1>5. ASSUME ~began.own PROVE R.isSuper
  <2>1. \A r \in s.roles : r.builtin \/ r.isSuper
    BY <1>5, Zenon DEF Kinds
  <2>. QED
    BY <1>3, <2>1, Zenon
<1>6. ASSUME R.isSuper PROVE SeedGrants(s) = FullCatalog(s)
  <2>1. R \in Put(s.roles, R)
    BY DEF Put
  <2>. QED
    BY <1>1, <1>6, <2>1, Zenon DEF SeedGrants
<1>. QED
  BY <1>1, <1>4, <1>5, <1>6, Zenon

\* Its users are in the role's tenant, and there is one, unless the database
\* had a default tenant and no admin user.
LEMMA OneUser ==
    ASSUME BootType, RaceInv, NEW s \in Snap, SnapInv(s), SeedTenants(s) \cap tenants = {}
    PROVE  /\ \A u \in Put(adminUsers, SeedUser(s)) : u.tenant = SeedRole(s).tenant
           /\ Put(adminUsers, SeedUser(s)) # {}
           /\ Guarded => /\ Put(adminUsers, SeedUser(s)) = {SeedUser(s)}
                         /\ \A u \in adminUsers : u.id = SeedUser(s).id
<1>1. PICK R, U, A : R = SeedRole(s) /\ U = SeedUser(s) /\ A = Put(adminUsers, SeedUser(s))
  OBVIOUS
<1>2. s.roles \subseteq RoleRow /\ s.adminUsers \subseteq TenantRow /\ nextId \in Nat
  BY DEF Snap, BootType
<1>3. SeedRole(s).tenant \in TenantIds
  BY <1>2, RoleOfSeed DEF RoleRow
<1>4. /\ U.tenant = R.tenant
      /\ s.adminUsers # {} => \E u \in s.adminUsers : U.id = u.id
  BY <1>1, <1>2, <1>3, UserOfSeed, Zenon
<1>5. A = {x \in adminUsers : x.id # U.id} \cup {U}
  BY <1>1, Zenon DEF Put
<1>6. \A r \in roles : R.tenant = Home(r)
  BY <1>1, OneRole, Zenon
<1>7. ~seeded => s.adminUsers = adminUsers /\ Single(adminUsers)
  BY Zenon DEF SnapInv, RaceInv, UnseededInv
<1>8. seeded => roles # {} /\ \A r \in roles : r.tenant # "" /\ \A u \in adminUsers : u.tenant = r.tenant
  BY Zenon DEF RaceInv, SeededInv
<1>9. \A u \in A : u.tenant = R.tenant
  <2>1. CASE seeded
    BY <1>4, <1>5, <1>6, <1>8, <2>1 DEF Home
  <2>2. CASE ~seeded
    BY <1>4, <1>5, <1>7, <2>2 DEF Single
  <2>. QED
    BY <2>1, <2>2
<1>10. ASSUME Guarded PROVE A = {U} /\ \A u \in adminUsers : u.id = U.id
  <2>1. \A u \in adminUsers, v \in s.adminUsers : u.id = v.id
    BY <1>10, Zenon DEF SnapInv
  <2>2. s.adminUsers = {} => adminUsers = {} \/ Default \notin s.tenants
    BY <1>10, Zenon DEF SnapInv
  <2>3. seeded => Default \in s.tenants
    BY OneRole, Zenon
  <2>4. s.adminUsers = {} => adminUsers = {}
    BY <1>7, <2>2, <2>3
  <2>5. \A u \in adminUsers : u.id = U.id
    BY <1>4, <2>1, <2>4
  <2>. QED
    BY <1>5, <2>5
<1>11. A # {}
  BY <1>5
<1>. QED
  BY <1>1, <1>9, <1>10, <1>11, Zenon

\* It leaves every tenant with a copy of the templates, and with one copy,
\* unless the database had a default tenant.
LEMMA OneCopy ==
    ASSUME BootType, RaceInv, NEW s \in Snap, SnapInv(s), SeedTenants(s) \cap tenants = {}
    PROVE  /\ ~began.tenant => \A c, d \in clones \cup TenantSchemas(s) : c.tenant = d.tenant => c = d
           /\ multi => tenants \cup SeedTenants(s) \subseteq Cloned(clones \cup TenantSchemas(s))
<1>1. PICK T, C, L, n : /\ T = SeedTenants(s) /\ C = TenantSchemas(s) /\ n = nextId
                        /\ L = (s.tenants \cup SeedTenants(s)) \ {c.tenant : c \in s.clones}
  OBVIOUS
<1>2. C = IF multi THEN {[id |-> n, tenant |-> x] : x \in L} ELSE {}
  BY <1>1, Zenon DEF TenantSchemas
<1>3. \A x \in L : [id |-> n, tenant |-> x].tenant = x
  OBVIOUS
<1>4. L = (s.tenants \cup T) \ Cloned(s.clones)
  BY <1>1, Zenon DEF Cloned
<1>5. s.clones \subseteq clones
  BY Zenon DEF SnapInv
<1>6. ASSUME multi PROVE tenants \cup T \subseteq Cloned(clones \cup C)
  <2>1. Cloned(C) = L
    BY <1>2, <1>3, <1>6 DEF Cloned
  <2>2. Cloned(clones \cup C) = Cloned(clones) \cup Cloned(C)
    BY DEF Cloned
  <2>3. Cloned(s.clones) \subseteq Cloned(clones)
    BY <1>5 DEF Cloned
  <2>4. seeded => tenants \subseteq Cloned(clones)
    BY <1>6, Zenon DEF RaceInv, SeededInv
  <2>5. ~seeded => s.tenants = tenants
    BY Zenon DEF SnapInv
  <2>. QED
    BY <1>4, <2>1, <2>2, <2>3, <2>4, <2>5
<1>7. ASSUME ~began.tenant PROVE \A c, d \in clones \cup C : c.tenant = d.tenant => c = d
  <2>1. CASE seeded
    <3>1. Default \in s.tenants
      BY <2>1, OneRole, Zenon
    <3>2. Complete(s)
      BY <1>7, <3>1, Zenon DEF SnapInv
    <3>3. /\ s.roles # {} /\ \A r \in s.roles : Home(r) \in s.tenants
          /\ multi => s.tenants \subseteq Cloned(s.clones)
      BY <3>2, Zenon DEF Complete
    <3>4. s.roles # {} => \E r \in s.roles : SeedRole(s).tenant = Home(r)
      <4>1. s.roles \subseteq RoleRow /\ nextId \in Nat
        BY DEF Snap, BootType
      <4>. QED
        BY <4>1, RoleOfSeed, Zenon
    <3>5. SeedRole(s).tenant \in s.tenants
      BY <3>3, <3>4
    <3>6. T = {}
      BY <1>1, <3>1, <3>5 DEF SeedTenants
    <3>7. multi => L = {}
      BY <1>4, <3>3, <3>6
    <3>8. C = {}
      BY <1>2, <3>7
    <3>9. \A c, d \in clones : c.tenant = d.tenant => c = d
      BY <1>7, Zenon DEF RaceInv
    <3>. QED
      BY <3>8, <3>9
  <2>2. CASE ~seeded
    <3>1. clones = {}
      BY <2>2, Zenon DEF RaceInv, UnseededInv
    <3>2. \A c \in C : c = [id |-> n, tenant |-> c.tenant]
      BY <1>2, <1>3
    <3>. QED
      BY <3>1, <3>2
  <2>. QED
    BY <2>1, <2>2
<1>. QED
  BY <1>1, <1>6, <1>7, Zenon

\* A snapshot another process holds stays in step with what the Seed wrote.
LEMMA OtherSnaps ==
    ASSUME BootType, RaceInv, NEW s \in Snap, SnapInv(s), NEW z, SnapInv(z),
           NEW p \in Procs, SeedCommit(p), s = proc[p].snap
    PROVE  SnapInv(z)'
<1>1. PICK R, U : R = SeedRole(s) /\ U = SeedUser(s)
  OBVIOUS
<1>2. /\ SeedTenants(s) \cap tenants = {}
      /\ tenants \subseteq tenants' /\ clones \subseteq clones'
      /\ roles' = Put(roles, SeedRole(s)) /\ adminUsers' = Put(adminUsers, SeedUser(s))
      /\ seeded' = TRUE /\ multi' = multi /\ began' = began
  BY CommitIs
<1>3. /\ roles = {} => R.tenant = Default
      /\ \A r \in roles : R.tenant = Home(r)
      /\ RoleGuarded => roles' = {R} /\ \A r \in roles : R.id = r.id
  BY <1>1, <1>2, OneRole, Zenon
<1>4. Home(R) = R.tenant
  <2>1. s.roles \subseteq RoleRow /\ nextId \in Nat
    BY DEF Snap, BootType
  <2>2. R.tenant # ""
    BY <1>1, <2>1, RoleOfSeed, Zenon
  <2>. QED
    BY <2>2 DEF Home
<1>p. roles' \subseteq roles \cup {R} /\ roles' # {}
  BY <1>1, <1>2 DEF Put
<1>5. Guarded => adminUsers' = {U} /\ \A u \in adminUsers : u.id = U.id
  BY <1>1, <1>2, OneUser, Zenon
<1>6. z.clones \subseteq clones' /\ z.tenants \subseteq tenants' /\ Kinds(z.roles)
  BY <1>2 DEF SnapInv
<1>7. \A r \in roles', x \in z.roles : Home(r) = Home(x)
  <2>1. \A r \in roles, x \in z.roles : Home(r) = Home(x)
    BY Zenon DEF SnapInv
  <2>2. roles = {} => z.roles = {}
    BY Zenon DEF SnapInv
  <2>3. \A x \in z.roles : R.tenant = Home(x)
    BY <1>3, <2>1, <2>2
  <2>. QED
    BY <1>p, <1>4, <2>1, <2>3
<1>8. z.roles = {} => \A r \in roles' : Home(r) = Default
  <2>1. z.roles = {} => \A r \in roles : Home(r) = Default
    BY Zenon DEF SnapInv
  <2>2. z.roles = {} => R.tenant = Default
    BY <1>3, <2>1
  <2>. QED
    BY <1>p, <1>4, <2>1, <2>2
<1>r. ASSUME RoleGuarded
      PROVE  /\ Single(z.roles) /\ \A r \in roles', x \in z.roles : r.id = x.id
             /\ z.roles = {} => Default \notin z.tenants
  <2>1. /\ Single(z.roles) /\ \A r \in roles, x \in z.roles : r.id = x.id
        /\ z.roles = {} => roles = {} \/ Default \notin z.tenants
    BY <1>r, Zenon DEF SnapInv
  <2>2. roles = {} => z.roles = {}
    BY Zenon DEF SnapInv
  <2>3. \A x \in z.roles : R.id = x.id
    BY <1>3, <1>r, <2>1, <2>2
  <2>4. roles = {} => Default \notin z.tenants
    <3>1. ~seeded => (began.tenant <=> Default \in tenants) /\ (began.role <=> roles # {})
      BY Zenon DEF RaceInv, UnseededInv
    <3>2. (seeded => roles # {}) /\ (~seeded => z.tenants = tenants)
      BY Zenon DEF RaceInv, SeededInv, SnapInv
    <3>. QED
      BY <1>r, <3>1, <3>2 DEF RoleGuarded
  <2>. QED
    BY <1>3, <1>r, <2>1, <2>3, <2>4
<1>9. seeded => adminUsers # {}
  BY Zenon DEF RaceInv, SeededInv
<1>10. ~seeded => z.adminUsers = adminUsers /\ z.tenants = tenants
  BY Zenon DEF SnapInv
<1>11. ASSUME Guarded
       PROVE  /\ Single(z.adminUsers) /\ \A u \in adminUsers', v \in z.adminUsers : u.id = v.id
              /\ z.adminUsers = {} => Default \notin z.tenants
  <2>1. /\ Single(z.adminUsers) /\ \A u \in adminUsers, v \in z.adminUsers : u.id = v.id
        /\ z.adminUsers = {} => adminUsers = {} \/ Default \notin z.tenants
    BY <1>11, Zenon DEF SnapInv
  <2>2. adminUsers = {} => z.adminUsers = {}
    BY <1>9, <1>10
  <2>3. \A v \in z.adminUsers : U.id = v.id
    BY <1>5, <1>11, <2>1, <2>2
  <2>4. adminUsers = {} => Default \notin z.tenants
    <3>1. ~seeded => (began.tenant <=> Default \in tenants) /\ (began.user <=> adminUsers # {})
      BY Zenon DEF RaceInv, UnseededInv
    <3>. QED
      BY <1>9, <1>10, <1>11, <3>1 DEF Guarded
  <2>. QED
    BY <1>5, <1>11, <2>1, <2>3, <2>4
<1>12. ~began.tenant => Default \notin z.tenants \/ Complete(z)
  BY Zenon DEF SnapInv
<1>13. /\ (Guarded' <=> Guarded) /\ (RoleGuarded' <=> RoleGuarded)
       /\ Complete(z)' <=> Complete(z)
       /\ Kinds(z.roles)' <=> Kinds(z.roles)
  BY <1>2 DEF Guarded, RoleGuarded, Complete, Cloned, Home, Kinds
<1>. QED
  BY <1>2, <1>p, <1>6, <1>7, <1>8, <1>r, <1>11, <1>12, <1>13, Zenon DEF SnapInv, Single, Home

\* The snapshots held after a step.
LEMMA SnapsAfter ==
    ASSUME \A q \in Procs : \A z : proc'[q].pc = "commit" /\ z = proc'[q].snap => SnapInv(z)'
    PROVE  SnapsInv'
BY DEF SnapsInv, SnapInv, Single, Home, Guarded, RoleGuarded, Kinds, Complete, Cloned

\* A Seed that commits leaves a database that has converged.
LEMMA CommitRace ==
    ASSUME BootType, RaceInv, NEW p \in Procs, SeedCommit(p)
    PROVE  RaceInv'
<1>1. PICK s : s = proc[p].snap
  OBVIOUS
<1>2. /\ proc[p].pc = "commit" /\ SeedTenants(s) \cap tenants = {}
      /\ tenants' = tenants \cup SeedTenants(s)
      /\ clones' = clones \cup TenantSchemas(s)
      /\ roles' = Put(roles, SeedRole(s)) /\ adminUsers' = Put(adminUsers, SeedUser(s))
      /\ seeded' = TRUE /\ multi' = multi /\ began' = began
      /\ proc' = [proc EXCEPT ![p] = [Off EXCEPT !.pc = "up"]]
  BY <1>1, CommitIs
<1>3. s \in Snap /\ s.roles \subseteq RoleRow /\ nextId \in Nat
  BY <1>1 DEF BootType, Process, Snap
<1>4. SnapInv(s)
  BY <1>1, <1>2, Zenon DEF RaceInv, SnapsInv
<1>5. PICK R : R = SeedRole(s)
  OBVIOUS
<1>6. R.tenant # "" /\ (R.builtin => R.isSuper)
  BY <1>3, <1>5, RoleOfSeed, Zenon
<1>7. /\ roles' = {x \in roles : x.id # R.id} \cup {R} /\ {Default, R.tenant} \subseteq tenants'
      /\ \A r \in roles : R.tenant = Home(r)
      /\ RoleGuarded => roles' = {R}
      /\ ~seeded => roles' = {R}
  BY <1>2, <1>3, <1>4, <1>5, OneRole, Zenon DEF Put
<1>k. Kinds(roles') /\ R \in roles'
  <2>1. Kinds(roles)
    BY Zenon DEF RaceInv
  <2>2. /\ began.own => ~R.builtin /\ ~R.isSuper
        /\ ~began.own => R.isSuper
    BY <1>3, <1>4, <1>5, KindOfSeed, Zenon DEF SnapInv
  <2>3. R \in roles' /\ roles' \subseteq roles \cup {R}
    BY <1>7
  <2>. QED
    BY <2>1, <2>2, <2>3 DEF Kinds
<1>r. \A r \in roles' : /\ r.builtin => r.isSuper
                        /\ r.tenant # "" /\ r.tenant \in tenants' /\ r.tenant = R.tenant
  <2>1. R.tenant \in tenants'
    BY <1>7
  <2>2. CASE ~seeded
    BY <1>6, <1>7, <2>1, <2>2
  <2>3. CASE seeded
    <3>1. \A r \in roles : (r.builtin => r.isSuper) /\ r.tenant # "" /\ r.tenant \in tenants
      BY <2>3, Zenon DEF RaceInv, SeededInv
    <3>2. tenants \subseteq tenants'
      BY <1>2
    <3>3. \A r \in roles : r.tenant = R.tenant
      BY <1>7, <3>1 DEF Home
    <3>4. roles' \subseteq roles \cup {R}
      BY <1>7
    <3>. QED
      BY <1>6, <2>1, <3>1, <3>2, <3>3, <3>4
  <2>. QED
    BY <2>2, <2>3
<1>8. /\ adminUsers' # {} /\ \A u \in adminUsers' : u.tenant = R.tenant
      /\ Guarded => adminUsers' = {SeedUser(s)}
  BY <1>2, <1>3, <1>4, <1>5, OneUser, Zenon
<1>9. /\ ~began.tenant => \A c, d \in clones' : c.tenant = d.tenant => c = d
      /\ multi => tenants' \subseteq Cloned(clones')
  BY <1>2, <1>3, <1>4, OneCopy, Zenon
<1>10. SeededInv'
  <2>1. Default \in tenants' /\ roles' # {} /\ adminUsers' # {}
    BY <1>7, <1>8
  <2>2. \A r \in roles' : \A u \in adminUsers' : u.tenant = r.tenant
    BY <1>8, <1>r
  <2>. QED
    BY <1>2, <1>9, <1>r, <2>1, <2>2 DEF SeededInv, Cloned
<1>11. (Guarded' => Single(adminUsers)') /\ (RoleGuarded' => Single(roles)')
  BY <1>2, <1>7, <1>8 DEF Guarded, RoleGuarded, Single
<1>13. Kinds(roles)'
  BY <1>2, <1>k DEF Kinds
<1>12. SnapsInv'
  <2>1. SUFFICES ASSUME NEW q \in Procs, NEW z, proc'[q].pc = "commit", z = proc'[q].snap
                 PROVE  SnapInv(z)'
    BY SnapsAfter
  <2>2. q # p /\ proc'[q] = proc[q]
    BY <1>2, <2>1, OffIs DEF BootType
  <2>3. SnapInv(z)
    BY <2>1, <2>2, Zenon DEF RaceInv, SnapsInv
  <2>. QED
    BY <1>1, <1>3, <1>4, <2>3, OtherSnaps, Zenon
<1>. QED
  BY <1>2, <1>9, <1>10, <1>11, <1>12, <1>13 DEF RaceInv

\* A step that leaves the rows of Seed alone keeps what the snapshots it leaves
\* alone say of them.
LEMMA QuietRace ==
    ASSUME RaceInv, UNCHANGED <<multi, tenants, clones, roles, adminUsers, began, seeded>>,
           \A p \in Procs : proc'[p].pc = "commit" => SnapInv(proc'[p].snap)
    PROVE  RaceInv'
<1>1. \A z : SnapInv(z) => SnapInv(z)'
  <2>1. TAKE z
  <2>2. (Guarded' <=> Guarded) /\ (RoleGuarded' <=> RoleGuarded)
    BY DEF Guarded, RoleGuarded
  <2>3. Kinds(z.roles)' <=> Kinds(z.roles)
    BY DEF Kinds
  <2>4. Complete(z)' <=> Complete(z)
    BY DEF Complete, Cloned, Home
  <2>. QED
    BY <2>2, <2>3, <2>4 DEF SnapInv, Single, Home
<1>2. SnapsInv'
  <2>1. \A q \in Procs : \A z : proc'[q].pc = "commit" /\ z = proc'[q].snap => SnapInv(z)'
    BY <1>1
  <2>. QED
    BY <2>1, SnapsAfter
<1>3. (SeededInv => SeededInv') /\ (UnseededInv => UnseededInv')
  BY DEF SeededInv, UnseededInv, Cloned, Single
<1>4. (Guarded' <=> Guarded) /\ (RoleGuarded' <=> RoleGuarded) /\ (Kinds(roles)' <=> Kinds(roles))
  BY DEF Guarded, RoleGuarded, Kinds
<1>. QED
  BY <1>2, <1>3, <1>4 DEF RaceInv, Single

\* The snapshot a Seed takes is the database of now.
LEMMA FreshSnap ==
    ASSUME RaceInv, NEW s, s.tenants = tenants, s.clones = clones, s.roles = roles,
           s.adminUsers = adminUsers
    PROVE  SnapInv(s)
<1>1. Kinds(roles) /\ (RoleGuarded => Single(roles)) /\ (Guarded => Single(adminUsers))
  BY Zenon DEF RaceInv
<1>h. \A r, t \in roles : Home(r) = Home(t)
  <2>1. CASE seeded
    <3>1. SeededInv
      BY <2>1, Zenon DEF RaceInv
    <3>2. PICK u : u \in adminUsers
      BY <3>1 DEF SeededInv
    <3>3. \A r \in roles : r.tenant = u.tenant
      BY <3>1, <3>2 DEF SeededInv
    <3>. QED
      BY <3>3 DEF Home
  <2>2. CASE ~seeded
    <3>1. Single(roles)
      BY <2>2, Zenon DEF RaceInv, UnseededInv
    <3>. QED
      BY <3>1 DEF Single
  <2>. QED
    BY <2>1, <2>2
<1>2. ASSUME ~began.tenant, Default \in tenants PROVE Complete(s)
  <2>1. seeded
    BY <1>2, Zenon DEF RaceInv, UnseededInv
  <2>2. SeededInv
    BY <2>1, Zenon DEF RaceInv
  <2>. QED
    BY <2>2 DEF SeededInv, Complete, Home
<1>. QED
  BY <1>1, <1>h, <1>2 DEF SnapInv, Single

\* A database begins with at most one admin role and one admin user, and no copies.
LEMMA InitRace ==
    ASSUME BootInit PROVE RaceInv
<1>1. /\ proc = [p \in Procs |-> Off] /\ seeded = FALSE
      /\ began = [tenant |-> Default \in tenants, role |-> roles # {}, user |-> adminUsers # {},
                  own |-> \E r \in roles : ~r.builtin /\ ~r.isSuper]
  BY DEF BootInit, BootsBegin
<1>2. \A p \in Procs : proc[p].pc # "commit"
  BY <1>1, OffIs
<1>3. /\ began.tenant = (Default \in tenants) /\ began.user = (adminUsers # {})
      /\ began.role = (roles # {}) /\ began.own = (\E r \in roles : ~r.builtin /\ ~r.isSuper)
  BY <1>1, Zenon
<1>4. /\ Single(roles) /\ Single(adminUsers) /\ clones = {} /\ tenants \subseteq {Default}
  <2>1. CASE FreshDatabase
    BY <2>1 DEF FreshDatabase, Single
  <2>2. CASE OlderDatabase
    BY <2>2 DEF OlderDatabase, Single
  <2>. QED
    BY <2>1, <2>2 DEF BootInit
<1>5. Kinds(roles)
  BY <1>3, <1>4, Zenon DEF Kinds, Single
<1>. QED
  BY <1>1, <1>2, <1>3, <1>4, <1>5 DEF RaceInv, UnseededInv, SnapsInv

\* Every step keeps the boots converging.
LEMMA NextRace ==
    ASSUME BootType, RaceInv, [BootNext]_bootVars
    PROVE  RaceInv'
<1> USE DEF dbState
<1>0. proc \in [Procs -> Process]
  BY DEF BootType
<1>1. \A p \in Procs : proc[p].pc = "commit" => SnapInv(proc[p].snap)
  BY DEF RaceInv, SnapsInv
<1>2. ASSUME NEW p \in Procs, Boot(p) \/ SeedFails(p) \/ ProcCrash(p) PROVE RaceInv'
  <2>1. /\ proc' = [proc EXCEPT ![p] = Off] \/ proc' = [proc EXCEPT ![p] = [Off EXCEPT !.pc = "setup"]]
        /\ UNCHANGED <<multi, tenants, clones, roles, adminUsers, began, seeded>>
    BY <1>2 DEF Boot, SeedFails, ProcCrash
  <2>2. \A q \in Procs : proc'[q].pc = "commit" => SnapInv(proc'[q].snap)
    BY <1>0, <1>1, <2>1, OffIs
  <2>. QED
    BY <2>1, <2>2, QuietRace
<1>3. ASSUME NEW p \in Procs, Lookup(p) \/ Insert(p) \/ Cleanup(p) PROVE RaceInv'
  <2>0. Cleanup(p) => \E step : CleanupStep(p, step)
    BY Zenon DEF Cleanup, RemoveTenantMenu, PurgeTenantGrants, RemoveTenantPermissions
  <2>1. UNCHANGED <<multi, tenants, clones, roles, adminUsers, began, seeded>>
    BY <1>3, <2>0 DEF Lookup, Insert, CleanupStep
  <2>2. proc'[p].pc # "commit" /\ \A q \in Procs \ {p} : proc'[q] = proc[q]
    BY <1>0, <1>3, <2>0 DEF Lookup, Insert, CleanupStep, Process
  <2>3. \A q \in Procs : proc'[q].pc = "commit" => SnapInv(proc'[q].snap)
    BY <1>1, <2>2
  <2>. QED
    BY <2>1, <2>3, QuietRace
<1>4. ASSUME NEW p \in Procs, SeedBegin(p) PROVE RaceInv'
  <2>1. PICK s : s = [rows |-> rows, tenants |-> tenants, clones |-> clones, roles |-> roles,
                      adminUsers |-> adminUsers, grants |-> grants]
    OBVIOUS
  <2>2. s.tenants = tenants /\ s.clones = clones /\ s.roles = roles /\ s.adminUsers = adminUsers
    BY <2>1
  <2>3. SnapInv(s)
    BY <2>2, FreshSnap
  <2>4. /\ proc' = [proc EXCEPT ![p].pc = "commit", ![p].snap = s]
        /\ UNCHANGED <<multi, tenants, clones, roles, adminUsers, began, seeded>>
    BY <1>4, <2>1 DEF SeedBegin
  <2>5. proc'[p].snap = s /\ \A q \in Procs \ {p} : proc'[q] = proc[q]
    BY <1>0, <2>4 DEF Process
  <2>6. \A q \in Procs : proc'[q].pc = "commit" => SnapInv(proc'[q].snap)
    BY <1>1, <2>3, <2>5
  <2>. QED
    BY <2>4, <2>6, QuietRace
<1>5. ASSUME NEW p \in Procs, SeedCommit(p) PROVE RaceInv'
  BY <1>5, CommitRace
<1>6. ASSUME \/ \E r \in rows : DeleteMenu(r)
             \/ \E e \in grants : LoseGrant(e)
             \/ UNCHANGED bootVars
      PROVE  RaceInv'
  <2>1. UNCHANGED <<proc, multi, tenants, clones, roles, adminUsers, began, seeded>>
    BY <1>6 DEF DeleteMenu, LoseGrant, bootVars
  <2>. QED
    BY <1>1, <2>1, QuietRace
<1>. QED
  BY <1>2, <1>3, <1>4, <1>5, <1>6 DEF BootNext

\* A table whose rows are all the same has at most one.
LEMMA SingleCount ==
    ASSUME NEW T, Single(T)
    PROVE  Cardinality(T) <= 1
<1>1. CASE T = {}
  BY <1>1, FS_EmptySet
<1>2. CASE T # {}
  <2>1. PICK x : x \in T
    BY <1>2
  <2>2. T = {x}
    BY <2>1 DEF Single
  <2>. QED
    BY <2>2, FS_Singleton
<1>. QED
  BY <1>1, <1>2

-----------------------------------------------------------------------------
(* The super role covers the catalog.                                      *)

\* A statement of the cleanup runs in a single-tenant deployment, takes rows and
\* grants of the tenant resource alone, and leaves none of those it is to take.
LEMMA CleanupDoes ==
    ASSUME BootType, NEW p \in Procs, Cleanup(p)
    PROVE  /\ ~multi /\ proc[p].pc = "setup" /\ proc[p].next \in 1..Len(SetupSteps)
           /\ proc' = [proc EXCEPT ![p].next = @ + 1] /\ UNCHANGED <<multi, ungranted, seeded, began>>
           /\ rows' \subseteq rows /\ \A r \in rows : r.entry \notin TenantEntries => r \in rows'
           /\ grants \ TenantEntries \subseteq grants'
           /\ MenuOnce => Ensured(proc[p].next, rows')
<1> USE DEF dbState
<1>1. PICK step \in Cleanups : CleanupStep(p, step)
  BY Zenon DEF Cleanup, RemoveTenantMenu, PurgeTenantGrants, RemoveTenantPermissions, Cleanups
<1>2. PICK i : i = proc[p].next
  OBVIOUS
<1>3. /\ proc[p].pc = "setup" /\ i <= Len(SetupSteps) /\ SetupSteps[i] = step
      /\ proc' = [proc EXCEPT ![p].next = @ + 1] /\ UNCHANGED <<multi, ungranted, seeded, began>>
  BY <1>1, <1>2 DEF CleanupStep
<1>4. i \in Nat \ {0} /\ Len(SetupSteps) \in Nat
  BY <1>2, StepsAreCatalog DEF BootType, Process
<1>5. i \in 1..Len(SetupSteps) /\ ~multi
  <2>1. i \in 1..Len(SetupSteps)
    BY <1>3, <1>4
  <2>. QED
    BY <1>1, <1>3, <2>1, StepsAreCatalog
<1>6. \A r \in rows : r.id \in Nat
  BY DEF BootType, Row
<1>7. CASE RemoveTenantMenu(p)
  <2> DEFINE found == {r \in rows : r.entry = TenantMenu}
  <2>1. SetupSteps[i] = "remove menu"
    BY <1>2, <1>7 DEF RemoveTenantMenu, CleanupStep
  <2>2. \/ found = {} /\ rows' = rows /\ grants' = grants
        \/ found # {} /\ rows' = rows \ {Least(found)} /\ grants' = grants \ {TenantMenu}
    BY <1>7 DEF RemoveTenantMenu
  <2>3. found # {} => Least(found) \in found
    <3>1. PICK T : T = found
      OBVIOUS
    <3>2. \A r \in T : r.id \in Nat
      BY <1>6, <3>1
    <3>3. T # {} => First(T, T) \in T /\ First(T, T) = Least(T)
      BY <3>2, FirstRow, Zenon DEF First
    <3>. QED
      BY <3>1, <3>3, Zenon
  <2>4. rows' \subseteq rows /\ \A r \in rows : r.entry \notin TenantEntries => r \in rows'
    BY <2>2, <2>3, TenantParts
  <2>5. grants \ TenantEntries \subseteq grants'
    BY <2>2, TenantParts
  <2>6. ASSUME MenuOnce PROVE TenantMenu \notin Known(rows')
    <3>1. \A r, s \in found : r = s
      BY <1>5, <2>6 DEF MenuOnce
    <3>2. \A r \in rows' : r.entry # TenantMenu
      BY <2>2, <2>3, <3>1
    <3>. QED
      BY <3>2 DEF Known
  <2>7. MenuOnce => Ensured(i, rows')
    BY <2>1, <2>6 DEF Ensured, Cleanups
  <2>. QED
    BY <1>2, <1>3, <1>5, <2>4, <2>5, <2>7
<1>8. CASE PurgeTenantGrants(p)
  <2>1. SetupSteps[i] = "purge grants" /\ rows' = rows /\ grants' = grants \ TenantPermissions
    BY <1>2, <1>8 DEF PurgeTenantGrants, CleanupStep
  <2>2. Ensured(i, rows')
    BY <2>1 DEF Ensured, Cleanups
  <2>3. grants \ TenantEntries \subseteq grants'
    BY <2>1, TenantParts
  <2>. QED
    BY <1>2, <1>3, <1>5, <2>1, <2>2, <2>3
<1>9. CASE RemoveTenantPermissions(p)
  <2>1. /\ SetupSteps[i] = "remove permissions" /\ grants' = grants
        /\ rows' = {r \in rows : r.entry \notin TenantPermissions}
    BY <1>2, <1>9 DEF RemoveTenantPermissions, CleanupStep
  <2>2. TenantPermissions \cap Known(rows') = {}
    BY <2>1 DEF Known
  <2>3. Ensured(i, rows')
    BY <2>1, <2>2 DEF Ensured, Cleanups
  <2>4. rows' \subseteq rows /\ \A r \in rows : r.entry \notin TenantEntries => r \in rows'
    BY <2>1, TenantParts
  <2>. QED
    BY <1>2, <1>3, <1>5, <2>1, <2>3, <2>4
<1>. QED
  BY <1>7, <1>8, <1>9 DEF Cleanup

\* The deployment does not change its mind, no step forgets an entry of the
\* catalog or the account of one, and none brings the tenant resource back
\* where no boot inserts it.
LEMMA NothingForgotten ==
    ASSUME BootType, SetupInv, [BootNext]_bootVars
    PROVE  /\ multi' = multi
           /\ Catalog \cap Known(rows) \subseteq Known(rows')
           /\ Catalog \cap Accounted \subseteq Accounted'
           /\ ~multi => TenantEntries \cap Known(rows') \subseteq Known(rows)
<1> USE DEF dbState
<1>1. CASE UNCHANGED <<multi, rows, grants, ungranted>>
  BY <1>1 DEF Accounted
<1>2. ASSUME NEW p \in Procs, Insert(p)
      PROVE  /\ multi' = multi /\ Known(rows) \subseteq Known(rows') /\ Accounted' = Accounted
             /\ ~multi => TenantEntries \cap Known(rows') \subseteq Known(rows)
  <2>1. PICK e : e = SetupSteps[proc[p].next]
    OBVIOUS
  <2>2. /\ rows' = rows \cup {[id |-> nextId, entry |-> e, live |-> TRUE]}
        /\ multi' = multi /\ Accounted' = Accounted
    BY <1>2, <2>1 DEF Insert, Accounted
  <2>3. Known(rows') = Known(rows) \cup {e}
    <3>1. PICK n, x : n = nextId /\ x = [id |-> nextId, entry |-> e, live |-> TRUE]
      OBVIOUS
    <3>2. rows' = rows \cup {x} /\ x = [id |-> n, entry |-> e, live |-> TRUE]
      BY <2>2, <3>1, Zenon
    <3>3. x.entry = e /\ x.live = TRUE
      BY <3>2
    <3>4. Known(rows \cup {x}) = Known(rows) \cup {x.entry}
      BY <3>3, OneRow, Zenon
    <3>. QED
      BY <3>1, <3>2, <3>3, <3>4, Zenon
  <2>4. e \in Catalog
    BY <1>2, <2>1, StepsAreCatalog DEF SetupInv, SetupAt, Insert
  <2>. QED
    <3>1. PICK U : U = Known(rows')
      OBVIOUS
    <3>2. U = Known(rows) \cup {e} /\ (~multi => e \notin TenantEntries)
      BY <2>3, <2>4, <3>1, StepsAreCatalog
    <3>3. Known(rows) \subseteq U /\ (~multi => TenantEntries \cap U \subseteq Known(rows))
      BY <3>2
    <3>. QED
      BY <2>2, <3>1, <3>3, Zenon
<1>3. ASSUME NEW p \in Procs, SeedCommit(p)
      PROVE  /\ multi' = multi /\ Known(rows) \subseteq Known(rows') /\ Accounted \subseteq Accounted'
             /\ ~multi => TenantEntries \cap Known(rows') \subseteq Known(rows)
  <2>1. PICK s, E : s = proc[p].snap /\ E = MissingSections(s)
    OBVIOUS
  <2>2. /\ multi' = multi /\ grants \subseteq grants' /\ ungranted' = ungranted \ grants'
        /\ rows' = rows \cup Fresh(nextId, E)
    BY <1>3, <2>1, CommitIs DEF Fresh
  <2>3. Known(rows \cup Fresh(nextId, E)) = Known(rows) \cup E
    BY NewRows
  <2>4. E \subseteq Catalog
    BY <2>1 DEF MissingSections, Catalog
  <2>. QED
    BY <2>2, <2>3, <2>4, StepsAreCatalog DEF Accounted
<1>4. ASSUME NEW r \in rows, DeleteMenu(r)
      PROVE  /\ multi' = multi /\ Known(rows) = Known(rows') /\ Accounted \subseteq Accounted'
  <2>1. /\ multi' = multi /\ rows' = (rows \ {r}) \cup {[r EXCEPT !.live = FALSE]}
        /\ grants' = grants \ {r.entry} /\ ungranted' = ungranted \cup {r.entry}
    BY <1>4 DEF DeleteMenu
  <2>2. Known(rows') = Known(rows)
    BY <2>1, DeadRow DEF BootType
  <2>. QED
    BY <2>1, <2>2 DEF Accounted
<1>5. ASSUME NEW e \in grants, LoseGrant(e)
      PROVE  /\ multi' = multi /\ rows' = rows /\ Accounted \subseteq Accounted'
  BY <1>5 DEF LoseGrant, Accounted
<1>6. ASSUME NEW p \in Procs, Cleanup(p)
      PROVE  /\ multi' = multi
             /\ Catalog \cap Known(rows) \subseteq Known(rows')
             /\ Catalog \cap Accounted \subseteq Accounted'
             /\ Known(rows') \subseteq Known(rows)
  <2>1. /\ ~multi /\ multi' = multi /\ ungranted' = ungranted /\ rows' \subseteq rows
        /\ \A r \in rows : r.entry \notin TenantEntries => r \in rows'
        /\ grants \ TenantEntries \subseteq grants'
    BY <1>6, CleanupDoes
  <2>2. TenantEntries \cap Catalog = {}
    BY <2>1, StepsAreCatalog
  <2>3. Catalog \cap Known(rows) \subseteq Known(rows')
    BY <2>1, <2>2 DEF Known
  <2>4. Catalog \cap Accounted \subseteq Accounted'
    BY <2>1, <2>2 DEF Accounted
  <2>. QED
    BY <2>1, <2>3, <2>4, MoreRows
<1>7. ASSUME NEW p \in Procs, Boot(p) \/ Lookup(p) \/ SeedBegin(p) \/ SeedFails(p) \/ ProcCrash(p)
      PROVE  UNCHANGED <<multi, rows, grants, ungranted>>
  BY <1>7 DEF Boot, Lookup, SeedBegin, SeedFails, ProcCrash
<1>8. CASE UNCHANGED bootVars
  BY <1>1, <1>8 DEF bootVars
<1>. QED
  BY <1>1, <1>2, <1>3, <1>4, <1>5, <1>6, <1>7, <1>8 DEF BootNext

\* Setup and Seed of one process, over a table and the entries accounted for.
LEMMA SetupStays ==
    ASSUME NEW q, NEW T, NEW A, NEW U, NEW B, SetupAt(q, T, A),
           Catalog \cap Known(T) \subseteq Known(U), Catalog \cap A \subseteq B,
           ~multi => TenantEntries \cap Known(U) \subseteq Known(T)
    PROVE  SetupAt(q, U, B)
<1>1. ASSUME NEW i \in 1..Len(SetupSteps), Ensured(i, T) PROVE Ensured(i, U)
  <2>1. CASE SetupSteps[i] \notin Cleanups
    BY <1>1, <2>1, StepsAreCatalog DEF Ensured, Cleanups
  <2>2. CASE SetupSteps[i] \in Cleanups
    <3>1. ~multi
      BY <2>2, StepsAreCatalog
    <3>. QED
      BY <1>1, <2>2, <3>1, TenantParts DEF Ensured
  <2>. QED
    BY <2>1, <2>2
<1>3. Cleaned(T) => Cleaned(U)
  BY DEF Cleaned
<1>2. q.pc = "commit" => Catalog \cap (Known(q.snap.rows) \ Live(q.snap.rows)) \subseteq B
  BY DEF SetupAt
<1>. QED
  BY <1>1, <1>2, <1>3 DEF SetupAt

\* The setup invariant after a step, process by process.
LEMMA SetupAfter ==
    ASSUME multi' = multi, \A p \in Procs : SetupAt(proc'[p], rows', Accounted')
    PROVE  SetupInv'
<1>1. SetupSteps' = SetupSteps /\ Catalog' = Catalog
  BY DEF SetupSteps, CleanupSteps, Catalog, GetModels
<1>. QED
  BY <1>1 DEF SetupInv, SetupAt, Ensured, Cleaned, Known, Live

\* Every step keeps Setup and Seed true to their tables.
LEMMA NextSetup ==
    ASSUME BootType, SetupInv, CoverInv, [BootNext]_bootVars
    PROVE  SetupInv'
<1> USE DEF dbState
<1>0. proc \in [Procs -> Process]
  BY DEF BootType
<1>m. /\ multi' = multi
      /\ Catalog \cap Known(rows) \subseteq Known(rows')
      /\ Catalog \cap Accounted \subseteq Accounted'
      /\ ~multi => TenantEntries \cap Known(rows') \subseteq Known(rows)
  BY NothingForgotten
<1>s. \A p \in Procs : SetupAt(proc[p], rows', Accounted')
  BY <1>m, SetupStays DEF SetupInv
<1>1. ASSUME NEW p \in Procs, NEW q, proc' = [proc EXCEPT ![p] = q], SetupAt(q, rows', Accounted')
      PROVE  SetupInv'
  <2>1. \A x \in Procs : SetupAt(proc'[x], rows', Accounted')
    BY <1>0, <1>1, <1>s
  <2>. QED
    BY <1>m, <2>1, SetupAfter
<1>2. ASSUME NEW p \in Procs, Boot(p) PROVE SetupInv'
  <2>1. PICK q : q = [Off EXCEPT !.pc = "setup"]
    OBVIOUS
  <2>2. q.pc = "setup" /\ q.next = 1
    BY <2>1, OffIs
  <2>3. SetupAt(q, rows', Accounted')
    BY <2>2 DEF SetupAt
  <2>. QED
    BY <1>1, <1>2, <2>1, <2>3 DEF Boot
<1>3. ASSUME NEW p \in Procs, SeedFails(p) \/ ProcCrash(p) PROVE SetupInv'
  <2>1. SetupAt(Off, rows', Accounted')
    BY OffIs DEF SetupAt
  <2>. QED
    BY <1>1, <1>3, <2>1 DEF SeedFails, ProcCrash
<1>4. ASSUME NEW p \in Procs, Lookup(p) PROVE SetupInv'
  <2>1. PICK i : i = proc[p].next
    OBVIOUS
  <2>2. /\ proc[p] \in Process /\ i \in Nat \ {0} /\ proc[p].pc = "setup" /\ i <= Len(SetupSteps)
        /\ SetupSteps[i] \notin Range(CleanupSteps) /\ rows' = rows
    BY <1>0, <1>4, <2>1 DEF Lookup, Process
  <2>3. Len(SetupSteps) \in Nat /\ i \in 1..Len(SetupSteps)
    BY <2>2, StepsAreCatalog
  <2>c. SetupSteps[i] \notin Cleanups
    BY <2>2, <2>3, StepsAreCatalog
  <2>4. \A j \in 1..Len(SetupSteps) : j < i => Ensured(j, rows)
    BY <2>1, <2>2 DEF SetupInv, SetupAt
  <2>5. CASE Found(SetupSteps[i])
    <3>1. PICK q : q = [proc[p] EXCEPT !.next = i + 1]
      OBVIOUS
    <3>2. q.pc = "setup" /\ q.next = i + 1
      BY <2>2, <3>1 DEF Process
    <3>3. proc' = [proc EXCEPT ![p] = q]
      BY <1>0, <1>4, <2>1, <2>5, <3>1 DEF Lookup
    <3>4. Ensured(i, rows)
      BY <2>5, <2>c DEF Found, Ensured, Cleanups
    <3>5. \A j \in 1..Len(SetupSteps) : j < i + 1 => Ensured(j, rows)
      BY <2>3, <2>4, <3>4
    <3>6. SetupAt(q, rows', Accounted')
      BY <2>2, <3>2, <3>5 DEF SetupAt
    <3>. QED
      BY <1>1, <3>3, <3>6
  <2>6. CASE ~Found(SetupSteps[i])
    <3>1. PICK q : q = [proc[p] EXCEPT !.pc = "insert", !.absent = SetupSteps[i] \notin Known(rows)]
      OBVIOUS
    <3>2. q.pc = "insert" /\ q.next = i /\ q.absent = (SetupSteps[i] \notin Known(rows))
      BY <2>1, <2>2, <3>1 DEF Process
    <3>3. proc' = [proc EXCEPT ![p] = q]
      BY <1>0, <1>4, <2>1, <2>6, <3>1 DEF Lookup
    <3>4. q.absent
      BY <2>6, <3>2 DEF Found
    <3>5. SetupAt(q, rows', Accounted')
      BY <2>2, <2>3, <2>4, <2>c, <3>2, <3>4 DEF SetupAt
    <3>. QED
      BY <1>1, <3>3, <3>5
  <2>. QED
    BY <2>5, <2>6
<1>5. ASSUME NEW p \in Procs, Insert(p) PROVE SetupInv'
  <2>1. PICK i : i = proc[p].next
    OBVIOUS
  <2>2. /\ proc[p] \in Process /\ i \in Nat \ {0} /\ proc[p].pc = "insert"
        /\ rows' = rows \cup {[id |-> nextId, entry |-> SetupSteps[i], live |-> TRUE]}
    BY <1>0, <1>5, <2>1 DEF Insert, Process
  <2>3. Known(rows') = Known(rows) \cup {SetupSteps[i]}
    <3>1. PICK n, x, e : n = nextId /\ e = SetupSteps[i] /\ x = [id |-> nextId, entry |-> SetupSteps[i], live |-> TRUE]
      OBVIOUS
    <3>2. rows' = rows \cup {x} /\ x = [id |-> n, entry |-> e, live |-> TRUE]
      BY <2>2, <3>1, Zenon
    <3>3. x.entry = e /\ x.live = TRUE
      BY <3>2
    <3>4. Known(rows \cup {x}) = Known(rows) \cup {x.entry}
      BY <3>3, OneRow, Zenon
    <3>. QED
      BY <3>1, <3>2, <3>3, <3>4, Zenon
  <2>c. SetupSteps[i] \notin Cleanups
    BY <2>1, <2>2 DEF SetupInv, SetupAt
  <2>5. PICK q : q = [proc[p] EXCEPT !.pc = "setup", !.next = i + 1, !.absent = FALSE]
    OBVIOUS
  <2>6. q.pc = "setup" /\ q.next = i + 1
    BY <2>2, <2>5 DEF Process
  <2>7. proc' = [proc EXCEPT ![p] = q]
    BY <1>0, <1>5, <2>1, <2>5 DEF Insert
  <2>8. \A j \in 1..Len(SetupSteps) : j < i + 1 => Ensured(j, rows')
    <3>1. \A j \in 1..Len(SetupSteps) : j < i => Ensured(j, rows')
      BY <1>s, <2>1, <2>2 DEF SetupAt
    <3>2. Ensured(i, rows')
      BY <2>3, <2>c DEF Ensured, Cleanups
    <3>3. Len(SetupSteps) \in Nat
      BY StepsAreCatalog
    <3>4. i \in Nat
      BY <2>2
    <3>. QED
      BY <3>1, <3>2, <3>3, <3>4
  <2>9. SetupAt(q, rows', Accounted')
    BY <2>6, <2>8 DEF SetupAt
  <2>. QED
    BY <1>1, <2>7, <2>9
<1>6. ASSUME NEW p \in Procs, Cleanup(p) PROVE SetupInv'
  <2>1. PICK i : i = proc[p].next
    OBVIOUS
  <2>2. /\ proc[p] \in Process /\ i \in Nat \ {0} /\ proc[p].pc = "setup"
        /\ proc' = [proc EXCEPT ![p].next = @ + 1] /\ Ensured(i, rows')
    BY <1>0, <1>6, <2>1, CleanupDoes DEF CoverInv, Process
  <2>4. \A j \in 1..Len(SetupSteps) : j < i => Ensured(j, rows')
    BY <1>s, <2>1, <2>2 DEF SetupAt
  <2>5. PICK q : q = [proc[p] EXCEPT !.next = i + 1]
    OBVIOUS
  <2>6. q.pc = "setup" /\ q.next = i + 1
    BY <2>2, <2>5 DEF Process
  <2>7. proc' = [proc EXCEPT ![p] = q]
    BY <1>0, <2>1, <2>2, <2>5
  <2>8. \A j \in 1..Len(SetupSteps) : j < i + 1 => Ensured(j, rows')
    BY <2>2, <2>4, StepsAreCatalog
  <2>9. SetupAt(q, rows', Accounted')
    BY <2>6, <2>8 DEF SetupAt
  <2>. QED
    BY <1>1, <2>7, <2>9
<1>7. ASSUME NEW p \in Procs, SeedBegin(p) PROVE SetupInv'
  <2>1. PICK i : i = proc[p].next
    OBVIOUS
  <2>2. /\ proc[p] \in Process /\ i \in Nat \ {0} /\ proc[p].pc = "setup" /\ i > Len(SetupSteps)
        /\ UNCHANGED <<rows, grants, ungranted>>
    BY <1>0, <1>7, <2>1 DEF SeedBegin, Process
  <2>3. PICK s : s = [rows |-> rows, tenants |-> tenants, clones |-> clones, roles |-> roles,
                      adminUsers |-> adminUsers, grants |-> grants]
    OBVIOUS
  <2>4. s.rows = rows
    BY <2>3
  <2>5. PICK q : q = [proc[p] EXCEPT !.pc = "commit", !.snap = s]
    OBVIOUS
  <2>6. q.pc = "commit" /\ q.snap = s
    BY <2>2, <2>5 DEF Process
  <2>7. proc' = [proc EXCEPT ![p] = q]
    BY <1>0, <1>7, <2>3, <2>5 DEF SeedBegin
  <2>8. \A j \in 1..Len(SetupSteps) : Ensured(j, rows)
    <3>1. \A j \in 1..Len(SetupSteps) : j < i => Ensured(j, rows)
      BY <2>1, <2>2 DEF SetupInv, SetupAt
    <3>. QED
      BY <2>2, <3>1, StepsAreCatalog
  <2>9. Catalog \cap (Known(rows) \ Live(rows)) \subseteq Accounted'
    BY <2>2 DEF CoverInv, Accounted
  <2>c. Cleaned(rows')
    <3>1. ~multi => \A c \in Cleanups : \E j \in 1..Len(SetupSteps) : SetupSteps[j] = c
      BY StepsAreCatalog
    <3>2. "remove menu" \in Cleanups /\ "remove permissions" \in Cleanups
      BY DEF Cleanups
    <3>3. ~multi => TenantMenu \notin Known(rows) /\ TenantPermissions \cap Known(rows) = {}
      BY <2>8, <3>1, <3>2, Zenon DEF Ensured
    <3>. QED
      BY <2>2, <3>3, TenantParts DEF Cleaned
  <2>10. SetupAt(q, rows', Accounted')
    BY <2>4, <2>6, <2>8, <2>9, <2>c DEF SetupAt
  <2>. QED
    BY <1>1, <2>7, <2>10
<1>8. ASSUME NEW p \in Procs, SeedCommit(p) PROVE SetupInv'
  <2>1. PICK q : q = [Off EXCEPT !.pc = "up"]
    OBVIOUS
  <2>2. q.pc = "up"
    BY <2>1, OffIs
  <2>3. proc' = [proc EXCEPT ![p] = q]
    BY <1>8, <2>1, CommitIs
  <2>4. SetupAt(q, rows', Accounted')
    BY <2>2 DEF SetupAt
  <2>. QED
    BY <1>1, <2>3, <2>4
<1>9. CASE proc' = proc
  BY <1>9, <1>m, <1>s, SetupAfter
<1>10. ASSUME (\E r \in rows : DeleteMenu(r)) \/ (\E e \in grants : LoseGrant(e)) \/ UNCHANGED bootVars
       PROVE  proc' = proc
  BY <1>10 DEF DeleteMenu, LoseGrant, bootVars
<1>. QED
  BY <1>2, <1>3, <1>4, <1>5, <1>6, <1>7, <1>8, <1>9, <1>10 DEF BootNext

\* How a step changes the entries with a row and the live ones: Setup's insert
\* and Seed's sections add theirs, every other step only takes entries away,
\* and what dies of the catalog then is noted as no longer granted.
LEMMA RowsStep ==
    ASSUME BootType, [BootNext]_bootVars
    PROVE  \/ \E p \in Procs : /\ Insert(p)
                               /\ Known(rows') = Known(rows) \cup {SetupSteps[proc[p].next]}
                               /\ Live(rows') = Live(rows) \cup {SetupSteps[proc[p].next]}
           \/ \E p \in Procs : /\ SeedCommit(p)
                               /\ Known(rows') = Known(rows) \cup MissingSections(proc[p].snap)
                               /\ Live(rows') = Live(rows) \cup MissingSections(proc[p].snap)
           \/ /\ Known(rows') \subseteq Known(rows) /\ Live(rows') \subseteq Live(rows)
              /\ Catalog \cap (Known(rows') \ Live(rows')) \subseteq (Known(rows) \ Live(rows)) \cup ungranted'
              /\ seeded' = seeded
<1> USE DEF dbState
<1> DEFINE Quiet == /\ Known(rows') \subseteq Known(rows) /\ Live(rows') \subseteq Live(rows)
                    /\ Catalog \cap (Known(rows') \ Live(rows')) \subseteq (Known(rows) \ Live(rows)) \cup ungranted'
                    /\ seeded' = seeded
<1>1. CASE UNCHANGED <<rows, seeded>>
  BY <1>1
<1>2. ASSUME NEW p \in Procs, Insert(p)
      PROVE  /\ Known(rows') = Known(rows) \cup {SetupSteps[proc[p].next]}
             /\ Live(rows') = Live(rows) \cup {SetupSteps[proc[p].next]}
  <2>1. PICK e, x : /\ e = SetupSteps[proc[p].next]
                    /\ x = [id |-> nextId, entry |-> SetupSteps[proc[p].next], live |-> TRUE]
    OBVIOUS
  <2>2. rows' = rows \cup {x}
    BY <1>2, <2>1 DEF Insert
  <2>3. x.entry = e /\ x.live = TRUE
    BY <2>1
  <2>4. Known(rows \cup {x}) = Known(rows) \cup {x.entry} /\ Live(rows \cup {x}) = Live(rows) \cup {x.entry}
    BY <2>3, OneRow, Zenon
  <2>. QED
    BY <2>1, <2>2, <2>3, <2>4, Zenon
<1>3. ASSUME NEW p \in Procs, SeedCommit(p)
      PROVE  /\ Known(rows') = Known(rows) \cup MissingSections(proc[p].snap)
             /\ Live(rows') = Live(rows) \cup MissingSections(proc[p].snap)
  <2>1. PICK s : s = proc[p].snap
    OBVIOUS
  <2>2. PICK E, n : E = MissingSections(s) /\ n = nextId
    OBVIOUS
  <2>3. rows' = rows \cup {[id |-> nextId, entry |-> e, live |-> TRUE] : e \in MissingSections(s)}
    BY <1>3, <2>1, CommitIs
  <2>4. PICK U : U = rows'
    OBVIOUS
  <2>5. U = rows \cup Fresh(n, E)
    BY <2>2, <2>3, <2>4, Zenon DEF Fresh
  <2>6. /\ Known(rows \cup Fresh(n, E)) = Known(rows) \cup E
        /\ Live(rows \cup Fresh(n, E)) = Live(rows) \cup E
    BY NewRows
  <2>7. Known(U) = Known(rows) \cup E /\ Live(U) = Live(rows) \cup E
    BY <2>5, <2>6, Zenon
  <2>. QED
    BY <2>1, <2>2, <2>4, <2>7, Zenon
<1>4. ASSUME NEW r \in rows, DeleteMenu(r)
      PROVE  Quiet
  <2>1. /\ rows' = (rows \ {r}) \cup {[r EXCEPT !.live = FALSE]}
        /\ r.entry \in ungranted' /\ seeded' = seeded
    BY <1>4 DEF DeleteMenu
  <2>2. /\ Known(rows') = Known(rows) /\ Live(rows') \subseteq Live(rows)
        /\ Live(rows) \subseteq Live(rows') \cup {r.entry}
    BY <2>1, DeadRow DEF BootType
  <2>. QED
    BY <2>1, <2>2
<1>5. ASSUME NEW p \in Procs, Cleanup(p)
      PROVE  Quiet
  <2>1. /\ ~multi /\ seeded' = seeded /\ rows' \subseteq rows
        /\ \A r \in rows : r.entry \notin TenantEntries => r \in rows'
    BY <1>5, CleanupDoes
  <2>2. Known(rows') \subseteq Known(rows) /\ Live(rows') \subseteq Live(rows)
    BY <2>1, MoreRows
  <2>3. TenantEntries \cap Catalog = {}
    BY <2>1, StepsAreCatalog
  <2>4. Catalog \cap Live(rows) \subseteq Live(rows')
    BY <2>1, <2>3 DEF Live
  <2>. QED
    BY <2>1, <2>2, <2>4
<1>7. ASSUME NEW p \in Procs, Boot(p) \/ Lookup(p) \/ SeedBegin(p) \/ SeedFails(p) \/ ProcCrash(p)
      PROVE  UNCHANGED <<rows, seeded>>
  BY <1>7 DEF Boot, Lookup, SeedBegin, SeedFails, ProcCrash
<1>8. ASSUME (\E e \in grants : LoseGrant(e)) \/ UNCHANGED bootVars
      PROVE  UNCHANGED <<rows, seeded>>
  BY <1>8 DEF LoseGrant, bootVars
<1>. HIDE DEF Quiet
<1>9. CASE UNCHANGED <<rows, seeded>>
  BY <1>1, <1>9 DEF Quiet
<1>10. CASE Quiet
  BY <1>10 DEF Quiet
<1>. QED
  BY <1>2, <1>3, <1>4, <1>5, <1>7, <1>8, <1>9, <1>10 DEF BootNext

\* A Seed that commits accounts for the whole catalog: Setup left the models
\* and endpoints in its snapshot, and it inserts the sections and grants them
\* all, unless the role is the operator's own.
LEMMA SeedCovers ==
    ASSUME BootType, SetupInv, RaceInv, ~began.own, NEW p \in Procs, SeedCommit(p),
           Catalog \cap Accounted \subseteq Accounted'
    PROVE  Catalog \subseteq Accounted'
<1>1. PICK s : s = proc[p].snap
  OBVIOUS
<1>2. proc[p].pc = "commit" /\ grants' = grants \cup SeedGrants(s)
  BY <1>1, CommitIs
<1>g. SeedGrants(s) = FullCatalog(s)
  <2>1. s \in Snap /\ nextId \in Nat
    BY <1>1 DEF BootType, Process
  <2>2. Kinds(s.roles)
    BY <1>1, <1>2, Zenon DEF RaceInv, SnapsInv, SnapInv
  <2>. QED
    BY <2>1, <2>2, KindOfSeed, Zenon
<1>3. /\ \A i \in 1..Len(SetupSteps) : Ensured(i, s.rows)
      /\ Catalog \cap (Known(s.rows) \ Live(s.rows)) \subseteq Accounted
  BY <1>1, <1>2 DEF SetupInv, SetupAt
<1>4. Live(s.rows) \subseteq Accounted' /\ Sections \ Known(s.rows) \subseteq Accounted'
  BY <1>2, <1>g DEF FullCatalog, MissingSections, Accounted
<1>5. Range(GetModels) \cup Range(Endpoints) \subseteq Known(s.rows)
  <2>1. SUFFICES ASSUME NEW e \in Range(GetModels) \cup Range(Endpoints) PROVE e \in Known(s.rows)
    OBVIOUS
  <2>2. e \notin Cleanups /\ \E i \in 1..Len(SetupSteps) : SetupSteps[i] = e
    BY StepsAreCatalog, Zenon
  <2>. QED
    BY <1>3, <2>2, Zenon DEF Ensured
<1>6. Catalog \subseteq Known(s.rows) \cup (Sections \ Known(s.rows))
  BY <1>5 DEF Catalog
<1>. QED
  BY <1>3, <1>4, <1>6

\* No step adds a row of the menu the cleanup removes.
LEMMA NextMenuOnce ==
    ASSUME BootType, SetupInv, MenuOnce, [BootNext]_bootVars
    PROVE  MenuOnce'
<1> USE DEF dbState
<1>1. multi' = multi
  BY NothingForgotten
<1>2. SUFFICES ASSUME ~multi,
                      NEW a \in rows', NEW b \in rows', a.entry = TenantMenu, b.entry = TenantMenu
               PROVE  a = b
  BY <1>1 DEF MenuOnce
<1>3. \A r, s \in rows : r.entry = TenantMenu /\ s.entry = TenantMenu => r = s
  BY <1>2 DEF MenuOnce
<1>4. TenantMenu \notin Catalog
  BY <1>2, StepsAreCatalog, TenantParts
<1>5. CASE rows' \subseteq rows
  BY <1>2, <1>3, <1>5
<1>6. ASSUME NEW p \in Procs, Insert(p) PROVE a = b
  <2>1. PICK x : x = [id |-> nextId, entry |-> SetupSteps[proc[p].next], live |-> TRUE]
    OBVIOUS
  <2>2. rows' = rows \cup {x}
    BY <1>6, <2>1 DEF Insert
  <2>3. x.entry \in Catalog
    <3>1. SetupSteps[proc[p].next] \in Catalog
      BY <1>6, StepsAreCatalog DEF SetupInv, SetupAt, Insert
    <3>. QED
      BY <2>1, <3>1
  <2>. QED
    BY <1>2, <1>3, <1>4, <2>2, <2>3
<1>7. ASSUME NEW p \in Procs, SeedCommit(p) PROVE a = b
  <2>1. PICK s, E : s = proc[p].snap /\ E = MissingSections(s)
    OBVIOUS
  <2>2. rows' = rows \cup {[id |-> nextId, entry |-> e, live |-> TRUE] : e \in E}
    BY <1>7, <2>1, CommitIs
  <2>3. E \subseteq Catalog
    BY <2>1 DEF MissingSections, Catalog
  <2>4. \A x \in {[id |-> nextId, entry |-> e, live |-> TRUE] : e \in E} : x.entry \in Catalog
    BY <2>3
  <2>5. a \in rows /\ b \in rows
    BY <1>2, <1>4, <2>2, <2>4
  <2>. QED
    BY <1>2, <1>3, <2>5
<1>8. ASSUME NEW r \in rows, DeleteMenu(r) PROVE a = b
  <2>1. PICK d : d = [r EXCEPT !.live = FALSE]
    OBVIOUS
  <2>2. d.entry = r.entry
    BY <2>1 DEF BootType, Row
  <2>3. rows' = (rows \ {r}) \cup {d}
    BY <1>8, <2>1 DEF DeleteMenu
  <2>. QED
    BY <1>2, <1>3, <2>2, <2>3
<1>9. ASSUME NEW p \in Procs, Cleanup(p) PROVE rows' \subseteq rows
  BY <1>9, CleanupDoes
<1>10. ASSUME NEW p \in Procs, Boot(p) \/ Lookup(p) \/ SeedBegin(p) \/ SeedFails(p) \/ ProcCrash(p)
       PROVE  rows' \subseteq rows
  BY <1>10 DEF Boot, Lookup, SeedBegin, SeedFails, ProcCrash
<1>11. ASSUME (\E e \in grants : LoseGrant(e)) \/ UNCHANGED bootVars
       PROVE  rows' \subseteq rows
  BY <1>11 DEF LoseGrant, bootVars
<1>. QED
  BY <1>5, <1>6, <1>7, <1>8, <1>9, <1>10, <1>11 DEF BootNext

\* What the database began with is not forgotten.
LEMMA BeganStays ==
    ASSUME BootType, [BootNext]_bootVars PROVE began' = began
<1>1. \A p \in Procs : Cleanup(p) => began' = began
  BY CleanupDoes
<1>2. \A p \in Procs : SeedCommit(p) => began' = began
  BY DEF SeedCommit
<1>3. \A p \in Procs : Boot(p) \/ Lookup(p) \/ Insert(p) \/ SeedBegin(p) \/ SeedFails(p) \/ ProcCrash(p)
         => began' = began
  BY DEF Boot, Lookup, Insert, SeedBegin, SeedFails, ProcCrash
<1>4. (\E r \in rows : DeleteMenu(r)) \/ (\E e \in grants : LoseGrant(e)) \/ UNCHANGED bootVars
         => began' = began
  BY DEF DeleteMenu, LoseGrant, bootVars
<1>. QED
  BY <1>1, <1>2, <1>3, <1>4 DEF BootNext

\* Every step keeps the account of the catalog.
LEMMA NextCover ==
    ASSUME BootType, SetupInv, CoverInv, RaceInv, [BootNext]_bootVars
    PROVE  CoverInv'
<1>1. /\ multi' = multi
      /\ Catalog \cap Accounted \subseteq Accounted'
      /\ ~multi => TenantEntries \cap Known(rows') \subseteq Known(rows)
  BY NothingForgotten
<1>2. Catalog' = Catalog /\ Known(rows)' = Known(rows') /\ Live(rows)' = Live(rows')
  BY <1>1 DEF Catalog, GetModels, Known, Live
<1>3. ungranted' \subseteq Accounted' /\ began' = began
  BY BeganStays DEF Accounted
<1>4. /\ Catalog \cap (Known(rows) \ Live(rows)) \subseteq Accounted
      /\ seeded /\ ~began.own => Catalog \subseteq Accounted
      /\ seeded => Cleaned(rows)
  BY DEF CoverInv
<1>m. MenuOnce'
  BY NextMenuOnce DEF CoverInv
<1>c. Cleaned(rows) => Cleaned(rows')
  BY <1>1 DEF Cleaned
<1>5. SUFFICES /\ Catalog \cap (Known(rows') \ Live(rows')) \subseteq Accounted'
               /\ seeded' /\ ~began.own => Catalog \subseteq Accounted'
               /\ seeded' => Cleaned(rows')
  BY <1>1, <1>2, <1>3, <1>m DEF CoverInv, Cleaned
<1>7. ASSUME NEW p \in Procs, Insert(p),
             Known(rows') = Known(rows) \cup {SetupSteps[proc[p].next]},
             Live(rows') = Live(rows) \cup {SetupSteps[proc[p].next]}
      PROVE  /\ Catalog \cap (Known(rows') \ Live(rows')) \subseteq Accounted'
             /\ seeded' /\ ~began.own => Catalog \subseteq Accounted'
             /\ seeded' => Cleaned(rows')
  <2>1. seeded' = seeded
    BY <1>7 DEF Insert
  <2>. QED
    BY <1>1, <1>4, <1>7, <1>c, <2>1
<1>8. ASSUME NEW p \in Procs, SeedCommit(p),
             Known(rows') = Known(rows) \cup MissingSections(proc[p].snap),
             Live(rows') = Live(rows) \cup MissingSections(proc[p].snap)
      PROVE  /\ Catalog \cap (Known(rows') \ Live(rows')) \subseteq Accounted'
             /\ seeded' /\ ~began.own => Catalog \subseteq Accounted'
             /\ seeded' => Cleaned(rows')
  <2>1. ~began.own => Catalog \subseteq Accounted'
    BY <1>1, <1>8, SeedCovers
  <2>2. Cleaned(rows)
    BY <1>8 DEF SetupInv, SetupAt, SeedCommit
  <2>3. Catalog \cap (Known(rows') \ Live(rows')) \subseteq Accounted'
    BY <1>1, <1>4, <1>8
  <2>. QED
    BY <1>c, <2>1, <2>2, <2>3
<1>9. CASE /\ Known(rows') \subseteq Known(rows) /\ Live(rows') \subseteq Live(rows)
           /\ Catalog \cap (Known(rows') \ Live(rows')) \subseteq (Known(rows) \ Live(rows)) \cup ungranted'
           /\ seeded' = seeded
  BY <1>1, <1>3, <1>4, <1>c, <1>9
<1>. QED
  BY <1>7, <1>8, <1>9, RowsStep

\* A database begins with every process down, and with one live row of an entry.
LEMMA InitCover ==
    ASSUME BootInit PROVE SetupInv /\ CoverInv
<1>1. seeded = FALSE /\ proc = [p \in Procs |-> Off]
  BY DEF BootInit, BootsBegin
<1>2. SetupInv
  BY <1>1, OffIs DEF SetupInv, SetupAt
<1>3. \E left : rows = {[id |-> 0, entry |-> e, live |-> TRUE] : e \in left}
  <2>1. CASE FreshDatabase
    <3>1. PICK left : left = {}
      OBVIOUS
    <3>2. rows = {[id |-> 0, entry |-> e, live |-> TRUE] : e \in left}
      BY <2>1, <3>1 DEF FreshDatabase
    <3>. QED
      BY <3>2
  <2>2. CASE OlderDatabase
    BY <2>2, Zenon DEF OlderDatabase
  <2>. QED
    BY <2>1, <2>2 DEF BootInit
<1>4. /\ \A r \in rows : r.live = TRUE
      /\ \A r, s \in rows : r.entry = s.entry => r = s
  <2>1. PICK left : rows = {[id |-> 0, entry |-> e, live |-> TRUE] : e \in left}
    BY <1>3, Zenon
  <2>2. \A r \in rows : r.live = TRUE /\ r = [id |-> 0, entry |-> r.entry, live |-> TRUE]
    BY <2>1
  <2>. QED
    BY <2>2
<1>5. Known(rows) \subseteq Live(rows)
  BY <1>4 DEF Known, Live
<1>6. MenuOnce
  BY <1>4 DEF MenuOnce
<1>. QED
  BY <1>1, <1>2, <1>5, <1>6 DEF CoverInv

\* So types, Setup's progress, the account of the catalog and the rows of Seed
\* hold at every boot.
LEMMA CatalogKept == BootstrapSpec => [](BootType /\ SetupInv /\ CoverInv /\ RaceInv)
<1>1. BootInit => BootType /\ SetupInv /\ CoverInv /\ RaceInv
  BY InitType, InitCover, InitRace
<1>2. BootType /\ SetupInv /\ CoverInv /\ RaceInv /\ [BootNext]_bootVars
        => (BootType /\ SetupInv /\ CoverInv /\ RaceInv)'
  BY NextType, NextSetup, NextCover, NextRace
<1>. QED
  BY <1>1, <1>2, PTL DEF BootstrapSpec

\* Once a Seed has committed, a super admin role holds every live menu and
\* permission, but for the grants removed since (grantFullCatalog in
\* admin/seed.go): however many processes boot together, crash, or lose the
\* race, and whatever an operator deletes meanwhile.
THEOREM CoverTheorem == BootstrapSpec => []SuperCovers
<1>1. ASSUME BootType, CoverInv, RaceInv PROVE SuperCovers
  <2>1. SUFFICES ASSUME seeded, NEW r \in roles, r.isSuper, NEW e \in Live(rows) PROVE e \in Accounted
    BY DEF SuperCovers, Accounted
  <2>2. e \in Known(rows) /\ e \in Entries
    BY <1>1, LiveKnown DEF BootType, Live, Row
  <2>o. ~began.own
    BY <1>1, <2>1 DEF RaceInv, Kinds
  <2>3. Catalog \subseteq Accounted /\ Cleaned(rows)
    BY <1>1, <2>1, <2>o DEF CoverInv
  <2>4. CASE e \in Catalog
    BY <2>3, <2>4
  <2>5. CASE e \notin Catalog
    <3>1. Range(Registered) \subseteq Range(GetModels)
      BY ModelsRegistered
    <3>2. e \in TenantEntries /\ ~multi
      BY <2>2, <2>5, <3>1, StepsAreCatalog DEF Entries, Catalog
    <3>. QED
      BY <2>2, <2>3, <3>2 DEF Cleaned
  <2>. QED
    BY <2>4, <2>5
<1>. QED
  BY <1>1, CatalogKept, PTL

\* A menu the operator deleted does not come back by a boot that began after
\* the row existed (ensureMenuRow's Unscoped lookup, EnsureSectionMenus): only
\* one that had looked it up, or taken its snapshot, before can insert it.
THEOREM DeletedTheorem == BootstrapSpec => DeletedStaysDeleted
<1> DEFINE Back == \A e \in Known(rows) \ Live(rows) :
         e \in Live(rows)' =>
             \E p \in Procs : \/ proc[p].pc = "insert" /\ proc[p].absent /\ SetupSteps[proc[p].next] = e
                              \/ proc[p].pc = "commit" /\ e \notin Known(proc[p].snap.rows)
<1>1. ASSUME BootType, SetupInv, [BootNext]_bootVars PROVE Back
  <2>0. Live(rows)' = Live(rows')
    BY DEF Live
  <2>1. SUFFICES ASSUME NEW e, e \notin Live(rows), e \in Live(rows')
                 PROVE  \E p \in Procs :
                           \/ proc[p].pc = "insert" /\ proc[p].absent /\ SetupSteps[proc[p].next] = e
                           \/ proc[p].pc = "commit" /\ e \notin Known(proc[p].snap.rows)
    BY <2>0
  <2>2. ASSUME NEW p \in Procs, Insert(p),
               Live(rows') = Live(rows) \cup {SetupSteps[proc[p].next]}
        PROVE  proc[p].pc = "insert" /\ proc[p].absent /\ SetupSteps[proc[p].next] = e
    BY <1>1, <2>1, <2>2 DEF Insert, SetupInv, SetupAt
  <2>3. ASSUME NEW p \in Procs, SeedCommit(p),
               Live(rows') = Live(rows) \cup MissingSections(proc[p].snap)
        PROVE  proc[p].pc = "commit" /\ e \notin Known(proc[p].snap.rows)
    BY <2>1, <2>3 DEF SeedCommit, MissingSections
  <2>. QED
    BY <1>1, <2>1, <2>2, <2>3, RowsStep
<1>2. BootType /\ SetupInv /\ CoverInv /\ RaceInv /\ [BootNext]_bootVars => [Back]_bootVars
  BY <1>1
<1>. QED
  BY <1>2, CatalogKept, PTL DEF BootstrapSpec, DeletedStaysDeleted

\* However many processes Seed together, crash and retry (admin/seed.go), an
\* admin role is on a tenant that has its row, super if it is builtin and never
\* made so if it is the operator's own, the admin users share its tenant, every
\* tenant of a multi-tenant deployment has a copy of the templates, and, unless
\* the database lacked what the default tenant's primary key guards, there is one
\* admin role, one admin user and one copy per tenant.
THEOREM ConvergeTheorem == BootstrapSpec => []BootConverges
<1>1. ASSUME RaceInv PROVE BootConverges
  <2>1. (began.tenant => began.role) => Cardinality(roles) <= 1
    BY <1>1, SingleCount DEF RaceInv, RoleGuarded
  <2>2. (began.tenant => began.user) => Cardinality(adminUsers) <= 1
    BY <1>1, SingleCount DEF RaceInv, Guarded
  <2>3. ~began.tenant => \A c, d \in clones : c.tenant = d.tenant => c = d
    BY <1>1, Zenon DEF RaceInv
  <2>4. seeded => SeededInv
    BY <1>1, Zenon DEF RaceInv
  <2>5. seeded => \A r \in roles, u \in adminUsers :
          (r.builtin => r.isSuper) /\ r.tenant \in tenants /\ u.tenant = r.tenant
    BY <2>4, Zenon DEF SeededInv
  <2>6. seeded /\ multi => tenants \subseteq {c.tenant : c \in clones}
    BY <2>4, Zenon DEF SeededInv, Cloned
  <2>7. began.own => \A r \in roles : ~r.isSuper
    BY <1>1, Zenon DEF RaceInv, Kinds
  <2>. QED
    BY <2>1, <2>2, <2>3, <2>5, <2>6, <2>7, Zenon DEF BootConverges
<1>. QED
  BY <1>1, CatalogKept, PTL

-----------------------------------------------------------------------------
(* The menus as a tree: lines of parents.                                  *)

\* A set that holds 0, and n + 1 whenever it holds an n below top, holds every
\* number up to top.
LEMMA Climb ==
    ASSUME NEW top \in Nat, NEW G, 0 \in G, \A n \in 0..top : n \in G /\ n # top => n + 1 \in G
    PROVE  \A n \in 0..top : n \in G
<1>. DEFINE T == {n \in 0..top : n \notin G}
<1>1. SUFFICES ASSUME T # {} PROVE FALSE
      OBVIOUS
<1>2. T \subseteq Nat
      OBVIOUS
<1>. HIDE DEF T
<1>3. PICK x \in T : \A y \in T : ~(<<y, x>> \in OpToRel(<, Nat))
      BY <1>1, <1>2, NatLessThanWellFounded, WFMin
<1>4. \A y \in T : <<y, x>> \in OpToRel(<, Nat) <=> y < x
      BY <1>2 DEF OpToRel
<1>5. \A y \in T : ~(y < x)
      BY <1>3, <1>4, Zenon
<1>6. x \in 0..top /\ x \notin G
      BY DEF T
<1>7. x # 0
      BY <1>6
<1>8. x - 1 \in 0..top /\ x - 1 # top /\ x - 1 < x /\ (x - 1) + 1 = x
      BY <1>6, <1>7
<1>9. x - 1 \notin G
      BY <1>6, <1>8
<1>. QED  BY <1>5, <1>8, <1>9 DEF T

\* The tables of menus with unique components, over any names.
UniqueRows(C, D) ==
    {menus \in Seq([component : C, parent : D]) :
        \A a, b \in 1..Len(menus) : menus[a].component = menus[b].component => a = b}

\* A line of rows, each the parent of the next.
Line(p) ==
    /\ p \in Seq(1..Len(menuRows)) /\ Len(p) > 0
    /\ \A k \in 1..(Len(p) - 1) : p[k + 1] \in MenuChildren(p[k])

\* A row has one parent.
LEMMA OneParent ==
    ASSUME NEW C, NEW D, menuRows \in UniqueRows(C, D), NEW a, NEW b, NEW j,
           a \in 1..Len(menuRows), b \in 1..Len(menuRows), j \in MenuChildren(a), j \in MenuChildren(b)
    PROVE  a = b
<1>1. menuRows[a].component = menuRows[b].component
      BY DEF MenuChildren
<1>. QED  BY <1>1 DEF UniqueRows

\* Two lines that end in the same row are the same as far as both reach.
LEMMA LinesAgree ==
    ASSUME NEW C, NEW D, menuRows \in UniqueRows(C, D), NEW p, NEW q, Line(p), Line(q),
           p[Len(p)] = q[Len(q)]
    PROVE  \A k \in Nat : k < Len(p) /\ k < Len(q) => p[Len(p) - k] = q[Len(q) - k]
<1>. DEFINE top == Len(p)
            G == {k \in 0..top : k < Len(p) /\ k < Len(q) => p[Len(p) - k] = q[Len(q) - k]}
<1>0. Len(p) \in Nat /\ Len(q) \in Nat /\ Len(p) > 0 /\ Len(q) > 0
      BY DEF Line
<1>1. 0 \in G
      BY <1>0
<1>2. ASSUME NEW k \in 0..top, k \in G, k # top
      PROVE  k + 1 \in G
  <2>1. SUFFICES ASSUME k + 1 < Len(p), k + 1 < Len(q)
                 PROVE  p[Len(p) - (k + 1)] = q[Len(q) - (k + 1)]
        BY <1>0, <1>2
  <2>. DEFINE a == Len(p) - (k + 1)
              b == Len(q) - (k + 1)
  <2>2. a \in 1..(Len(p) - 1) /\ b \in 1..(Len(q) - 1) /\ a + 1 = Len(p) - k /\ b + 1 = Len(q) - k
        BY <1>0, <1>2, <2>1
  <2>. HIDE DEF a, b
  <2>3. p[a + 1] = q[b + 1]
    <3>1. k < Len(p) /\ k < Len(q)
          BY <1>0, <1>2, <2>1
    <3>. QED  BY <1>2, <2>2, <3>1
  <2>4. p[a + 1] \in MenuChildren(p[a]) /\ q[b + 1] \in MenuChildren(q[b])
        BY <2>2 DEF Line
  <2>5. p[a] \in 1..Len(menuRows) /\ q[b] \in 1..Len(menuRows)
    <3>1. a \in 1..Len(p) /\ b \in 1..Len(q)
          BY <1>0, <2>2
    <3>2. p \in Seq(1..Len(menuRows)) /\ q \in Seq(1..Len(menuRows))
          BY DEF Line
    <3>3. PICK N : N = 1..Len(menuRows)
          OBVIOUS
    <3>4. p \in Seq(N) /\ q \in Seq(N)
          BY <3>2, <3>3
    <3>5. p[a] \in N /\ q[b] \in N
          BY <3>1, <3>4
    <3>. QED  BY <3>3, <3>5
  <2>6. p[a] = q[b]
        BY <2>3, <2>4, <2>5, OneParent
  <2>. QED  BY <2>6 DEF a, b
<1>3. top \in Nat
      BY <1>0
<1>4. \A k \in 0..top : k \in G
  <2>. HIDE DEF G, top
  <2>. QED  BY <1>1, <1>2, <1>3, Climb, Zenon
<1>. QED  BY <1>0, <1>4

\* Every row of a line but the first has a parent.
LEMMA LineParents ==
    ASSUME NEW p, Line(p), NEW k \in 2..Len(p)
    PROVE  HasParent(p[k]) /\ p[k] \in MenuChildren(p[k - 1]) /\ p[k - 1] \in 1..Len(menuRows)
<1>1. Len(p) \in Nat /\ k - 1 \in 1..(Len(p) - 1) /\ (k - 1) + 1 = k /\ k - 1 \in 1..Len(p)
      BY DEF Line
<1>2. p[k] \in MenuChildren(p[k - 1])
      BY <1>1 DEF Line
<1>3. p[k - 1] \in 1..Len(menuRows)
      BY <1>1 DEF Line
<1>. QED  BY <1>2, <1>3 DEF MenuChildren

\* A line's first rows are a line.
LEMMA LineTop ==
    ASSUME NEW p, Line(p), NEW n \in 1..Len(p)
    PROVE  Line(SubSeq(p, 1, n)) /\ Len(SubSeq(p, 1, n)) = n /\ \A k \in 1..n : SubSeq(p, 1, n)[k] = p[k]
<1>0. p \in Seq(1..Len(menuRows)) /\ Len(p) \in Nat
      BY DEF Line
<1>1. SubSeq(p, 1, n) \in Seq(1..Len(menuRows)) /\ Len(SubSeq(p, 1, n)) = n
      BY <1>0
<1>2. \A k \in 1..n : SubSeq(p, 1, n)[k] = p[k]
      BY <1>0
<1>3. \A k \in 1..(n - 1) : k \in 1..n /\ k + 1 \in 1..n /\ k \in 1..(Len(p) - 1)
      BY <1>0
<1>. QED  BY <1>1, <1>2, <1>3 DEF Line

\* A branch meets no row twice.
LEMMA BranchDistinct ==
    ASSUME NEW C, NEW D, menuRows \in UniqueRows(C, D), NEW p, Line(p), ~HasParent(p[1])
    PROVE  \A a, b \in 1..Len(p) : p[a] = p[b] => a = b
<1>1. ASSUME NEW a \in 1..Len(p), NEW b \in 1..Len(p), p[a] = p[b], a < b
      PROVE  FALSE
  <2>0. Len(p) \in Nat
        BY DEF Line
  <2>1. PICK q : q = SubSeq(p, 1, a)
        OBVIOUS
  <2>2. PICK r : r = SubSeq(p, 1, b)
        OBVIOUS
  <2>3. /\ Line(q) /\ Len(q) = a /\ \A k \in 1..a : q[k] = p[k]
        /\ Line(r) /\ Len(r) = b /\ \A k \in 1..b : r[k] = p[k]
        BY <2>1, <2>2, LineTop
  <2>4. q[Len(q)] = r[Len(r)]
        BY <1>1, <2>3
  <2>5. a - 1 \in Nat /\ a - 1 < Len(q) /\ a - 1 < Len(r) /\ Len(q) - (a - 1) = 1 /\ Len(r) - (a - 1) = b - a + 1
        BY <1>1, <2>0, <2>3
  <2>6. q[1] = r[b - a + 1]
    <3>1. \A k \in Nat : k < Len(q) /\ k < Len(r) => q[Len(q) - k] = r[Len(r) - k]
          BY <2>3, <2>4, LinesAgree
    <3>2. q[Len(q) - (a - 1)] = r[Len(r) - (a - 1)]
          BY <2>5, <3>1, Zenon
    <3>. QED  BY <2>5, <3>2
  <2>7. p[1] = p[b - a + 1] /\ b - a + 1 \in 2..Len(p)
        BY <1>1, <2>0, <2>3, <2>6
  <2>. QED  BY <2>7, LineParents
<1>2. Len(p) \in Nat
      BY DEF Line
<1>. QED  BY <1>1, <1>2

\* The numbers up to n are n.
LEMMA UpTo ==
    ASSUME NEW n \in Nat
    PROVE  IsFiniteSet(1..n) /\ Cardinality(1..n) = n
<1>1. 1 \in Int /\ n \in Int
      OBVIOUS
<1>2. IsFiniteSet(1..n) /\ Cardinality(1..n) = IF 1 > n THEN 0 ELSE n - 1 + 1
      BY <1>1, FS_Interval, Zenon
<1>. QED  BY <1>2

\* A sequence of distinct rows is no longer than the table.
LEMMA DistinctBounded ==
    ASSUME NEW p, p \in Seq(1..Len(menuRows)), Len(menuRows) \in Nat, \A a, b \in 1..Len(p) : p[a] = p[b] => a = b
    PROVE  Len(p) <= Len(menuRows)
<1>. DEFINE S == 1..Len(p)
            T == 1..Len(menuRows)
<1>1. Len(p) \in Nat /\ p \in [S -> T]
      OBVIOUS
<1>2. IsFiniteSet(S) /\ Cardinality(S) = Len(p)
      BY <1>1, UpTo
<1>3. IsFiniteSet(T) /\ Cardinality(T) = Len(menuRows)
      BY UpTo
<1>4. ASSUME Cardinality(T) < Cardinality(S)
      PROVE  FALSE
  <2>. HIDE DEF S, T
  <2>1. \E x, y \in S : x # y /\ p[x] = p[y]
        BY <1>1, <1>2, <1>3, <1>4, FS_PigeonHole
  <2>. QED  BY <2>1 DEF S
<1>. QED  BY <1>1, <1>2, <1>3, <1>4

-----------------------------------------------------------------------------
(* The breadcrumb: the loop of PathTo.                                     *)

\* The components of a line, the breadcrumb made of it.
Names(p) == [k \in 1..Len(p) |-> menuRows[p[k]].component]

\* What PathTo has collected for i: a line of distinct rows that ends in i.
Trail(i, p) ==
    /\ Line(p) /\ p[Len(p)] = i
    /\ \A a, b \in 1..Len(p) : p[a] = p[b] => a = b

\* Where the walk ends: the first row has no parent, or one in the line.
Stopped(p) == HasParent(p[1]) => \E t \in 1..Len(p) : p[1] \in MenuChildren(p[t])

\* The state of the loop.
LoopAt(p) == [path |-> Names(p), cur |-> menuRows[p[1]].parent]

\* When the loop's condition fails.
LEMMA WalkStops ==
    ASSUME NEW C, NEW D, menuRows \in UniqueRows(C, D), NEW p, Line(p), NEW cur, cur = menuRows[p[1]].parent
    PROVE  (cur = NoParent \/ cur \in Range(Names(p)) \/ RowsOf(cur) = {}) <=> Stopped(p)
<1>1. p[1] \in 1..Len(menuRows) /\ Len(p) \in Nat
      BY DEF Line
<1>2. Range(Names(p)) = {menuRows[p[k]].component : k \in 1..Len(p)}
      BY DEF Range, Names
<1>3. HasParent(p[1]) <=> ~(cur = NoParent \/ RowsOf(cur) = {})
      BY Zenon DEF HasParent
<1>4. DOMAIN menuRows = 1..Len(menuRows)
      BY DEF UniqueRows
<1>5. ASSUME NEW t \in 1..Len(p), HasParent(p[1])
      PROVE  p[1] \in MenuChildren(p[t]) <=> cur = menuRows[p[t]].component
      BY <1>1, <1>4, <1>5, Zenon DEF MenuChildren
<1>. QED  BY <1>2, <1>3, <1>5, Zenon DEF Stopped

\* One turn of the loop.
LEMMA AscendTurn ==
    ASSUME NEW C, NEW D, menuRows \in UniqueRows(C, D), NEW i, NEW n \in Nat, NEW p, Trail(i, p),
           Len(p) = n + 1 \/ Stopped(p)
    PROVE  \E q : /\ Trail(i, q) /\ Ascend(LoopAt(p)) = LoopAt(q)
                  /\ Len(q) = (n + 1) + 1 \/ Stopped(q)
<1>. DEFINE cur == menuRows[p[1]].parent
            w == LoopAt(p)
<1>0. Line(p) /\ p[Len(p)] = i /\ \A a, b \in 1..Len(p) : p[a] = p[b] => a = b
      BY DEF Trail
<1>1. p \in Seq(1..Len(menuRows)) /\ p[1] \in 1..Len(menuRows) /\ Len(p) \in Nat /\ Len(p) > 0
      BY <1>0 DEF Line
<1>2. w.path = Names(p) /\ w.cur = cur
      BY DEF LoopAt
<1>. HIDE DEF w, cur
<1>3. (cur = NoParent \/ cur \in Range(Names(p)) \/ RowsOf(cur) = {}) <=> Stopped(p)
      BY <1>0, WalkStops DEF cur
<1>4. CASE Stopped(p)
  <2>1. Ascend(w) = w
        BY <1>2, <1>3, <1>4, Zenon DEF Ascend
  <2>. QED  BY <1>4, <2>1 DEF w
<1>5. CASE ~Stopped(p)
  <2>1. PICK r : r = CHOOSE x \in RowsOf(cur) : TRUE
        OBVIOUS
  <2>2. r \in RowsOf(cur)
        BY <1>3, <1>5, <2>1, Zenon
  <2>3. DOMAIN menuRows = 1..Len(menuRows)
        BY DEF UniqueRows
  <2>4. r \in 1..Len(menuRows) /\ menuRows[r].component = cur
        BY <2>2, <2>3, Zenon DEF RowsOf
  <2>5. HasParent(p[1])
        BY <1>5 DEF Stopped
  <2>6. p[1] \in MenuChildren(r)
        BY <1>1, <2>3, <2>4, <2>5 DEF MenuChildren, cur
  <2>7. PICK q : q = <<r>> \o p
        OBVIOUS
  <2>8. /\ q \in Seq(1..Len(menuRows)) /\ Len(q) = Len(p) + 1
        /\ q[1] = r /\ \A k \in 2..Len(q) : q[k] = p[k - 1]
        BY <1>1, <2>4, <2>7
  <2>9. Line(q)
    <3>1. ASSUME NEW k \in 1..(Len(q) - 1)
          PROVE  q[k + 1] \in MenuChildren(q[k])
      <4>1. CASE k = 1
            BY <1>1, <2>6, <2>8, <4>1
      <4>2. CASE k # 1
        <5>1. k \in 2..Len(q) /\ k + 1 \in 2..Len(q) /\ (k + 1) - 1 = k /\ k \in 2..Len(p)
              BY <1>1, <2>8, <3>1, <4>2
        <5>2. q[k + 1] = p[k] /\ q[k] = p[k - 1]
              BY <2>8, <5>1
        <5>. QED  BY <1>0, <5>1, <5>2, LineParents
      <4>. QED  BY <4>1, <4>2
    <3>. QED  BY <1>1, <2>8, <3>1 DEF Line
  <2>10. q[Len(q)] = i
    <3>1. Len(q) \in 2..Len(q) /\ Len(q) - 1 = Len(p)
          BY <1>1, <2>8
    <3>. QED  BY <1>0, <2>8, <3>1
  <2>11. \A t \in 1..Len(p) : p[t] # r
    <3>1. ASSUME NEW t \in 1..Len(p), p[t] = r
          PROVE  FALSE
          BY <1>5, <2>6, <3>1 DEF Stopped
    <3>. QED  BY <3>1
  <2>12. ASSUME NEW a \in 1..Len(q), NEW b \in 1..Len(q), q[a] = q[b]
         PROVE  a = b
    <3>1. CASE a = 1 /\ b = 1
          BY <3>1
    <3>2. CASE a = 1 /\ b # 1
      <4>1. b - 1 \in 1..Len(p) /\ q[b] = p[b - 1]
            BY <1>1, <2>8, <3>2
      <4>. QED  BY <2>8, <2>11, <2>12, <3>2, <4>1
    <3>3. CASE a # 1 /\ b = 1
      <4>1. a - 1 \in 1..Len(p) /\ q[a] = p[a - 1]
            BY <1>1, <2>8, <3>3
      <4>. QED  BY <2>8, <2>11, <2>12, <3>3, <4>1
    <3>4. CASE a # 1 /\ b # 1
      <4>1. a - 1 \in 1..Len(p) /\ q[a] = p[a - 1] /\ b - 1 \in 1..Len(p) /\ q[b] = p[b - 1]
        <5>1. a \in 2..Len(q) /\ b \in 2..Len(q) /\ a - 1 \in 1..Len(p) /\ b - 1 \in 1..Len(p)
              BY <1>1, <2>8, <3>4
        <5>. QED  BY <2>8, <5>1
      <4>2. a - 1 = b - 1
            BY <1>0, <2>12, <4>1
      <4>. QED  BY <4>2
    <3>. QED  BY <3>1, <3>2, <3>3, <3>4
  <2>13. Trail(i, q)
        BY <2>9, <2>10, <2>12 DEF Trail
  <2>14. Names(q) = <<menuRows[r].component>> \o Names(p)
    <3>. DEFINE c == menuRows[r].component
    <3>1. PICK np : np = Names(p)
          OBVIOUS
    <3>2. np = [k \in 1..Len(p) |-> menuRows[p[k]].component]
          BY <3>1 DEF Names
    <3>3. PICK S : np \in Seq(S) /\ Len(np) = Len(p)
      <4>1. PICK S : S = {menuRows[p[k]].component : k \in 1..Len(p)}
            OBVIOUS
      <4>2. np \in [1..Len(p) -> S]
            BY <3>2, <4>1
      <4>3. np \in Seq(S) /\ Len(np) = Len(p)
            BY <1>1, <4>2
      <4>. QED  BY <4>3
    <3>4. PICK nq : nq = Names(q)
          OBVIOUS
    <3>5. nq = [k \in 1..Len(q) |-> menuRows[q[k]].component]
          BY <3>4 DEF Names
    <3>6. ASSUME NEW k \in 1..Len(q)
          PROVE  nq[k] = (<<c>> \o np)[k]
      <4>1. CASE k = 1
            BY <2>8, <3>3, <3>5, <4>1
      <4>2. CASE k # 1
        <5>1. k - 1 \in 1..Len(p) /\ q[k] = p[k - 1]
              BY <1>1, <2>8, <4>2
        <5>2. np[k - 1] = menuRows[p[k - 1]].component
              BY <3>2, <5>1
        <5>3. (<<c>> \o np)[k] = np[k - 1]
              BY <1>1, <2>8, <3>3, <4>2
        <5>. QED  BY <3>5, <5>1, <5>2, <5>3
      <4>. QED  BY <4>1, <4>2
    <3>7. <<c>> \o np = [k \in 1..Len(q) |-> (<<c>> \o np)[k]]
          BY <1>1, <2>8, <3>3
    <3>. HIDE DEF c
    <3>8. nq = <<c>> \o np
          BY <3>5, <3>6, <3>7
    <3>. QED  BY <3>1, <3>4, <3>8 DEF c
  <2>15. Ascend(w) = [path |-> <<menuRows[r].component>> \o w.path, cur |-> menuRows[r].parent]
        BY <1>2, <1>3, <1>5, <2>1, Zenon DEF Ascend
  <2>16. Ascend(w) = LoopAt(q)
        BY <1>2, <2>8, <2>14, <2>15, Zenon DEF LoopAt
  <2>17. Len(q) = (n + 1) + 1
        BY <1>5, <2>8
  <2>. QED  BY <2>13, <2>16, <2>17 DEF w
<1>. QED  BY <1>4, <1>5

\* The loop's states, turn by turn, from s.
Walks(s, m, f) == f = [n \in 0..m |-> IF n = 0 THEN s ELSE Ascend(f[n - 1])]

\* There is such a function, and PathTo reads its last value.
LEMMA WalkExists ==
    ASSUME NEW i \in 1..Len(menuRows), Len(menuRows) \in Nat
    PROVE  \E f : /\ Walks([path |-> <<menuRows[i].component>>, cur |-> menuRows[i].parent], Len(menuRows), f)
                  /\ PathTo(i) = f[Len(menuRows)].path
<1>. DEFINE top == Len(menuRows)
            s == [path |-> <<menuRows[i].component>>, cur |-> menuRows[i].parent]
            G == {m \in 0..top : \E f : Walks(s, m, f)}
<1>0. top \in Nat
      OBVIOUS
<1>1. 0 \in G
  <2>. DEFINE f == [n \in 0..0 |-> s]
  <2>. HIDE DEF s
  <2>1. f = [n \in 0..0 |-> IF n = 0 THEN s ELSE Ascend(f[n - 1])]
        OBVIOUS
  <2>2. Walks(s, 0, f)
        BY <2>1, Zenon DEF Walks
  <2>. QED  BY <2>2
<1>2. ASSUME NEW m \in 0..top, m \in G, m # top
      PROVE  m + 1 \in G
  <2>. HIDE DEF s
  <2>1. PICK f : Walks(s, m, f)
        BY <1>2
  <2>2. f = [n \in 0..m |-> IF n = 0 THEN s ELSE Ascend(f[n - 1])]
        BY <2>1, Zenon DEF Walks
  <2>. DEFINE g == [n \in 0..(m + 1) |-> IF n = m + 1 THEN Ascend(f[m]) ELSE f[n]]
  <2>3. ASSUME NEW n \in 0..(m + 1)
        PROVE  g[n] = IF n = 0 THEN s ELSE Ascend(g[n - 1])
    <3>1. CASE n = m + 1
          BY <3>1
    <3>2. CASE n # m + 1 /\ n # 0
      <4>1. n \in 0..m /\ n - 1 \in 0..m /\ n - 1 # m + 1 /\ n - 1 \in 0..(m + 1)
            BY <3>2
      <4>2. g[n] = f[n] /\ g[n - 1] = f[n - 1] /\ f[n] = Ascend(f[n - 1])
            BY <2>2, <3>2, <4>1
      <4>. QED  BY <3>2, <4>2
    <3>3. CASE n # m + 1 /\ n = 0
      <4>1. n \in 0..m
            BY <3>3
      <4>. QED  BY <2>2, <3>3, <4>1
    <3>. QED  BY <3>1, <3>2, <3>3
  <2>4. g = [n \in 0..(m + 1) |-> IF n = 0 THEN s ELSE Ascend(g[n - 1])]
    <3>1. g = [n \in 0..(m + 1) |-> g[n]]
          OBVIOUS
    <3>. HIDE DEF g
    <3>. QED  BY <2>3, <3>1
  <2>. HIDE DEF g
  <2>5. Walks(s, m + 1, g)
        BY <2>4, Zenon DEF Walks
  <2>6. m + 1 \in 0..top
        BY <1>2
  <2>. QED  BY <2>5, <2>6
<1>3. top \in G
  <2>. HIDE DEF G, top
  <2>1. \A n \in 0..top : n \in G /\ n # top => n + 1 \in G
        BY <1>2
  <2>2. top \in 0..top
        BY <1>0
  <2>3. \A n \in 0..top : n \in G
        BY <1>0, <1>1, <2>1, Climb, Zenon
  <2>. QED  BY <2>2, <2>3
<1>4. PICK f0 : Walks(s, top, f0)
      BY <1>3
<1>. DEFINE f == CHOOSE f : f = [n \in 0..top |-> IF n = 0 THEN [path |-> <<menuRows[i].component>>, cur |-> menuRows[i].parent]
                                                  ELSE Ascend(f[n - 1])]
<1>5. f = [n \in 0..top |-> IF n = 0 THEN s ELSE Ascend(f[n - 1])]
      BY <1>4, Zenon DEF Walks
<1>6. PathTo(i) = f[top].path
      BY Zenon DEF PathTo
<1>. QED  BY <1>5, <1>6, Zenon DEF Walks

\* The breadcrumb of i is that of a trail on which the walk has ended.
LEMMA PathIsTrail ==
    ASSUME NEW C, NEW D, menuRows \in UniqueRows(C, D), NEW i \in 1..Len(menuRows)
    PROVE  \E p : Trail(i, p) /\ Stopped(p) /\ PathTo(i) = Names(p)
<1>. DEFINE top == Len(menuRows)
            s == [path |-> <<menuRows[i].component>>, cur |-> menuRows[i].parent]
<1>0. top \in Nat
      BY DEF UniqueRows
<1>1. PICK f : Walks(s, top, f) /\ PathTo(i) = f[top].path
      BY <1>0, WalkExists
<1>2. f = [n \in 0..top |-> IF n = 0 THEN s ELSE Ascend(f[n - 1])]
      BY <1>1, Zenon DEF Walks
<1>. DEFINE G == {n \in 0..top : \E p : Trail(i, p) /\ f[n] = LoopAt(p) /\ (Len(p) = n + 1 \/ Stopped(p))}
<1>3. 0 \in G
  <2>1. PICK p : p = <<i>>
        OBVIOUS
  <2>2. p \in Seq(1..top) /\ Len(p) = 1 /\ p[1] = i
        BY <2>1
  <2>3. Trail(i, p)
        BY <2>2 DEF Trail, Line
  <2>4. Names(p) = <<menuRows[i].component>>
        BY <2>2 DEF Names
  <2>5. f[0] = s
        BY <1>0, <1>2
  <2>6. f[0] = LoopAt(p)
        BY <2>2, <2>4, <2>5, Zenon DEF LoopAt
  <2>. QED  BY <1>0, <2>2, <2>3, <2>6
<1>4. ASSUME NEW n \in 0..top, n \in G, n # top
      PROVE  n + 1 \in G
  <2>1. PICK p : Trail(i, p) /\ f[n] = LoopAt(p) /\ (Len(p) = n + 1 \/ Stopped(p))
        BY <1>4
  <2>2. n + 1 \in 0..top /\ n + 1 # 0 /\ (n + 1) - 1 = n /\ n \in Nat
        BY <1>0, <1>4
  <2>3. f[n + 1] = Ascend(f[n])
        BY <1>2, <2>2
  <2>4. PICK q : Trail(i, q) /\ Ascend(LoopAt(p)) = LoopAt(q) /\ (Len(q) = (n + 1) + 1 \/ Stopped(q))
        BY <2>1, <2>2, AscendTurn
  <2>. QED  BY <2>1, <2>2, <2>3, <2>4
<1>5. top \in G
  <2>. HIDE DEF G, top
  <2>1. \A n \in 0..top : n \in G /\ n # top => n + 1 \in G
        BY <1>4
  <2>2. top \in 0..top
        BY <1>0
  <2>3. \A n \in 0..top : n \in G
        BY <1>0, <1>3, <2>1, Climb, Zenon
  <2>. QED  BY <2>2, <2>3
<1>6. PICK p : Trail(i, p) /\ f[top] = LoopAt(p) /\ (Len(p) = top + 1 \/ Stopped(p))
      BY <1>5
<1>7. Len(p) <= top
      BY <1>0, <1>6, DistinctBounded DEF Trail, Line
<1>8. Stopped(p)
      BY <1>0, <1>6, <1>7
<1>9. PathTo(i) = Names(p)
      BY <1>1, <1>6 DEF LoopAt
<1>. QED  BY <1>6, <1>8, <1>9

-----------------------------------------------------------------------------
(* The tree against the rows above.                                        *)

\* The rows of a line.
RowsIn(p) == {p[k] : k \in 1..Len(p)}

\* Every row of a line is above its last.
LEMMA LineAbove ==
    ASSUME NEW C, NEW D, menuRows \in UniqueRows(C, D), NEW p, Line(p), NEW k \in 1..(Len(p) - 1)
    PROVE  p[k] \in Above(p[Len(p)])
<1>0. Len(p) \in Nat /\ p \in Seq(1..Len(menuRows)) /\ DOMAIN menuRows = 1..Len(menuRows)
      BY DEF Line, UniqueRows
<1>1. k \in 1..Len(p) /\ p[k] \in DOMAIN menuRows
      BY <1>0
<1>2. ASSUME NEW S \in SUBSET DOMAIN menuRows, Parents(p[Len(p)]) \subseteq S, UpClosed(S)
      PROVE  p[k] \in S
  <2>. DEFINE top == Len(p) - 2
              G == {n \in 0..top : p[Len(p) - 1 - n] \in S}
  <2>0. ASSUME NEW m \in 2..Len(p)
        PROVE  p[m - 1] \in Parents(p[m])
        BY <1>0, LineParents DEF Parents
  <2>1. top \in Nat /\ Len(p) \in 2..Len(p)
        BY <1>0
  <2>2. 0 \in G
    <3>1. p[Len(p) - 1] \in S
          BY <1>2, <2>0, <2>1
    <3>. QED  BY <1>0, <2>1, <3>1
  <2>3. ASSUME NEW n \in 0..top, n \in G, n # top
        PROVE  n + 1 \in G
    <3>. DEFINE m == Len(p) - 1 - n
    <3>1. m \in 2..Len(p) /\ m - 1 = Len(p) - 1 - (n + 1) /\ n + 1 \in 0..top
          BY <1>0, <2>1, <2>3
    <3>2. p[m] \in S
          BY <2>3
    <3>. HIDE DEF m
    <3>3. p[m - 1] \in S
          BY <1>2, <2>0, <3>1, <3>2 DEF UpClosed
    <3>. QED  BY <3>1, <3>3
  <2>4. \A n \in 0..top : n \in G
    <3>. HIDE DEF G, top
    <3>1. \A n \in 0..top : n \in G /\ n # top => n + 1 \in G
          BY <2>3
    <3>. QED  BY <2>1, <2>2, <3>1, Climb, Zenon
  <2>5. Len(p) - 1 - k \in 0..top /\ Len(p) - 1 - (Len(p) - 1 - k) = k
        BY <1>0
  <2>. QED  BY <2>4, <2>5
<1>. QED  BY <1>1, <1>2 DEF Above

\* With a row, a trail on which the walk has ended holds the row's parent.
LEMMA TrailClosed ==
    ASSUME NEW C, NEW D, menuRows \in UniqueRows(C, D), NEW p, Line(p), Stopped(p)
    PROVE  UpClosed(RowsIn(p)) /\ RowsIn(p) \subseteq DOMAIN menuRows
<1>0. Len(p) \in Nat /\ p \in Seq(1..Len(menuRows)) /\ DOMAIN menuRows = 1..Len(menuRows)
      BY DEF Line, UniqueRows
<1>1. RowsIn(p) \subseteq DOMAIN menuRows
      BY <1>0 DEF RowsIn
<1>2. ASSUME NEW k \in 1..Len(p), NEW x \in Parents(p[k])
      PROVE  x \in RowsIn(p)
  <2>1. x \in 1..Len(menuRows) /\ p[k] \in MenuChildren(x)
        BY <1>0, <1>2 DEF Parents
  <2>2. CASE k = 1
    <3>1. HasParent(p[1])
          BY <2>1, <2>2 DEF MenuChildren
    <3>2. PICK t \in 1..Len(p) : p[1] \in MenuChildren(p[t])
          BY <3>1 DEF Stopped
    <3>3. p[t] \in 1..Len(menuRows)
          BY <1>0
    <3>4. x = p[t]
          BY <2>1, <2>2, <3>2, <3>3, OneParent
    <3>. QED  BY <3>4 DEF RowsIn
  <2>3. CASE k # 1
    <3>1. k \in 2..Len(p) /\ k - 1 \in 1..Len(p)
          BY <1>0, <2>3
    <3>2. p[k] \in MenuChildren(p[k - 1]) /\ p[k - 1] \in 1..Len(menuRows)
          BY <3>1, LineParents
    <3>3. x = p[k - 1]
          BY <2>1, <3>2, OneParent
    <3>. QED  BY <3>1, <3>3 DEF RowsIn
  <2>. QED  BY <2>2, <2>3
<1>. QED  BY <1>1, <1>2 DEF UpClosed, RowsIn

\* So its rows are i and the rows above it.
LEMMA TrailIsAbove ==
    ASSUME NEW C, NEW D, menuRows \in UniqueRows(C, D), NEW i, NEW p, Trail(i, p), Stopped(p)
    PROVE  Above(i) \cup {i} = RowsIn(p)
<1>0. Line(p) /\ p[Len(p)] = i /\ Len(p) \in Nat /\ Len(p) > 0
      BY DEF Trail, Line
<1>1. UpClosed(RowsIn(p)) /\ RowsIn(p) \subseteq DOMAIN menuRows
      BY <1>0, TrailClosed
<1>2. i \in RowsIn(p)
      BY <1>0 DEF RowsIn
<1>3. Above(i) \subseteq RowsIn(p)
  <2>1. Parents(i) \subseteq RowsIn(p)
        BY <1>1, <1>2 DEF UpClosed
  <2>2. RowsIn(p) \in SUBSET DOMAIN menuRows
        BY <1>1
  <2>. QED  BY <1>1, <2>1, <2>2, Zenon DEF Above
<1>4. ASSUME NEW k \in 1..Len(p)
      PROVE  p[k] \in Above(i) \cup {i}
  <2>1. CASE k = Len(p)
        BY <1>0, <2>1
  <2>2. CASE k # Len(p)
    <3>1. k \in 1..(Len(p) - 1)
          BY <1>0, <2>2
    <3>. QED  BY <1>0, <3>1, LineAbove
  <2>. QED  BY <2>1, <2>2
<1>. QED  BY <1>2, <1>3, <1>4 DEF RowsIn

\* A walk that ended at a row it had met went round a circle.
LEMMA CircleMet ==
    ASSUME NEW C, NEW D, menuRows \in UniqueRows(C, D), NEW i, NEW p, Trail(i, p), Stopped(p), HasParent(p[1])
    PROVE  Circular(i)
<1>0. Line(p) /\ Len(p) \in Nat /\ p \in Seq(1..Len(menuRows))
      BY DEF Trail, Line
<1>1. PICK t \in 1..Len(p) : p[1] \in MenuChildren(p[t])
      BY DEF Stopped
<1>2. PICK r : r = SubSeq(p, 1, t)
      OBVIOUS
<1>3. Line(r) /\ Len(r) = t /\ \A k \in 1..t : r[k] = p[k]
      BY <1>0, <1>2, LineTop
<1>4. PICK q : q = <<p[t]>> \o r
      OBVIOUS
<1>5. p[t] \in 1..Len(menuRows) /\ r \in Seq(1..Len(menuRows)) /\ t \in Nat /\ t > 0
      BY <1>0, <1>3 DEF Line
<1>6. /\ q \in Seq(1..Len(menuRows)) /\ Len(q) = t + 1
      /\ q[1] = p[t] /\ \A k \in 2..(t + 1) : q[k] = r[k - 1]
      BY <1>3, <1>4, <1>5
<1>7. ASSUME NEW k \in 1..(Len(q) - 1)
      PROVE  q[k + 1] \in MenuChildren(q[k])
  <2>1. CASE k = 1
    <3>1. q[2] = p[1]
          BY <1>3, <1>5, <1>6
    <3>. QED  BY <1>1, <1>6, <2>1, <3>1
  <2>2. CASE k # 1
    <3>1. k \in 2..t /\ k \in 2..(t + 1) /\ k + 1 \in 2..(t + 1) /\ (k + 1) - 1 = k
          BY <1>5, <1>6, <2>2
    <3>2. q[k + 1] = r[k] /\ q[k] = r[k - 1]
          BY <1>6, <3>1
    <3>. QED  BY <1>3, <3>1, <3>2, LineParents
  <2>. QED  BY <2>1, <2>2
<1>8. Line(q)
      BY <1>5, <1>6, <1>7 DEF Line
<1>9. q[Len(q)] = p[t]
  <2>1. t + 1 \in 2..(t + 1) /\ (t + 1) - 1 = t /\ t \in 1..t
        BY <1>5
  <2>. QED  BY <1>3, <1>6, <2>1
<1>10. p[t] \in Above(p[t])
  <2>1. 1 \in 1..(Len(q) - 1)
        BY <1>5, <1>6
  <2>. QED  BY <1>6, <1>8, <1>9, <2>1, LineAbove
<1>11. p[t] \in Above(i) \cup {i}
      BY TrailIsAbove DEF RowsIn
<1>. QED  BY <1>10, <1>11 DEF Circular

\* A row at the end of a branch is not circular.
LEMMA BranchNotCircular ==
    ASSUME NEW C, NEW D, menuRows \in UniqueRows(C, D), NEW i, NEW p, Trail(i, p), ~HasParent(p[1])
    PROVE  ~Circular(i)
<1>0. /\ Line(p) /\ Len(p) \in Nat /\ p \in Seq(1..Len(menuRows)) /\ DOMAIN menuRows = 1..Len(menuRows)
      /\ \A a, b \in 1..Len(p) : p[a] = p[b] => a = b
      BY DEF Trail, Line, UniqueRows
<1>1. Stopped(p)
      BY DEF Stopped
<1>2. ASSUME NEW k \in 1..Len(p), p[k] \in Above(p[k])
      PROVE  FALSE
  <2>. DEFINE S == {p[t] : t \in 1..(k - 1)}
  <2>1. ASSUME NEW t \in 1..k
        PROVE  Parents(p[t]) \subseteq S
    <3>1. ASSUME NEW x \in Parents(p[t])
          PROVE  x \in S
      <4>1. x \in 1..Len(menuRows) /\ p[t] \in MenuChildren(x)
            BY <1>0, <3>1 DEF Parents
      <4>2. t # 1
            BY <4>1 DEF MenuChildren
      <4>3. t \in 2..Len(p) /\ t - 1 \in 1..(k - 1)
            BY <1>0, <4>2
      <4>4. p[t] \in MenuChildren(p[t - 1]) /\ p[t - 1] \in 1..Len(menuRows)
            BY <1>0, <4>3, LineParents
      <4>5. x = p[t - 1]
            BY <4>1, <4>4, OneParent
      <4>. QED  BY <4>3, <4>5
    <3>. QED  BY <3>1
  <2>2. UpClosed(S)
    <3>1. \A t \in 1..(k - 1) : t \in 1..k
          OBVIOUS
    <3>. QED  BY <2>1, <3>1 DEF UpClosed
  <2>3. S \in SUBSET DOMAIN menuRows
        BY <1>0
  <2>4. Parents(p[k]) \subseteq S
    <3>1. k \in 1..k
          OBVIOUS
    <3>. QED  BY <2>1, <3>1
  <2>. HIDE DEF S
  <2>5. p[k] \in S
        BY <1>2, <2>2, <2>3, <2>4, Zenon DEF Above
  <2>6. PICK t \in 1..(k - 1) : p[k] = p[t]
        BY <2>5 DEF S
  <2>7. t \in 1..Len(p) /\ t # k
        BY <1>0
  <2>. QED  BY <1>0, <2>6, <2>7
<1>3. Above(i) \cup {i} = RowsIn(p)
      BY <1>1, TrailIsAbove
<1>. QED  BY <1>2, <1>3 DEF Circular, RowsIn

\* The branches of the tree: as many as there are, of whatever length.
LEMMA TreeIs ==
    ASSUME NEW C, NEW D, menuRows \in UniqueRows(C, D), NEW p
    PROVE  p \in BuildTree <=> Line(p) /\ ~HasParent(p[1])
<1>0. Len(menuRows) \in Nat /\ DOMAIN menuRows = 1..Len(menuRows)
      BY DEF UniqueRows
<1>1. ASSUME p \in BuildTree
      PROVE  Line(p) /\ ~HasParent(p[1])
  <2>1. PICK n \in 1..Len(menuRows) : p \in [1..n -> 1..Len(menuRows)]
        BY <1>0, <1>1 DEF BuildTree
  <2>2. Branch(p)
        BY <1>1 DEF BuildTree
  <2>3. p \in Seq(1..Len(menuRows)) /\ Len(p) = n /\ n > 0
        BY <1>0, <2>1
  <2>. QED  BY <2>2, <2>3, Zenon DEF Branch, Line
<1>2. ASSUME Line(p), ~HasParent(p[1])
      PROVE  p \in BuildTree
  <2>1. p \in Seq(1..Len(menuRows)) /\ Len(p) \in Nat /\ Len(p) > 0
        BY <1>2 DEF Line
  <2>2. \A a, b \in 1..Len(p) : p[a] = p[b] => a = b
        BY <1>2, BranchDistinct
  <2>3. Len(p) <= Len(menuRows)
        BY <1>0, <2>1, <2>2, DistinctBounded
  <2>4. Len(p) \in 1..Len(menuRows) /\ p \in [1..Len(p) -> DOMAIN menuRows]
        BY <1>0, <2>1, <2>3
  <2>5. Branch(p)
        BY <1>2, Zenon DEF Branch, Line
  <2>. QED  BY <2>4, <2>5 DEF BuildTree
<1>. QED  BY <1>1, <1>2, Zenon

\* There is one branch to a row.
LEMMA OneBranch ==
    ASSUME NEW C, NEW D, menuRows \in UniqueRows(C, D), NEW p, NEW q, Line(p), Line(q),
           ~HasParent(p[1]), ~HasParent(q[1]), p[Len(p)] = q[Len(q)]
    PROVE  p = q
<1>0. /\ p \in Seq(1..Len(menuRows)) /\ Len(p) \in Nat /\ Len(p) > 0
      /\ q \in Seq(1..Len(menuRows)) /\ Len(q) \in Nat /\ Len(q) > 0
      BY DEF Line
<1>1. \A k \in Nat : k < Len(p) /\ k < Len(q) => p[Len(p) - k] = q[Len(q) - k]
      BY LinesAgree
<1>2. ~(Len(p) < Len(q))
  <2>1. SUFFICES ASSUME Len(p) < Len(q) PROVE FALSE
        OBVIOUS
  <2>2. Len(p) - 1 \in Nat /\ Len(p) - 1 < Len(p) /\ Len(p) - 1 < Len(q)
        BY <1>0, <2>1
  <2>3. p[Len(p) - (Len(p) - 1)] = q[Len(q) - (Len(p) - 1)]
        BY <1>1, <2>2, Zenon
  <2>4. Len(p) - (Len(p) - 1) = 1 /\ Len(q) - (Len(p) - 1) \in 2..Len(q)
        BY <1>0, <2>1
  <2>. QED  BY <2>3, <2>4, LineParents
<1>3. ~(Len(q) < Len(p))
  <2>1. SUFFICES ASSUME Len(q) < Len(p) PROVE FALSE
        OBVIOUS
  <2>2. Len(q) - 1 \in Nat /\ Len(q) - 1 < Len(p) /\ Len(q) - 1 < Len(q)
        BY <1>0, <2>1
  <2>3. p[Len(p) - (Len(q) - 1)] = q[Len(q) - (Len(q) - 1)]
        BY <1>1, <2>2, Zenon
  <2>4. Len(q) - (Len(q) - 1) = 1 /\ Len(p) - (Len(q) - 1) \in 2..Len(p)
        BY <1>0, <2>1
  <2>. QED  BY <2>3, <2>4, LineParents
<1>4. Len(p) = Len(q)
      BY <1>0, <1>2, <1>3
<1>5. ASSUME NEW k \in 1..Len(p)
      PROVE  p[k] = q[k]
  <2>1. /\ Len(p) - k \in Nat /\ Len(p) - k < Len(p) /\ Len(p) - k < Len(q)
        /\ Len(p) - (Len(p) - k) = k /\ Len(q) - (Len(p) - k) = k
        BY <1>0, <1>4
  <2>2. p[Len(p) - (Len(p) - k)] = q[Len(q) - (Len(p) - k)]
        BY <1>1, <2>1, Zenon
  <2>. QED  BY <2>1, <2>2
<1>. QED  BY <1>0, <1>4, <1>5, SeqEqual

\* The breadcrumb made of a trail.
LEMMA NamesOfTrail ==
    ASSUME NEW C, NEW D, menuRows \in UniqueRows(C, D), NEW i, NEW p, Trail(i, p)
    PROVE  /\ Len(Names(p)) = Len(p) /\ Last(Names(p)) = menuRows[i].component
           /\ Range(Names(p)) = {menuRows[j].component : j \in RowsIn(p)}
           /\ Cardinality(Range(Names(p))) = Len(p)
<1>0. /\ p \in Seq(1..Len(menuRows)) /\ Len(p) \in Nat /\ Len(p) > 0 /\ p[Len(p)] = i
      /\ \A a, b \in 1..Len(p) : p[a] = p[b] => a = b
      BY DEF Trail, Line
<1>1. PICK f : f = Names(p)
      OBVIOUS
<1>2. f = [k \in 1..Len(p) |-> menuRows[p[k]].component]
      BY <1>1 DEF Names
<1>3. PICK S : S = Range(f)
      OBVIOUS
<1>4. f \in [1..Len(p) -> S] /\ S = {f[k] : k \in 1..Len(p)}
      BY <1>2, <1>3 DEF Range
<1>5. Len(f) = Len(p)
      BY <1>0, <1>4
<1>6. Last(f) = menuRows[i].component
      BY <1>0, <1>2, <1>5 DEF Last
<1>7. S = {menuRows[j].component : j \in RowsIn(p)}
      BY <1>2, <1>4 DEF RowsIn
<1>8. Cardinality(S) = Len(p)
  <2>1. \A a, b \in 1..Len(p) : f[a] = f[b] => a = b
    <3>1. ASSUME NEW a \in 1..Len(p), NEW b \in 1..Len(p), f[a] = f[b]
          PROVE  a = b
      <4>1. p[a] \in 1..Len(menuRows) /\ p[b] \in 1..Len(menuRows)
            BY <1>0
      <4>2. menuRows[p[a]].component = menuRows[p[b]].component
            BY <1>2, <3>1
      <4>3. p[a] = p[b]
            BY <4>1, <4>2 DEF UniqueRows
      <4>. QED  BY <1>0, <4>3
    <3>. QED  BY <3>1
  <2>2. PICK T : T = 1..Len(p)
        OBVIOUS
  <2>3. IsFiniteSet(T) /\ Cardinality(T) = Len(p)
        BY <1>0, <2>2, UpTo
  <2>4. f \in Bijection(T, S)
        BY <1>4, <2>1, <2>2 DEF Bijection, Injection, Surjection, IsInjective
  <2>5. ExistsBijection(T, S)
        BY <2>4 DEF ExistsBijection
  <2>6. Cardinality(S) = Cardinality(T)
        BY <2>3, <2>5, FS_Bijection
  <2>. QED  BY <2>3, <2>6
<1>. QED  BY <1>1, <1>3, <1>5, <1>6, <1>7, <1>8

\* Every table with unique components is shown as it should be.
LEMMA RowsPlaced ==
    ASSUME NEW C, NEW D, menuRows \in UniqueRows(C, D)
    PROVE  MenusPlaced
<1>0. DOMAIN menuRows = 1..Len(menuRows)
      BY DEF UniqueRows
<1>1. SUFFICES ASSUME NEW i \in 1..Len(menuRows)
               PROVE  LET places == {p \in BuildTree : Last(p) = i} IN
                      /\ Cardinality(places) = IF Circular(i) THEN 0 ELSE 1
                      /\ \A p \in places : PathTo(i) = Names(p)
                      /\ Last(PathTo(i)) = menuRows[i].component
                      /\ Cardinality(Range(PathTo(i))) = Len(PathTo(i))
                      /\ Range(PathTo(i)) = {menuRows[j].component : j \in Above(i) \cup {i}}
      BY <1>0, Zenon DEF MenusPlaced, Names
<1>. DEFINE places == {p \in BuildTree : Last(p) = i}
<1>2. PICK p : Trail(i, p) /\ Stopped(p) /\ PathTo(i) = Names(p)
      BY PathIsTrail
<1>3. /\ Len(Names(p)) = Len(p) /\ Last(Names(p)) = menuRows[i].component
      /\ Range(Names(p)) = {menuRows[j].component : j \in RowsIn(p)}
      /\ Cardinality(Range(Names(p))) = Len(p)
      BY <1>2, NamesOfTrail
<1>4. Above(i) \cup {i} = RowsIn(p)
      BY <1>2, TrailIsAbove
<1>5. ASSUME NEW q \in places
      PROVE  Line(q) /\ ~HasParent(q[1]) /\ Trail(i, q) /\ ~Circular(i)
  <2>1. Line(q) /\ ~HasParent(q[1]) /\ q[Len(q)] = i
        BY TreeIs DEF Last
  <2>2. Trail(i, q)
        BY <2>1, BranchDistinct DEF Trail
  <2>. QED  BY <2>1, <2>2, BranchNotCircular
<1>6. CASE HasParent(p[1])
  <2>1. Circular(i)
        BY <1>2, <1>6, CircleMet
  <2>2. places = {}
        BY <1>5, <2>1
  <2>3. Cardinality(places) = 0
        BY <2>2, FS_EmptySet
  <2>. HIDE DEF places
  <2>4. Cardinality(places) = IF Circular(i) THEN 0 ELSE 1
        BY <2>1, <2>3
  <2>5. \A q \in places : PathTo(i) = Names(q)
        BY <2>2
  <2>. QED  BY <1>2, <1>3, <1>4, <2>4, <2>5, Zenon DEF places
<1>7. CASE ~HasParent(p[1])
  <2>0. Line(p) /\ p[Len(p)] = i
        BY <1>2 DEF Trail
  <2>1. ~Circular(i)
        BY <1>2, <1>7, BranchNotCircular
  <2>2. p \in places
        BY <1>7, <2>0, TreeIs DEF Last
  <2>3. ASSUME NEW q \in places
        PROVE  q = p
    <3>1. Line(q) /\ ~HasParent(q[1]) /\ q[Len(q)] = i
          BY <1>5 DEF Trail
    <3>. QED  BY <1>7, <2>0, <3>1, OneBranch
  <2>. HIDE DEF places
  <2>4. places = {p}
        BY <2>2, <2>3
  <2>5. Cardinality(places) = 1
        BY <2>4, FS_Singleton
  <2>6. Cardinality(places) = IF Circular(i) THEN 0 ELSE 1
        BY <2>1, <2>5
  <2>7. \A q \in places : PathTo(i) = Names(q)
        BY <1>2, <2>3
  <2>. QED  BY <1>2, <1>3, <1>4, <2>6, <2>7, Zenon DEF places
<1>. QED  BY <1>6, <1>7

\* The tables of the model are such tables.
LEMMA ModelRows ==
    ASSUME MenusInit
    PROVE  menuRows \in UniqueRows(MenuNames, MenuNames \cup {NoParent, "gone"})
<1>1. PICK D : D = MenuNames \cup {NoParent, "gone"}
      OBVIOUS
<1>2. PICK N : N = Cardinality(MenuNames)
      OBVIOUS
<1>3. N \in Nat /\ ExistsBijection(1..N, MenuNames)
      BY <1>2, MenuAssumption, FS_CardinalityType
<1>4. PICK order : order = SetToSeq(MenuNames)
      OBVIOUS
<1>5. order \in [1..N -> MenuNames] /\ IsInjective(order)
  <2>1. \E f \in [1..N -> MenuNames] : IsInjective(f)
        BY <1>3 DEF ExistsBijection, Bijection, Injection, IsInjective
  <2>2. order = CHOOSE f \in [1..N -> MenuNames] : IsInjective(f)
        BY <1>2, <1>4, Zenon DEF SetToSeq
  <2>. QED  BY <2>1, <2>2, Zenon
<1>6. Len(order) = N
      BY <1>3, <1>5
<1>7. PICK up \in [1..N -> D] : menuRows = [i \in 1..N |-> [component |-> order[i], parent |-> up[i]]]
  <2>1. \E o \in {SetToSeq(MenuNames)}, up \in [1..Cardinality(MenuNames) -> MenuNames \cup {NoParent, "gone"}] :
            menuRows = [i \in 1..Len(o) |-> [component |-> o[i], parent |-> up[i]]]
        BY DEF MenusInit
  <2>2. PICK up \in [1..Cardinality(MenuNames) -> MenuNames \cup {NoParent, "gone"}] :
            menuRows = [i \in 1..Len(order) |-> [component |-> order[i], parent |-> up[i]]]
        BY <1>4, <2>1, Zenon
  <2>. QED  BY <1>1, <1>2, <1>6, <2>2, Zenon
<1>8. menuRows \in [1..N -> [component : MenuNames, parent : D]]
      BY <1>5, <1>7
<1>9. menuRows \in Seq([component : MenuNames, parent : D]) /\ Len(menuRows) = N
  <2>1. PICK R : R = [component : MenuNames, parent : D]
        OBVIOUS
  <2>2. menuRows \in [1..N -> R]
        BY <1>8, <2>1
  <2>3. menuRows \in Seq(R) /\ Len(menuRows) = N
        BY <1>3, <2>2
  <2>. QED  BY <2>1, <2>3
<1>10. \A a, b \in 1..N : menuRows[a].component = menuRows[b].component => a = b
      BY <1>5, <1>7 DEF IsInjective
<1>. QED  BY <1>1, <1>9, <1>10 DEF UniqueRows

\* For every table of menus whose components are unique, over any names and
\* with any parents, BuildTree shows each menu once or, on and below a circle
\* of parents, not at all, and PathTo walks the same branch.
THEOREM MenusTheorem ==
    /\ \A C, D : menuRows \in UniqueRows(C, D) => MenusPlaced
    /\ MenusInit => MenusPlaced
<1>1. \A C, D : menuRows \in UniqueRows(C, D) => MenusPlaced
      BY RowsPlaced
<1>. QED  BY <1>1, ModelRows

=============================================================================
