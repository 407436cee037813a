------------------------ MODULE UserDirectoryProofs ------------------------
(***************************************************************************)
(* Proofs about UserDirectory, for any number of concurrent requests,      *)
(* users, names and roles.                                                 *)
(***************************************************************************)
EXTENDS UserDirectory, TLAPS

-----------------------------------------------------------------------------
(* Types.                                                                  *)

UserRow == [uid : Names \cup {""}, username : Names \cup {""}, role : RoleKeys \cup {""},
            status : {"normal", "disabled"}, live : BOOLEAN]
Change == {<<>>} \cup {[username |-> n] : n \in Names} \cup {[role |-> k] : k \in RoleKeys \cup {""}}
            \cup {[status |-> s] : s \in {"normal", "disabled"}} \cup {[live |-> FALSE]}
Request == [pc : {"idle", "loaded", "write", "save"}, id : Ids \cup {0}, copy : UserRow,
            change : Change, caller : Names \cup {""}, super : BOOLEAN, outdated : BOOLEAN]

\* What a request holds fits the row it is about: the uid of a row never changes,
\* and the copy of a checked update has the column the update writes.
RequestOK(q) ==
    /\ q.pc \in {"loaded", "save"} => q.id # 0
    /\ q.id # 0 => users[q.id].uid # "" /\ q.copy.uid = users[q.id].uid
    /\ q.pc = "write" /\ q.id = 0 => q.change = <<>> /\ q.copy.uid # ""
    /\ "username" \in DOMAIN q.change => q.copy.username = q.change.username
    /\ "role" \in DOMAIN q.change => q.copy.role = q.change.role

TablesOK ==
    /\ users \in [Ids -> UserRow]
    /\ \A i \in LiveIds : users[i].uid # ""
    /\ superKeys \subseteq liveRoles /\ liveRoles \subseteq RoleKeys

DirectoryType ==
    /\ TablesOK
    /\ work \in [Workers -> Request]
    /\ \A w \in Workers : RequestOK(work[w])

\* An UPDATE of some columns: those columns change, the others and the uid do not.
LEMMA WithFacts ==
    ASSUME NEW r \in UserRow, NEW c \in Change
    PROVE  /\ With(r, c) \in UserRow
           /\ With(r, c).uid = r.uid
           /\ With(r, c).username = IF "username" \in DOMAIN c THEN c.username ELSE r.username
           /\ With(r, c).role = IF "role" \in DOMAIN c THEN c.role ELSE r.role
<1>1. CASE c = <<>>
  <2>1. DOMAIN c = {}
    BY <1>1
  <2>2. \A f : f \notin DOMAIN c
    BY <2>1
  <2>3. With(r, c) = r
    <3>1. With(r, c) = [f \in DOMAIN r |-> r[f]]
      BY <2>2, Zenon DEF With
    <3>2. r = [f \in DOMAIN r |-> r[f]]
      BY DEF UserRow
    <3>3. QED
      BY <3>1, <3>2
  <2>4. QED
    BY <2>2, <2>3, Zenon
<1>2. ASSUME NEW n \in Names, c = [username |-> n]
      PROVE  /\ With(r, c) \in UserRow
             /\ With(r, c).uid = r.uid
             /\ With(r, c).username = IF "username" \in DOMAIN c THEN c.username ELSE r.username
             /\ With(r, c).role = IF "role" \in DOMAIN c THEN c.role ELSE r.role
    BY <1>2 DEF With, UserRow
<1>3. ASSUME NEW k \in RoleKeys \cup {""}, c = [role |-> k]
      PROVE  /\ With(r, c) \in UserRow
             /\ With(r, c).uid = r.uid
             /\ With(r, c).username = IF "username" \in DOMAIN c THEN c.username ELSE r.username
             /\ With(r, c).role = IF "role" \in DOMAIN c THEN c.role ELSE r.role
    BY <1>3 DEF With, UserRow
<1>4. ASSUME NEW s \in {"normal", "disabled"}, c = [status |-> s]
      PROVE  /\ With(r, c) \in UserRow
             /\ With(r, c).uid = r.uid
             /\ With(r, c).username = IF "username" \in DOMAIN c THEN c.username ELSE r.username
             /\ With(r, c).role = IF "role" \in DOMAIN c THEN c.role ELSE r.role
    BY <1>4 DEF With, UserRow
<1>5. CASE c = [live |-> FALSE]
  BY <1>5 DEF With, UserRow
<1>6. QED
  BY <1>1, <1>2, <1>3, <1>4, <1>5 DEF Change

\* Ids begin at 1; 0 stands for a row yet to be created.
LEMMA IdNotZero == \A i \in Ids : i # 0
<1>1. MaxUsers \in Nat
  BY DirectoryAssumption
<1>. QED
  BY <1>1 DEF Ids

\* The change of a request that has none.
LEMMA NoChange == \A c : c = <<>> => DOMAIN c = {}
OBVIOUS

\* A worker with no request.
LEMMA IdleOK ==
    /\ Idle \in Request /\ RequestOK(Idle) /\ Idle.pc = "idle" /\ Idle.caller = ""
    /\ Idle.outdated = FALSE /\ NoUser.uid = "" /\ NoUser.live = FALSE
<1>1. NoUser \in UserRow
  BY DEF NoUser, UserRow
<1>2. Idle \in Request
  BY <1>1 DEF Idle, Request, Change
<1>3. RequestOK(Idle) /\ Idle.pc = "idle" /\ Idle.caller = "" /\ Idle.outdated = FALSE
  BY DEF Idle, RequestOK
<1>4. NoUser.uid = "" /\ NoUser.live = FALSE
  BY DEF NoUser
<1>. QED
  BY <1>2, <1>3, <1>4

\* The first state has the types.
LEMMA InitDirectoryType ==
    ASSUME DirectoryInit PROVE DirectoryType
<1>0. /\ "" \notin Names /\ Admin \in Names /\ Member \in Names
      /\ AdminKey \in RoleKeys /\ StaffKey \in RoleKeys
  BY DirectoryAssumption
<1>1. NoUser \in UserRow /\ NoUser.uid = "" /\ ~NoUser.live
  BY DEF NoUser, UserRow
<1>2. \A n \in Names, k \in RoleKeys :
         NewUser(n, k) \in UserRow /\ NewUser(n, k).uid = n
  BY DEF NewUser, NoUser, UserRow
<1> DEFINE Seeded(i) == CASE i = 1 -> NewUser(Admin, AdminKey)
                          [] i = 2 -> NewUser(Member, StaffKey)
                          [] OTHER -> NoUser
<1>3. \A i \in Ids : /\ Seeded(i) \in UserRow
                     /\ Seeded(i).live => Seeded(i).uid # ""
  <2>. SUFFICES ASSUME NEW i \in Ids
                PROVE  Seeded(i) \in {NewUser(Admin, AdminKey), NewUser(Member, StaffKey), NoUser}
    <3>. HIDE DEF Seeded
    <3>. QED
      BY <1>0, <1>1, <1>2
  <2>1. CASE i = 1
    BY <2>1, Zenon
  <2>2. CASE i = 2
    <3>1. i # 1
      BY <2>2
    <3>. QED
      BY <2>2, <3>1, Zenon
  <2>3. CASE i # 1 /\ i # 2
    BY <2>3, Zenon
  <2>. QED
    BY <2>1, <2>2, <2>3
<1>4. TablesOK
  <2>1. users = [i \in Ids |-> Seeded(i)]
    BY Zenon DEF DirectoryInit
  <2>2. users \in [Ids -> UserRow]
    BY <1>3, <2>1, Zenon
  <2>3. \A i \in LiveIds : users[i].uid # ""
    <3>1. \A i \in Ids : users[i] = Seeded(i)
      BY <2>1, Zenon
    <3>2. \A i \in Ids : users[i].live => users[i].uid # ""
      BY <1>3, <3>1, Zenon
    <3>. QED
      BY <3>2 DEF LiveIds
  <2>4. superKeys \subseteq liveRoles /\ liveRoles \subseteq RoleKeys
    BY <1>0 DEF DirectoryInit
  <2>. QED
    BY <2>1, <2>2, <2>3, <2>4 DEF TablesOK
<1>5. work \in [Workers -> Request] /\ \A w \in Workers : RequestOK(work[w])
  BY IdleOK DEF DirectoryInit
<1>. QED
  BY <1>4, <1>5 DEF DirectoryType

\* A row, once it has a uid, keeps it; requests that fitted the rows still fit.
LEMMA RequestsFit ==
    ASSUME DirectoryType, TablesOK',
           \A i \in Ids : users[i].uid # "" => users'[i].uid = users[i].uid,
           work' \in [Workers -> Request],
           \A x \in Workers : RequestOK(work'[x])
    PROVE  DirectoryType'
<1>1. ASSUME NEW x \in Workers
      PROVE  RequestOK(work[x])'
  <2>1. work'[x] \in Request /\ RequestOK(work'[x])
    OBVIOUS
  <2> DEFINE q == work'[x]
  <2>2. q \in Request /\ RequestOK(q)
    BY <2>1
  <2>. HIDE DEF q
  <2>3. q.id # 0 => q.id \in Ids
    BY <2>2 DEF Request
  <2>4. q.id # 0 => users'[q.id].uid # "" /\ q.copy.uid = users'[q.id].uid
    BY <2>2, <2>3 DEF RequestOK
  <2>. QED
    BY <2>2, <2>4 DEF RequestOK, q
<1>. QED
  BY <1>1 DEF DirectoryType

\* A request that begins, goes on or ends while the tables stay as they are.
LEMMA RequestStep ==
    ASSUME DirectoryType, UNCHANGED <<users, liveRoles, superKeys>>,
           NEW w \in Workers, NEW q \in Request, RequestOK(q),
           work' = [work EXCEPT ![w] = q]
    PROVE  DirectoryType'
<1>1. TablesOK'
  BY DEF DirectoryType, TablesOK, LiveIds
<1>2. \A i \in Ids : users[i].uid # "" => users'[i].uid = users[i].uid
  OBVIOUS
<1>3. work' \in [Workers -> Request] /\ \A x \in Workers : RequestOK(work'[x])
  BY DEF DirectoryType
<1>. QED
  BY <1>1, <1>2, <1>3, RequestsFit

\* A request that writes a row, and ends.
LEMMA RowStep ==
    ASSUME DirectoryType, NEW w \in Workers, NEW id \in Ids, NEW row \in UserRow,
           users' = [users EXCEPT ![id] = row], UNCHANGED <<liveRoles, superKeys>>,
           row.uid # "",
           users[id].uid # "" => row.uid = users[id].uid,
           work' = [work EXCEPT ![w] = Idle]
    PROVE  DirectoryType'
<1>1. TablesOK'
  BY DEF DirectoryType, TablesOK, LiveIds
<1>2. \A i \in Ids : users[i].uid # "" => users'[i].uid = users[i].uid
  BY DEF DirectoryType, TablesOK
<1>3. Idle \in Request /\ RequestOK(Idle)
  BY IdleOK
<1>4. work' \in [Workers -> Request] /\ \A x \in Workers : RequestOK(work'[x])
  BY <1>3 DEF DirectoryType
<1>. QED
  BY <1>1, <1>2, <1>4, RequestsFit

\* A request that passed a check of the create hook.
LEMMA CreateCheckType ==
    ASSUME DirectoryType, NEW w \in Workers, NEW caller \in Names, NEW uid \in Names,
           NEW name \in Names, NEW role \in RoleKeys, CreateCheck(w, caller, uid, name, role)
    PROVE  DirectoryType'
<1> DEFINE row == [NoUser EXCEPT !.uid = uid, !.username = name, !.role = role, !.live = TRUE]
           q == [Idle EXCEPT !.pc = "write", !.caller = caller, !.super = CallerIsSuper(caller),
                             !.copy = row]
<1>1. row \in UserRow /\ row.uid # ""
  <2>1. uid # ""
    BY DirectoryAssumption
  <2>. QED
    BY <2>1 DEF NoUser, UserRow
<1>2. work' = [work EXCEPT ![w] = q] /\ UNCHANGED <<users, liveRoles, superKeys>>
  BY DEF CreateCheck, Begin, directoryTables, directoryHistory
<1>3. CallerIsSuper(caller) \in BOOLEAN
  BY DEF CallerIsSuper
<1>. HIDE DEF row
<1>4. q \in Request /\ RequestOK(q)
  <2>. DEFINE b == CallerIsSuper(caller)
  <2>1. b \in BOOLEAN
    BY <1>3
  <2>. HIDE DEF b
  <2>2. Idle.change = <<>> /\ Idle.id = 0
    BY DEF Idle
  <2>3. /\ q.pc = "write" /\ q.id = 0 /\ q.copy = row /\ q.change = <<>>
    BY DEF Idle
  <2>4. q \in Request
    BY <1>1, <2>1, IdleOK DEF Request, b
  <2>. HIDE DEF q
  <2>5. DOMAIN q.change = {}
    BY <2>3
  <2>. QED
    BY <2>3, <2>4, <2>5, <1>1 DEF RequestOK
<1>. HIDE DEF q
<1>. QED
  BY <1>2, <1>4, RequestStep

\* A request that loaded the row it is about.
LEMMA LoadType ==
    ASSUME DirectoryType, NEW w \in Workers, NEW id \in LiveIds, NEW pc \in {"loaded", "save"},
           NEW caller \in Names \cup {""},
           work' = [work EXCEPT ![w] = [Idle EXCEPT !.pc = pc, !.id = id, !.copy = users[id],
                                                    !.caller = caller]],
           UNCHANGED <<users, liveRoles, superKeys>>
    PROVE  DirectoryType'
<1> DEFINE q == [Idle EXCEPT !.pc = pc, !.id = id, !.copy = users[id], !.caller = caller]
<1>1. id \in Ids /\ users[id] \in UserRow /\ users[id].uid # ""
  BY DEF LiveIds, DirectoryType, TablesOK
<1>2. q.pc = pc /\ q.id = id /\ q.copy = users[id] /\ id # 0
  BY <1>1, IdNotZero DEF Idle
<1>q. q.change = <<>>
  BY DEF Idle
<1>3. q \in Request
  BY <1>1, IdleOK DEF Request
<1>. HIDE DEF q
<1>4. DOMAIN q.change = {}
  BY <1>q, NoChange
<1>5. RequestOK(q)
  BY <1>1, <1>2, <1>4 DEF RequestOK
<1>6. work' = [work EXCEPT ![w] = q]
  BY DEF q
<1>. QED
  BY <1>3, <1>5, <1>6, RequestStep

\* A request whose change passed guardUserUpdate or guardDelete.
LEMMA CheckType ==
    ASSUME DirectoryType, NEW w \in Workers, NEW change \in Change, work[w].pc = "loaded",
           NEW q \in Request, q.pc = "write", q.id = work[w].id, q.change = change,
           q.copy = work[w].copy \/ q.copy = With(work[w].copy, change),
           q.copy = With(work[w].copy, change) \/ change = [live |-> FALSE],
           work' = [work EXCEPT ![w] = q],
           UNCHANGED <<users, liveRoles, superKeys>>
    PROVE  DirectoryType'
<1>1. work[w] \in Request /\ RequestOK(work[w])
  BY DEF DirectoryType
<1>2. work[w].copy \in UserRow /\ q.id # 0
  BY <1>1 DEF Request, RequestOK
<1>3. q.copy.uid = work[w].copy.uid
  BY <1>2, WithFacts
<1>4. /\ "username" \in DOMAIN change => q.copy.username = change.username
      /\ "role" \in DOMAIN change => q.copy.role = change.role
  <2>1. CASE q.copy = With(work[w].copy, change)
    BY <1>2, <2>1, WithFacts
  <2>2. CASE change = [live |-> FALSE]
    BY <2>2
  <2>. QED
    BY <2>1, <2>2
<1>5. RequestOK(q)
  BY <1>1, <1>2, <1>3, <1>4 DEF RequestOK
<1>. QED
  BY <1>5, RequestStep

\* A role's deletion or new key changes the role of its users, and marks the
\* requests that hold the old one.
LEMMA RepointType ==
    ASSUME DirectoryType, NEW k, NEW n \in RoleKeys \cup {""}, Repoint(k, n),
           superKeys' \subseteq liveRoles', liveRoles' \subseteq RoleKeys
    PROVE  DirectoryType'
<1>1. ASSUME NEW i \in Ids
      PROVE  /\ users'[i] \in UserRow
             /\ users'[i].live = users[i].live
             /\ users'[i].uid = users[i].uid
  <2>1. users[i] \in UserRow
    BY DEF DirectoryType, TablesOK
  <2>2. users'[i] \in {users[i], [users[i] EXCEPT !.role = n]}
    BY DEF Repoint
  <2>. QED
    BY <2>1, <2>2 DEF UserRow
<1>2. TablesOK'
  <2>1. users' \in [Ids -> UserRow]
    BY <1>1 DEF Repoint
  <2>. QED
    BY <1>1, <2>1 DEF DirectoryType, TablesOK, LiveIds
<1>3. ASSUME NEW x \in Workers
      PROVE  work'[x] \in Request /\ RequestOK(work'[x])
  <2>1. work[x] \in Request /\ RequestOK(work[x])
    BY DEF DirectoryType
  <2>2. work'[x] = [work[x] EXCEPT !.outdated = @ \/ work[x].copy.role = k]
    BY DEF Repoint
  <2> DEFINE b == work[x].outdated \/ work[x].copy.role = k
  <2>3. b \in BOOLEAN
    OBVIOUS
  <2>4. work'[x] = [work[x] EXCEPT !.outdated = b]
    BY <2>2
  <2>. HIDE DEF b
  <2>5. work'[x] \in Request
    BY <2>1, <2>3, <2>4 DEF Request
  <2>6. /\ work'[x].pc = work[x].pc /\ work'[x].id = work[x].id
        /\ work'[x].copy = work[x].copy /\ work'[x].change = work[x].change
    BY <2>1, <2>4 DEF Request
  <2>. QED
    BY <2>1, <2>5, <2>6 DEF RequestOK
<1>4. work' \in [Workers -> Request]
  BY <1>3 DEF Repoint
<1>. QED
  BY <1>1, <1>2, <1>3, <1>4, RequestsFit

\* An update that passed guardUserUpdate has the changed columns in its copy.
LEMMA UpdateCheckIs ==
    ASSUME DirectoryType, NEW w \in Workers, NEW change \in Changes(work[w].copy),
           NEW unread \in BOOLEAN, UpdateCheck(w, change, unread)
    PROVE  \E q \in Request :
             /\ q.pc = "write" /\ q.id = work[w].id /\ q.change = change
             /\ q.copy = With(work[w].copy, change) /\ q.caller = work[w].caller
             /\ q.super = CallerIsSuper(work[w].caller) /\ change \in Change
             /\ work' = [work EXCEPT ![w] = q]
<1>1. work[w] \in Request /\ work[w].copy \in UserRow
  BY DEF DirectoryType, Request
<1>2. change \in Change
  BY DEF Changes, Change
<1>3. With(work[w].copy, change) \in UserRow
  BY <1>1, <1>2, WithFacts
<1>4. CallerIsSuper(work[w].caller) \in BOOLEAN
  BY DEF CallerIsSuper
<1> DEFINE b == CallerIsSuper(work[w].caller)
           c == With(work[w].copy, change)
           q == [work[w] EXCEPT !.pc = "write", !.change = change, !.copy = c,
                                !.outdated = FALSE, !.super = b]
<1>5. work' = [work EXCEPT ![w] = q]
  BY <1>1 DEF UpdateCheck, DirectoryType, Request
<1>. HIDE DEF b, c
<1>6. /\ q \in Request
      /\ q.pc = "write" /\ q.id = work[w].id /\ q.change = change /\ q.copy = c
      /\ q.caller = work[w].caller /\ q.super = b
  BY <1>1, <1>2, <1>3, <1>4 DEF Request, b, c
<1>. HIDE DEF q
<1>. QED
  BY <1>2, <1>5, <1>6 DEF b, c

\* A delete that passed guardDelete keeps the copy it loaded.
LEMMA DeleteCheckIs ==
    ASSUME DirectoryType, NEW w \in Workers, NEW unread \in BOOLEAN, DeleteCheck(w, unread)
    PROVE  \E q \in Request :
             /\ q.pc = "write" /\ q.id = work[w].id /\ q.change = [live |-> FALSE]
             /\ q.copy = work[w].copy
             /\ work' = [work EXCEPT ![w] = q]
<1>1. work[w] \in Request
  BY DEF DirectoryType
<1>2. CallerIsSuper(work[w].caller) \in BOOLEAN
  BY DEF CallerIsSuper
<1> DEFINE b == CallerIsSuper(work[w].caller)
           change == [live |-> FALSE]
           q == [work[w] EXCEPT !.pc = "write", !.change = change, !.super = b]
<1>3. change \in Change
  BY DEF Change
<1>4. work' = [work EXCEPT ![w] = q]
  BY <1>1 DEF DeleteCheck, DirectoryType, Request
<1>. HIDE DEF b, change
<1>5. /\ q \in Request
      /\ q.pc = "write" /\ q.id = work[w].id /\ q.change = change /\ q.copy = work[w].copy
  BY <1>1, <1>2, <1>3 DEF Request, b
<1>. HIDE DEF q
<1>. QED
  BY <1>4, <1>5 DEF change

\* What RestWrite does: nothing, as the row was deleted meanwhile, or the write
\* of one row and its history.
LEMMA RestWriteIs ==
    ASSUME DirectoryType, NEW w \in Workers, RestWrite(w)
    PROVE  /\ work[w].pc = "write" /\ work' = [work EXCEPT ![w] = Idle]
           /\ UNCHANGED <<liveRoles, superKeys>>
           /\ \/ UNCHANGED <<users, loose, vouched, dangling>>
              \/ \E id \in Ids :
                   LET row == RestWritten(w) IN
                   /\ IF work[w].id # 0 THEN id = work[w].id /\ users[id].live
                                        ELSE users[id] = NoUser
                   /\ users' = [users EXCEPT ![id] = row]
                   /\ loose' = loose \cup (Cleared(w) \cap UNION {Cleared(x) : x \in Workers \ {w}})
                   /\ vouched' = IF row.role \in superKeys /\ work[w].super
                                 THEN vouched \cup {id} ELSE vouched
                   /\ dangling' = IF work[w].outdated /\ row.role = work[w].copy.role
                                  THEN dangling \cup {id} ELSE dangling
<1> DEFINE row == RestWritten(w)
<1>1. PICK id \in Ids :
         /\ IF work[w].id # 0 THEN id = work[w].id
            ELSE users[id] = NoUser /\ \A j \in 1..(id - 1) : users[j] # NoUser
         /\ IF work[w].id # 0 /\ ~users[id].live
            THEN UNCHANGED <<users, directoryHistory>>
            ELSE /\ users' = [users EXCEPT ![id] = row]
                 /\ loose' = loose \cup (Cleared(w) \cap UNION {Cleared(x) : x \in Workers \ {w}})
                 /\ vouched' = IF row.role \in superKeys /\ work[w].super
                               THEN vouched \cup {id} ELSE vouched
                 /\ dangling' = IF work[w].outdated /\ row.role = work[w].copy.role
                                THEN dangling \cup {id} ELSE dangling
  BY Zenon DEF RestWrite
<1>2. /\ work[w].pc = "write" /\ work' = [work EXCEPT ![w] = Idle]
      /\ UNCHANGED <<liveRoles, superKeys>>
  BY DEF RestWrite, End
<1>3. CASE work[w].id # 0 /\ ~users[id].live
  BY <1>1, <1>2, <1>3 DEF directoryHistory
<1>4. CASE ~(work[w].id # 0 /\ ~users[id].live)
  BY <1>1, <1>2, <1>4, Zenon
<1>. QED
  BY <1>3, <1>4

\* Which columns of the written row come from the request, and which from the
\* row as it is by now.
WritesNames(q) == q.pc = "write" /\ (q.id = 0 \/ "username" \in DOMAIN q.change)
WritesRole(q) == q.pc = "write" /\ (q.id = 0 \/ "role" \in DOMAIN q.change)

\* The statement of a REST write changes the columns it was checked for.
LEMMA WrittenRow ==
    ASSUME DirectoryType, NEW w \in Workers, work[w].pc = "write", NEW id \in Ids,
           IF work[w].id # 0 THEN id = work[w].id /\ users[id].live ELSE users[id] = NoUser
    PROVE  /\ RestWritten(w) \in UserRow
           /\ RestWritten(w).uid # ""
           /\ users[id].uid # "" => RestWritten(w).uid = users[id].uid
           /\ NamesOf(RestWritten(w)) =
                IF WritesNames(work[w]) THEN NamesOf(work[w].copy) ELSE NamesOf(users[id])
           /\ RestWritten(w).role =
                IF WritesRole(work[w]) THEN work[w].copy.role ELSE users[id].role
<1>1. work[w] \in Request /\ RequestOK(work[w]) /\ users[id] \in UserRow
  BY DEF DirectoryType, TablesOK
<1>2. work[w].copy \in UserRow /\ work[w].change \in Change
  BY <1>1 DEF Request
<1>3. CASE work[w].id = 0
  <2>1. RestWritten(w) = work[w].copy /\ work[w].copy.uid # "" /\ users[id].uid = ""
    <3>0. users[id] = NoUser
      BY <1>3, Zenon
    <3>1. users[id].uid = ""
      BY <3>0, IdleOK, Zenon
    <3>2. work[w].copy.uid # ""
      BY <1>1, <1>3 DEF RequestOK
    <3>. QED
      BY <1>3, <3>1, <3>2 DEF RestWritten
  <2>2. WritesNames(work[w]) /\ WritesRole(work[w])
    BY <1>3 DEF WritesNames, WritesRole
  <2>. QED
    BY <1>2, <2>1, <2>2
<1>4. CASE work[w].id # 0
  <2>1. RestWritten(w) = With(users[id], work[w].change) /\ users[id].uid # ""
        /\ work[w].copy.uid = users[id].uid
    BY <1>1, <1>4 DEF RestWritten, RequestOK
  <2>2. /\ WritesNames(work[w]) <=> "username" \in DOMAIN work[w].change
        /\ WritesRole(work[w]) <=> "role" \in DOMAIN work[w].change
    BY <1>4 DEF WritesNames, WritesRole
  <2> DEFINE r == RestWritten(w)
             c == work[w].change
  <2>3. /\ r \in UserRow /\ r.uid = users[id].uid
        /\ r.username = IF "username" \in DOMAIN c THEN c.username ELSE users[id].username
        /\ r.role = IF "role" \in DOMAIN c THEN c.role ELSE users[id].role
    <3>. HIDE DEF c
    <3>1. users[id] \in UserRow /\ c \in Change
      BY <1>1, <1>2 DEF c
    <3> DEFINE u == users[id]
    <3>2. u \in UserRow
      BY <3>1
    <3>. HIDE DEF u
    <3>3. /\ With(u, c) \in UserRow /\ With(u, c).uid = u.uid
          /\ With(u, c).username = IF "username" \in DOMAIN c THEN c.username ELSE u.username
          /\ With(u, c).role = IF "role" \in DOMAIN c THEN c.role ELSE u.role
      BY <3>1, <3>2, WithFacts
    <3>4. r = With(u, c)
      BY <2>1 DEF u, c
    <3>. HIDE DEF r
    <3>. QED
      BY <3>3, <3>4 DEF u
  <2>4. /\ "username" \in DOMAIN c => work[w].copy.username = c.username
        /\ "role" \in DOMAIN c => work[w].copy.role = c.role
    BY <1>1 DEF RequestOK
  <2>. HIDE DEF r
  <2>5. NamesOf(r) = IF WritesNames(work[w]) THEN NamesOf(work[w].copy) ELSE NamesOf(users[id])
    BY <2>1, <2>2, <2>3, <2>4 DEF NamesOf
  <2>6. r.role = IF WritesRole(work[w]) THEN work[w].copy.role ELSE users[id].role
    BY <2>2, <2>3, <2>4
  <2>. QED
    BY <2>1, <2>3, <2>5, <2>6 DEF r
<1>. QED
  BY <1>3, <1>4

\* What an RPC saves: its copy, but for the username.
LEMMA SavedRow ==
    ASSUME DirectoryType, NEW w \in Workers, work[w].pc = "save", NEW name \in Names
    PROVE  /\ work[w].id \in Ids /\ work[w].copy \in UserRow
           /\ work[w].copy.uid # "" /\ work[w].copy.uid = users[work[w].id].uid
           /\ [work[w].copy EXCEPT !.username = name] \in UserRow
<1>1. work[w] \in Request /\ RequestOK(work[w])
  BY DEF DirectoryType
<1>2. work[w].id \in Ids /\ work[w].copy \in UserRow
  BY <1>1 DEF Request, RequestOK
<1>3. work[w].copy.uid # "" /\ work[w].copy.uid = users[work[w].id].uid
  BY <1>1 DEF RequestOK
<1>4. [work[w].copy EXCEPT !.username = name] \in UserRow
  BY <1>2 DEF UserRow
<1>. QED
  BY <1>2, <1>3, <1>4

\* Every step keeps the types, and requests that fit their rows.
LEMMA NextDirectoryType ==
    ASSUME DirectoryType, [DirectoryNext]_directoryVars
    PROVE  DirectoryType'
<1>1. ASSUME NEW w \in Workers, NEW caller \in Names, NEW uid \in Names, NEW name \in Names,
             NEW role \in RoleKeys, CreateCheck(w, caller, uid, name, role)
      PROVE  DirectoryType'
  BY <1>1, CreateCheckType
<1>2. ASSUME NEW w \in Workers, NEW caller \in Names, NEW id \in Ids, RestLoad(w, caller, id)
      PROVE  DirectoryType'
  <2>1. /\ id \in LiveIds /\ UNCHANGED <<users, liveRoles, superKeys>>
        /\ work' = [work EXCEPT ![w] = [Idle EXCEPT !.pc = "loaded", !.id = id,
                                          !.copy = users[id], !.caller = caller]]
    BY <1>2 DEF RestLoad, Begin, directoryTables, directoryHistory
  <2>. QED
    BY <2>1, LoadType
<1>3. ASSUME NEW w \in Workers, NEW change \in Changes(work[w].copy),
             NEW unread \in BOOLEAN, UpdateCheck(w, change, unread)
      PROVE  DirectoryType'
  <2>1. /\ work[w].pc = "loaded" /\ UNCHANGED <<users, liveRoles, superKeys>>
    BY <1>3 DEF UpdateCheck, directoryTables, directoryHistory
  <2>2. PICK q \in Request :
             /\ q.pc = "write" /\ q.id = work[w].id /\ q.change = change
             /\ q.copy = With(work[w].copy, change) /\ q.caller = work[w].caller
             /\ q.super = CallerIsSuper(work[w].caller) /\ change \in Change
             /\ work' = [work EXCEPT ![w] = q]
    BY <1>3, UpdateCheckIs
  <2>. QED
    BY <2>1, <2>2, CheckType
<1>4. ASSUME NEW w \in Workers, NEW unread \in BOOLEAN, DeleteCheck(w, unread)
      PROVE  DirectoryType'
  <2>1. /\ work[w].pc = "loaded" /\ UNCHANGED <<users, liveRoles, superKeys>>
    BY <1>4 DEF DeleteCheck, directoryTables, directoryHistory
  <2>2. PICK q \in Request :
             /\ q.pc = "write" /\ q.id = work[w].id /\ q.change = [live |-> FALSE]
             /\ q.copy = work[w].copy
             /\ work' = [work EXCEPT ![w] = q]
    BY <1>4, DeleteCheckIs
  <2>3. [live |-> FALSE] \in Change
    BY DEF Change
  <2>. QED
    BY <2>1, <2>2, <2>3, CheckType
<1>5. ASSUME NEW w \in Workers, RestRefused(w)
      PROVE  DirectoryType'
  BY <1>5, IdleOK, RequestStep DEF RestRefused, End, directoryTables, directoryHistory
<1>6. ASSUME NEW w \in Workers, RestWrite(w)
      PROVE  DirectoryType'
  <2>1. /\ work[w].pc = "write" /\ work' = [work EXCEPT ![w] = Idle]
        /\ UNCHANGED <<liveRoles, superKeys>>
    BY <1>6, RestWriteIs
  <2>2. CASE UNCHANGED <<users, loose, vouched, dangling>>
    BY <2>1, <2>2, IdleOK, RequestStep
  <2>3. ASSUME NEW id \in Ids,
               IF work[w].id # 0 THEN id = work[w].id /\ users[id].live ELSE users[id] = NoUser,
               users' = [users EXCEPT ![id] = RestWritten(w)]
        PROVE  DirectoryType'
    <3>1. /\ RestWritten(w) \in UserRow /\ RestWritten(w).uid # ""
          /\ users[id].uid # "" => RestWritten(w).uid = users[id].uid
      BY <2>1, <2>3, WrittenRow
    <3>. QED
      BY <2>1, <2>3, <3>1, RowStep
  <2>. QED
    BY <1>6, <2>2, <2>3, RestWriteIs, Zenon
<1>7. ASSUME NEW w \in Workers, NEW id \in Ids, SaveLoad(w, id)
      PROVE  DirectoryType'
  <2>1. /\ id \in LiveIds /\ UNCHANGED <<users, liveRoles, superKeys>>
        /\ work' = [work EXCEPT ![w] = [Idle EXCEPT !.pc = "save", !.id = id, !.copy = users[id]]]
    BY <1>7 DEF SaveLoad, Begin, directoryTables, directoryHistory
  <2>2. [Idle EXCEPT !.pc = "save", !.id = id, !.copy = users[id]]
          = [Idle EXCEPT !.pc = "save", !.id = id, !.copy = users[id], !.caller = ""]
    BY IdleOK DEF Request
  <2>. QED
    BY <2>1, <2>2, LoadType
<1>8. ASSUME NEW w \in Workers, NEW row \in UserRow, Saved(w, row), row.uid = work[w].copy.uid
      PROVE  DirectoryType'
  <2>1. /\ work[w].pc = "save" /\ work' = [work EXCEPT ![w] = Idle]
        /\ users' = [users EXCEPT ![work[w].id] = row] /\ UNCHANGED <<liveRoles, superKeys>>
    BY <1>8 DEF Saved, End
  <2>2. /\ work[w].id \in Ids /\ work[w].copy.uid # ""
        /\ work[w].copy.uid = users[work[w].id].uid
    <3>1. work[w] \in Request /\ RequestOK(work[w])
      BY DEF DirectoryType
    <3>. QED
      BY <2>1, <3>1 DEF Request, RequestOK
  <2>. QED
    BY <1>8, <2>1, <2>2, RowStep
<1>9. ASSUME NEW w \in Workers, NEW name \in Names, UpdateProfile(w, name)
      PROVE  DirectoryType'
  <2> DEFINE row == [work[w].copy EXCEPT !.username = name]
  <2>1. /\ Saved(w, row) /\ work[w].pc = "save"
    BY <1>9 DEF UpdateProfile, Saved
  <2>2. row \in UserRow /\ row.uid = work[w].copy.uid
    <3>1. row \in UserRow /\ work[w].copy \in UserRow
      BY <2>1, SavedRow
    <3>. QED
      BY <3>1 DEF UserRow
  <2>. HIDE DEF row
  <2>. QED
    BY <1>8, <2>1, <2>2
<1>10. ASSUME NEW w \in Workers, SavePassword(w)
       PROVE  DirectoryType'
  <2> DEFINE row == work[w].copy
  <2>1. /\ Saved(w, row) /\ work[w].pc = "save"
    BY <1>10 DEF SavePassword, Saved
  <2>2. row \in UserRow /\ row.uid = work[w].copy.uid
    <3>1. PICK name \in Names : TRUE
      BY DirectoryAssumption
    <3>2. row \in UserRow /\ work[w].copy \in UserRow
      BY <2>1, <3>1, SavedRow
    <3>. QED
      BY <3>2 DEF UserRow
  <2>. HIDE DEF row
  <2>. QED
    BY <1>8, <2>1, <2>2
<1>11. ASSUME NEW k \in RoleKeys, NEW caller \in Names, DeleteRole(k, caller)
       PROVE  DirectoryType'
  <2>1. Repoint(k, "") /\ superKeys' \subseteq liveRoles' /\ liveRoles' \subseteq RoleKeys
    BY <1>11 DEF DeleteRole, DirectoryType, TablesOK
  <2>. QED
    BY <2>1, RepointType
<1>12. ASSUME NEW k \in RoleKeys, NEW caller \in Names, NEW n \in RoleKeys,
              RenameRole(k, n, caller)
       PROVE  DirectoryType'
  <2>1. Repoint(k, n) /\ superKeys' \subseteq liveRoles' /\ liveRoles' \subseteq RoleKeys
    BY <1>12 DEF RenameRole, DirectoryType, TablesOK
  <2>. QED
    BY <2>1, RepointType
<1>13. ASSUME NEW k \in RoleKeys, CreateRole(k)
       PROVE  DirectoryType'
  BY <1>13 DEF CreateRole, directoryHistory, DirectoryType, TablesOK, LiveIds, RequestOK
<1>14. CASE UNCHANGED directoryVars
  BY <1>14 DEF directoryVars, directoryTables, directoryHistory, DirectoryType, TablesOK,
               LiveIds, RequestOK
<1>. QED
  BY <1>1, <1>2, <1>3, <1>4, <1>5, <1>6, <1>7, <1>9, <1>10, <1>11, <1>12, <1>13, <1>14
     DEF DirectoryNext

-----------------------------------------------------------------------------
(* Login finds one row.                                                    *)

\* The names a request was cleared to write are nobody else's yet, but for the
\* ones another request wrote past its check.
NamesClear(q) ==
    WritesNames(q) =>
        \A i \in LiveIds \ {q.id} : NamesOf(users[i]) \cap NamesOf(q.copy) \subseteq loose
NamesInv == LoginUnambiguous /\ \A w \in Workers : NamesClear(work[w])

\* A step of a request that touches no row.
LEMMA QuietNames ==
    ASSUME DirectoryType, NamesInv, UNCHANGED <<users, loose>>,
           NEW w \in Workers, NEW q, NamesClear(q), work' = [work EXCEPT ![w] = q]
    PROVE  NamesInv'
<1>1. LoginUnambiguous'
  BY DEF NamesInv, LoginUnambiguous, LiveIds, NamesOf
<1>2. ASSUME NEW x \in Workers
      PROVE  NamesClear(work[x])'
  <2>1. NamesClear(work'[x])
    BY DEF NamesInv, DirectoryType
  <2>. QED
    BY <2>1 DEF NamesClear, WritesNames, LiveIds, NamesOf
<1>. QED
  BY <1>1, <1>2 DEF NamesInv

\* A write of the row id whose names clash with no other live row's, and with no
\* name another request was cleared for, but for the loose ones.
LEMMA RowNames ==
    ASSUME DirectoryType, NamesInv, NEW w \in Workers, NEW id \in Ids, NEW row,
           users' = [users EXCEPT ![id] = row], loose \subseteq loose',
           row.live => \A i \in LiveIds \ {id} : NamesOf(row) \cap NamesOf(users[i]) \subseteq loose',
           row.live => \A x \in Workers \ {w} :
             (WritesNames(work[x]) /\ work[x].id # id) =>
                NamesOf(row) \cap NamesOf(work[x].copy) \subseteq loose',
           work' = [work EXCEPT ![w] = Idle]
    PROVE  NamesInv'
<1>1. /\ users'[id] = row /\ \A i \in Ids \ {id} : users'[i] = users[i]
      /\ LiveIds' \ {id} = LiveIds \ {id}
      /\ id \in LiveIds' => row.live
      /\ LiveIds' \subseteq Ids
  BY DEF DirectoryType, TablesOK, LiveIds
<1>2. ASSUME NEW i \in LiveIds', NEW j \in LiveIds', i # j
      PROVE  NamesOf(users'[i]) \cap NamesOf(users'[j]) \subseteq loose'
  <2>1. CASE i = id
    <3>1. j \in LiveIds \ {id} /\ users'[j] = users[j] /\ row.live
      BY <1>1, <1>2, <2>1
    <3>. QED
      BY <1>1, <2>1, <3>1
  <2>2. CASE j = id
    <3>1. i \in LiveIds \ {id} /\ users'[i] = users[i] /\ row.live
      BY <1>1, <1>2, <2>2
    <3>. QED
      BY <1>1, <2>2, <3>1
  <2>3. CASE i # id /\ j # id
    <3>1. i \in LiveIds /\ j \in LiveIds /\ users'[i] = users[i] /\ users'[j] = users[j]
      BY <1>1, <2>3
    <3>2. NamesOf(users[i]) \cap NamesOf(users[j]) \subseteq loose
      BY <1>2, <3>1 DEF NamesInv, LoginUnambiguous
    <3>. QED
      BY <3>1, <3>2
  <2>. QED
    BY <2>1, <2>2, <2>3
<1>3. LoginUnambiguous'
  BY <1>2 DEF LoginUnambiguous, NamesOf
<1>4. ASSUME NEW x \in Workers
      PROVE  NamesClear(work[x])'
  <2>1. CASE x = w
    BY <2>1, IdleOK DEF NamesClear, WritesNames, DirectoryType
  <2>2. CASE x # w
    <3>1. work'[x] = work[x]
      BY <2>2 DEF DirectoryType
    <3>. SUFFICES ASSUME WritesNames(work[x]), NEW i \in LiveIds' \ {work[x].id}
                  PROVE  NamesOf(users'[i]) \cap NamesOf(work[x].copy) \subseteq loose'
      BY <3>1 DEF NamesClear, WritesNames, NamesOf
    <3>2. CASE i = id
      <4>1. row.live /\ work[x].id # id
        BY <1>1, <3>2
      <4>. QED
        BY <1>1, <2>2, <3>2, <4>1
    <3>3. CASE i # id
      <4>1. i \in LiveIds \ {work[x].id} /\ users'[i] = users[i]
        BY <1>1, <3>3
      <4>2. NamesOf(users[i]) \cap NamesOf(work[x].copy) \subseteq loose
        BY <4>1 DEF NamesInv, NamesClear
      <4>. QED
        BY <4>1, <4>2
    <3>. QED
      BY <3>2, <3>3
  <2>. QED
    BY <2>1, <2>2
<1>. QED
  BY <1>3, <1>4 DEF NamesInv

\* A role's deletion or new key leaves names and deletions alone.
LEMMA RepointNames ==
    ASSUME DirectoryType, NamesInv, NEW k, NEW n, Repoint(k, n), loose' = loose
    PROVE  NamesInv'
<1>1. ASSUME NEW i \in Ids
      PROVE  users'[i].live = users[i].live /\ NamesOf(users'[i]) = NamesOf(users[i])
  <2>1. users[i] \in UserRow
    BY DEF DirectoryType, TablesOK
  <2>2. users'[i] \in {users[i], [users[i] EXCEPT !.role = n]}
    BY DEF Repoint
  <2>. QED
    BY <2>1, <2>2 DEF UserRow, NamesOf
<1>2. LiveIds' = LiveIds /\ LiveIds \subseteq Ids
  BY <1>1 DEF LiveIds
<1>3. ASSUME NEW i \in LiveIds', NEW j \in LiveIds', i # j
      PROVE  NamesOf(users'[i]) \cap NamesOf(users'[j]) \subseteq loose'
  BY <1>1, <1>2, <1>3 DEF NamesInv, LoginUnambiguous
<1>4. LoginUnambiguous'
  BY <1>3 DEF LoginUnambiguous, NamesOf
<1>5. ASSUME NEW x \in Workers
      PROVE  NamesClear(work[x])'
  <2>1. work[x] \in Request
    BY DEF DirectoryType
  <2>2. work'[x] = [work[x] EXCEPT !.outdated = @ \/ work[x].copy.role = k]
    BY DEF Repoint
  <2>3. /\ work'[x].pc = work[x].pc /\ work'[x].id = work[x].id
        /\ work'[x].copy = work[x].copy /\ work'[x].change = work[x].change
    BY <2>1, <2>2 DEF Request
  <2>. SUFFICES ASSUME WritesNames(work[x]), NEW i \in LiveIds' \ {work[x].id}
                PROVE  NamesOf(users'[i]) \cap NamesOf(work[x].copy) \subseteq loose'
    BY <2>3 DEF NamesClear, WritesNames, NamesOf
  <2>. QED
    BY <1>1, <1>2 DEF NamesInv, NamesClear
<1>. QED
  BY <1>4, <1>5 DEF NamesInv

\* Save, with no check: the names are the row's own, or become loose.
LEMMA SavedNames ==
    ASSUME DirectoryType, NamesInv, NEW w \in Workers, NEW row \in UserRow,
           row.uid = work[w].copy.uid, Saved(w, row)
    PROVE  NamesInv'
<1> DEFINE id == work[w].id
<1>1. /\ work[w].pc = "save" /\ work' = [work EXCEPT ![w] = Idle]
      /\ users' = [users EXCEPT ![id] = row]
      /\ loose' = IF users[id].live /\ users[id].username = row.username THEN loose
                  ELSE loose \cup NamesOf(row)
  BY DEF Saved, End
<1>2. id \in Ids /\ work[w].copy.uid = users[id].uid
  <2>1. work[w] \in Request /\ RequestOK(work[w])
    BY DEF DirectoryType
  <2>. QED
    BY <1>1, <2>1 DEF Request, RequestOK
<1>. HIDE DEF id
<1>3. CASE users[id].live /\ users[id].username = row.username
  <2>1. id \in LiveIds /\ NamesOf(row) = NamesOf(users[id]) /\ loose' = loose
    BY <1>1, <1>2, <1>3 DEF LiveIds, NamesOf
  <2>2. \A i \in LiveIds \ {id} : NamesOf(row) \cap NamesOf(users[i]) \subseteq loose'
    BY <2>1 DEF NamesInv, LoginUnambiguous
  <2>3. \A x \in Workers \ {w} : (WritesNames(work[x]) /\ work[x].id # id) =>
           NamesOf(row) \cap NamesOf(work[x].copy) \subseteq loose'
    BY <2>1 DEF NamesInv, NamesClear
  <2>. QED
    BY <1>1, <1>2, <2>1, <2>2, <2>3, RowNames
<1>4. CASE ~(users[id].live /\ users[id].username = row.username)
  <2>1. loose' = loose \cup NamesOf(row)
    BY <1>1, <1>4
  <2>2. /\ \A i \in LiveIds \ {id} : NamesOf(row) \cap NamesOf(users[i]) \subseteq loose'
        /\ \A x \in Workers \ {w} : NamesOf(row) \cap NamesOf(work[x].copy) \subseteq loose'
        /\ loose \subseteq loose'
    BY <2>1
  <2>. QED
    BY <1>1, <1>2, <2>2, RowNames
<1>. QED
  BY <1>3, <1>4

\* A REST write: the names it was cleared for, or the ones the row has.
LEMMA WrittenNames ==
    ASSUME DirectoryType, NamesInv, NEW w \in Workers, work[w].pc = "write", NEW id \in Ids,
           IF work[w].id # 0 THEN id = work[w].id /\ users[id].live ELSE users[id] = NoUser,
           users' = [users EXCEPT ![id] = RestWritten(w)],
           loose' = loose \cup (Cleared(w) \cap UNION {Cleared(x) : x \in Workers \ {w}}),
           work' = [work EXCEPT ![w] = Idle]
    PROVE  NamesInv'
<1> DEFINE row == RestWritten(w)
<1>1. NamesOf(row) = IF WritesNames(work[w]) THEN NamesOf(work[w].copy) ELSE NamesOf(users[id])
  BY WrittenRow
<1>. HIDE DEF row
<1>2. loose \subseteq loose'
  OBVIOUS
<1>3. CASE WritesNames(work[w])
  <2>1. \A i \in LiveIds \ {id} : NamesOf(row) \cap NamesOf(users[i]) \subseteq loose'
    <3>. SUFFICES ASSUME NEW i \in LiveIds \ {id}
                  PROVE  NamesOf(row) \cap NamesOf(users[i]) \subseteq loose'
      OBVIOUS
    <3>1. i # 0
      BY IdNotZero DEF LiveIds
    <3>2. i # work[w].id
      BY <3>1, Zenon
    <3>3. NamesOf(users[i]) \cap NamesOf(work[w].copy) \subseteq loose
      BY <1>3, <3>2 DEF NamesInv, NamesClear
    <3>. QED
      BY <1>1, <1>2, <1>3, <3>3
  <2>2. ASSUME NEW x \in Workers \ {w}, WritesNames(work[x])
        PROVE  NamesOf(row) \cap NamesOf(work[x].copy) \subseteq loose'
    <3>1. Cleared(w) = NamesOf(row) /\ Cleared(x) = NamesOf(work[x].copy)
      BY <1>1, <1>3, <2>2 DEF Cleared, WritesNames
    <3>. QED
      BY <3>1
  <2>. QED
    BY <1>2, <2>1, <2>2, RowNames DEF row
<1>4. CASE ~WritesNames(work[w])
  <2>1. work[w].id # 0
    BY <1>4 DEF WritesNames
  <2>2. users[id].live
    BY <2>1, Zenon
  <2>3. id \in LiveIds /\ NamesOf(row) = NamesOf(users[id])
    BY <1>1, <1>4, <2>2 DEF LiveIds
  <2>4. \A i \in LiveIds \ {id} : NamesOf(row) \cap NamesOf(users[i]) \subseteq loose'
    BY <1>2, <2>3 DEF NamesInv, LoginUnambiguous
  <2>5. \A x \in Workers \ {w} : (WritesNames(work[x]) /\ work[x].id # id) =>
           NamesOf(row) \cap NamesOf(work[x].copy) \subseteq loose'
    BY <1>2, <2>3 DEF NamesInv, NamesClear
  <2>. QED
    BY <1>2, <2>4, <2>5, RowNames DEF row
<1>. QED
  BY <1>3, <1>4

\* Every step keeps names apart.
LEMMA NextNames ==
    ASSUME DirectoryType, NamesInv, [DirectoryNext]_directoryVars
    PROVE  NamesInv'
<1>1. ASSUME NEW w \in Workers, NEW caller \in Names, NEW uid \in Names, NEW name \in Names,
             NEW role \in RoleKeys, CreateCheck(w, caller, uid, name, role)
      PROVE  NamesInv'
  <2> DEFINE row == [NoUser EXCEPT !.uid = uid, !.username = name, !.role = role, !.live = TRUE]
             q == [Idle EXCEPT !.pc = "write", !.caller = caller, !.super = CallerIsSuper(caller),
                               !.copy = row]
  <2>1. /\ work' = [work EXCEPT ![w] = q] /\ UNCHANGED <<users, loose>>
        /\ LoginIdentityUnique({uid, name}, 0)
    BY <1>1 DEF CreateCheck, Begin, directoryTables, directoryHistory
  <2>2. NamesOf(row) = {uid, name}
    BY DEF NamesOf, NoUser
  <2>. HIDE DEF row
  <2>3. q.id = 0 /\ q.copy = row
    BY DEF Idle
  <2>. HIDE DEF q
  <2>4. NamesClear(q)
    BY <2>1, <2>2, <2>3 DEF NamesClear, LoginIdentityUnique
  <2>. QED
    BY <2>1, <2>4, QuietNames
<1>2. ASSUME NEW w \in Workers, NEW caller \in Names, NEW id \in Ids, RestLoad(w, caller, id)
      PROVE  NamesInv'
  <2> DEFINE q == [Idle EXCEPT !.pc = "loaded", !.id = id, !.copy = users[id], !.caller = caller]
  <2>1. work' = [work EXCEPT ![w] = q] /\ UNCHANGED <<users, loose>>
    BY <1>2 DEF RestLoad, Begin, directoryTables, directoryHistory
  <2>2. q.pc = "loaded"
    BY DEF Idle
  <2>. HIDE DEF q
  <2>. QED
    BY <2>1, <2>2, QuietNames DEF NamesClear, WritesNames
<1>3. ASSUME NEW w \in Workers, NEW change \in Changes(work[w].copy),
             NEW unread \in BOOLEAN, UpdateCheck(w, change, unread)
      PROVE  NamesInv'
  <2>1. /\ UNCHANGED <<users, loose>>
        /\ GuardUserUpdate(work[w].copy, work[w].id, change, work[w].caller, unread)
    BY <1>3 DEF UpdateCheck, directoryTables, directoryHistory
  <2>2. PICK q \in Request :
             /\ q.pc = "write" /\ q.id = work[w].id /\ q.change = change
             /\ q.copy = With(work[w].copy, change) /\ q.caller = work[w].caller
             /\ q.super = CallerIsSuper(work[w].caller) /\ change \in Change
             /\ work' = [work EXCEPT ![w] = q]
    BY <1>3, UpdateCheckIs
  <2> DEFINE copy == work[w].copy
             name == IF "username" \in DOMAIN change THEN change.username ELSE copy.username
  <2>3. LoginIdentityUnique({copy.uid, name}, q.id)
    BY <2>1, <2>2 DEF GuardUserUpdate
  <2>4. copy \in UserRow
    BY DEF DirectoryType, Request
  <2>. HIDE DEF copy
  <2>5. q.copy.uid = copy.uid /\ q.copy.username = name
    <3>1. q.copy = With(copy, change)
      BY <2>2 DEF copy
    <3>2. change \in Change
      BY <2>2
    <3>. QED
      BY <2>4, <3>1, <3>2, WithFacts
  <2>6. NamesClear(q)
    BY <2>3, <2>5 DEF NamesClear, LoginIdentityUnique, NamesOf
  <2>. QED
    BY <2>1, <2>2, <2>6, QuietNames
<1>4. ASSUME NEW w \in Workers, NEW unread \in BOOLEAN, DeleteCheck(w, unread)
      PROVE  NamesInv'
  <2>1. UNCHANGED <<users, loose>> /\ work[w].pc = "loaded"
    BY <1>4 DEF DeleteCheck, directoryTables, directoryHistory
  <2>2. PICK q \in Request :
             /\ q.pc = "write" /\ q.id = work[w].id /\ q.change = [live |-> FALSE]
             /\ q.copy = work[w].copy
             /\ work' = [work EXCEPT ![w] = q]
    BY <1>4, DeleteCheckIs
  <2>3. q.id # 0
    BY <2>1, <2>2 DEF DirectoryType, RequestOK
  <2>4. "username" \notin DOMAIN q.change
    BY <2>2
  <2>. QED
    BY <2>1, <2>2, <2>3, <2>4, QuietNames DEF NamesClear, WritesNames
<1>5. ASSUME NEW w \in Workers, RestRefused(w)
      PROVE  NamesInv'
  BY <1>5, IdleOK, QuietNames
     DEF RestRefused, End, directoryTables, directoryHistory, NamesClear, WritesNames
<1>6. ASSUME NEW w \in Workers, RestWrite(w)
      PROVE  NamesInv'
  <2>1. work[w].pc = "write" /\ work' = [work EXCEPT ![w] = Idle]
    BY <1>6, RestWriteIs
  <2>2. CASE UNCHANGED <<users, loose, vouched, dangling>>
    BY <2>1, <2>2, IdleOK, QuietNames DEF NamesClear, WritesNames
  <2>3. ASSUME NEW id \in Ids,
               IF work[w].id # 0 THEN id = work[w].id /\ users[id].live ELSE users[id] = NoUser,
               users' = [users EXCEPT ![id] = RestWritten(w)],
               loose' = loose \cup (Cleared(w) \cap UNION {Cleared(x) : x \in Workers \ {w}})
        PROVE  NamesInv'
    BY <2>1, <2>3, WrittenNames
  <2>. QED
    BY <1>6, <2>2, <2>3, RestWriteIs, Zenon
<1>7. ASSUME NEW w \in Workers, NEW id \in Ids, SaveLoad(w, id)
      PROVE  NamesInv'
  <2> DEFINE q == [Idle EXCEPT !.pc = "save", !.id = id, !.copy = users[id]]
  <2>1. work' = [work EXCEPT ![w] = q] /\ UNCHANGED <<users, loose>>
    BY <1>7 DEF SaveLoad, Begin, directoryTables, directoryHistory
  <2>2. q.pc = "save"
    BY DEF Idle
  <2>. HIDE DEF q
  <2>. QED
    BY <2>1, <2>2, QuietNames DEF NamesClear, WritesNames
<1>8. ASSUME NEW w \in Workers, NEW name \in Names, UpdateProfile(w, name)
      PROVE  NamesInv'
  <2> DEFINE row == [work[w].copy EXCEPT !.username = name]
  <2>1. Saved(w, row) /\ work[w].pc = "save"
    BY <1>8 DEF UpdateProfile, Saved
  <2>2. row \in UserRow /\ work[w].copy \in UserRow
    BY <2>1, SavedRow
  <2>3. row.uid = work[w].copy.uid
    BY <2>2 DEF UserRow
  <2>. HIDE DEF row
  <2>. QED
    BY <2>1, <2>2, <2>3, SavedNames
<1>9. ASSUME NEW w \in Workers, SavePassword(w)
      PROVE  NamesInv'
  <2> DEFINE row == work[w].copy
  <2>1. Saved(w, row) /\ work[w].pc = "save"
    BY <1>9 DEF SavePassword, Saved
  <2>2. row \in UserRow /\ work[w].copy \in UserRow
    <3>1. PICK name \in Names : TRUE
      BY DirectoryAssumption
    <3>. QED
      BY <2>1, <3>1, SavedRow
  <2>3. row.uid = work[w].copy.uid
    BY <2>2 DEF UserRow
  <2>. HIDE DEF row
  <2>. QED
    BY <2>1, <2>2, <2>3, SavedNames
<1>10. ASSUME NEW k \in RoleKeys, NEW n \in RoleKeys \cup {""}, Repoint(k, n), loose' = loose
       PROVE  NamesInv'
  BY <1>10, RepointNames
<1>11. ASSUME NEW k \in RoleKeys, CreateRole(k)
       PROVE  NamesInv'
  BY <1>11 DEF CreateRole, directoryHistory, NamesInv, LoginUnambiguous, NamesClear,
               WritesNames, LiveIds, NamesOf
<1>12. CASE UNCHANGED directoryVars
  BY <1>12 DEF directoryVars, directoryTables, directoryHistory, NamesInv, LoginUnambiguous,
               NamesClear, WritesNames, LiveIds, NamesOf
<1>. QED
  BY <1>1, <1>2, <1>3, <1>4, <1>5, <1>6, <1>7, <1>8, <1>9, <1>10, <1>11, <1>12
     DEF DirectoryNext, DeleteRole, RenameRole

\* Login finds at most one row for a name, but for the names that two requests
\* were cleared for at once or that a Save wrote without a check.
THEOREM LoginTheorem == DirectorySpec => []LoginUnambiguous
<1>1. DirectoryInit => DirectoryType /\ NamesInv
  <2>. SUFFICES ASSUME DirectoryInit PROVE DirectoryType /\ NamesInv
    OBVIOUS
  <2>1. DirectoryType
    BY InitDirectoryType
  <2>2. ASSUME NEW i \in LiveIds
        PROVE  \/ i = 1 /\ NamesOf(users[i]) = {Admin}
               \/ i = 2 /\ NamesOf(users[i]) = {Member}
    <3>1. i \in Ids /\ users[i].live
      BY DEF LiveIds
    <3>2. CASE i = 1
      <4>1. i # 2
        BY <3>2
      <4>2. users[i] = NewUser(Admin, AdminKey)
        BY <3>1, <3>2, <4>1, Zenon DEF DirectoryInit
      <4>. QED
        BY <3>2, <4>2 DEF NewUser, NoUser, NamesOf
    <3>3. CASE i = 2
      <4>1. i # 1
        BY <3>3
      <4>2. users[i] = NewUser(Member, StaffKey)
        BY <3>1, <3>3, <4>1, Zenon DEF DirectoryInit
      <4>. QED
        BY <3>3, <4>2 DEF NewUser, NoUser, NamesOf
    <3>4. CASE i # 1 /\ i # 2
      <4>1. users[i] = NoUser
        BY <3>1, <3>4, Zenon DEF DirectoryInit
      <4>. QED
        BY <3>1, <4>1, IdleOK
    <3>. QED
      BY <3>2, <3>3, <3>4
  <2>3. Admin # Member
    BY DirectoryAssumption
  <2>4. LoginUnambiguous
    BY <2>2, <2>3 DEF LoginUnambiguous
  <2>5. \A w \in Workers : NamesClear(work[w])
    BY IdleOK DEF DirectoryInit, NamesClear, WritesNames
  <2>. QED
    BY <2>1, <2>4, <2>5 DEF NamesInv
<1>2. DirectoryType /\ NamesInv /\ [DirectoryNext]_directoryVars
        => DirectoryType' /\ NamesInv'
  BY NextDirectoryType, NextNames
<1>3. NamesInv => LoginUnambiguous
  BY DEF NamesInv
<1>. QED
  BY <1>1, <1>2, <1>3, PTL DEF DirectorySpec

-----------------------------------------------------------------------------
(* Roles are backed.                                                       *)

\* A role that exists, and if it is super, has someone to answer for it.
Backed(role, answered) ==
    /\ role \in {""} \cup liveRoles
    /\ role \in superKeys => answered

\* The role a request will write, unless it was deleted or renamed meanwhile.
RoleBacked(q) ==
    /\ (WritesRole(q) /\ ~q.outdated) => Backed(q.copy.role, q.super)
    /\ (q.pc = "save" /\ ~q.outdated) => q.id \in dangling \/ Backed(q.copy.role, q.id \in vouched)
RolesInv ==
    /\ \A i \in LiveIds : i \in dangling \/ Backed(users[i].role, i \in vouched)
    /\ \A w \in Workers : RoleBacked(work[w])

\* A step of a request that touches no row.
LEMMA QuietRoles ==
    ASSUME DirectoryType, RolesInv, UNCHANGED <<users, liveRoles, superKeys, vouched, dangling>>,
           NEW w \in Workers, NEW q, RoleBacked(q), work' = [work EXCEPT ![w] = q]
    PROVE  RolesInv'
<1>1. ASSUME NEW x \in Workers
      PROVE  RoleBacked(work[x])'
  <2>1. RoleBacked(work'[x])
    BY DEF RolesInv, DirectoryType
  <2>. QED
    BY <2>1 DEF RoleBacked, WritesRole, Backed
<1>2. (\A i \in LiveIds : i \in dangling \/ Backed(users[i].role, i \in vouched))'
  BY DEF RolesInv, LiveIds, Backed
<1>. QED
  BY <1>1, <1>2 DEF RolesInv

\* What backs a request's role goes on backing it.
LEMMA StillBacked ==
    ASSUME NEW x, work'[x] = work[x], RoleBacked(work[x]), UNCHANGED <<liveRoles, superKeys>>,
           vouched \subseteq vouched', dangling \subseteq dangling'
    PROVE  RoleBacked(work[x])'
<1> DEFINE q == work[x]
<1>1. (WritesRole(q) /\ ~q.outdated) => Backed(q.copy.role, q.super)
  BY DEF RoleBacked
<1>2. (q.pc = "save" /\ ~q.outdated) => q.id \in dangling \/ Backed(q.copy.role, q.id \in vouched)
  BY DEF RoleBacked
<1>3. (WritesRole(q) /\ ~q.outdated)' => Backed(q.copy.role, q.super)'
  BY <1>1 DEF WritesRole, Backed
<1>4. (q.pc = "save" /\ ~q.outdated)'
         => (q.id \in dangling)' \/ Backed(q.copy.role, q.id \in vouched)'
  BY <1>2 DEF Backed
<1>. QED
  BY <1>3, <1>4 DEF RoleBacked

\* A write of the row id.
LEMMA RowRoles ==
    ASSUME DirectoryType, RolesInv, NEW w \in Workers, NEW id \in Ids, NEW row \in UserRow,
           users' = [users EXCEPT ![id] = row], UNCHANGED <<liveRoles, superKeys>>,
           vouched \subseteq vouched', dangling \subseteq dangling',
           row.live => (id \in dangling' \/ Backed(row.role, id \in vouched')),
           work' = [work EXCEPT ![w] = Idle]
    PROVE  RolesInv'
<1>1. /\ users'[id] = row /\ \A i \in Ids \ {id} : users'[i] = users[i]
      /\ LiveIds' \ {id} = LiveIds \ {id}
      /\ id \in LiveIds' => row.live
  BY DEF DirectoryType, TablesOK, LiveIds
<1>2. ASSUME NEW i \in LiveIds'
      PROVE  i \in dangling' \/ Backed(users'[i].role, i \in vouched')
  <2>1. CASE i = id
    BY <1>1, <2>1
  <2>2. CASE i # id
    <3>1. i \in LiveIds /\ users'[i] = users[i]
      BY <1>1, <2>2 DEF LiveIds
    <3>2. i \in dangling \/ Backed(users[i].role, i \in vouched)
      BY <3>1 DEF RolesInv
    <3>. QED
      BY <3>1, <3>2 DEF Backed
  <2>. QED
    BY <2>1, <2>2
<1>3. ASSUME NEW x \in Workers
      PROVE  RoleBacked(work[x])'
  <2>1. CASE x = w
    BY <2>1, IdleOK DEF RoleBacked, WritesRole, DirectoryType
  <2>2. CASE x # w
    <3>1. work'[x] = work[x] /\ RoleBacked(work[x])
      BY <2>2 DEF DirectoryType, RolesInv
    <3>. QED
      BY <3>1, StillBacked
  <2>. QED
    BY <2>1, <2>2
<1>4. (\A i \in LiveIds : i \in dangling \/ Backed(users[i].role, i \in vouched))'
  BY <1>2 DEF Backed
<1>. QED
  BY <1>3, <1>4 DEF RolesInv

\* A role's deletion or new key: its users follow, a copy with the old key is
\* marked, and no copy already had the new one.
LEMMA RepointRoles ==
    ASSUME DirectoryType, RolesInv, NEW k, NEW n \in RoleKeys \cup {""}, Repoint(k, n),
           n \notin liveRoles, n \in {""} \cup liveRoles', liveRoles \ {k} \subseteq liveRoles',
           superKeys' \subseteq (superKeys \ {k}) \cup {n}, "" \notin superKeys',
           n \in superKeys' => k \in superKeys, UNCHANGED <<vouched, dangling>>
    PROVE  RolesInv'
<1>1. \A r, b : (r # k /\ Backed(r, b)) => /\ r \in {""} \cup liveRoles'
                                           /\ r \in superKeys' => b
  BY DEF Backed
<1>2. ASSUME NEW i \in LiveIds'
      PROVE  i \in dangling' \/ Backed(users[i].role, i \in vouched)'
  <2>1. i \in Ids /\ users[i] \in UserRow
    BY DEF LiveIds, DirectoryType, TablesOK
  <2>2. users'[i] = IF i \in LiveIds /\ users[i].role = k THEN [users[i] EXCEPT !.role = n]
                                                          ELSE users[i]
    BY <2>1 DEF Repoint
  <2>3. users'[i].live = users[i].live
    BY <2>1, <2>2 DEF UserRow
  <2>4. i \in LiveIds
    BY <2>1, <2>3 DEF LiveIds
  <2>5. i \in dangling \/ Backed(users[i].role, i \in vouched)
    BY <2>4 DEF RolesInv
  <2>6. CASE users[i].role = k
    <3>1. users'[i].role = n
      BY <2>1, <2>2, <2>4, <2>6 DEF UserRow
    <3>. QED
      BY <2>5, <2>6, <3>1 DEF Backed
  <2>7. CASE users[i].role # k
    <3>1. users'[i] = users[i]
      BY <2>2, <2>7
    <3>. QED
      BY <1>1, <2>5, <2>7, <3>1 DEF Backed
  <2>. QED
    BY <2>6, <2>7
<1>3. ASSUME NEW x \in Workers
      PROVE  RoleBacked(work[x])'
  <2>1. work[x] \in Request /\ RoleBacked(work[x])
    BY DEF DirectoryType, RolesInv
  <2>2. work'[x] = [work[x] EXCEPT !.outdated = @ \/ work[x].copy.role = k]
    BY DEF Repoint
  <2>3. /\ work'[x].pc = work[x].pc /\ work'[x].id = work[x].id
        /\ work'[x].copy = work[x].copy /\ work'[x].change = work[x].change
        /\ work'[x].super = work[x].super
    BY <2>1, <2>2 DEF Request
  <2>4. work'[x].outdated <=> (work[x].outdated \/ work[x].copy.role = k)
    BY <2>1, <2>2 DEF Request
  <2>. QED
    BY <1>1, <2>1, <2>3, <2>4 DEF RoleBacked, WritesRole, Backed
<1>. QED
  BY <1>2, <1>3 DEF RolesInv

\* Save writes back the role it loaded.
LEMMA SavedRoles ==
    ASSUME DirectoryType, RolesInv, NEW w \in Workers, NEW row \in UserRow,
           row.role = work[w].copy.role, Saved(w, row)
    PROVE  RolesInv'
<1> DEFINE id == work[w].id
<1>1. /\ work[w].pc = "save" /\ work' = [work EXCEPT ![w] = Idle]
      /\ users' = [users EXCEPT ![id] = row] /\ UNCHANGED <<liveRoles, superKeys, vouched>>
      /\ dangling' = IF work[w].outdated THEN dangling \cup {id} ELSE dangling
  BY DEF Saved, End
<1>2. id \in Ids
  <2>1. work[w] \in Request /\ RequestOK(work[w])
    BY DEF DirectoryType
  <2>. QED
    BY <1>1, <2>1 DEF Request, RequestOK
<1>3. dangling \subseteq dangling' /\ vouched \subseteq vouched'
  BY <1>1
<1>4. id \in dangling' \/ Backed(row.role, id \in vouched')
  <2>1. CASE work[w].outdated
    BY <1>1, <2>1
  <2>2. CASE ~work[w].outdated
    <3>1. id \in dangling \/ Backed(row.role, id \in vouched)
      BY <1>1, <2>2 DEF RolesInv, RoleBacked
    <3>. QED
      BY <1>1, <1>3, <3>1
  <2>. QED
    BY <2>1, <2>2
<1>. HIDE DEF id
<1>. QED
  BY <1>1, <1>2, <1>3, <1>4, RowRoles

\* A REST write: the role it was checked for, or the one the row has.
LEMMA WrittenRoles ==
    ASSUME DirectoryType, RolesInv, NEW w \in Workers, work[w].pc = "write", NEW id \in Ids,
           IF work[w].id # 0 THEN id = work[w].id /\ users[id].live ELSE users[id] = NoUser,
           users' = [users EXCEPT ![id] = RestWritten(w)], UNCHANGED <<liveRoles, superKeys>>,
           vouched' = IF RestWritten(w).role \in superKeys /\ work[w].super
                      THEN vouched \cup {id} ELSE vouched,
           dangling' = IF work[w].outdated /\ RestWritten(w).role = work[w].copy.role
                       THEN dangling \cup {id} ELSE dangling,
           work' = [work EXCEPT ![w] = Idle]
    PROVE  RolesInv'
<1> DEFINE row == RestWritten(w)
<1>1. /\ row \in UserRow
      /\ row.role = IF WritesRole(work[w]) THEN work[w].copy.role ELSE users[id].role
  BY WrittenRow
<1>2. dangling \subseteq dangling' /\ vouched \subseteq vouched'
  <2>1. dangling' \in {dangling, dangling \cup {id}} /\ vouched' \in {vouched, vouched \cup {id}}
    BY Zenon
  <2>. QED
    BY <2>1
<1>3. id \in dangling' \/ Backed(row.role, id \in vouched')
  <2>1. CASE WritesRole(work[w])
    <3>1. row.role = work[w].copy.role
      BY <1>1, <2>1
    <3>2. CASE work[w].outdated
      <4>1. dangling' = dangling \cup {id}
        BY <3>1, <3>2, Zenon
      <4>. QED
        BY <4>1
    <3>3. CASE ~work[w].outdated
      <4>1. Backed(row.role, work[w].super)
        BY <2>1, <3>1, <3>3 DEF RolesInv, RoleBacked
      <4>2. (row.role \in superKeys /\ work[w].super) => vouched' = vouched \cup {id}
        BY Zenon
      <4>3. row.role \in superKeys => id \in vouched'
        BY <4>1, <4>2 DEF Backed
      <4>. QED
        BY <4>1, <4>3 DEF Backed
    <3>. QED
      BY <3>2, <3>3
  <2>2. CASE ~WritesRole(work[w])
    <3>1. work[w].id # 0
      BY <2>2 DEF WritesRole
    <3>2. users[id].live
      BY <3>1, Zenon
    <3>3. id \in LiveIds /\ row.role = users[id].role
      BY <1>1, <2>2, <3>2 DEF LiveIds
    <3>4. id \in dangling \/ Backed(row.role, id \in vouched)
      BY <3>3 DEF RolesInv
    <3>5. Backed(row.role, id \in vouched) => Backed(row.role, id \in vouched')
      BY <1>2 DEF Backed
    <3>. QED
      BY <1>2, <3>4, <3>5
  <2>. QED
    BY <2>1, <2>2
<1>4. users' = [users EXCEPT ![id] = row]
  BY DEF row
<1>. HIDE DEF row
<1>. QED
  BY <1>1, <1>2, <1>3, <1>4, RowRoles

\* Every step keeps roles backed.
LEMMA NextRoles ==
    ASSUME DirectoryType, RolesInv, [DirectoryNext]_directoryVars
    PROVE  RolesInv'
<1>0. superKeys \subseteq liveRoles /\ "" \notin liveRoles /\ "" \notin RoleKeys
  <2>1. "" \notin RoleKeys
    BY DirectoryAssumption
  <2>. QED
    BY <2>1 DEF DirectoryType, TablesOK
<1>1. ASSUME NEW w \in Workers, NEW caller \in Names, NEW uid \in Names, NEW name \in Names,
             NEW role \in RoleKeys, CreateCheck(w, caller, uid, name, role)
      PROVE  RolesInv'
  <2> DEFINE row == [NoUser EXCEPT !.uid = uid, !.username = name, !.role = role, !.live = TRUE]
             b == CallerIsSuper(caller)
             q == [Idle EXCEPT !.pc = "write", !.caller = caller, !.super = b, !.copy = row]
  <2>1. /\ work' = [work EXCEPT ![w] = q]
        /\ UNCHANGED <<users, liveRoles, superKeys, vouched, dangling>>
        /\ CallerMayAssign(caller, role)
    BY <1>1 DEF CreateCheck, Begin, directoryTables, directoryHistory
  <2>2. role \in liveRoles /\ (role \in superKeys => b)
    BY <2>1 DEF CallerMayAssign
  <2>3. row.role = role
    BY DEF NoUser
  <2>. HIDE DEF row, b
  <2>4. q.pc = "write" /\ q.copy = row /\ q.super = b
    BY DEF Idle
  <2>. HIDE DEF q
  <2>5. RoleBacked(q)
    BY <2>2, <2>3, <2>4 DEF RoleBacked, Backed
  <2>. QED
    BY <2>1, <2>5, QuietRoles
<1>2. ASSUME NEW w \in Workers, NEW caller \in Names, NEW id \in Ids, RestLoad(w, caller, id)
      PROVE  RolesInv'
  <2> DEFINE q == [Idle EXCEPT !.pc = "loaded", !.id = id, !.copy = users[id], !.caller = caller]
  <2>1. /\ work' = [work EXCEPT ![w] = q]
        /\ UNCHANGED <<users, liveRoles, superKeys, vouched, dangling>>
    BY <1>2 DEF RestLoad, Begin, directoryTables, directoryHistory
  <2>2. q.pc = "loaded"
    BY DEF Idle
  <2>. HIDE DEF q
  <2>. QED
    BY <2>1, <2>2, QuietRoles DEF RoleBacked, WritesRole
<1>3. ASSUME NEW w \in Workers, NEW change \in Changes(work[w].copy),
             NEW unread \in BOOLEAN, UpdateCheck(w, change, unread)
      PROVE  RolesInv'
  <2>1. /\ UNCHANGED <<users, liveRoles, superKeys, vouched, dangling>>
        /\ GuardUserUpdate(work[w].copy, work[w].id, change, work[w].caller, unread)
        /\ work[w].pc = "loaded"
    BY <1>3 DEF UpdateCheck, directoryTables, directoryHistory
  <2>2. PICK q \in Request :
             /\ q.pc = "write" /\ q.id = work[w].id /\ q.change = change
             /\ q.copy = With(work[w].copy, change) /\ q.caller = work[w].caller
             /\ q.super = CallerIsSuper(work[w].caller) /\ change \in Change
             /\ work' = [work EXCEPT ![w] = q]
    BY <1>3, UpdateCheckIs
  <2>3. q.id # 0 /\ work[w].copy \in UserRow
    BY <2>1, <2>2 DEF DirectoryType, Request, RequestOK
  <2>4. ASSUME "role" \in DOMAIN change
        PROVE  Backed(q.copy.role, q.super)
    <3>1. q.copy.role = change.role
      BY <2>2, <2>3, <2>4, WithFacts
    <3>2. change.role # work[w].copy.role
      <4>1. \/ \E m \in Names : change = [username |-> m]
            \/ \E k \in (RoleKeys \cup {""}) \ {work[w].copy.role} : change = [role |-> k]
            \/ \E s \in {"normal", "disabled"} : change = [status |-> s]
        BY Zenon DEF Changes
      <4>2. ~ \E m \in Names : change = [username |-> m]
        BY <2>4
      <4>3. ~ \E s \in {"normal", "disabled"} : change = [status |-> s]
        BY <2>4
      <4>4. PICK k \in (RoleKeys \cup {""}) \ {work[w].copy.role} : change = [role |-> k]
        BY <4>1, <4>2, <4>3
      <4>. QED
        BY <4>4
    <3>3. CASE change.role = ""
      BY <1>0, <3>1, <3>3 DEF Backed
    <3>4. CASE change.role # ""
      <4>1. CallerIsSuper(work[w].caller) /\ CallerMayAssign(work[w].caller, change.role)
        BY <2>1, <2>4, <3>2, <3>4 DEF GuardUserUpdate
      <4>. QED
        BY <2>2, <3>1, <4>1 DEF Backed, CallerMayAssign
    <3>. QED
      BY <3>3, <3>4
  <2>5. RoleBacked(q)
    BY <2>2, <2>3, <2>4 DEF RoleBacked, WritesRole
  <2>. QED
    BY <2>1, <2>2, <2>5, QuietRoles
<1>4. ASSUME NEW w \in Workers, NEW unread \in BOOLEAN, DeleteCheck(w, unread)
      PROVE  RolesInv'
  <2>1. UNCHANGED <<users, liveRoles, superKeys, vouched, dangling>> /\ work[w].pc = "loaded"
    BY <1>4 DEF DeleteCheck, directoryTables, directoryHistory
  <2>2. PICK q \in Request :
             /\ q.pc = "write" /\ q.id = work[w].id /\ q.change = [live |-> FALSE]
             /\ q.copy = work[w].copy
             /\ work' = [work EXCEPT ![w] = q]
    BY <1>4, DeleteCheckIs
  <2>3. q.id # 0
    BY <2>1, <2>2 DEF DirectoryType, RequestOK
  <2>4. "role" \notin DOMAIN q.change
    BY <2>2
  <2>. QED
    BY <2>1, <2>2, <2>3, <2>4, QuietRoles DEF RoleBacked, WritesRole
<1>5. ASSUME NEW w \in Workers, RestRefused(w)
      PROVE  RolesInv'
  BY <1>5, IdleOK, QuietRoles
     DEF RestRefused, End, directoryTables, directoryHistory, RoleBacked, WritesRole
<1>6. ASSUME NEW w \in Workers, RestWrite(w)
      PROVE  RolesInv'
  <2>1. /\ work[w].pc = "write" /\ work' = [work EXCEPT ![w] = Idle]
        /\ UNCHANGED <<liveRoles, superKeys>>
    BY <1>6, RestWriteIs
  <2>2. CASE UNCHANGED <<users, loose, vouched, dangling>>
    BY <2>1, <2>2, IdleOK, QuietRoles DEF RoleBacked, WritesRole
  <2>3. ASSUME NEW id \in Ids,
               IF work[w].id # 0 THEN id = work[w].id /\ users[id].live ELSE users[id] = NoUser,
               users' = [users EXCEPT ![id] = RestWritten(w)],
               vouched' = IF RestWritten(w).role \in superKeys /\ work[w].super
                          THEN vouched \cup {id} ELSE vouched,
               dangling' = IF work[w].outdated /\ RestWritten(w).role = work[w].copy.role
                           THEN dangling \cup {id} ELSE dangling
        PROVE  RolesInv'
    BY <2>1, <2>3, WrittenRoles
  <2>. QED
    BY <1>6, <2>2, <2>3, RestWriteIs, Zenon
<1>7. ASSUME NEW w \in Workers, NEW id \in Ids, SaveLoad(w, id)
      PROVE  RolesInv'
  <2> DEFINE q == [Idle EXCEPT !.pc = "save", !.id = id, !.copy = users[id]]
  <2>1. /\ work' = [work EXCEPT ![w] = q] /\ id \in LiveIds
        /\ UNCHANGED <<users, liveRoles, superKeys, vouched, dangling>>
    BY <1>7 DEF SaveLoad, Begin, directoryTables, directoryHistory
  <2>2. q.pc = "save" /\ q.id = id /\ q.copy = users[id]
    BY DEF Idle
  <2>. HIDE DEF q
  <2>3. q.id \in dangling \/ Backed(q.copy.role, q.id \in vouched)
    BY <2>1, <2>2 DEF RolesInv
  <2>. QED
    BY <2>1, <2>2, <2>3, QuietRoles DEF RoleBacked, WritesRole
<1>8. ASSUME NEW w \in Workers, NEW name \in Names, UpdateProfile(w, name)
      PROVE  RolesInv'
  <2> DEFINE row == [work[w].copy EXCEPT !.username = name]
  <2>1. Saved(w, row) /\ work[w].pc = "save"
    BY <1>8 DEF UpdateProfile, Saved
  <2>2. row \in UserRow /\ work[w].copy \in UserRow
    BY <2>1, SavedRow
  <2>3. row.role = work[w].copy.role
    BY <2>2 DEF UserRow
  <2>. HIDE DEF row
  <2>. QED
    BY <2>1, <2>2, <2>3, SavedRoles
<1>9. ASSUME NEW w \in Workers, SavePassword(w)
      PROVE  RolesInv'
  <2> DEFINE row == work[w].copy
  <2>1. Saved(w, row) /\ work[w].pc = "save"
    BY <1>9 DEF SavePassword, Saved
  <2>2. row \in UserRow /\ work[w].copy \in UserRow
    <3>1. PICK name \in Names : TRUE
      BY DirectoryAssumption
    <3>. QED
      BY <2>1, <3>1, SavedRow
  <2>3. row.role = work[w].copy.role
    BY <2>2 DEF UserRow
  <2>. HIDE DEF row
  <2>. QED
    BY <2>1, <2>2, <2>3, SavedRoles
<1>10. ASSUME NEW k \in RoleKeys, NEW caller \in Names, DeleteRole(k, caller)
       PROVE  RolesInv'
  <2>1. /\ Repoint(k, "") /\ UNCHANGED <<vouched, dangling>>
        /\ liveRoles' = liveRoles \ {k} /\ superKeys' = superKeys \ {k}
    BY <1>10 DEF DeleteRole
  <2>. QED
    BY <1>0, <2>1, RepointRoles
<1>11. ASSUME NEW k \in RoleKeys, NEW caller \in Names, NEW n \in RoleKeys,
              RenameRole(k, n, caller)
       PROVE  RolesInv'
  <2>1. /\ Repoint(k, n) /\ UNCHANGED <<vouched, dangling>> /\ n \notin liveRoles
        /\ liveRoles' = (liveRoles \ {k}) \cup {n}
        /\ superKeys' = IF k \in superKeys THEN (superKeys \ {k}) \cup {n} ELSE superKeys
    BY <1>11 DEF RenameRole
  <2>2. /\ n \in {""} \cup liveRoles' /\ liveRoles \ {k} \subseteq liveRoles'
        /\ superKeys' \subseteq (superKeys \ {k}) \cup {n} /\ "" \notin superKeys'
        /\ n \in RoleKeys \cup {""}
    BY <1>0, <2>1
  <2>3. n \in superKeys' => k \in superKeys
    BY <1>0, <2>1
  <2>. QED
    BY <2>1, <2>2, <2>3, RepointRoles
<1>12. ASSUME NEW k \in RoleKeys, CreateRole(k)
       PROVE  RolesInv'
  <2>1. /\ liveRoles' = liveRoles \cup {k}
        /\ UNCHANGED <<users, superKeys, work, vouched, dangling>>
    BY <1>12 DEF CreateRole, directoryHistory
  <2>2. \A x \in Workers : RoleBacked(work[x])'
    BY <2>1 DEF RolesInv, RoleBacked, WritesRole, Backed
  <2>3. (\A i \in LiveIds : i \in dangling \/ Backed(users[i].role, i \in vouched))'
    BY <2>1 DEF RolesInv, LiveIds, Backed
  <2>. QED
    BY <2>2, <2>3 DEF RolesInv
<1>13. CASE UNCHANGED directoryVars
  BY <1>13 DEF directoryVars, directoryTables, directoryHistory, RolesInv, RoleBacked,
               WritesRole, Backed, LiveIds
<1>. QED
  BY <1>1, <1>2, <1>3, <1>4, <1>5, <1>6, <1>7, <1>8, <1>9, <1>10, <1>11, <1>12, <1>13
     DEF DirectoryNext

\* A live user's role exists, and a super one came from the seed or from a super
\* caller, whatever was deleted, renamed or created under the same key meanwhile.
THEOREM RolesTheorem == DirectorySpec => []RolesBacked
<1>1. DirectoryInit => DirectoryType /\ RolesInv
  <2>. SUFFICES ASSUME DirectoryInit PROVE DirectoryType /\ RolesInv
    OBVIOUS
  <2>1. DirectoryType
    BY InitDirectoryType
  <2>2. ASSUME NEW i \in LiveIds
        PROVE  (i = 1 /\ users[i].role = AdminKey) \/ users[i].role = StaffKey
    <3>1. i \in Ids /\ users[i].live
      BY DEF LiveIds
    <3>2. CASE i = 1
      <4>1. i # 2
        BY <3>2
      <4>2. users[i] = NewUser(Admin, AdminKey)
        BY <3>1, <3>2, <4>1, Zenon DEF DirectoryInit
      <4>. QED
        BY <3>2, <4>2 DEF NewUser, NoUser
    <3>3. CASE i = 2
      <4>1. i # 1
        BY <3>3
      <4>2. users[i] = NewUser(Member, StaffKey)
        BY <3>1, <3>3, <4>1, Zenon DEF DirectoryInit
      <4>. QED
        BY <3>3, <4>2 DEF NewUser, NoUser
    <3>4. CASE i # 1 /\ i # 2
      <4>1. users[i] = NoUser
        BY <3>1, <3>4, Zenon DEF DirectoryInit
      <4>. QED
        BY <3>1, <4>1, IdleOK
    <3>. QED
      BY <3>2, <3>3, <3>4
  <2>3. AdminKey # StaffKey
    BY DirectoryAssumption
  <2>4. liveRoles = {AdminKey, StaffKey} /\ superKeys = {AdminKey} /\ vouched = {1}
    BY DEF DirectoryInit
  <2>5. \A i \in LiveIds : i \in dangling \/ Backed(users[i].role, i \in vouched)
    BY <2>2, <2>3, <2>4 DEF Backed
  <2>6. \A w \in Workers : RoleBacked(work[w])
    BY IdleOK DEF DirectoryInit, RoleBacked, WritesRole
  <2>. QED
    BY <2>1, <2>5, <2>6 DEF RolesInv
<1>2. DirectoryType /\ RolesInv /\ [DirectoryNext]_directoryVars
        => DirectoryType' /\ RolesInv'
  BY NextDirectoryType, NextRoles
<1>3. RolesInv => RolesBacked
  BY DEF RolesInv, RolesBacked, Backed
<1>. QED
  BY <1>1, <1>2, <1>3, PTL DEF DirectorySpec

=============================================================================
