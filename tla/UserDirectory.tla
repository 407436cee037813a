---------------------------- MODULE UserDirectory ----------------------------
(***************************************************************************)
(* sys_users and sys_roles under concurrent requests: the generic REST     *)
(* create, update and delete with the guards of admin/security_guards.go   *)
(* and admin/server.go, the self-service RPCs of service/user.go, and the  *)
(* hooks by which a role's deletion or new key reaches its users.          *)
(*                                                                         *)
(* A request reads, is checked, and writes in separate steps: between them *)
(* other requests commit.  REST writes the columns that changed; the RPCs  *)
(* Save the whole row they loaded, with no guard (no RuntimeScope), and    *)
(* gorm's Save inserts a row again when its UPDATE finds none.  A name is  *)
(* a uid or a username: Login takes either.                                *)
(***************************************************************************)
EXTENDS Naturals, FiniteSets

CONSTANTS
    Workers,          \* concurrent requests
    Names,            \* uids and usernames
    Admin, Member,    \* the names of the two users to begin with
    RoleKeys,
    AdminKey, StaffKey,  \* their roles, the first one super
    MaxUsers, MaxOps  \* bounds: rows, requests

ASSUME DirectoryAssumption ==
    /\ IsFiniteSet(Workers) /\ "" \notin Names \cup RoleKeys
    /\ {Admin, Member} \subseteq Names /\ Admin # Member
    /\ {AdminKey, StaffKey} \subseteq RoleKeys /\ AdminKey # StaffKey
    /\ {MaxUsers, MaxOps} \subseteq Nat

VARIABLES
    users,            \* the rows, in order of id
    liveRoles,        \* keys with a sys_roles row
    superKeys,        \* those of them with is_super
    work,             \* each worker's request
    ops,
    loose,            \* history: names written past an overlapping or missing check
    vouched,          \* history: ids a super caller made super, or the seed did
    dangling          \* history: ids whose role was checked or loaded before it was deleted or renamed

directoryTables == <<users, liveRoles, superKeys>>
directoryHistory == <<loose, vouched, dangling>>
directoryVars == <<directoryTables, work, ops, directoryHistory>>

Ids == 1..MaxUsers
NoUser == [uid |-> "", username |-> "", role |-> "", status |-> "normal",
           live |-> FALSE]
Idle == [pc |-> "idle", id |-> 0, copy |-> NoUser, change |-> <<>>, caller |-> "",
         super |-> FALSE,       \* the caller was super when checked
         outdated |-> FALSE]    \* history: the role in copy was deleted or renamed since
LiveIds == {i \in Ids : users[i].live}
NamesOf(row) == {row.uid, row.username}

\* row with the fields of change.
With(row, change) ==
    [f \in DOMAIN row |-> IF f \in DOMAIN change THEN change[f] ELSE row[f]]

NewUser(name, role) ==
    [NoUser EXCEPT !.uid = name, !.username = name, !.role = role, !.live = TRUE]

\* What Seed leaves, and one ordinary user.
DirectoryInit ==
    /\ users = [i \in Ids |-> CASE i = 1 -> NewUser(Admin, AdminKey)
                                [] i = 2 -> NewUser(Member, StaffKey)
                                [] OTHER -> NoUser]
    /\ liveRoles = {AdminKey, StaffKey} /\ superKeys = {AdminKey}
    /\ work = [w \in Workers |-> Idle] /\ ops = 0
    /\ loose = {} /\ vouched = {1} /\ dangling = {}

-----------------------------------------------------------------------------
(* The checks.  A look-up can fail: of the caller (not super), of a role to *)
(* assign or of the names in use, the request is refused, as RestRefused and *)
(* a create that never begins have it; of the role the row has, roleIsSuper  *)
(* answers no and the check passes (unread).                                 *)

\* First(&caller) by uid, and the role that row has now.
CallerIsSuper(uid) ==
    LET rows == {i \in LiveIds : users[i].uid = uid}
    IN  rows # {} /\ users[CHOOSE i \in rows : \A j \in rows : i <= j].role \in superKeys

\* Mutant of LoginIdentityUnique: usernames only.
LoginIdentityUniqueNames(names, except) ==
    \A i \in LiveIds \ {except} : users[i].username \notin names

\* ensureLoginIdentityUnique: soft-deleted rows do not count.
LoginIdentityUnique(names, except) ==
    \A i \in LiveIds \ {except} : NamesOf(users[i]) \cap names = {}

\* Mutant of CallerMayAssign: any caller assigns the super role.
CallerMayAssignAny(uid, role) == role \in liveRoles

\* ensureCallerMayAssignRole.
CallerMayAssign(uid, role) ==
    /\ role \in liveRoles
    /\ role \in superKeys => CallerIsSuper(uid)

\* roleIsSuper.
RoleIsSuper(role, unread) == ~unread /\ role \in superKeys

\* guardUserUpdate, on the row as it was loaded.  An empty role_key counts as
\* not changed.
GuardUserUpdate(copy, id, change, uid, unread) ==
    LET name == IF "username" \in DOMAIN change THEN change.username ELSE copy.username
    IN
    /\ RoleIsSuper(copy.role, unread) => CallerIsSuper(uid)
    /\ LoginIdentityUnique({copy.uid, name}, id)
    /\ ("role" \in DOMAIN change /\ change.role \notin {"", copy.role}) =>
          CallerIsSuper(uid) /\ CallerMayAssign(uid, change.role)

\* guardDelete.
GuardUserDelete(copy, uid, unread) == RoleIsSuper(copy.role, unread) => CallerIsSuper(uid)

-----------------------------------------------------------------------------
(* Requests.                                                               *)

\* The names a request in flight has been cleared to write.
Cleared(w) == IF work[w].pc = "write" THEN NamesOf(work[w].copy) ELSE {}

Begin(w, request) ==
    /\ work[w].pc = "idle" /\ ops < MaxOps
    /\ ops' = ops + 1
    /\ work' = [work EXCEPT ![w] = request]

End(w) == work' = [work EXCEPT ![w] = Idle]

-----------------------------------------------------------------------------
(* REST.                                                                   *)

\* Create: hardenResource's BeforeCreate hook, and then the insert.
CreateCheck(w, caller, uid, name, role) ==
    /\ LoginIdentityUnique({uid, name}, 0)
    /\ CallerMayAssign(caller, role)
    /\ Begin(w, [Idle EXCEPT !.pc = "write", !.caller = caller, !.super = CallerIsSuper(caller),
                             !.copy = [NoUser EXCEPT !.uid = uid, !.username = name,
                                                     !.role = role, !.live = TRUE]])
    /\ UNCHANGED <<directoryTables, directoryHistory>>

\* Update and delete begin with the row as it is now.
RestLoad(w, caller, id) ==
    /\ id \in LiveIds
    /\ Begin(w, [Idle EXCEPT !.pc = "loaded", !.id = id, !.copy = users[id], !.caller = caller])
    /\ UNCHANGED <<directoryTables, directoryHistory>>

Changes(copy) ==
    {[username |-> n] : n \in Names \ {copy.username}}
        \cup {[role |-> k] : k \in (RoleKeys \cup {""}) \ {copy.role}}
        \cup {[status |-> s] : s \in {"normal", "disabled"} \ {copy.status}}

UpdateCheck(w, change, unread) ==
    /\ work[w].pc = "loaded"
    /\ GuardUserUpdate(work[w].copy, work[w].id, change, work[w].caller, unread)
    /\ work' = [work EXCEPT ![w].pc = "write", ![w].change = change,
                            ![w].copy = With(@, change), ![w].outdated = FALSE,
                            ![w].super = CallerIsSuper(work[w].caller)]
    /\ UNCHANGED <<directoryTables, ops, directoryHistory>>

DeleteCheck(w, unread) ==
    /\ work[w].pc = "loaded"
    /\ GuardUserDelete(work[w].copy, work[w].caller, unread)
    /\ work' = [work EXCEPT ![w].pc = "write", ![w].change = [live |-> FALSE],
                            ![w].super = CallerIsSuper(work[w].caller)]
    /\ UNCHANGED <<directoryTables, ops, directoryHistory>>

\* A check that fails, or one of its look-ups, ends the request.
RestRefused(w) ==
    /\ work[w].pc = "loaded"
    /\ End(w)
    /\ UNCHANGED <<directoryTables, ops, directoryHistory>>

\* What the statement writes: the new row, or the changed columns of a row
\* that is still live.
RestWritten(w) ==
    IF work[w].id = 0 THEN work[w].copy ELSE With(users[work[w].id], work[w].change)

\* The row of the request, or for a new user the next free id.
RestWrite(w) ==
    LET row == RestWritten(w) IN
    /\ work[w].pc = "write"
    /\ End(w)
    /\ \E id \in Ids :
         /\ IF work[w].id # 0 THEN id = work[w].id
            ELSE users[id] = NoUser /\ \A j \in 1..(id - 1) : users[j] # NoUser
         /\ IF work[w].id # 0 /\ ~users[id].live
            THEN UNCHANGED <<users, directoryHistory>>
            ELSE /\ users' = [users EXCEPT ![id] = row]
                 /\ loose' = loose \cup (Cleared(w) \cap UNION {Cleared(x) : x \in Workers \ {w}})
                 /\ vouched' = IF row.role \in superKeys /\ work[w].super
                               THEN vouched \cup {id} ELSE vouched
                 /\ dangling' = IF work[w].outdated /\ row.role = work[w].copy.role
                                THEN dangling \cup {id} ELSE dangling
    /\ UNCHANGED <<liveRoles, superKeys, ops>>

-----------------------------------------------------------------------------
(* The RPCs.                                                               *)

\* loadByUID of the caller; for ResetPassword a super caller and its target.
SaveLoad(w, id) ==
    /\ id \in LiveIds
    /\ Begin(w, [Idle EXCEPT !.pc = "save", !.id = id, !.copy = users[id]])
    /\ UNCHANGED <<directoryTables, directoryHistory>>

\* Save writes every column of the copy; a row deleted meanwhile is inserted
\* again with its primary key, its deleted_at cleared.
Saved(w, copy) ==
    LET id == work[w].id IN
    /\ work[w].pc = "save"
    /\ End(w)
    /\ users' = [users EXCEPT ![id] = copy]
    /\ loose' = IF users[id].live /\ users[id].username = copy.username THEN loose
                ELSE loose \cup NamesOf(copy)
    /\ dangling' = IF work[w].outdated THEN dangling \cup {id} ELSE dangling
    /\ UNCHANGED <<liveRoles, superKeys, ops, vouched>>

\* UpdateProfile, with or without a new username.
UpdateProfile(w, name) == Saved(w, [work[w].copy EXCEPT !.username = name])

\* ChangePassword and ResetPassword; the password is not among the columns kept.
SavePassword(w) == Saved(w, work[w].copy)

-----------------------------------------------------------------------------
(* Roles.                                                                  *)

\* The live users of role k get role n; copies loaded before keep the old one.
Repoint(k, n) ==
    LET held == {i \in LiveIds : users[i].role = k} IN
    /\ users' = [i \in Ids |-> IF i \in held THEN [users[i] EXCEPT !.role = n] ELSE users[i]]
    /\ work' = [w \in Workers |-> [work[w] EXCEPT !.outdated = @ \/ work[w].copy.role = k]]

\* A delete through REST: guardDelete, and AfterDelete detaches the users.
DeleteRole(k, caller) ==
    /\ k \in liveRoles /\ ops < MaxOps /\ ops' = ops + 1
    /\ k \in superKeys => CallerIsSuper(caller)
    /\ liveRoles' = liveRoles \ {k} /\ superKeys' = superKeys \ {k}
    /\ Repoint(k, "")
    /\ UNCHANGED <<loose, vouched, dangling>>

\* An update through REST: guardUpdate, and BeforeUpdate on a new key re-points
\* the users.
RenameRole(k, n, caller) ==
    /\ k \in liveRoles /\ n \in RoleKeys \ liveRoles /\ ops < MaxOps /\ ops' = ops + 1
    /\ k \in superKeys => CallerIsSuper(caller)
    /\ liveRoles' = (liveRoles \ {k}) \cup {n}
    /\ superKeys' = IF k \in superKeys THEN (superKeys \ {k}) \cup {n} ELSE superKeys
    /\ Repoint(k, n)
    /\ UNCHANGED <<loose, vouched, dangling>>

\* hardenResource clears is_super of a role created through REST.
CreateRole(k) ==
    /\ k \in RoleKeys \ liveRoles /\ ops < MaxOps /\ ops' = ops + 1
    /\ liveRoles' = liveRoles \cup {k}
    /\ UNCHANGED <<users, superKeys, work, directoryHistory>>

DirectoryNext ==
    \/ \E w \in Workers :
         \/ \E caller, uid, name \in Names, role \in RoleKeys : CreateCheck(w, caller, uid, name, role)
         \/ \E caller \in Names, id \in Ids : RestLoad(w, caller, id)
         \/ \E unread \in BOOLEAN :
              \/ \E change \in Changes(work[w].copy) : UpdateCheck(w, change, unread)
              \/ DeleteCheck(w, unread)
         \/ RestRefused(w) \/ RestWrite(w)
         \/ \E id \in Ids : SaveLoad(w, id)
         \/ \E name \in Names : UpdateProfile(w, name)
         \/ SavePassword(w)
    \/ \E k \in RoleKeys :
         \/ \E caller \in Names : \/ DeleteRole(k, caller)
                                 \/ \E n \in RoleKeys : RenameRole(k, n, caller)
         \/ CreateRole(k)

DirectorySpec == DirectoryInit /\ [][DirectoryNext]_directoryVars

-----------------------------------------------------------------------------
(* Properties.                                                             *)

\* Login finds at most one row for a name, uid and username taken together,
\* unless two requests were cleared for the name at once, or a Save renamed or
\* revived a row without a check.
LoginUnambiguous ==
    \A i, j \in LiveIds : i # j => NamesOf(users[i]) \cap NamesOf(users[j]) \subseteq loose

\* A user's role exists, and a super one came from the seed or a super caller,
\* whatever was deleted, renamed or created under the same key meanwhile; a role
\* written after it was deleted, on a check or copy from before, is the exception.
RolesBacked ==
    \A i \in LiveIds \ dangling :
        /\ users[i].role \in {""} \cup liveRoles
        /\ users[i].role \in superKeys => i \in vouched

=============================================================================
