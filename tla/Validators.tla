----------------------------- MODULE Validators -----------------------------
(***************************************************************************)
(* The generated request and response validators (admin/pb/*.validate.go), *)
(* called by every RPC of admin/service before it touches the database.    *)
(*                                                                         *)
(* A message type is the sequence of its fields with their rules, in the   *)
(* order its validate function goes through them; a string stands for its  *)
(* number of runes.  Each field is free, a text or list of texts with      *)
(* length limits, a number with a minimum, or a list of pointers to        *)
(* messages that are validated in turn.  Every message has its own         *)
(* ValidationError and MultiError types, all alike: an error is a record   *)
(* of the field, the item and the reason, and a MultiError the sequence of *)
(* its errors.                                                             *)
(***************************************************************************)
EXTENDS Integers, Sequences, FiniteSets, SequencesExt

\* The message a handler was given, last, and before it those nested in it:
\* a pointer is the place of what it points to.
VARIABLE message

Nil == 0               \* a nil pointer; message is empty when it is nil itself

NoRule(f) == [field |-> f, kind |-> "any"]
Text(f, lo, hi) == [field |-> f, kind |-> "text", lo |-> lo, hi |-> hi]
AtLeast(f, lo) == [field |-> f, kind |-> "int", lo |-> lo]
TextList(f, max, lo, hi) == [field |-> f, kind |-> "texts", max |-> max, lo |-> lo, hi |-> hi]
Nested(f, type) == [field |-> f, kind |-> "nested", type |-> type]
Free(fields) == [i \in 1..Len(fields) |-> NoRule(fields[i])]

-----------------------------------------------------------------------------
(* The messages, file by file.                                             *)

LoginRequest == Free(<<"Username", "Password">>)
LoginResponse ==
    Free(<<"Uid", "Username", "Expires", "AccessToken", "RefreshToken", "TenantId", "TenantName">>)
RefreshTokenRequest == Free(<<"RefreshToken">>)
RefreshTokenResponse == Free(<<"Uid", "Username", "Expires", "AccessToken", "RefreshToken">>)
LogoutRequest == Free(<<"AccessToken", "RefreshToken">>)
LogoutResponse == Free(<<"Uid">>)

MenuTreeResponse == <<Nested("Items", "MenuNode")>>
MenuNode == Append(Free(<<"Name", "Title", "Component", "Uri", "Icon", "Hidden", "Public">>),
                   Nested("Children", "MenuNode"))
MenuItem ==
    Free(<<"Id", "Parent", "Name", "Component", "Uri", "ViewPath", "Icon", "Hidden", "Public",
           "Sort", "Description", "CreatedAt", "UpdatedAt">>)
MenuListAllResponse == <<Nested("Items", "MenuItem")>>
MenuOptionsResponse == <<Nested("Items", "OptionNode")>>
OptionNode == Append(Free(<<"Value", "Label", "Parent">>), Nested("Children", "OptionNode"))
MenuBreadcrumbRequest == <<AtLeast("Id", 1)>>
MenuBreadcrumbResponse == Free(<<"Path">>)

ListCatalogRequest == Free(<<"Type">>)
ListCatalogResponse == Free(<<"Permissions">>)
ListPermissionItem == Free(<<"Id", "Type", "Data", "Description", "Group">>)
ListPermissionsRequest == Free(<<"Type">>)
ListPermissionsResponse == <<Nested("Items", "ListPermissionItem")>>

RolePermissionsRequest == <<Text("Role", 1, 60), NoRule("Type")>>
RolePermissionsResponse == Free(<<"Menus", "Apis">>)
ReplaceRolePermissionsRequest ==
    <<Text("Role", 1, 60), TextList("Menus", 1024, 1, 120), TextList("Apis", 1024, 1, 60)>>
ReplaceRolePermissionsResponse == Free(<<"Role", "Affected">>)
ListRoleOptionsResponse == <<Nested("Items", "OptionEntry")>>
OptionEntry == Free(<<"Value", "Label">>)
RoleMenusRequest == <<Text("Role", 1, 60)>>

TenantRequest == <<Text("Id", 1, 60)>>
TenantInfo == Free(<<"Id", "Name", "Status", "CreatedAt">>)
TenantOption == Free(<<"Id", "Name">>)
ListTenantOptionsResponse == <<Nested("Items", "TenantOption")>>

UserProfile ==
    Free(<<"Uid", "Username", "Email", "Gender", "Description", "Avatar", "Role", "DeptId">>)
UpdateProfileRequest == Free(<<"Username", "Email", "Gender", "Description">>)
ChangePasswordRequest == Free(<<"OldPassword", "NewPassword">>)
ResetPasswordRequest == Free(<<"TargetUid", "NewPassword">>)
ResetPasswordResponse == Free(<<"TargetUid">>)
SetAvatarByURLRequest == Free(<<"AvatarUrl">>)
SetAvatarByURLResponse == Free(<<"AvatarUrl">>)
MenuEntry ==
    Free(<<"Name", "Component", "Uri", "Parent", "Icon", "Public", "Hidden", "ViewPath">>)
ListVisibleMenusResponse == <<NoRule("TotalCount"), Nested("Menus", "MenuEntry")>>
ListPermissionCodesResponse == Free(<<"TotalCount", "Permissions">>)

Schemas ==
    [LoginRequest |-> LoginRequest, LoginResponse |-> LoginResponse,
     RefreshTokenRequest |-> RefreshTokenRequest, RefreshTokenResponse |-> RefreshTokenResponse,
     LogoutRequest |-> LogoutRequest, LogoutResponse |-> LogoutResponse,
     MenuTreeResponse |-> MenuTreeResponse, MenuNode |-> MenuNode, MenuItem |-> MenuItem,
     MenuListAllResponse |-> MenuListAllResponse, MenuOptionsResponse |-> MenuOptionsResponse,
     OptionNode |-> OptionNode, MenuBreadcrumbRequest |-> MenuBreadcrumbRequest,
     MenuBreadcrumbResponse |-> MenuBreadcrumbResponse,
     ListCatalogRequest |-> ListCatalogRequest, ListCatalogResponse |-> ListCatalogResponse,
     ListPermissionItem |-> ListPermissionItem, ListPermissionsRequest |-> ListPermissionsRequest,
     ListPermissionsResponse |-> ListPermissionsResponse,
     RolePermissionsRequest |-> RolePermissionsRequest,
     RolePermissionsResponse |-> RolePermissionsResponse,
     ReplaceRolePermissionsRequest |-> ReplaceRolePermissionsRequest,
     ReplaceRolePermissionsResponse |-> ReplaceRolePermissionsResponse,
     ListRoleOptionsResponse |-> ListRoleOptionsResponse, OptionEntry |-> OptionEntry,
     RoleMenusRequest |-> RoleMenusRequest, TenantRequest |-> TenantRequest,
     TenantInfo |-> TenantInfo, TenantOption |-> TenantOption,
     ListTenantOptionsResponse |-> ListTenantOptionsResponse, UserProfile |-> UserProfile,
     UpdateProfileRequest |-> UpdateProfileRequest,
     ChangePasswordRequest |-> ChangePasswordRequest,
     ResetPasswordRequest |-> ResetPasswordRequest, ResetPasswordResponse |-> ResetPasswordResponse,
     SetAvatarByURLRequest |-> SetAvatarByURLRequest,
     SetAvatarByURLResponse |-> SetAvatarByURLResponse, MenuEntry |-> MenuEntry,
     ListVisibleMenusResponse |-> ListVisibleMenusResponse,
     ListPermissionCodesResponse |-> ListPermissionCodesResponse]

-----------------------------------------------------------------------------
(* The rules.                                                              *)

\* The generated ValidationError: the field, the item of a list (0: none) and
\* the reason; its cause is the nested message's own result.
ValidationError(f, idx, reason) == [field |-> f, item |-> idx, reason |-> reason]

\* Mutant of Runes: the upper limit is exclusive.
RunesBelow(l, r) == l < r.lo \/ l >= r.hi

\* The length of a text is outside its limits.
Runes(l, r) == l < r.lo \/ l > r.hi

\* What validate tests one after another.
Check(r, idx, fails, reason) ==
    [fails |-> fails, error |-> ValidationError(r.field, idx, reason)]

\* The tests of a rule on the field's value v; embedded[k] is what validating
\* the message at k returned, a nil one's being no error.
Checks(r, v, embedded) ==
    CASE r.kind = "any" -> <<>>
      [] r.kind = "text" -> <<Check(r, 0, Runes(v, r), "length")>>
      [] r.kind = "int" -> <<Check(r, 0, v < r.lo, "minimum")>>
      [] r.kind = "texts" ->
            <<Check(r, 0, Len(v) > r.max, "items")>> \o
                [i \in 1..Len(v) |-> Check(r, i, Runes(v[i], r), "length")]
      [] r.kind = "nested" ->
            [i \in 1..Len(v) |-> Check(r, i, embedded[v[i]] # <<>>, "embedded")]

\* Each test that fails appends its error; without all, the first one returns.
Collect(all, errors, checks) ==
    LET failed == {k \in 1..Len(checks) : checks[k].fails}
        Nth(j) == CHOOSE k \in failed : Cardinality({i \in failed : i <= k}) = j
    IN  IF all THEN errors \o [j \in 1..Cardinality(failed) |-> checks[Nth(j)].error]
        ELSE IF errors # <<>> \/ failed = {} THEN errors
        ELSE <<checks[Min(failed)].error>>

\* validate of one message, rule by rule.
ValidateFields(all, msg, embedded) ==
    LET rules == Schemas[msg.type]
        sofar[i \in 0..Len(rules)] ==
            IF i = 0 THEN <<>>
            ELSE Collect(all, sofar[i - 1],
                         Checks(rules[i], msg.fields[rules[i].field], embedded))
    IN  sofar[Len(rules)]

\* Validate and ValidateAll, of the message and of those nested in it.
Validate(all) ==
    LET result[n \in 0..Len(message)] ==
            IF n = Nil THEN <<>>
            ELSE ValidateFields(all, message[n], [k \in 0..(n - 1) |-> result[k]])
    IN  result[Len(message)]

-----------------------------------------------------------------------------
(* The messages to try: each limit, and one past it.                       *)

Many(n) == [i \in 1..n |-> 1]
Zero(type) ==
    [f \in {r.field : r \in Range(Schemas[type])} |->
        LET r == CHOOSE x \in Range(Schemas[type]) : x.field = f
        IN  IF r.kind \in {"texts", "nested"} THEN <<>> ELSE 0]
Samples(r) ==
    CASE r.kind = "any" -> {0}
      [] r.kind = "text" -> {r.lo - 1, r.lo, r.hi, r.hi + 1}
      [] r.kind = "int" -> {r.lo - 1, r.lo}
      [] r.kind = "texts" -> {<<>>, <<r.lo, r.hi>>, <<r.lo - 1>>, <<r.hi, r.hi + 1>>,
                              Many(r.max), Many(r.max + 1)}
      [] r.kind = "nested" -> {<<>>, <<Nil>>, <<2, 1>>}
Tries(type) ==
    FoldLeft(LAMBDA acc, r : {(r.field :> v) @@ m : m \in acc, v \in Samples(r)},
             {<<>>}, Schemas[type])

\* Two nested messages and then msg.
Nest(type, msg) ==
    LET inner == {r.type : r \in {x \in Range(Schemas[type]) : x.kind = "nested"}}
    IN  IF inner = {} THEN <<[type |-> type, fields |-> msg]>>
        ELSE LET t == CHOOSE x \in inner : TRUE
             IN  <<[type |-> t, fields |-> Zero(t)], [type |-> t, fields |-> Zero(t)],
                   [type |-> type, fields |-> msg]>>

\* Pointers lead to messages of the field's type, which precede the message.
Fits(r, v, n) ==
    CASE r.kind = "any" -> TRUE
      [] r.kind \in {"text", "int"} -> v \in Int
      [] r.kind = "texts" -> v \in Seq(Int)
      [] r.kind = "nested" ->
            v \in Seq(0..(n - 1)) /\ \A k \in Range(v) : k # Nil => message[k].type = r.type
WellTyped ==
    \A n \in DOMAIN message :
        /\ message[n].type \in DOMAIN Schemas
        /\ \A r \in Range(Schemas[message[n].type]) : Fits(r, message[n].fields[r.field], n)

NoMessage == <<>>
ValidatorsInit ==
    /\ message \in {NoMessage} \cup UNION {{Nest(t, m) : m \in Tries(t)} : t \in DOMAIN Schemas}
    /\ WellTyped

-----------------------------------------------------------------------------
(* Properties.                                                             *)

Holds(r, v) ==
    CASE r.kind = "any" -> TRUE
      [] r.kind = "text" -> v \in r.lo..r.hi
      [] r.kind = "int" -> v >= r.lo
      [] r.kind = "texts" -> Len(v) <= r.max /\ Range(v) \subseteq r.lo..r.hi
      [] r.kind = "nested" -> TRUE    \* no message that is nested has a rule

\* A message passes when every rule holds, at the limits and with nested or
\* nil messages too; Validate, which stops at the first failing rule, and
\* ValidateAll agree, and Validate's error is ValidateAll's first.  What
\* ReplaceRolePermissions accepts fits sys_role_permissions.data (size:120).
ValidatorsAgree ==
    LET all == Validate(TRUE)
        one == Validate(FALSE)
    IN
    /\ (all = <<>>) = (message = NoMessage \/
            \A r \in Range(Schemas[Last(message).type]) : Holds(r, Last(message).fields[r.field]))
    /\ one = IF all = <<>> THEN <<>> ELSE <<Head(all)>>
    /\ (message # NoMessage /\ one = <<>> /\ Last(message).type = "ReplaceRolePermissionsRequest") =>
          Range(Last(message).fields.Menus) \cup Range(Last(message).fields.Apis) \subseteq 1..120

=============================================================================
