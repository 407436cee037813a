------------------------------- MODULE MCAdmin -------------------------------
(* The admin back office for TLC: booting, the user directory, the grants of *)
(* tenants, and the pure parts (menu tree, validators, access rules).  One of  *)
(* them runs in each behaviour.                                              *)
EXTENDS Bootstrap, UserDirectory, TenantGrants, MenuTree, Validators, PermissionGate

VARIABLE part       \* which of them runs

pureVars == <<menuRows, message, access, gate>>
vars == <<part, bootVars, directoryVars, grantsVars, pureVars>>

MCRegistered == <<>>
MCTenantModel == <<"tenants", "GET /tenants">>
MCEndpoints == <<"schema">>
MCSuperRole == [tenant |-> "t1", key |-> "k1"]
Symmetry == Permutations(Procs) \cup Permutations(Editors)

\* What a part that does not run holds.
NoAccess == [path |-> <<>>, pattern |-> <<>>, method |-> ""]
NoGate ==
    [caller |-> "grpc", headers |-> NoHeaders, method |-> "GET", url |-> PathA, route |-> PathA,
     tenant |-> "t1", role |-> "r1", allowlist |-> <<>>, failOpen |-> FALSE, failing |-> "none",
     catalog |-> {}, grants |-> {}]

Init ==
    /\ part \in {"boot", "directory", "grants", "menus", "messages", "access", "gate"}
    /\ IF part = "boot" THEN BootInit ELSE multi = FALSE /\ FreshDatabase /\ BootsBegin
    /\ DirectoryInit
    /\ GrantsInit /\ (part # "grants" => ~scoped /\ roleRows = {SuperRole})
    /\ IF part = "menus" THEN MenusInit ELSE menuRows = <<>>
    /\ IF part = "messages" THEN ValidatorsInit ELSE message = NoMessage
    /\ IF part = "access" THEN AccessInit ELSE access = NoAccess
    /\ IF part = "gate" THEN GateInit ELSE gate = NoGate

BootStep ==
    part = "boot" /\ BootNext /\ UNCHANGED <<part, directoryVars, grantsVars, pureVars>>
DirectoryStep ==
    part = "directory" /\ DirectoryNext /\ UNCHANGED <<part, bootVars, grantsVars, pureVars>>
GrantsStep ==
    part = "grants" /\ GrantsNext /\ UNCHANGED <<part, bootVars, directoryVars, pureVars>>
Next == BootStep \/ DirectoryStep \/ GrantsStep

Spec == Init /\ [][Next]_vars

\* Two processes booting at once, alone.
BootSpec ==
    Init /\ part = "boot" /\ [][Next]_vars

==============================================================================
