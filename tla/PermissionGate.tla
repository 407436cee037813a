---------------------------- MODULE PermissionGate ----------------------------
(***************************************************************************)
(* The permission checker (admin/permission.go, NewPermissionChecker): who *)
(* may call what, decided from the metadata that the HTTP transport        *)
(* (requestInterceptor) or another caller attached to the request          *)
(* (metadata/metadata.go), where headers of the client are behind it.      *)
(* What the tables hold is read through the caches of DbCache.             *)
(***************************************************************************)
EXTENDS AccessRules

VARIABLE gate      \* a request, the checker's options and the tables

-----------------------------------------------------------------------------
(* Metadata: what was set comes before the headers read through the tee.   *)

\* Mutant of MdGet: a header comes first.
MdGetHeader(md, key) ==
    IF md.headers[key] # <<>> THEN [val |-> md.headers[key], ok |-> TRUE]
    ELSE [val |-> IF key \in DOMAIN md.variables THEN md.variables[key] ELSE <<>>,
          ok |-> key \in DOMAIN md.variables]

\* Metadata.Get: an empty value that was set is there, an empty header is not.
MdGet(md, key) ==
    IF key \in DOMAIN md.variables THEN [val |-> md.variables[key], ok |-> TRUE]
    ELSE [val |-> md.headers[key], ok |-> md.headers[key] # <<>>]

MdSet(md, key, val) ==
    [md EXCEPT !.variables = [k \in DOMAIN @ \cup {key} |-> IF k = key THEN val ELSE @[k]]]

NoHeaders == [protocol |-> <<>>, path |-> <<>>, route |-> <<>>, method |-> <<>>]
NewMetadata(headers) == [variables |-> <<>>, headers |-> headers]

\* requestInterceptor: a request without a route keeps its raw path, and an
\* empty route.
HttpMetadata(g) ==
    LET path == IF g.route = <<>> THEN g.url ELSE g.route
        m1 == MdSet(NewMetadata(g.headers), "protocol", <<"http">>)
        m2 == MdSet(MdSet(m1, "path", path), "route", g.route)
    IN  MdSet(m2, "method", <<g.method>>)

\* attachMetadata of the gRPC transport.
GrpcMetadata(g) ==
    MdSet(MdSet(NewMetadata(g.headers), "path", g.url), "protocol", <<"grpc">>)

\* An embedder that predates the route: it sets the rest, over headers or none.
EmbedderMetadata(g) ==
    MdSet(MdSet(MdSet(NewMetadata(g.headers), "protocol", <<"http">>), "path", g.url),
          "method", <<g.method>>)

RequestMetadata(g) ==
    CASE g.caller = "grpc" -> GrpcMetadata(g)
      [] g.caller = "embedder" -> EmbedderMetadata(g)
      [] OTHER -> HttpMetadata(g)

-----------------------------------------------------------------------------
(* The checker.                                                            *)

\* splitAllowEntry, of an entry's words.
SplitAllowEntry(words) ==
    CASE Len(words) = 0 -> [method |-> "", pattern |-> <<>>]
      [] Len(words) = 1 -> [method |-> "", pattern |-> words[1]]
      [] Len(words) = 2 -> [method |-> IF words[1] = "*" THEN "" ELSE words[1], pattern |-> words[2]]

UserPath(word) == <<"/", "user", "/", word>>
DefaultCheckerAllowlist ==
    << <<"GET", UserPath("profile")>>, <<"PATCH", UserPath("profile")>>,
       <<"POST", UserPath("change-password")>>, <<"POST", UserPath("set-avatar")>>,
       <<"GET", UserPath("menus")>>, <<"GET", UserPath("permissions")>>,
       <<"GET", <<"/", "menu", "/", "tree">> >>, <<"GET", <<"/", "menu", "/", "breadcrumb">> >>,
       <<"GET", <<"/", "dashboard", "/", "overview">> >> >>

\* The defaults, and what WithCheckerAllowlist adds.
Allowlist(g) ==
    LET entries == DefaultCheckerAllowlist \o g.allowlist
    IN  [k \in 1..Len(entries) |-> SplitAllowEntry(entries[k])]

IsInfrastructurePath(path) ==
    \/ path = <<>>
    \/ path \in {<<"/", word>> : word \in {"health", "ready", "metrics", "mcp"}}
    \/ IsPrefix(<<"/", "mcp", "/">>, path)
    \/ IsSuffix(<<"/", "openapi.json">>, path)

\* The loader of grants: those of the caller's role on the caller's tenant.
GrantSet(g) == {row.data : row \in {r \in g.grants : r.tenant = g.tenant /\ r.role = g.role}}

Checker(g) ==
    LET md == RequestMetadata(g)
        method == MdGet(md, "method").val
        path == MdGet(md, "path").val
        set == MdGet(md, "route")
        route == IF set.ok THEN set.val ELSE path
        code == <<method[1], route>>
    IN  IF MdGet(md, "protocol").val # <<"http">> THEN "pass"
        ELSE IF g.caller = "other claims" THEN "access denied"
        ELSE IF IsInfrastructurePath(route) \/ AllowlistMatch(Allowlist(g), method[1], path) THEN "pass"
        ELSE IF g.failing = "catalog" THEN "error"
        ELSE IF code \notin g.catalog THEN (IF g.failOpen THEN "pass" ELSE "permission denied")
        ELSE IF g.failing = "grants" THEN "error"
        ELSE IF code \in GrantSet(g) THEN "pass"
        ELSE "permission denied"

-----------------------------------------------------------------------------
(* The requests to try.                                                    *)

PathA == <<"/", "a">>
PathAB == <<"/", "a", "/", "b">>
GatePaths ==
    {PathA, PathAB, <<"/", "health">>, <<"/", "mcp">>, <<"/", "mcp", "/", "a">>, <<"/", "mcpa">>,
     <<"/", "a", "/", "openapi.json">>, UserPath("profile")}
\* Headers of the client under the framework's names.
SomeHeaders ==
    [protocol |-> <<"cli">>, path |-> UserPath("profile"), route |-> <<"/", "health">>,
     method |-> <<"GET">>]

GateInit ==
    \E caller \in {"http", "grpc", "embedder", "other claims"}, headers \in {NoHeaders, SomeHeaders},
       method \in {"GET", "POST"}, url \in {PathAB, UserPath("profile")}, route \in GatePaths \cup {<<>>},
       allowlist \in {<<>>, << <<PathA \o <<"*">> >> >>, << <<"*", PathA>> >>, << <<"POST", PathAB>>, <<>> >>},
       failOpen \in BOOLEAN, failing \in {"none", "catalog", "grants"},
       catalogued \in BOOLEAN, holders \in SUBSET {<<"t1", "r1">>, <<"t1", "r2">>, <<"t2", "r1">>} :
        LET code == <<method, IF caller = "embedder" THEN url ELSE route>> IN
        gate = [caller |-> caller, headers |-> headers, method |-> method, url |-> url, route |-> route,
                tenant |-> "t1", role |-> "r1", allowlist |-> allowlist, failOpen |-> failOpen,
                failing |-> failing, catalog |-> IF catalogued THEN {code} ELSE {},
                grants |-> {[tenant |-> h[1], role |-> h[2], data |-> code] : h \in holders}]

-----------------------------------------------------------------------------
(* Properties.                                                             *)

\* Whatever headers the client sends, a request passes for one of the reasons
\* the checker documents and for no other: it is not HTTP; or its claims are
\* the back office's and its route is infrastructure (or there is none), its
\* method and path are allowlisted, its route is catalogued and granted to the
\* caller's role on the caller's own tenant, or it is not catalogued and the
\* checker was told to fail open.  A table that cannot be read never opens it.
\* Only where an embedder sets no route does a header stand in for one.
CheckerExact(g) ==
    LET path == IF g.caller # "embedder" /\ g.route # <<>> THEN g.route ELSE g.url
        route == IF g.caller # "embedder" THEN g.route
                 ELSE IF g.headers.route # <<>> THEN g.headers.route ELSE g.url
        listed == \E k \in 1..Len(Allowlist(g)) :
                     /\ Allowlist(g)[k].method \in {"", g.method}
                     /\ Promised(Allowlist(g)[k].pattern, path)
        granted == [tenant |-> g.tenant, role |-> g.role, data |-> <<g.method, route>>] \in g.grants
    IN  (Checker(g) = "pass") =
          \/ g.caller = "grpc"
          \/ /\ g.caller # "other claims"
             /\ \/ IsInfrastructurePath(route) \/ listed
                \/ g.failing # "catalog" /\ g.failOpen /\ <<g.method, route>> \notin g.catalog
                \/ g.failing = "none" /\ granted /\ <<g.method, route>> \in g.catalog

\* What opens the gate: exact allowlists, and a checker that is exact too.
GateExact == AllowlistsExact /\ CheckerExact(gate)

==============================================================================
