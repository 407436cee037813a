# aeus: a TLA+ model of the services, their transports and the admin back office

This directory models the parts of aeus whose correctness depends on order,
failure or boundaries: starting and stopping a service, discovery, the CLI
protocol and the request pipeline; sessions, permissions, users, grants and boots
of the admin module; the rate limiter, the grant cache and the broker. Each
module is translated from the Go source; `PROJECT.json` names, for every
definition, the lines it stands for.

Run a model with `tlc -config <cfg> <MC module>` and check the proofs with
`tlapm <...>Proofs.tla`.

## 1. The system

aeus is a microservice scaffold in Go. `aeus.New(...).Run()` (app.go) runs
transports, a registry heartbeat and a user-supplied loader in one errgroup. The
`admin` module adds accounts, roles, menus, tenants, JWT sessions and permission
checks on top of gorm.

| component | state it keeps | operations | what is hard | what makes it correct |
|---|---|---|---|---|
| Service lifecycle (app.go) | errgroup, signal context, named result `err` | build, preStart, Run, preStop | goroutines starting while a stop is under way, shared `err`, a stop that overtakes a start | Run returns; every served listener is closed; the servers are stopped before Run returns |
| http / grpc / cli transports | listener, server object, exit flag | Endpoint, Start, Stop | Stop before, during and after Start; stop deadlines | Start returns after Stop |
| request pipeline (transport/http, transport/grpc) | what was written, the abort index | interceptors, middleware chain, recovery, CORS, static files | handlers that write and fail, middlewares that hide errors, panics | one answer per request, alike on both transports |
| etcd registry | key, lease id | Register, Deregister, GetService, Watch | a key without a lease, lost Deletes, late Puts | a dead service's key disappears |
| etcd watcher, gRPC resolver | watch channel, address list | Next, Stop, eventLoop | stale reads, busy loops, broken watches | addresses converge to the registered ones; Close ends the loop |
| cli protocol | sequence numbers, channels, connection table | Execute, Shell, completer, ioLoop, process | mismatched and late answers, wrap-around, full channels | the answer a caller gets is the answer to its request; waiting ends |
| cli router | tree of names | Handle, Lookup, Completer | registrations above and below one another | an accepted command keeps answering |
| token denylist (memory_token_store.go) | map jti -> instant | Revoke, RevokeIfNotRevoked, Revoked, sweep, evict | capacity, expiry edge, restart | bounded; an entry outlives its token |
| AuthService (auth.go), RevocationValidator, JWT | none of its own: denylist and rows | Login, RefreshToken, Logout, Validate | races on one token, rows changing between statements | rotated at most once; logout is final; minted from a current row |
| permission checker (permission.go), allowlists | none of its own | check, isAllowed, match | boundaries of patterns, client headers behind metadata | opens for the documented reasons only |
| rate limiter (rate_limit*.go) | map key -> bucket | RateLimit, Allow, janitor | races for the last token, sweeping, rounding | burst plus refill in every window; Retry-After honest |
| dbcache (cacher.go, depend.go) | cache entries with markers, flights | Try | writes between marker, load and store; joins; several processes | a revalidated entry is current; staleness bounded |
| role grants, tenant scope | sys_role_permissions rows | ReplacePermissions, GrantMissingPermissions, cascades, callbacks | check-then-write, deletes by key alone, markers that repeat | grants are backed by role and menu; tenants stay apart |
| users, roles, guards | sys_users, sys_roles | REST create, update, delete; profile and password RPCs | checks before writes, whole-row saves, look-ups that fail | a login name is unambiguous; no privilege gained by a race |
| seed, converge, derive | catalog, tenant, role and user rows | Setup, Seed | processes booting together, crashes, operator edits | one admin; the super role holds the catalog; deletions stand |
| menus | sys_menus | BuildTree, PathTo | circles and missing parents | every menu once; breadcrumb = place |
| generated validators | none | Validate, ValidateAll | limits, nesting | both agree with the rules |
| memory / redis cache, nats broker | items; connection | Load, Store, Delete; Init, Publish, Subscribe, Destroy | aliasing; use after Destroy | no use of a closed connection |
| httpclient, logger, telemetry, code generators, web client | per request or none | | | |

Components meet in a few places. The lifecycle calls the transports and the
registry; the resolver reads what the lifecycle registers. `AuthService` and the
JWT middleware share one denylist. The permission checker and the user and role
services read grants through dbcache, while role writes go straight to the table.
Setup and Seed write the catalog that the checker reads. The rate limiter stands
in front of the login route.

## 2. The modules

| module | models | state |
|---|---|---|
| `TokenStore` | `MemoryTokenStore`; each method is one atomic operator, as it holds the mutex | `revoked` (0 = no entry), `now`, history `forgotten` |
| `AuthSession` | Login, RefreshToken, Logout, Validate and the parse after it; extends `TokenStore` | `tok` (signed claims), `user`, `roleOn`, `tenantOn` (rows), `req` (program counter and locals of each request) |
| `OneTimeToken` | abstract: unissued, live, claimed, dead, never back | `life`, `heirs` |
| `ServiceLifecycle` | Run, build, preStart, preStop, the goroutines, the three transports' Start and Stop, etcd | one variable per goroutine, context flags, `listener`, `entry`, `lease`, `pending` |
| `RateLimiter` | RateLimit, Allow, janitor | `present`, `tokens`, `last`, `todo`, `due`, histories |
| `IdealLimiter` | abstract: eager buckets that always exist | `level` |
| `DbCache` | Try, SqlDependency, the memory backend, the writers of sys_role_permissions | `rows`, `cache`, `req`, histories |
| `CliSession` | Client in Shell or Execute, ioLoop, the connection, the server's process and Stop | both ends' program counters, channels of the client, frames in flight, histories |
| `CliRouter` | Handle, Lookup, Completer | `nodes`, history `routes` |
| `Discovery` | GetService, etcdWatcher, the resolver's loop; etcd as a log each member applies at its own pace | `log`, `applied`, watch, loop and addresses |
| `Broker` | Init, Subscribe, Unsubscribe, Destroy | `conn`, `closed`, what the NATS library has open |
| `RequestPipeline` | requestInterceptor and gin's handler list, the gRPC interceptor, Chain, recovery, envelopes, error codes, CORS, static files | `exchange`: one server, request and behaviour of its handlers |
| `Bootstrap` | Server.Setup and Seed in several processes, crashes, the operator | catalog rows, tenants, admin role and user, grants, each process |
| `UserDirectory` | REST on users and roles with their guards and hooks; UpdateProfile, ChangePassword, ResetPassword | `users`, `liveRoles`, `superKeys`, each request |
| `TenantGrants` | ReplaceRolePermissions, purging hooks, tenant callbacks | `roleRows`, `menus`, `roleGrants`, each replacement |
| `MenuTree` | BuildTree, PathTo | `menuRows` |
| `Validators` | Validate and ValidateAll of every message | `message` |
| `AccessRules`, `PermissionGate` | isAllowed, matchPattern; metadata and the permission checker | `access`, `gate` |
| `...Proofs` | theorems and proofs about the module of that name; `ServerProofs`: `ServiceLifecycle`, `RequestPipeline`; `TransportProofs`: `CliSession`, `CliRouter`, `Broker`, `Discovery`; `AccessProofs`: `TenantGrants`, `AccessRules`, `PermissionGate`, `Validators`; `BootstrapProofs` also `MenuTree` | |
| `MC...` | instances for TLC | |

**AuthSession.** One action per database statement, store call or parse, so that
administrators, other requests, the clock and a restart can come between any two
of them. `LoginUser`, `LoginRole`, `LoginTenant` are the three reads of Login;
the last one also mints. `RefreshParse`, `RefreshUser`, `RefreshRole`,
`RefreshFence`, `RefreshMint` follow RefreshToken, `LogoutBegin`, `LogoutParse`,
`LogoutRevoke` follow Logout and revokeToken. A rejection that reads no shared
state is not a step. A look-up of the tenant that fails or finds no row counts as
enabled (resolveTenant), so `LoginTenant` may mint in any case. A Logout names an
access token in the access slot and a refresh token in the refresh slot; the code
would take either anywhere, with the same two calls of revokeToken (leaving it
free triples the states). `RequestFails` is every error return after a step that
was already made. Ids are interchangeable, so a mint takes any two unused ones.
History variables record which tokens a completed Logout named (`loggedOut`),
which were accepted afterwards (`usedLate`), which the store lost while they were
in force (`forgotten`) and which rows a request has seen. `MaxEvents` bounds
edits and restarts together.

**ServiceLifecycle.** `opts` is what New was given, any member of the constant
`Options`, so one run covers several kinds of service. `srv[i]` follows the
goroutine in Start: `launched`, `built` (http has assigned `s.serve`), `serving`,
`returned`, or `failed` when it gives up before serving. `halted[i]` records that
Stop took effect. A Put is `pending` until etcd applies it, which may be after
its caller gave up. `errVar` is preStart's named result, which the registry
goroutine also writes; `PreStartReturns` reads whatever is there.

**RateLimiter.** A token is `Unit` units and a tick adds `Refill` units, so the
rate is a ratio of integers; the truncation of `retryAfter` to a Duration is
modelled, float64 rounding and the header's rounding to seconds are not. `due` is
the instant waiting in the ticker's channel.

**DbCache.** `StoreEntry` keeps the marker read before the load. `Party` is
what singleflight returns one result to. `Lag` bounds the time from the loader's
query to Store; without such a bound no staleness bound exists. A committed
transaction is one step and the clock does not run backwards. `repeated` records
that the marker came back for another table content; the two properties that
rest on the marker exclude such histories, `TTLBoundsStaleness` does not.

**CliSession.** Every goroutine of both ends is a process; a channel holds at
most `ChanCap` frames and a send to a full one waits, or gives up when `exitChan`
is closed, as in the code's selects. Timers may fire at any moment. A frame
carries, next to its 16-bit sequence number (here modulo `SeqLimit`), the number
of the request it asks or answers, which only the properties look at. A handler
writes nothing, one answer in one or two frames, or two answers; a completion is
one frame. A write error of Dial ends the client like any other lost connection,
and the length of an error text (cut to 16 bits in frame.go) is not modelled.

**CliRouter.** The tree begins with the help command New registers itself, so
that an application's registrations meet it too.

**Discovery.** GetService asks for a serializable read, so it may be answered by
a member behind the one that serves the watch. `missed` records that the last
read failed or was older than its event; `AddressesConverge` excuses that, a
broken watch (nothing opens another) and an empty registry (GetService returns
an error and the old addresses stay): in these cases the code keeps what it has.

**Bootstrap.** Setup is a sequence of look-ups and inserts, each a statement of
its own; Seed is one transaction on a snapshot. A primary key makes one of two
concurrent inserts of a tenant fail; no index protects the other rows. The
catalog is three sequences, in the order Setup registers them: the models always
there (`Registered`), the tenant resource (`TenantModel`, multi-tenant only) and the
endpoints. A single-tenant Setup removes `TenantEntries` in three statements, with
other boots between them: the first row of the menu (hard, with its grants), the
grants of the permissions, the permissions. `OlderDatabase` is what earlier
versions can have left: the admin role missing, the operator's own (not builtin),
builtin without is_super, or super; on no tenant, the default or another one; the
admin user, the tenant row and the tenant entries there or not. Seed upgrades a
builtin role only. Left-over entries have one row each: a database whose
multi-tenant boots inserted the tenants menu twice (`boot_duplicates`) keeps the
second one through a single-tenant Setup, and is not among the initial states.

**UserDirectory, TenantGrants.** A request reads, is checked and writes in
separate steps. REST writes changed columns (rest/v3, external), the RPCs Save the
whole row, and gorm's Save inserts a row that has gone. A look-up inside a guard
may fail: for the caller, an assigned role or a name the request is refused; for
the role the row has, roleIsSuper answers no and the guard passes (`unread`).
`Contexts` is what the tenant resolver makes of a request: a tenant, or "" for a
request without one or under WithoutTenant, which the callbacks leave alone, both
in a WHERE and in the stamp on a new row. Without the callbacks every request is
of the second kind. Where the code lets a race through, a history variable records
exactly that race (`loose`, `dangling`, `excused`) and the property excuses only
what it records. So each property says two things: nothing else breaks it, and
these races are what remains; the hazards in `PROJECT.json` name them as open.

**Pure modules.** `RequestPipeline`, `MenuTree`, `Validators`, `AccessRules` and
`PermissionGate` have one variable, the input, fixed in the initial state; their
functions are checked against a reference definition for every input within the
bounds. The menu tree is the set of its branches from a root down. A message is a
list in which those nested in it come first and pointers are positions; its type
is the list of its rules in source order. Each generated block consists of the two
entry points, the tests and an error type with its accessors; the rules translate
the tests, and the error types, which differ by name only, are one record
(`PROJECT.json` maps a message to its block without the interface assertions). A
file name is one word and Gz adds one suffix to it, since Open only asks whether
the two names are different files.

## 3. The runs

| run | bounds | shows |
|---|---|---|
| `auth_session` | 5 ids, the first a token without a jti, 2 requests at a time, 3 in all, 2 roles, a denylist of 2 entries, access life 1 and refresh life 2 of 2 ticks, 1 restart or edit of an account | `RotatedAtMostOnce`, `LogoutIsFinal`, `DenylistBounded`, `MintFromCurrentRow`, refinement of `OneTimeToken` |
| `lifecycle` | three services: http + grpc with a registry; grpc + cli with a loader; two grpc servers with both | `ListenersReleased`, `LeasedOnceAcked`, `RegistrationVanishes`, `ServingStopReturns`, `GrpcRunReturns` |
| `rate_limiter` | 2 keys, asked for alone or both in either order, 2 requests, burst 2, 2/3 token per tick, 6 ticks (two ticks of the janitor) | `BurstBound`, `RetryAfterTight`, `DroppedBucketsAreFull`, refinement of `IdealLimiter` |
| `db_cache` | 3 readers in 2 processes on one of 2 roles, 3 reads, 2 writes (rewrites, purges, a rename), no grace, TTL 1, reload time 1, 3 ticks | `RevalidatedIsCurrent`, `PropagatesAfterGrace`, `TTLBoundsStaleness` |
| `transports` | CLI: 4 requests, sequence numbers modulo 3, channels of 1; router: the built-in help and 3 registrations out of 11 paths; discovery: 2 instances, 2 members, 3 revisions; broker: 2 connections, 2 topics; pipeline: chains of up to 2 middlewares | `AnswerBelongs`, `CompletionLag`, `WaitEnds`, `RoutesAnswer`, `AddressesFresh`, `AddressesConverge`, `LoopEnds`, `DestroyReleases`, `OneAnswer` |
| `admin` | boot: 2 processes, 3 boots, 1 edit; directory: 2 requests at a time, 3 in all, 3 users, 2 roles; grants: 2 editors, 3 operations, 2 tenants and requests of none, 2 keys, 2 menus; 4 menus in every forest; patterns up to 4 and paths up to 5 characters | `BootConverges`, `SuperCovers`, `DeletedStaysDeleted`, `LoginUnambiguous`, `RolesBacked`, `GrantsBacked`, `TenantsApart`, `MenusPlaced`, `ValidatorsAgree`, `GateExact` |

`transports` and `admin` each gather several modules that share no state. The
variable `part` says which one a behaviour runs; the others keep their initial
values, so the state spaces add up instead of multiplying.

Why the bounds are enough: two requests suffice for every race on one token,
bucket or flight, because each guard looks at one other party; the third reader
is there for the second process. With three sequence numbers (0 is skipped) and
four requests the counter wraps and a late answer meets its number again; one
slot per channel is full after one late completion. Three boots let a process
restart while another is half-way. Three operations of two users' requests are
the longest chain any guard and hook of the directory depends on (a run with
four found nothing more). Capacity 2 is filled by one login's pair. The
clocks reach past every expiry, idle window and TTL; the grace window of 0 is
the smallest and leaves the reload time as the whole bound of
`PropagatesAfterGrace`. Requests, roles of the session model, bucket keys, and
readers of one process, booting processes and editors are interchangeable
(symmetry, where no liveness property is checked). Deadlock checking is off because
every model may end: the counters that bound it run out.

Six more runs show where the code and a sentence about it part, each with the
sentence quoted in `PROJECT.json`:

* `auth_legacy`: a refresh token without a jti is exchanged after its Logout.
* `lifecycle_hang`: http Stop before Start leaves Run waiting.
* `lifecycle_orphans`: a first Register that fails early makes Run return while
  its servers run on.
* `limiter_slow_refill`: the janitor drops buckets of slow rules before they are
  full.
* `grants_marker`: grants 1 and 2 replaced by 3 keep SUM(id).
* `boot_duplicates`: two Setups insert one component twice; there is no unique
  index on it.

More places where the code and a sentence about it part, or where the code is
weaker than a reader may expect. They have no run of their own; where a property
touches them, its comment and its exceptions say what the code does:

* The hook of a deleted menu is described as applying no tenant filter
  (models/menu.go:9-13, permissions.go:5-8, docs tenant-scope.md:89-97). Its
  session keeps the request's context and callbacks, so under a tenant the other
  tenants' grants on the menu stay behind (`DeleteTenantMenu`; `GrantsBacked`
  excuses them). `TenantsApart` speaks of grants on menus that are still there,
  and so takes no side.
* The comment in isAllowed (jwt.go:111-113) adds "(or uripath equals the prefix
  exactly)" to what a `*` pattern matches; the code, and docs rbac.md:114, do not
  match that path. `GateExact` leaves out exactly these paths (`Disputed`).
* mapGRPCError's comment (transport/grpc/server.go:167) lets every Abort collapse
  to OK; one with a code returns its status. An error without a code is returned as
  it is and grpc-go chooses the status (`OwnStatus`), so `OneAnswer` compares the
  sides of the two transports for errors with a code only.
* UpdateProfile, ChangePassword and ResetPassword Save a row loaded earlier
  (service/user.go:168): they undo what an administrator wrote in between, a
  disabled status or another role included, and revive a deleted row. No property
  forbids it; `dangling` and `loose` are what it does to the others.
* UpdateProfile does not pass the guard that keeps login names unique, and a REST
  update to an empty role_key is treated as no change of the role.
* Two Seeds on a database that has the default tenant's row but no admin role or
  user may both insert one (`BootConverges` promises one row only where the tenant's
  primary key or an existing row stands in the way).
* A failed look-up makes roleIsSuper answer no: that guard passes when the
  database does not answer.
* publishRetryAfter (rate_limit.go:191) rounds to the nearest second, so a wait
  of 1.4 s is announced as 1 s.
* Role.BeforeUpdate (role.go:71) re-points live grant rows, although the comment
  on grantsMarker (permission.go:32) calls them never updated in place;
  `RenameRole` of `DbCache` models it, and `TTLBoundsStaleness` is the bound that
  remains.
* A middleware that returns nil without calling next, or hides the error of an
  inner one, does not stop gin: the handler runs after requestInterceptor
  (`Hidden` in `RequestPipeline`). Nothing recovers a panic in the gRPC transport.
* filesystem.Open (transport/http/fs.go:117) leaves a directory's handle open when
  it refuses it or retries with the index file.
* Router.String omits commands below a command, and a CLI path with a double slash
  registers a name no request can say.
* The watcher's Next returns GetService's error when the last instance goes, so
  the resolver keeps addresses of services that are gone.

**Fairness.** The Go scheduler runs every goroutine that can run.
*ServiceLifecycle*: Run, the stop goroutine and each server's Start are weakly
fair. The heartbeat's select may pick the ticker while ctx.Done is ready, but not
forever: strong fairness. The loader is application code that obeys its context.
A call to etcd returns, by its deadline at the latest, and a Put that was not
lost is applied. A lease nobody renews runs out. *CliSession*: the client's
goroutine (without its timers and the user), ioLoop, accept, process and Stop are
weakly fair. *Discovery*: the event loop, the members applying the log and the
Stop that Close calls are weakly fair (both in `MCTransports`). Nothing makes a
server fail, a signal arrive, a timer fire, a watch break or a process die.

## 4. The proofs

Every safety property that a passing run checks is proved for all values of the
constants: any sets of tokens, requests, keys, readers, processes, users, roles
and menus, any lifetimes, capacities, windows and bounds. The bounds that keep
TLC finite (`MaxBoots`, `Horizon`, ...) are arbitrary numbers in the proofs. The
assumptions are the named `ASSUME`s of the modules, which say what kind of value
each constant is and that names meant to be different are, and, for the rate
limiter, `FullyRefills`. Each invariant below was checked by TLC before it was
proved. A theorem about a module with behaviours is `Spec => []Property`, or
`Spec => Property` for an action property or a refinement, with the module's own
specification. One about a pure module says that every input has the property,
not only those the run tries: any chain of middlewares, any table of menus, any
vocabulary of words, any well-typed message.

Loops and recursion in the code are recursive functions over the naturals in the
modules, and the proofs about them follow one pattern: a lemma that the function
exists (built up one argument at a time), an invariant of its values, and `Climb`,
induction on a bounded range of numbers from the well-foundedness of `<`.

**AuthSessionProofs**

* `TypeCorrect`. `TypeOK` is not inductive alone: `TypeInv` adds that issued
  tokens name a user and a role, that a parent is issued, and that a request in
  progress holds what its program counter needs.
* `RotationTheorem`, `LogoutTheorem`, both from `SafeInv` (`SafetyHolds`): every
  token that was rotated from, claimed, or named by a finished Logout is *spent*,
  i.e. it has expired, the store has lost its entry, or its entry lasts at least
  as long as it does. The last part is what a sweep, a lazy drop and a second
  Revoke have to preserve, and why `RevokeUntil` must not be shorter than the
  token's life. A claim requires that the token is not spent, which gives
  uniqueness.
* `DenylistTheorem`: the counting argument of a sweep that makes room and an
  eviction that takes out one entry for the one that comes in.
* `MintTheorem`, from `SeenInv`: at each program counter, which rows and roles
  the request has seen current.
* `RefinementTheorem`: the store, the requests and their failures implement
  `OneTimeToken`. `LinkInv` is the extra fact it needs: an entry is about an
  issued token and lasts as long as it, so that dropping an expired entry revives
  nothing.

**RateLimiterProofs**, with `FullyRefills` (`Idle * Refill >= Capacity * Unit`)
for all but the types; `limiter_slow_refill` shows that it cannot be dropped.

* `LimiterTypeTheorem`; `LimiterInvariant` and from it `BurstTheorem`: units
  granted in the window plus the units a bucket holds never exceed a full bucket
  plus the window's refill. `DroppedTheorem`: what the janitor drops is full.
* `IdealTheorem`: the implementation of `IdealLimiter`.
* `RetryTheorem`, from `RetryInv`: level plus the refill up to the named instant
  is at most one token, and with one more tick it exceeds it.

**ServerProofs**, for any list of servers and any chain of middlewares

* `LifecycleTypeTheorem`.
* `ListenersTheorem`, from `ListenerInv`: a server that has returned has no
  listener, or it is a cli server that the stop loop has yet to reach; how far Run
  and the stop goroutine can be apart.
* `LeaseTheorem`, from `LeaseInv`: the Put without a lease comes from the first
  Register only, and a heartbeat is acknowledged only after its own Put.
* `AnswerIsOne`: first the outcome of a chain, by induction along the loop of
  middleware.Chain from the handler outwards (`ChainWraps`, `OutcomeFrom`): a
  panic, or the handler's state if every middleware called next, and the error of
  the outermost one that did not forward what it got. Then what the interceptors and
  handlers of both transports do with that outcome, one case each for a panic, a
  request that passed and one that was stopped. Errors are any of those with a
  code, plain ones and those grpc-go has a status for.

**DbCacheProofs.** The marker stays an opaque function of the table, so the
results do not depend on its being a sum.

* `RevalidatedTheorem`, `PropagationTheorem`, `TTLTheorem`, from `CacheInv`: a
  cached entry, and every local of a Try in progress, was true of the table at the
  instant it was read (`Since`), and its marker is of the same table or of one
  gone since (`Tagged`), unless a marker repeated.

**TransportProofs**

* `AnswerTheorem`, from `FramesInv`: every frame, wherever it is, carries the
  sequence number its request drew, and whoever waits for a command waits for
  the last request made.
* `CompletionTheorem`, from `LagInv`: the client's completer channel holds the
  answers that come next after those shown, and behind it the frames held, in
  flight, being written and not yet read are, in order and without a gap, the
  requests that follow: all of them while both ends run.
* `DestroyTheorem`, from `ConnInv`: the only connection open is the one the
  broker points at.
* `FreshTheorem` (`AddressesFresh`: a client never mixes two revisions, nor keeps
  one older than its last event unless the read failed, lagged or found nothing),
  from `DiscoveryType`: what a member has applied, and what the
  watch has delivered, are revisions of the log, so a read that was not older than
  its event finds a revision between that event and now.
* `RouterTheorem`, from `RouterInv`: with a node the tree has every node above it,
  and a node without a command has no parameters (`TreeOK`); every accepted command
  is at the node of its names, with its parameters (`Placed`). `HandleEffect` says
  what a registration adds, refused half-way or not: nodes along its path, and
  nothing else changes but the last one.

**AccessProofs**

* `TenantsTheorem` (action property), from `SeenInScope`: what a replacement under
  a tenant read is of that tenant. A request outside the scope is a step of the
  specification like any other; the theorem is about the steps of the others.
* `GrantsBackedTheorem`: the invariant adds that the rows a replacement in flight
  is going to insert are backed or excused.
* `GateIsExact`, from `CheckerIsExact` and `AllowlistsAreExact`: the matchers,
  which look at one position of path and pattern, match exactly the paths that
  extend the prefix at a boundary; then check's sequence of early returns against
  the list of reasons to open, for callers of each kind and the headers a client
  can put behind the metadata. The words are any set that contains the defaults.
* `ValidatorsTheorem`: three nested inductions, over the tests of a rule, the
  rules of a message and the messages, nested ones first. Each keeps that the run
  with `all` = false has the first error of the run with `all` = true
  (`CollectAgrees`, `FieldsAgree`, `MessageValidated`). `SchemasKnown` goes
  through all forty types: none that occurs in another has a rule of its own.

**UserDirectoryProofs.** Each property is made inductive by saying the same of
what the requests in flight are going to write.

* `LoginTheorem` (`NamesClear`: the names a request was cleared for are in no other
  row unless loose), `RolesTheorem` (`RoleBacked`: the role it will write exists and
  was vouched for, unless outdated).

**BootstrapProofs**, for any catalog and any number of processes. One invariant
carries the three theorems (`CatalogKept`): the types, `SetupInv`, `CoverInv` and
`RaceInv`.

* `DeletedTheorem` (action property), from `SetupInv`: an insert is under way
  only for an entry its lookup did not find, and the steps of Setup a process has
  behind it have their rows.
* `CoverTheorem`, from `CoverInv`: every entry whose rows are all dead is
  accounted for (granted, or its grant removed since), and after the first commit
  so is the catalog, unless the admin role is the operator's own, which Seed does
  not make super. A single-tenant table is clean of the tenant entries by then. It
  rests on `SetupInv`, since Seed's snapshot must contain what Setup ensured.
* `ConvergeTheorem`, from `RaceInv`: how the snapshot of a Seed in progress can
  differ from the database of now. The argument: a Seed whose snapshot lacks the
  role was taken before any Seed committed, so its insert of the default
  tenant's row collides, unless no other has committed yet. That is also why a
  database that began with that row and without an admin role or user is not
  protected (`RoleGuarded`, `Guarded`). `Kinds` keeps that all roles are the
  operator's own or none is.
* `MenusTheorem`, about `MenuTree`: a row has one parent, so two lines of parents
  that end in the same row agree as far as both reach (`LinesAgree`). Hence a
  branch from a root repeats no row, is no longer than the table, and buildSubtree
  ends; PathTo's loop leaves a line that is closed under parents (`PathIsTrail`,
  `TrailClosed`); and a row on or below a circle is on no branch.

Only model-checked, by TLC on the bounded instances, are the liveness properties
`RegistrationVanishes`, `ServingStopReturns`, `GrpcRunReturns`, `WaitEnds`,
`AddressesConverge` and `LoopEnds`: fairness is out of the prover's reach. The
safety half of `AddressesConverge` is `AddressesFresh`, which has its theorem.

## 5. Not modelled

* Password hashing, the login log and the audit hooks: they append rows nobody
  reads back.
* The generated message structs and HTTP bindings (admin/pb/*.pb.go), listings
  and conversions: data without decisions.
* EnsureModuleMenu and the backfill of REST rules into sys_schemas; the dashboard,
  schema and model-types endpoints, which only read.
* Completions longer than one chunk; terminal input and output; the table
  serializer.
* The gRPC client's dial options; pprof and metrics routes; the MCP bridge.
* The HTTP client, byte pool and address helpers; logging and telemetry; the aeus
  command and the Vue generator; the web client.
* The redis cache, a thin wrapper whose sharing between processes `DbCache`
  covers. A denylist shared between processes is the deployer's plug-in and not in
  the repository.

`PROJECT.json` lists every component with its status.

## 6. Plan

Every safety property of the passing runs has its theorem. What may still be
worth doing: the safety halves of the other liveness properties (which states a
wait can be stuck in) as invariants of their own; EnsureModuleMenu and the
backfill of REST rules, the largest writers of the catalog not modelled yet; and
the tenant callbacks on tables other than the grants.
