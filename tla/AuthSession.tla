---------------------------- MODULE AuthSession ----------------------------
(***************************************************************************)
(* The token life cycle of the admin module: AuthService.Login,            *)
(* RefreshToken and Logout (admin/service/auth.go), the revocation check   *)
(* of the JWT middleware (admin/service/revocation_validator.go,           *)
(* middleware/auth/jwt.go), on top of the TokenStore denylist.  Requests   *)
(* run concurrently; between two steps of one request any other request,   *)
(* an administrator's update, the clock or a restart may intervene.        *)
(*                                                                         *)
(* Rejections that happen before any shared state is read (validation,     *)
(* wrong password, ambiguous login name, malformed token) leave no trace   *)
(* and are not steps.  A rejection after a read returns the request to     *)
(* "idle".                                                                 *)
(***************************************************************************)
EXTENDS TokenStore

CONSTANTS
    Users, Roles, Requests,
    AccessTTL, RefreshTTL,   \* ttl() and __refreshTokenTTL, in clock ticks
    LegacyTokens,            \* refresh tokens minted before the jti claim existed
    Horizon,                 \* bound on the clock
    MaxCalls,                \* bound on the requests ever begun
    MaxEvents,               \* bound on administrator edits and restarts together
    Nil                      \* no token, no user, no role

ASSUME AuthAssumption ==
    /\ AccessTTL \in Nat \ {0}
    /\ RefreshTTL \in Nat \ {0}
    /\ LegacyTokens \subseteq Jti
    /\ Horizon \in Nat
    /\ MaxCalls \in Nat
    /\ MaxEvents \in Nat
    /\ Nil \notin Jti \cup Users \cup Roles

VARIABLES
    tok,        \* the token behind each id: what its signed claims say
    user,       \* the sys_users rows: status and role_key
    roleOn,     \* the role keys whose sys_roles row exists and is enabled
    tenantOn,   \* the tenant's row is not disabled
    req,        \* the requests in flight
    calls, edits, restarts,  \* how many of each have happened
    loggedOut,  \* history: tokens a completed Logout named
    usedLate    \* history: tokens accepted after their Logout completed

authVars == <<tok, user, roleOn, tenantOn, req, calls, edits, restarts, loggedOut, usedLate>>
accountVars == <<user, roleOn, tenantOn, edits, restarts>>
vars == <<storeVars, authVars>>

Status == {"enabled", "disabled", "absent"}
Row == [status : Status, role : Roles]
Token == [kind : {"none", "access", "refresh"},
          uid : Users \cup {Nil}, role : Roles \cup {Nil}, exp : Nat,
          parent : Jti \cup {Nil}]   \* history: the token it was rotated from

Pc == {"idle", "login_role", "login_tenant",
       "refresh_user", "refresh_role", "refresh_fence", "refresh_mint",
       "logout_parse", "logout_revoke", "api_parse"}

\* token, next: the token in hand and the one Logout still has to revoke;
\* uid, role: the row read.  History: named = the tokens of this Logout,
\* late = the token was logged out when the request began, rows and on =
\* the rows of uid and the enabled roles seen since the request began.
Request == [pc : Pc, token : Jti \cup {Nil}, next : Jti \cup {Nil},
            uid : Users \cup {Nil}, role : Roles \cup {Nil},
            named : SUBSET Jti, late : BOOLEAN,
            rows : SUBSET Row, on : SUBSET Roles]

NoToken == [kind |-> "none", uid |-> Nil, role |-> Nil, exp |-> 0, parent |-> Nil]
Idle == [pc |-> "idle", token |-> Nil, next |-> Nil, uid |-> Nil, role |-> Nil,
         named |-> {}, late |-> FALSE, rows |-> {}, on |-> {}]

Init ==
    /\ StoreInit
    /\ \E u \in Users, x \in Roles :
         tok = [j \in Jti |->
                  IF j \in LegacyTokens
                  THEN [kind |-> "refresh", uid |-> u, role |-> x,
                        exp |-> RefreshTTL, parent |-> Nil]
                  ELSE NoToken]
    /\ user \in [Users -> [status : {"enabled"}, role : Roles]]
    /\ roleOn = Roles
    /\ tenantOn = TRUE
    /\ req = [r \in Requests |-> Idle]
    /\ calls = 0
    /\ edits = 0
    /\ restarts = 0
    /\ loggedOut = {}
    /\ usedLate = {}

-----------------------------------------------------------------------------
(* Helpers.                                                                *)
Issued(j) == tok[j].kind # "none"

OfKind(kind) == {j \in Jti : tok[j].kind = kind}

\* The jwt parser accepts the claims of j: signed by us and now < exp.
Unexpired(j) == now < tok[j].exp

\* The claim jti is present.
HasJti(j) == j \notin LegacyTokens

At(r, pc) == req[r].pc = pc

\* A client begins request r.
Begin(r, state) ==
    /\ At(r, "idle")
    /\ calls < MaxCalls
    /\ calls' = calls + 1
    /\ req' = [req EXCEPT ![r] = state]

\* The request moves on / ends.
Move(r, state) == req' = [req EXCEPT ![r] = state] /\ UNCHANGED calls
Goto(r, pc) == Move(r, [req[r] EXCEPT !.pc = pc])
End(r) == Move(r, Idle)

\* Mutant of NewToken: the ttl is subtracted.
NewTokenPast(kind, uid, role, ttl, parent) ==
    [kind |-> kind, uid |-> uid, role |-> role, exp |-> now - ttl, parent |-> parent]

\* createToken: a signed token with a fresh jti (uuid.NewString never repeats).
NewToken(kind, uid, role, ttl, parent) ==
    [kind |-> kind, uid |-> uid, role |-> role, exp |-> now + ttl, parent |-> parent]

\* The pair Login and RefreshToken return.  uuid.NewString never repeats an
\* id and ids are interchangeable, so any two unused ones will do.
MintPair(uid, role, parent) ==
    LET unused == {j \in Jti : ~Issued(j)}
        a == CHOOSE j \in unused : TRUE
        f == CHOOSE j \in unused \ {a} : TRUE
    IN  /\ unused # {} /\ unused \ {a} # {}
        /\ tok' = [tok EXCEPT
                     ![a] = NewToken("access", uid, role, AccessTTL, parent),
                     ![f] = NewToken("refresh", uid, role, RefreshTTL, parent)]

-----------------------------------------------------------------------------
(* Login.                                                                  *)

\* Credentials match and the user row is not disabled.
LoginUser(r, u) ==
    /\ user[u].status = "enabled"
    /\ Begin(r, [Idle EXCEPT
                 !.pc = "login_role", !.uid = u, !.role = user[u].role,
                 !.rows = {user[u]}, !.on = roleOn])
    /\ UNCHANGED <<storeVars, tok, accountVars, loggedOut, usedLate>>

\* The role row of (role_key, tenant_id) exists and is not disabled.
LoginRole(r) ==
    /\ At(r, "login_role")
    /\ IF req[r].role \in roleOn THEN Goto(r, "login_tenant") ELSE End(r)
    /\ UNCHANGED <<storeVars, tok, accountVars, loggedOut, usedLate>>

\* resolveTenant, whose failing or empty look-up counts as enabled; then both
\* tokens are minted and returned.
LoginTenant(r) ==
    /\ At(r, "login_tenant")
    /\ \/ MintPair(req[r].uid, req[r].role, Nil)
       \/ ~tenantOn /\ UNCHANGED tok
    /\ End(r)
    /\ UNCHANGED <<storeVars, accountVars, loggedOut, usedLate>>

-----------------------------------------------------------------------------
(* RefreshToken.                                                           *)

\* Parse and verify; only token_type "refresh" is exchangeable.
RefreshParse(r, j) ==
    /\ tok[j].kind = "refresh"
    /\ Unexpired(j)
    /\ Begin(r, [Idle EXCEPT
                 !.pc = "refresh_user", !.token = j, !.uid = tok[j].uid,
                 !.role = tok[j].role,
                 !.rows = {user[tok[j].uid]}, !.on = roleOn])
    /\ UNCHANGED <<storeVars, tok, accountVars, loggedOut, usedLate>>

\* Mutant of RefreshUser: the role of the old claims is kept.
RefreshUserKeepsClaims(r) ==
    /\ At(r, "refresh_user")
    /\ IF user[req[r].uid].status = "enabled" THEN Goto(r, "refresh_role") ELSE End(r)
    /\ UNCHANGED <<storeVars, tok, accountVars, loggedOut, usedLate>>

\* The user row is read again; its role_key replaces the one in the claims.
RefreshUser(r) ==
    /\ At(r, "refresh_user")
    /\ IF user[req[r].uid].status = "enabled"
       THEN Move(r, [req[r] EXCEPT !.pc = "refresh_role",
                                   !.role = user[req[r].uid].role])
       ELSE End(r)
    /\ UNCHANGED <<storeVars, tok, accountVars, loggedOut, usedLate>>

\* The role row is read again.
RefreshRole(r) ==
    /\ At(r, "refresh_role")
    /\ IF req[r].role \in roleOn THEN Goto(r, "refresh_fence") ELSE End(r)
    /\ UNCHANGED <<storeVars, tok, accountVars, loggedOut, usedLate>>

\* The claim that fences concurrent exchanges of one token.  Tokens without
\* a jti skip it.
RefreshFence(r) ==
    LET j == req[r].token IN
    /\ At(r, "refresh_fence")
    /\ \/ /\ ~HasJti(j)
          /\ Goto(r, "refresh_mint")
          /\ usedLate' = usedLate \cup ({j} \cap loggedOut)
          /\ UNCHANGED <<revoked, forgotten>>
       \/ /\ HasJti(j)
          /\ Claim(j, tok[j].exp)
          /\ Goto(r, "refresh_mint")
          /\ usedLate' = usedLate \cup ({j} \cap loggedOut)
       \/ /\ HasJti(j)
          /\ ~Claimable(j, tok[j].exp)
          /\ End(r)
          /\ UNCHANGED <<revoked, forgotten, usedLate>>
    /\ UNCHANGED <<now, tok, accountVars, loggedOut>>

\* The new pair, from the row read.
RefreshMint(r) ==
    /\ At(r, "refresh_mint")
    /\ MintPair(req[r].uid, req[r].role, req[r].token)
    /\ End(r)
    /\ UNCHANGED <<storeVars, accountVars, loggedOut, usedLate>>

-----------------------------------------------------------------------------
(* Logout: the access token, then the refresh token.                       *)

\* The fields of the request, not both empty.  The code does not look at the
\* kind of either; Next sends each kind in its own field, or one token alone.
LogoutBegin(r, a, f) ==
    /\ {a, f} # {Nil}
    /\ Begin(r, [Idle EXCEPT
                 !.pc = "logout_parse",
                 !.token = IF a # Nil THEN a ELSE f,
                 !.next = IF a # Nil THEN f ELSE Nil,
                 !.named = {a, f} \ {Nil}])
    /\ UNCHANGED <<storeVars, tok, accountVars, loggedOut, usedLate>>

\* revokeToken returned for this token: the next one, or the reply.
LogoutAdvance(r) ==
    IF req[r].next # Nil
    THEN /\ Move(r, [req[r] EXCEPT !.pc = "logout_parse", !.token = req[r].next,
                                   !.next = Nil])
         /\ UNCHANGED loggedOut
    ELSE /\ End(r)
         /\ loggedOut' = loggedOut \cup req[r].named

\* revokeToken, first half: expired and jti-less tokens are no-ops.
LogoutParse(r) ==
    LET j == req[r].token IN
    /\ At(r, "logout_parse")
    /\ IF Unexpired(j) /\ HasJti(j)
       THEN Goto(r, "logout_revoke") /\ UNCHANGED loggedOut
       ELSE LogoutAdvance(r)
    /\ UNCHANGED <<storeVars, tok, accountVars, usedLate>>

\* Mutant of RevokeUntil: the access TTL for every token.
RevokeUntilAccess(j) == now + AccessTTL

\* Until the token's own expiry; if that passed since the parse, an access
\* TTL from now.
RevokeUntil(j) == IF tok[j].exp > now THEN tok[j].exp ELSE now + AccessTTL

\* revokeToken, second half: TokenStore.Revoke.
LogoutRevoke(r) ==
    /\ At(r, "logout_revoke")
    /\ Revoke(req[r].token, RevokeUntil(req[r].token))
    /\ LogoutAdvance(r)
    /\ UNCHANGED <<now, tok, accountVars, usedLate>>

-----------------------------------------------------------------------------
(* An API request through the JWT middleware.                              *)

\* RevocationValidator.Validate: refresh tokens and revoked ids are refused;
\* expiry is left to the parse that follows.
ApiValidate(r, j) ==
    /\ tok[j].kind = "access"
    /\ ReadRevoked(j)
    /\ Begin(r, IF Held(j) THEN Idle
                ELSE [Idle EXCEPT !.pc = "api_parse", !.token = j,
                                  !.late = j \in loggedOut])
    /\ UNCHANGED <<now, tok, accountVars, loggedOut, usedLate>>

\* The middleware's own parse; a valid token reaches the handler.
ApiParse(r) ==
    /\ At(r, "api_parse")
    /\ usedLate' = IF Unexpired(req[r].token) /\ req[r].late
                   THEN usedLate \cup {req[r].token} ELSE usedLate
    /\ End(r)
    /\ UNCHANGED <<storeVars, tok, accountVars, loggedOut>>

-----------------------------------------------------------------------------
(* The environment.                                                        *)

\* A database, store or signing error, or a cancelled context: the handler
\* returns the error and what it already did stays done.
RequestFails(r) ==
    /\ ~At(r, "idle")
    /\ End(r)
    /\ UNCHANGED <<storeVars, tok, accountVars, loggedOut, usedLate>>

\* Requests in flight have now also seen these rows (history).
Witness(rows, on) ==
    req' = [r \in Requests |->
              IF At(r, "idle") THEN req[r]
              ELSE [req[r] EXCEPT
                      !.rows = @ \cup (IF req[r].uid = Nil THEN {} ELSE {rows[req[r].uid]}),
                      !.on = @ \cup on]]

\* An administrator updates, disables, re-enables, creates or deletes a user.
SetUser(u, row) ==
    /\ edits + restarts < MaxEvents /\ edits' = edits + 1
    /\ row # user[u]
    /\ user' = [user EXCEPT ![u] = row]
    /\ Witness(user', roleOn)
    /\ UNCHANGED <<storeVars, tok, roleOn, tenantOn, restarts, calls, loggedOut, usedLate>>

\* ... enables, or disables or deletes, a role; toggles the tenant.
SetRole(x) ==
    /\ edits + restarts < MaxEvents /\ edits' = edits + 1
    /\ roleOn' = IF x \in roleOn THEN roleOn \ {x} ELSE roleOn \cup {x}
    /\ Witness(user, roleOn')
    /\ UNCHANGED <<storeVars, tok, user, tenantOn, restarts, calls, loggedOut, usedLate>>

SetTenant ==
    /\ edits + restarts < MaxEvents /\ edits' = edits + 1
    /\ tenantOn' = ~tenantOn
    /\ UNCHANGED <<storeVars, tok, user, roleOn, req, restarts, calls, loggedOut, usedLate>>

Tick ==
    /\ now < Horizon
    /\ now' = now + 1
    /\ UNCHANGED <<revoked, forgotten, authVars>>

\* The process dies and comes back: requests in flight and the in-memory
\* denylist are gone, signed tokens and the database are not.
Restart ==
    /\ edits + restarts < MaxEvents /\ restarts' = restarts + 1
    /\ StoreRestart
    /\ req' = [r \in Requests |-> Idle]
    /\ UNCHANGED <<now, tok, user, roleOn, tenantOn, calls, edits, loggedOut, usedLate>>

Next ==
    \/ \E r \in Requests :
         \/ \E u \in Users : LoginUser(r, u)
         \/ LoginRole(r)
         \/ LoginTenant(r)
         \/ \E j \in Jti : RefreshParse(r, j)
         \/ RefreshUser(r)
         \/ RefreshRole(r)
         \/ RefreshFence(r)
         \/ RefreshMint(r)
         \/ \E a \in OfKind("access") \cup {Nil}, f \in OfKind("refresh") \cup {Nil} :
              LogoutBegin(r, a, f)
         \/ LogoutParse(r)
         \/ LogoutRevoke(r)
         \/ \E j \in Jti : ApiValidate(r, j)
         \/ ApiParse(r)
         \/ RequestFails(r)
    \/ \E u \in Users, row \in Row : SetUser(u, row)
    \/ \E x \in Roles : SetRole(x)
    \/ SetTenant
    \/ Tick
    \/ Restart

Spec == Init /\ [][Next]_vars

-----------------------------------------------------------------------------
(* Properties.                                                             *)

\* The variables range over what the code can store in them.
TypeOK ==
    /\ now \in Nat
    /\ revoked \in [Jti -> Nat]
    /\ forgotten \subseteq Jti
    /\ tok \in [Jti -> Token]
    /\ user \in [Users -> Row]
    /\ roleOn \subseteq Roles
    /\ tenantOn \in BOOLEAN
    /\ req \in [Requests -> Request]
    /\ calls \in Nat
    /\ edits \in Nat
    /\ restarts \in Nat
    /\ loggedOut \subseteq Jti
    /\ usedLate \subseteq Jti

\* The pairs rotated from j: their refresh tokens.
Heirs(j) == {k \in Jti : tok[k].kind = "refresh" /\ tok[k].parent = j}

\* The requests that hold j claimed and have not minted yet.
Winners(j) == {r \in Requests : req[r].pc = "refresh_mint" /\ req[r].token = j}

\* The ids the fence protects: they carry a jti and the store has not lost
\* an unexpired entry of theirs to eviction or to a restart.
Fenced(j) == HasJti(j) /\ j \notin forgotten

\* RefreshToken "exactly one wins": however refreshes, logouts, sweeps, the
\* clock and administrators interleave, a fenced refresh token is exchanged
\* at most once: never two winners, never a winner after a successor, never
\* two successors.
RotatedAtMostOnce ==
    \A j \in Jti : Fenced(j) =>
        /\ \A r, s \in Winners(j) : r = s
        /\ Winners(j) # {} => Heirs(j) = {}
        /\ \A f, g \in Heirs(j) : f = g

\* Logout is final: once Logout has replied, no request that validates the
\* access token afterwards is served and no refresh token it named is
\* exchanged, for every fenced token.
LogoutIsFinal == \A j \in usedLate : ~Fenced(j)

\* The denylist never outgrows its capacity, sweeps and evictions included.
DenylistBounded == Cardinality(Entries(revoked)) <= Capacity

\* A pair is minted from a row that was current during the request: at some
\* moment since the request began the user was enabled with exactly the role
\* that goes into the token, and at some moment that role was enabled.
MintFromCurrentRow ==
    \A r \in Requests : req[r].pc \in {"login_tenant", "refresh_mint"} =>
        /\ [status |-> "enabled", role |-> req[r].role] \in req[r].rows
        /\ req[r].role \in req[r].on

\* revokeToken's comment: a jti-less token "can no longer authenticate
\* anyone", so after a Logout that named it, it is not exchanged.
LegacyTokensAreDead == usedLate \cap LegacyTokens = {}

-----------------------------------------------------------------------------
(* The inductive strengthening of the properties above.                    *)

LoginPc == {"login_role", "login_tenant"}
RefreshPc == {"refresh_user", "refresh_role", "refresh_fence", "refresh_mint"}
LogoutPc == {"logout_parse", "logout_revoke"}

\* Signed claims name a user, a role and, after a rotation, an issued parent.
ClaimsOK ==
    \A j \in Jti :
        /\ Issued(j) => tok[j].uid \in Users /\ tok[j].role \in Roles
        /\ tok[j].parent # Nil => Issued(j) /\ Issued(tok[j].parent)

\* A request in progress has read the rows and holds the tokens it is about.
HoldsOK(q) ==
    /\ q.pc \in LoginPc \cup RefreshPc => q.uid \in Users /\ q.role \in Roles
    /\ q.pc \in RefreshPc \cup LogoutPc \cup {"api_parse"} =>
         q.token \in Jti /\ Issued(q.token)
    /\ q.pc \in LogoutPc =>
         /\ q.next # Nil => Issued(q.next)
         /\ \A j \in q.named : Issued(j)

TypeInv ==
    /\ TypeOK
    /\ ClaimsOK
    /\ \A r \in Requests : HoldsOK(req[r])
    /\ \A j \in loggedOut : Issued(j)

\* j is out of the fence's care, or its own time is over.
Lapsed(j) == ~Fenced(j) \/ now >= tok[j].exp

\* j will not be accepted again: it has lapsed, or its entry outlasts it.
Spent(j) == Lapsed(j) \/ revoked[j] >= tok[j].exp

\* What a request has established about its tokens.
DoneOK(q) ==
    /\ q.pc = "refresh_mint" => Spent(q.token)
    /\ q.pc \in LogoutPc => \A j \in q.named : j \in {q.token, q.next} \/ Spent(j)
    /\ q.pc = "api_parse" /\ q.late => Lapsed(q.token)

SafeInv ==
    /\ \A j \in Jti : tok[j].parent # Nil => Spent(tok[j].parent)
    /\ \A r \in Requests : DoneOK(req[r])
    /\ \A j \in loggedOut : Spent(j)
    /\ RotatedAtMostOnce
    /\ LogoutIsFinal

-----------------------------------------------------------------------------
(* The abstract view: the stage each token has reached.                    *)
Life == [j \in Jti |->
    IF ~Issued(j) THEN "unissued"
    ELSE IF ~Fenced(j) THEN "unfenced"
    ELSE IF Winners(j) # {} THEN "claimed"
    ELSE IF Held(j) \/ ~Unexpired(j) THEN "dead"
    ELSE "live"]

OneTime == INSTANCE OneTimeToken
    WITH life <- Life, heirs <- [j \in Jti |-> {k \in Jti : tok[k].parent = j}]

\* The token life cycle implements OneTimeToken: through sweeps, re-revoking,
\* lazy drops and the clock, no fenced token ever returns from claimed or dead
\* to live, and successors are issued under a claim only.
ImplementsOneTimeToken == OneTime!AbsSpec

=============================================================================
