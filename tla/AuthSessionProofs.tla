------------------------- MODULE AuthSessionProofs -------------------------
(***************************************************************************)
(* Proofs about AuthSession, for any number of tokens, users, roles and    *)
(* requests and any time to live, capacity and bound.                      *)
(***************************************************************************)
EXTENDS AuthSession, FiniteSetTheorems, TLAPS

\* MintPair (createToken, twice): two ids that were free become the pair and
\* no other token changes.
LEMMA MintPairEffect ==
    ASSUME NEW uid, NEW role, NEW parent, MintPair(uid, role, parent)
    PROVE  \E a, f \in Jti :
             /\ ~Issued(a) /\ ~Issued(f) /\ a # f
             /\ tok' = [tok EXCEPT
                          ![a] = NewToken("access", uid, role, AccessTTL, parent),
                          ![f] = NewToken("refresh", uid, role, RefreshTTL, parent)]
<1> DEFINE unused == {j \in Jti : ~Issued(j)}
           a == CHOOSE j \in unused : TRUE
           f == CHOOSE j \in unused \ {a} : TRUE
<1>1. a \in unused
  BY DEF MintPair
<1>2. f \in unused \ {a}
  BY DEF MintPair
<1>3. QED
  BY <1>1, <1>2 DEF MintPair

\* The store's writers keep the denylist a function into instants.
LEMMA InsertType ==
    ASSUME TypeOK, NEW j \in Jti, NEW until \in Nat, Insert(j, until)
    PROVE  /\ revoked' \in [Jti -> Nat]
           /\ forgotten' \subseteq Jti
<1>1. Sweep \in [Jti -> Nat]
  BY DEF TypeOK, Sweep
<1>2. CASE ~Full(Sweep, j) /\ revoked' = [Sweep EXCEPT ![j] = until] /\ UNCHANGED forgotten
  BY <1>1, <1>2 DEF TypeOK
<1>3. ASSUME NEW victim \in Soonest(Sweep),
             revoked' = [Sweep EXCEPT ![victim] = 0, ![j] = until],
             forgotten' = forgotten \cup {victim}
      PROVE  revoked' \in [Jti -> Nat] /\ forgotten' \subseteq Jti
  BY <1>1, <1>3 DEF TypeOK, Soonest, Entries
<1>4. QED
  BY <1>2, <1>3 DEF Insert

\* Minting keeps the tokens well formed and the issued ones as they are.
LEMMA MintPairType ==
    ASSUME TypeOK, ClaimsOK, AuthAssumption,
           NEW uid \in Users, NEW role \in Roles, NEW parent \in Jti \cup {Nil},
           parent # Nil => Issued(parent),
           MintPair(uid, role, parent)
    PROVE  /\ tok' \in [Jti -> Token]
           /\ ClaimsOK'
           /\ \A j \in Jti : Issued(j) => tok'[j] = tok[j]
<1>1. PICK a \in Jti, f \in Jti :
             /\ ~Issued(a) /\ ~Issued(f) /\ a # f
             /\ tok' = [tok EXCEPT
                          ![a] = NewToken("access", uid, role, AccessTTL, parent),
                          ![f] = NewToken("refresh", uid, role, RefreshTTL, parent)]
  BY MintPairEffect
<1>2. /\ NewToken("access", uid, role, AccessTTL, parent) \in Token
      /\ NewToken("refresh", uid, role, RefreshTTL, parent) \in Token
  BY DEF NewToken, Token, TypeOK, AuthAssumption
<1>3. tok' \in [Jti -> Token]
  BY <1>1, <1>2 DEF TypeOK
<1>4. \A j \in Jti : Issued(j) => tok'[j] = tok[j]
  BY <1>1 DEF TypeOK, Issued
<1>5. \A j \in Jti : j \notin {a, f} => tok'[j] = tok[j]
  BY <1>1 DEF TypeOK
<1>6. \A j \in {a, f} : /\ tok'[j].kind # "none"
                        /\ tok'[j].uid = uid /\ tok'[j].role = role
                        /\ tok'[j].parent = parent
  BY <1>1 DEF TypeOK, NewToken
<1>7. ClaimsOK'
  <2>1. \A j \in Jti : Issued(j)' => tok'[j].uid \in Users /\ tok'[j].role \in Roles
    BY <1>5, <1>6 DEF ClaimsOK, Issued
  <2>2. \A j \in Jti : Issued(j) => Issued(j)'
    BY <1>4 DEF Issued
  <2>3. ASSUME NEW j \in Jti, tok'[j].parent # Nil
        PROVE  Issued(j)' /\ Issued(tok[j].parent)'
    <3>1. CASE j \in {a, f}
      BY <1>6, <2>2, <2>3, <3>1 DEF Issued
    <3>2. CASE j \notin {a, f}
      <4>1. tok'[j] = tok[j] /\ tok[j].parent # Nil
        BY <1>5, <2>3, <3>2
      <4>2. tok[j].parent \in Jti
        BY <4>1 DEF TypeOK, Token
      <4>3. QED
        BY <4>1, <4>2, <2>2 DEF ClaimsOK, Issued
    <3>3. QED
      BY <3>1, <3>2
  <2>4. QED
    BY <2>1, <2>3 DEF ClaimsOK
<1>8. QED
  BY <1>3, <1>4, <1>7

-----------------------------------------------------------------------------
(* Type correctness.                                                       *)

\* The request records the handlers build are well formed.
LEMMA IdleOK ==
    /\ Idle \in Request
    /\ HoldsOK(Idle)
    /\ DoneOK(Idle)
BY DEF Idle, Request, Pc, HoldsOK, DoneOK, LoginPc, RefreshPc, LogoutPc

\* A step that leaves tokens and completed logouts alone and puts request r
\* into a well-formed state keeps TypeInv, if the rest keeps its type.
LEMMA MoveKeepsTypeInv ==
    ASSUME TypeInv, NEW r \in Requests, NEW q \in Request, HoldsOK(q),
           req' = [req EXCEPT ![r] = q],
           tok' = tok, loggedOut' = loggedOut, UNCHANGED accountVars,
           now' \in Nat, revoked' \in [Jti -> Nat], forgotten' \subseteq Jti,
           calls' \in Nat, usedLate' \subseteq Jti
    PROVE  TypeInv'
<1>1. req' \in [Requests -> Request]
  BY DEF TypeInv, TypeOK
<1>2. TypeOK'
  BY <1>1 DEF TypeInv, TypeOK, accountVars
<1>3. ClaimsOK'
  BY DEF TypeInv, ClaimsOK, Issued
<1>4. \A s \in Requests : HoldsOK(req[s])'
  <2> TAKE s \in Requests
  <2>1. req'[s] = IF s = r THEN q ELSE req[s]
    BY DEF TypeInv, TypeOK
  <2>2. HoldsOK(req'[s])
    BY <2>1 DEF TypeInv
  <2>3. QED
    BY <2>2 DEF HoldsOK, Issued
<1>5. QED
  BY <1>2, <1>3, <1>4 DEF TypeInv, Issued

\* MoveKeepsTypeInv for a step of the handlers' control alone.
LEMMA ControlKeepsTypeInv ==
    ASSUME TypeInv, NEW r \in Requests, NEW q \in Request, HoldsOK(q),
           req' = [req EXCEPT ![r] = q], calls' \in Nat,
           UNCHANGED <<storeVars, tok, accountVars, loggedOut, usedLate>>
    PROVE  TypeInv'
<1>1. now' \in Nat /\ revoked' \in [Jti -> Nat] /\ forgotten' \subseteq Jti /\ usedLate' \subseteq Jti
  BY DEF TypeInv, TypeOK, storeVars
<1>2. QED
  BY <1>1, MoveKeepsTypeInv

\* Login and refresh end with a pair, or with nothing minted.
LEMMA MintKeepsTypeInv ==
    ASSUME TypeInv, AuthAssumption, NEW r \in Requests,
           NEW parent \in Jti \cup {Nil}, parent # Nil => Issued(parent),
           req[r].uid \in Users, req[r].role \in Roles,
           MintPair(req[r].uid, req[r].role, parent),
           End(r), UNCHANGED <<storeVars, accountVars, loggedOut, usedLate>>
    PROVE  TypeInv'
<1>1. /\ tok' \in [Jti -> Token]
      /\ ClaimsOK'
      /\ \A j \in Jti : Issued(j) => tok'[j] = tok[j]
  BY MintPairType DEF TypeInv
<1>2. \A j \in Jti : Issued(j) => Issued(j)'
  BY <1>1 DEF Issued
<1>3. req' = [req EXCEPT ![r] = Idle] /\ calls' = calls
  BY DEF End, Move
<1>4. TypeOK'
  BY <1>1, <1>3, IdleOK DEF TypeInv, TypeOK, storeVars, accountVars
<1>5. \A s \in Requests : HoldsOK(req[s])'
  <2> TAKE s \in Requests
  <2>1. req'[s] = IF s = r THEN Idle ELSE req[s]
    BY <1>3 DEF TypeInv, TypeOK
  <2>2. HoldsOK(req'[s]) /\ req'[s] \in Request
    BY <2>1, IdleOK DEF TypeInv, TypeOK
  <2>3. QED
    BY <1>2, <2>2 DEF HoldsOK, Request
<1>6. \A j \in loggedOut' : Issued(j)'
  BY <1>2 DEF TypeInv, TypeOK
<1>7. QED
  BY <1>1, <1>4, <1>5, <1>6 DEF TypeInv

\* Logout advances to its second token or replies.
LEMMA AdvanceKeepsTypeInv ==
    ASSUME TypeInv, NEW r \in Requests, req[r].pc \in LogoutPc,
           LogoutAdvance(r), UNCHANGED <<now, tok, accountVars, usedLate>>,
           revoked' \in [Jti -> Nat], forgotten' \subseteq Jti
    PROVE  TypeInv'
<1>1. req[r] \in Request /\ HoldsOK(req[r])
  BY DEF TypeInv, TypeOK
<1>2. now' \in Nat /\ usedLate' \subseteq Jti /\ (UNCHANGED calls => calls' \in Nat)
  BY DEF TypeInv, TypeOK
<1>3. CASE req[r].next # Nil
  <2> DEFINE q == [req[r] EXCEPT !.pc = "logout_parse", !.token = req[r].next, !.next = Nil]
  <2>1. q \in Request /\ HoldsOK(q)
    BY <1>1, <1>3 DEF Request, Pc, HoldsOK, LoginPc, RefreshPc, LogoutPc
  <2>2. req' = [req EXCEPT ![r] = q] /\ UNCHANGED <<calls, loggedOut>>
    BY <1>3 DEF LogoutAdvance, Move
  <2>3. QED
    BY <1>2, <2>1, <2>2, MoveKeepsTypeInv
<1>4. CASE req[r].next = Nil
  <2>1. req' = [req EXCEPT ![r] = Idle] /\ UNCHANGED calls
    BY <1>4 DEF LogoutAdvance, End, Move
  <2>2. loggedOut' = loggedOut \cup req[r].named
    BY <1>4 DEF LogoutAdvance
  <2>3. \A j \in loggedOut' : j \in Jti /\ Issued(j)
    BY <1>1, <2>2 DEF TypeInv, TypeOK, HoldsOK, Request
  <2>4. TypeOK'
    BY <1>2, <2>1, <2>3, IdleOK DEF TypeInv, TypeOK, accountVars
  <2>5. \A s \in Requests : HoldsOK(req[s])'
    <3> TAKE s \in Requests
    <3>1. HoldsOK(req'[s])
      BY <2>1, IdleOK DEF TypeInv, TypeOK
    <3>2. QED
      BY <3>1 DEF HoldsOK, Issued
  <2>6. QED
    BY <2>3, <2>4, <2>5 DEF TypeInv, ClaimsOK, Issued
<1>5. QED
  BY <1>3, <1>4

\* p and q differ at most in what they have seen of the account rows.
SameButSeen(p, q) ==
    /\ p.pc = q.pc /\ p.token = q.token /\ p.next = q.next
    /\ p.uid = q.uid /\ p.role = q.role /\ p.named = q.named /\ p.late = q.late

\* An administrator's edit is witnessed by the requests in flight.
LEMMA WitnessKeepsTypeInv ==
    ASSUME TypeInv, NEW rows \in [Users -> Row], NEW on \in SUBSET Roles,
           Witness(rows, on),
           user' \in [Users -> Row], roleOn' \subseteq Roles, edits' \in Nat,
           UNCHANGED <<storeVars, tok, tenantOn, restarts, calls, loggedOut, usedLate>>
    PROVE  TypeInv'
<1>1. \A s \in Requests :
        /\ req'[s] \in Request
        /\ SameButSeen(req'[s], req[s])
  <2> TAKE s \in Requests
  <2>1. req[s] \in Request
    BY DEF TypeInv, TypeOK
  <2> DEFINE extra == IF req[s].uid = Nil THEN {} ELSE {rows[req[s].uid]}
  <2>2. extra \subseteq Row
    BY <2>1 DEF Request
  <2>3. req'[s] = IF At(s, "idle") THEN req[s]
                  ELSE [req[s] EXCEPT !.rows = @ \cup extra, !.on = @ \cup on]
    BY DEF Witness
  <2> HIDE DEF extra
  <2>4. CASE At(s, "idle")
    BY <2>1, <2>3, <2>4 DEF SameButSeen
  <2>5. CASE ~At(s, "idle")
    <3> DEFINE q == [req[s] EXCEPT !.rows = @ \cup extra, !.on = @ \cup on]
    <3>1. q \in Request /\ SameButSeen(q, req[s])
      BY <2>1, <2>2 DEF Request, SameButSeen
    <3>2. QED
      BY <2>3, <2>5, <3>1
  <2>6. QED
    BY <2>4, <2>5
<1>2. req' \in [Requests -> Request]
  <2>1. req' = [s \in Requests |-> req'[s]]
    BY DEF Witness
  <2>2. QED
    BY <1>1, <2>1
<1>3. TypeOK'
  BY <1>2 DEF TypeInv, TypeOK, storeVars
<1>4. \A s \in Requests : HoldsOK(req[s])'
  <2> TAKE s \in Requests
  <2>1. HoldsOK(req[s])
    BY DEF TypeInv
  <2>2. QED
    BY <1>1, <2>1 DEF HoldsOK, Issued, SameButSeen
<1>5. QED
  BY <1>3, <1>4 DEF TypeInv, ClaimsOK, Issued

\* Init establishes TypeInv: the only tokens are the jti-less ones.
LEMMA InitTypeInv == Init => TypeInv
<1> SUFFICES ASSUME Init PROVE TypeInv
  OBVIOUS
<1> USE AuthAssumption
<1>1. PICK u \in Users, x \in Roles :
        tok = [j \in Jti |->
                 IF j \in LegacyTokens
                 THEN [kind |-> "refresh", uid |-> u, role |-> x,
                       exp |-> RefreshTTL, parent |-> Nil]
                 ELSE NoToken]
  BY DEF Init
<1>2. tok \in [Jti -> Token]
  BY <1>1 DEF NoToken, Token, AuthAssumption
<1>3. ClaimsOK
  BY <1>1 DEF ClaimsOK, Issued, NoToken
<1>4. user \in [Users -> Row]
  BY DEF Init, Row, Status
<1>5. req \in [Requests -> Request]
  BY IdleOK DEF Init
<1>6. TypeOK
  BY <1>2, <1>4, <1>5 DEF Init, StoreInit, TypeOK
<1>7. \A r \in Requests : HoldsOK(req[r])
  BY IdleOK DEF Init
<1>8. QED
  BY <1>3, <1>6, <1>7 DEF TypeInv, Init

\* Every step of every handler and of the environment keeps TypeInv.
LEMMA NextTypeInv == TypeInv /\ [Next]_vars => TypeInv'
<1> SUFFICES ASSUME TypeInv, [Next]_vars PROVE TypeInv'
  OBVIOUS
<1> USE AuthAssumption
<1> DEFINE counted == calls' = calls \/ calls' = calls + 1
<1>0. /\ TypeOK
      /\ counted => calls' \in Nat
      /\ \A r \in Requests : req[r] \in Request /\ HoldsOK(req[r])
  BY DEF TypeInv, TypeOK
<1>1. ASSUME NEW r \in Requests, NEW u \in Users, LoginUser(r, u) PROVE TypeInv'
  <2> DEFINE q == [Idle EXCEPT !.pc = "login_role", !.uid = u, !.role = user[u].role,
                               !.rows = {user[u]}, !.on = roleOn]
  <2>1. user[u] \in Row /\ roleOn \subseteq Roles
    BY <1>0 DEF TypeOK
  <2>2. user[u].role \in Roles
    BY <2>1 DEF Row
  <2>3. q \in Request /\ HoldsOK(q)
    BY <2>1, <2>2, IdleOK DEF Request, Pc, HoldsOK, LoginPc, RefreshPc, LogoutPc, Idle
  <2>4. req' = [req EXCEPT ![r] = q] /\ counted
    BY <1>1 DEF LoginUser, Begin
  <2>5. QED
    BY <1>0, <1>1, <2>3, <2>4, ControlKeepsTypeInv DEF LoginUser
<1>2. ASSUME NEW r \in Requests, LoginRole(r) PROVE TypeInv'
  <2> DEFINE q == [req[r] EXCEPT !.pc = "login_tenant"]
  <2>1. q \in Request /\ HoldsOK(q)
    BY <1>0, <1>2 DEF LoginRole, At, Request, Pc, HoldsOK, LoginPc, RefreshPc, LogoutPc
  <2>2. \E p \in {q, Idle} : req' = [req EXCEPT ![r] = p] /\ counted
    BY <1>2 DEF LoginRole, Goto, End, Move
  <2>3. QED
    BY <1>0, <1>2, <2>1, <2>2, IdleOK, ControlKeepsTypeInv DEF LoginRole
<1>3. ASSUME NEW r \in Requests, LoginTenant(r) PROVE TypeInv'
  <2>1. req[r].uid \in Users /\ req[r].role \in Roles
    BY <1>0, <1>3 DEF LoginTenant, At, HoldsOK, LoginPc
  <2>2. CASE MintPair(req[r].uid, req[r].role, Nil)
    BY <1>3, <2>1, <2>2, MintKeepsTypeInv DEF LoginTenant
  <2>3. CASE UNCHANGED tok
    <3>1. req' = [req EXCEPT ![r] = Idle] /\ counted /\ UNCHANGED tok
      BY <1>3, <2>3 DEF LoginTenant, End, Move
    <3>2. QED
      BY <1>0, <1>3, <3>1, IdleOK, ControlKeepsTypeInv DEF LoginTenant
  <2>4. QED
    BY <1>3, <2>2, <2>3 DEF LoginTenant
<1>4. ASSUME NEW r \in Requests, NEW j \in Jti, RefreshParse(r, j) PROVE TypeInv'
  <2> DEFINE q == [Idle EXCEPT !.pc = "refresh_user", !.token = j, !.uid = tok[j].uid,
                               !.role = tok[j].role,
                               !.rows = {user[tok[j].uid]}, !.on = roleOn]
  <2>1. tok[j].uid \in Users /\ tok[j].role \in Roles /\ Issued(j)
    BY <1>4 DEF RefreshParse, TypeInv, ClaimsOK, Issued
  <2>2. user[tok[j].uid] \in Row /\ roleOn \subseteq Roles
    BY <1>0, <2>1 DEF TypeOK
  <2>3. q \in Request /\ HoldsOK(q)
    BY <2>1, <2>2, IdleOK DEF Request, Pc, HoldsOK, LoginPc, RefreshPc, LogoutPc, Idle
  <2>4. req' = [req EXCEPT ![r] = q] /\ counted
    BY <1>4 DEF RefreshParse, Begin
  <2>5. QED
    BY <1>0, <1>4, <2>3, <2>4, ControlKeepsTypeInv DEF RefreshParse
<1>5. ASSUME NEW r \in Requests, RefreshUser(r) PROVE TypeInv'
  <2> DEFINE q == [req[r] EXCEPT !.pc = "refresh_role", !.role = user[req[r].uid].role]
  <2>1. req[r].uid \in Users
    BY <1>0, <1>5 DEF RefreshUser, At, HoldsOK, RefreshPc
  <2>2. user[req[r].uid].role \in Roles
    BY <1>0, <2>1 DEF TypeOK, Row
  <2>3. q \in Request /\ HoldsOK(q)
    BY <1>0, <1>5, <2>1, <2>2, ZenonT(60)
       DEF RefreshUser, At, Request, Pc, HoldsOK, LoginPc, RefreshPc, LogoutPc
  <2>4. \E p \in {q, Idle} : req' = [req EXCEPT ![r] = p] /\ counted
    BY <1>5 DEF RefreshUser, End, Move
  <2>5. QED
    BY <1>0, <1>5, <2>3, <2>4, IdleOK, ControlKeepsTypeInv DEF RefreshUser
<1>6. ASSUME NEW r \in Requests, RefreshRole(r) PROVE TypeInv'
  <2> DEFINE q == [req[r] EXCEPT !.pc = "refresh_fence"]
  <2>1. q \in Request /\ HoldsOK(q)
    BY <1>0, <1>6 DEF RefreshRole, At, Request, Pc, HoldsOK, LoginPc, RefreshPc, LogoutPc
  <2>2. \E p \in {q, Idle} : req' = [req EXCEPT ![r] = p] /\ counted
    BY <1>6 DEF RefreshRole, Goto, End, Move
  <2>3. QED
    BY <1>0, <1>6, <2>1, <2>2, IdleOK, ControlKeepsTypeInv DEF RefreshRole
<1>7. ASSUME NEW r \in Requests, RefreshFence(r) PROVE TypeInv'
  <2> DEFINE q == [req[r] EXCEPT !.pc = "refresh_mint"]
             j == req[r].token
  <2>1. q \in Request /\ HoldsOK(q) /\ j \in Jti
    BY <1>0, <1>7 DEF RefreshFence, At, Request, Pc, HoldsOK, LoginPc, RefreshPc, LogoutPc
  <2>2. \E p \in {q, Idle} : req' = [req EXCEPT ![r] = p] /\ counted
    BY <1>7 DEF RefreshFence, Goto, End, Move
  <2>3. tok[j].exp \in Nat
    BY <1>0, <2>1 DEF TypeOK, Token
  <2>4. revoked' \in [Jti -> Nat] /\ forgotten' \subseteq Jti
    <3>1. CASE UNCHANGED <<revoked, forgotten>>
      BY <1>0, <3>1 DEF TypeOK
    <3>2. CASE Claim(j, tok[j].exp)
      BY <1>0, <2>1, <2>3, <3>2, InsertType DEF Claim
    <3>3. QED
      BY <1>7, <3>1, <3>2 DEF RefreshFence
  <2>5. now' \in Nat /\ usedLate' \subseteq Jti
    BY <1>0, <1>7, <2>1 DEF RefreshFence, TypeOK
  <2>6. QED
    BY <1>0, <1>7, <2>1, <2>2, <2>4, <2>5, IdleOK, MoveKeepsTypeInv DEF RefreshFence
<1>8. ASSUME NEW r \in Requests, RefreshMint(r) PROVE TypeInv'
  <2>1. /\ req[r].uid \in Users /\ req[r].role \in Roles
        /\ req[r].token \in Jti /\ Issued(req[r].token)
    BY <1>0, <1>8 DEF RefreshMint, At, HoldsOK, RefreshPc
  <2>2. QED
    BY <1>8, <2>1, MintKeepsTypeInv DEF RefreshMint
<1>9. ASSUME NEW r \in Requests, NEW a \in OfKind("access") \cup {Nil},
             NEW f \in OfKind("refresh") \cup {Nil}, LogoutBegin(r, a, f)
      PROVE  TypeInv'
  <2> DEFINE q == [Idle EXCEPT !.pc = "logout_parse",
                               !.token = IF a # Nil THEN a ELSE f,
                               !.next = IF a # Nil THEN f ELSE Nil,
                               !.named = {a, f} \ {Nil}]
  <2>1. \A j \in {a, f} : j # Nil => j \in Jti /\ Issued(j)
    BY DEF OfKind, Issued
  <2>2. {a, f} # {Nil}
    BY <1>9 DEF LogoutBegin
  <2>3. q \in Request /\ HoldsOK(q)
    BY <2>1, <2>2, IdleOK, ZenonT(60) DEF Request, Pc, HoldsOK, LoginPc, RefreshPc, LogoutPc, Idle
  <2>4. req' = [req EXCEPT ![r] = q] /\ counted
    BY <1>9 DEF LogoutBegin, Begin
  <2>5. QED
    BY <1>0, <1>9, <2>3, <2>4, ControlKeepsTypeInv DEF LogoutBegin
<1>10. ASSUME NEW r \in Requests, LogoutParse(r) PROVE TypeInv'
  <2> DEFINE q == [req[r] EXCEPT !.pc = "logout_revoke"]
  <2>1. q \in Request /\ HoldsOK(q) /\ req[r].pc \in LogoutPc
    BY <1>0, <1>10 DEF LogoutParse, At, Request, Pc, HoldsOK, LoginPc, RefreshPc, LogoutPc
  <2>2. CASE req' = [req EXCEPT ![r] = q] /\ counted /\ UNCHANGED loggedOut
    BY <1>0, <1>10, <2>1, <2>2, ControlKeepsTypeInv DEF LogoutParse
  <2>3. CASE LogoutAdvance(r)
    <3>1. revoked' \in [Jti -> Nat] /\ forgotten' \subseteq Jti
      BY <1>0, <1>10 DEF LogoutParse, storeVars, TypeOK
    <3>2. QED
      BY <1>10, <2>1, <2>3, <3>1, AdvanceKeepsTypeInv DEF LogoutParse, storeVars
  <2>4. QED
    BY <1>10, <2>2, <2>3 DEF LogoutParse, Goto, Move
<1>11. ASSUME NEW r \in Requests, LogoutRevoke(r) PROVE TypeInv'
  <2> DEFINE j == req[r].token
  <2>1. req[r].pc \in LogoutPc /\ j \in Jti
    BY <1>0, <1>11 DEF LogoutRevoke, At, HoldsOK, LogoutPc
  <2>2. RevokeUntil(j) \in Nat
    BY <1>0, <2>1 DEF RevokeUntil, TypeOK, Token, AuthAssumption
  <2>3. revoked' \in [Jti -> Nat] /\ forgotten' \subseteq Jti
    <3>1. CASE UNCHANGED <<revoked, forgotten>>
      BY <1>0, <3>1 DEF TypeOK
    <3>2. CASE Insert(j, RevokeUntil(j))
      BY <1>0, <2>1, <2>2, <3>2, InsertType
    <3>3. QED
      BY <1>11, <3>1, <3>2 DEF LogoutRevoke, Revoke
  <2>4. QED
    BY <1>11, <2>1, <2>3, AdvanceKeepsTypeInv DEF LogoutRevoke
<1>12. ASSUME NEW r \in Requests, NEW j \in Jti, ApiValidate(r, j) PROVE TypeInv'
  <2> DEFINE q == [Idle EXCEPT !.pc = "api_parse", !.token = j, !.late = j \in loggedOut]
  <2>1. Issued(j)
    BY <1>12 DEF ApiValidate, Issued
  <2>2. q \in Request /\ HoldsOK(q)
    <3>1. ASSUME NEW b \in BOOLEAN
          PROVE  LET p == [Idle EXCEPT !.pc = "api_parse", !.token = j, !.late = b]
                 IN  p \in Request /\ HoldsOK(p)
      BY <2>1, IdleOK DEF Request, Pc, HoldsOK, LoginPc, RefreshPc, LogoutPc, Idle
    <3>2. (j \in loggedOut) \in BOOLEAN
      OBVIOUS
    <3>3. QED
      BY <3>1, <3>2, Zenon
  <2>3. \E p \in {q, Idle} : req' = [req EXCEPT ![r] = p] /\ counted
    BY <1>12 DEF ApiValidate, Begin
  <2>4. /\ now' \in Nat /\ usedLate' \subseteq Jti
        /\ revoked' \in [Jti -> Nat] /\ forgotten' \subseteq Jti
    BY <1>0, <1>12 DEF ApiValidate, ReadRevoked, TypeOK
  <2>5. QED
    BY <1>0, <1>12, <2>2, <2>3, <2>4, IdleOK, MoveKeepsTypeInv DEF ApiValidate
<1>13. ASSUME NEW r \in Requests, ApiParse(r) PROVE TypeInv'
  <2>1. req[r].token \in Jti
    BY <1>0, <1>13 DEF ApiParse, At, HoldsOK
  <2>2. req' = [req EXCEPT ![r] = Idle] /\ counted
    BY <1>13 DEF ApiParse, End, Move
  <2>3. /\ now' \in Nat /\ usedLate' \subseteq Jti
        /\ revoked' \in [Jti -> Nat] /\ forgotten' \subseteq Jti
    BY <1>0, <1>13, <2>1 DEF ApiParse, TypeOK, storeVars
  <2>4. QED
    BY <1>0, <1>13, <2>2, <2>3, IdleOK, MoveKeepsTypeInv DEF ApiParse
<1>14. ASSUME NEW r \in Requests, RequestFails(r) PROVE TypeInv'
  <2>1. req' = [req EXCEPT ![r] = Idle] /\ counted
    BY <1>14 DEF RequestFails, End, Move
  <2>2. QED
    BY <1>0, <1>14, <2>1, IdleOK, ControlKeepsTypeInv DEF RequestFails
<1>15. ASSUME NEW u \in Users, NEW row \in Row, SetUser(u, row) PROVE TypeInv'
  <2>1. user' \in [Users -> Row] /\ roleOn \in SUBSET Roles /\ roleOn' = roleOn /\ edits' \in Nat
    BY <1>0, <1>15 DEF SetUser, TypeOK
  <2>2. QED
    BY <1>15, <2>1, WitnessKeepsTypeInv DEF SetUser
<1>16. ASSUME NEW x \in Roles, SetRole(x) PROVE TypeInv'
  <2>1. user \in [Users -> Row] /\ user' = user /\ roleOn' \in SUBSET Roles /\ edits' \in Nat
    BY <1>0, <1>16 DEF SetRole, TypeOK
  <2>2. QED
    BY <1>16, <2>1, WitnessKeepsTypeInv DEF SetRole
<1>17. ASSUME SetTenant PROVE TypeInv'
  BY <1>17 DEF SetTenant, TypeInv, TypeOK, storeVars, ClaimsOK, HoldsOK, Issued
<1>18. ASSUME Tick PROVE TypeInv'
  BY <1>18 DEF Tick, TypeInv, TypeOK, authVars, ClaimsOK, HoldsOK, Issued
<1>19. ASSUME Restart PROVE TypeInv'
  <2>1. req' \in [Requests -> Request] /\ \A r \in Requests : HoldsOK(req'[r])
    BY <1>19, IdleOK DEF Restart
  <2>2. revoked' \in [Jti -> Nat] /\ forgotten' \subseteq Jti
    BY <1>0, <1>19 DEF Restart, StoreRestart, TypeOK
  <2>3. TypeOK'
    BY <1>0, <1>19, <2>1, <2>2 DEF Restart, TypeOK
  <2>4. \A r \in Requests : HoldsOK(req[r])'
    BY <1>19, <2>1 DEF Restart, HoldsOK, Issued
  <2>5. QED
    BY <1>19, <2>3, <2>4 DEF Restart, TypeInv, ClaimsOK, Issued
<1>20. ASSUME UNCHANGED vars PROVE TypeInv'
  BY <1>20 DEF vars, storeVars, authVars, TypeInv, TypeOK, ClaimsOK, HoldsOK, Issued
<1>21. QED
  BY <1>1, <1>2, <1>3, <1>4, <1>5, <1>6, <1>7, <1>8, <1>9, <1>10, <1>11, <1>12, <1>13,
     <1>14, <1>15, <1>16, <1>17, <1>18, <1>19, <1>20 DEF Next

\* Type correctness of the token life cycle: denylist, tokens, rows and
\* requests stay well formed, for every instance.
THEOREM TypeCorrect == Spec => []TypeOK
<1>1. Spec => []TypeInv
  BY InitTypeInv, NextTypeInv, PTL DEF Spec
<1>2. TypeInv => TypeOK
  BY DEF TypeInv
<1>3. QED
  BY <1>1, <1>2, PTL

-----------------------------------------------------------------------------
(* What a step may do to the denylist: nothing that revives a token.       *)

\* sweepLocked, evictOneLocked and the insertion: an entry that outlasts e
\* survives, unless it is evicted (and then recorded) or e has passed.
LEMMA InsertKeeps ==
    ASSUME TypeOK, NEW j \in Jti, NEW until \in Nat, Insert(j, until),
           NEW k \in Jti, NEW e \in Nat, revoked[k] >= e, k = j => until >= e \/ now >= e
    PROVE  k \in forgotten' \/ revoked'[k] >= e \/ now >= e
<1>1. /\ Sweep \in [Jti -> Nat]
      /\ Sweep[k] >= e \/ now >= e
  BY DEF TypeOK, Sweep
<1>2. CASE revoked' = [Sweep EXCEPT ![j] = until]
  BY <1>1, <1>2
<1>3. ASSUME NEW victim \in Soonest(Sweep),
             revoked' = [Sweep EXCEPT ![victim] = 0, ![j] = until],
             forgotten' = forgotten \cup {victim}
      PROVE  k \in forgotten' \/ revoked'[k] >= e \/ now >= e
  BY <1>1, <1>3 DEF Soonest, Entries
<1>4. QED
  BY <1>2, <1>3 DEF Insert

\* The inserted entry is there, and nothing evicted comes back.
LEMMA InsertSets ==
    ASSUME TypeOK, NEW j \in Jti, NEW until \in Nat, Insert(j, until)
    PROVE  revoked'[j] = until /\ forgotten \subseteq forgotten'
<1>1. Sweep \in [Jti -> Nat]
  BY DEF TypeOK, Sweep
<1>2. CASE revoked' = [Sweep EXCEPT ![j] = until] /\ UNCHANGED forgotten
  BY <1>1, <1>2
<1>3. ASSUME NEW victim \in Soonest(Sweep),
             revoked' = [Sweep EXCEPT ![victim] = 0, ![j] = until],
             forgotten' = forgotten \cup {victim}
      PROVE  revoked'[j] = until /\ forgotten \subseteq forgotten'
  BY <1>1, <1>3 DEF Soonest, Entries
<1>4. QED
  BY <1>2, <1>3 DEF Insert

\* What any step leaves of a token's standing in the store.
Standing(j) ==
    /\ now' \in Nat /\ now' >= now
    /\ forgotten \subseteq forgotten'
    /\ Issued(j) => tok'[j] = tok[j]
    /\ revoked[j] >= tok[j].exp =>
         j \in forgotten' \/ revoked'[j] >= tok[j].exp \/ now' >= tok[j].exp

\* Every step keeps the standing of every token.
LEMMA NextStanding ==
    ASSUME TypeInv, [Next]_vars, NEW j \in Jti
    PROVE  Standing(j)
<1> USE AuthAssumption
<1>0. /\ TypeOK /\ ClaimsOK
      /\ now \in Nat /\ revoked[j] \in Nat /\ tok[j].exp \in Nat
      /\ \A r \in Requests : HoldsOK(req[r])
  BY DEF TypeInv, TypeOK, Token
<1>1. ASSUME UNCHANGED <<storeVars, tok>> PROVE Standing(j)
  BY <1>0, <1>1 DEF Standing, storeVars
<1>2. ASSUME UNCHANGED storeVars, NEW r \in Requests, NEW parent, 
             MintPair(req[r].uid, req[r].role, parent)
      PROVE  Standing(j)
  <2>1. Issued(j) => tok'[j] = tok[j]
    BY <1>0, <1>2, MintPairEffect DEF TypeOK, Issued
  <2>2. QED
    BY <1>0, <1>2, <2>1 DEF Standing, storeVars
<1>3. ASSUME UNCHANGED <<now, tok>>, NEW k \in Jti, NEW until \in Nat, Insert(k, until),
             k = j => until >= tok[j].exp \/ now >= tok[j].exp
      PROVE  Standing(j)
  BY <1>0, <1>3, InsertKeeps, InsertSets DEF Standing
<1>4. ASSUME NEW r \in Requests, LoginTenant(r) PROVE Standing(j)
  BY <1>1, <1>2, <1>4 DEF LoginTenant
<1>5. ASSUME NEW r \in Requests, RefreshFence(r) PROVE Standing(j)
  <2> DEFINE k == req[r].token
  <2>1. k \in Jti /\ tok[k].exp \in Nat
    BY <1>0, <1>5 DEF RefreshFence, At, HoldsOK, RefreshPc, TypeOK, Token
  <2>2. CASE UNCHANGED <<revoked, forgotten>>
    BY <1>1, <1>5, <2>2 DEF RefreshFence, storeVars
  <2>3. CASE Insert(k, tok[k].exp)
    <3>1. UNCHANGED <<now, tok>>
      BY <1>5 DEF RefreshFence
    <3>2. k = j => tok[k].exp >= tok[j].exp
      BY <1>0
    <3>3. QED
      BY <1>3, <2>1, <2>3, <3>1, <3>2
  <2>4. QED
    BY <1>5, <2>2, <2>3 DEF RefreshFence, Claim
<1>6. ASSUME NEW r \in Requests, LogoutRevoke(r) PROVE Standing(j)
  <2> DEFINE k == req[r].token
  <2>1. k \in Jti /\ tok[k].exp \in Nat
    BY <1>0, <1>6 DEF LogoutRevoke, At, HoldsOK, LogoutPc, TypeOK, Token
  <2>2. /\ RevokeUntil(k) \in Nat
        /\ RevokeUntil(k) >= tok[k].exp \/ now >= tok[k].exp
    BY <1>0, <2>1 DEF RevokeUntil, AuthAssumption
  <2>3. UNCHANGED <<now, tok>>
    BY <1>6 DEF LogoutRevoke
  <2>4. CASE Insert(k, RevokeUntil(k))
    BY <1>3, <2>1, <2>2, <2>3, <2>4
  <2>5. CASE UNCHANGED <<revoked, forgotten>>
    BY <1>1, <2>3, <2>5 DEF storeVars
  <2>6. QED
    BY <1>6, <2>4, <2>5 DEF LogoutRevoke, Revoke
<1>7. ASSUME NEW r \in Requests, NEW k \in Jti, ApiValidate(r, k) PROVE Standing(j)
  <2>1. /\ UNCHANGED <<now, tok, forgotten>>
        /\ revoked' = [revoked EXCEPT ![k] = IF Held(k) THEN @ ELSE 0]
    BY <1>7 DEF ApiValidate, ReadRevoked
  <2>2. revoked'[j] = revoked[j] \/ now >= revoked[j]
    BY <1>0, <2>1 DEF Held, TypeOK
  <2>3. QED
    BY <1>0, <2>1, <2>2 DEF Standing
<1>8. CASE Tick
  BY <1>0, <1>8 DEF Tick, authVars, Standing
<1>9. CASE Restart
  <2>1. j \in forgotten' \/ now >= revoked[j]
    BY <1>0, <1>9 DEF Restart, StoreRestart, Held
  <2>2. QED
    BY <1>0, <1>9, <2>1 DEF Restart, StoreRestart, Standing
<1>10. ASSUME NEW r \in Requests, RefreshMint(r) PROVE Standing(j)
  BY <1>2, <1>10 DEF RefreshMint
<1>11. ASSUME NEW r \in Requests, NEW u \in Users, LoginUser(r, u) PROVE Standing(j)
  BY <1>1, <1>11 DEF LoginUser
<1>12. ASSUME NEW r \in Requests, NEW k \in Jti, RefreshParse(r, k) PROVE Standing(j)
  BY <1>1, <1>12 DEF RefreshParse
<1>13. ASSUME NEW r \in Requests,
              LoginRole(r) \/ RefreshUser(r) \/ RefreshRole(r) \/ LogoutParse(r)
                \/ ApiParse(r) \/ RequestFails(r)
       PROVE  Standing(j)
  BY <1>1, <1>13 DEF LoginRole, RefreshUser, RefreshRole, LogoutParse, ApiParse, RequestFails
<1>14. ASSUME NEW r \in Requests, NEW a, NEW f, LogoutBegin(r, a, f) PROVE Standing(j)
  BY <1>1, <1>14 DEF LogoutBegin
<1>15. ASSUME NEW u \in Users, NEW row \in Row, SetUser(u, row) PROVE Standing(j)
  BY <1>1, <1>15 DEF SetUser
<1>16. ASSUME NEW x \in Roles, SetRole(x) PROVE Standing(j)
  BY <1>1, <1>16 DEF SetRole
<1>17. CASE SetTenant
  BY <1>1, <1>17 DEF SetTenant
<1>18. CASE UNCHANGED vars
  BY <1>1, <1>18 DEF vars, authVars
<1>19. QED
  BY <1>4, <1>5, <1>6, <1>7, <1>8, <1>9, <1>10, <1>11, <1>12, <1>13, <1>14, <1>15,
     <1>16, <1>17, <1>18 DEF Next

\* The record of evicted and lost entries only grows.
LEMMA NextForgets == TypeInv /\ [Next]_vars => forgotten \subseteq forgotten'
BY NextStanding DEF Standing, TypeInv, TypeOK

\* A lapsed or spent token stays so, and no token comes back under the fence.
LEMMA SpentStable ==
    ASSUME TypeInv, [Next]_vars
    PROVE  /\ \A j \in Jti : Issued(j) =>
                /\ tok'[j] = tok[j]
                /\ Lapsed(j) => Lapsed(j)'
                /\ Spent(j) => Spent(j)'
                /\ Fenced(j)' => Fenced(j)
<1> SUFFICES ASSUME NEW j \in Jti, Issued(j)
             PROVE  /\ tok'[j] = tok[j]
                    /\ Lapsed(j) => Lapsed(j)'
                    /\ Spent(j) => Spent(j)'
                    /\ Fenced(j)' => Fenced(j)
  OBVIOUS
<1>1. Standing(j)
  BY NextStanding
<1>2. now \in Nat /\ tok[j].exp \in Nat
  BY DEF TypeInv, TypeOK, Token
<1>3. Fenced(j)' => Fenced(j)
  BY <1>1 DEF Standing, Fenced, HasJti
<1>4. Lapsed(j) => Lapsed(j)'
  BY <1>1, <1>2, <1>3 DEF Standing, Lapsed
<1>5. revoked[j] >= tok[j].exp => Spent(j)'
  BY <1>1 DEF Standing, Spent, Lapsed, Fenced
<1>6. QED
  BY <1>1, <1>3, <1>4, <1>5 DEF Standing, Spent

-----------------------------------------------------------------------------
(* Rotation and logout.                                                    *)

\* What a request established stays established while it does not move.
LEMMA DoneStable ==
    ASSUME TypeInv, SafeInv, [Next]_vars, NEW s \in Requests, SameButSeen(req'[s], req[s])
    PROVE  DoneOK(req[s])'
<1>1. HoldsOK(req[s]) /\ DoneOK(req[s]) /\ req[s] \in Request
  BY DEF TypeInv, TypeOK, SafeInv
<1>2. \A j \in Jti : Issued(j) => (Lapsed(j) => Lapsed(j)') /\ (Spent(j) => Spent(j)')
  BY SpentStable
<1>3. (req[s].pc = "refresh_mint" => Spent(req[s].token))'
  <2> SUFFICES ASSUME req'[s].pc = "refresh_mint" PROVE Spent(req[s].token)'
    OBVIOUS
  <2>1. req[s].pc = "refresh_mint" /\ req'[s].token = req[s].token
    BY DEF SameButSeen
  <2>2. req[s].token \in Jti /\ Issued(req[s].token) /\ Spent(req[s].token)
    BY <1>1, <2>1 DEF HoldsOK, DoneOK, RefreshPc
  <2>3. \A j \in Jti : j = req[s].token => Spent(j)'
    BY <1>2, <2>2
  <2>4. QED
    BY <2>1, <2>2, <2>3 DEF Spent, Lapsed, Fenced, HasJti
<1>4. (req[s].pc \in LogoutPc =>
         \A j \in req[s].named : j \in {req[s].token, req[s].next} \/ Spent(j))'
  <2> SUFFICES ASSUME req'[s].pc \in LogoutPc, NEW j \in req'[s].named
               PROVE  j \in {req'[s].token, req'[s].next} \/ Spent(j)'
    OBVIOUS
  <2>1. j \in req[s].named /\ req[s].pc \in LogoutPc
    BY DEF SameButSeen
  <2>2. j \in Jti /\ Issued(j)
    BY <1>1, <2>1 DEF HoldsOK, Request
  <2>3. j \in {req[s].token, req[s].next} \/ Spent(j)
    BY <1>1, <2>1 DEF DoneOK
  <2>4. QED
    BY <1>2, <2>2, <2>3 DEF SameButSeen
<1>5. (req[s].pc = "api_parse" /\ req[s].late => Lapsed(req[s].token))'
  <2> SUFFICES ASSUME req'[s].pc = "api_parse", req'[s].late
               PROVE  Lapsed(req[s].token)'
    OBVIOUS
  <2>1. req[s].pc = "api_parse" /\ req[s].late /\ req'[s].token = req[s].token
    BY DEF SameButSeen
  <2>2. req[s].token \in Jti /\ Issued(req[s].token) /\ Lapsed(req[s].token)
    BY <1>1, <2>1 DEF HoldsOK, DoneOK
  <2>3. \A j \in Jti : j = req[s].token => Lapsed(j)'
    BY <1>2, <2>2
  <2>4. QED
    BY <2>1, <2>2, <2>3 DEF Lapsed, Fenced, HasJti
<1>6. QED
  BY <1>3, <1>4, <1>5 DEF DoneOK

\* A step that mints nothing and makes no new winner keeps SafeInv, if what
\* the moved requests, new logouts and late uses rest on holds after it.
LEMMA QuietKeepsSafe ==
    ASSUME TypeInv, SafeInv, [Next]_vars, tok' = tok,
           \A s \in Requests : \/ SameButSeen(req'[s], req[s])
                               \/ req'[s].pc # "refresh_mint" /\ DoneOK(req[s])',
           \A j \in loggedOut' : j \in loggedOut \/ Spent(j)',
           \A j \in usedLate' : j \in usedLate \/ ~Fenced(j)'
    PROVE  SafeInv'
<1>1. \A j \in Jti : Issued(j) => (Spent(j) => Spent(j)') /\ (Fenced(j)' => Fenced(j))
  BY SpentStable
<1>2. (\A j \in Jti : tok[j].parent # Nil => Spent(tok[j].parent))'
  <2> SUFFICES ASSUME NEW j \in Jti, tok[j].parent # Nil PROVE Spent(tok[j].parent)'
    OBVIOUS
  <2>1. tok[j].parent \in Jti /\ Issued(tok[j].parent) /\ Spent(tok[j].parent)
    BY DEF TypeInv, TypeOK, Token, ClaimsOK, SafeInv
  <2>2. \A k \in Jti : k = tok[j].parent => Spent(k)'
    BY <1>1, <2>1
  <2>3. QED
    BY <2>1, <2>2 DEF Spent, Lapsed, Fenced, HasJti
<1>3. \A s \in Requests : DoneOK(req[s])'
  BY DoneStable
<1>4. \A j \in loggedOut' : Spent(j)'
  <2>1. \A j \in loggedOut : j \in Jti /\ Issued(j) /\ Spent(j)
    BY DEF TypeInv, TypeOK, SafeInv
  <2>2. QED
    BY <1>1, <2>1
<1>5. RotatedAtMostOnce'
  <2>1. \A j \in Jti : Heirs(j)' = Heirs(j)
    BY DEF Heirs
  <2>2. \A j \in Jti : Winners(j)' \subseteq Winners(j)
    BY DEF Winners, SameButSeen
  <2>3. \A j \in Jti : Fenced(j)' => Fenced(j)
    <3>1. \A j \in Jti : ~Issued(j) => (Fenced(j)' => Fenced(j))
      BY NextForgets DEF Fenced, HasJti
    <3>2. QED
      BY <1>1, <3>1
  <2>4. QED
    BY <2>1, <2>2, <2>3 DEF SafeInv, RotatedAtMostOnce
<1>6. LogoutIsFinal'
  <2>1. \A j \in usedLate : ~Fenced(j)'
    BY NextForgets DEF SafeInv, LogoutIsFinal, Fenced, HasJti
  <2>2. QED
    BY <2>1 DEF LogoutIsFinal
<1>7. QED
  BY <1>2, <1>3, <1>4, <1>5, <1>6 DEF SafeInv

\* A request that moves without minting or winning keeps SafeInv, if what it
\* has established then holds.
LEMMA MoveKeepsSafe ==
    ASSUME TypeInv, SafeInv, [Next]_vars, NEW r \in Requests, NEW q,
           req' = [req EXCEPT ![r] = q], q.pc # "refresh_mint", DoneOK(req[r])',
           UNCHANGED <<tok, loggedOut, usedLate>>
    PROVE  SafeInv'
<1>1. \A s \in Requests : s # r => SameButSeen(req'[s], req[s])
  BY DEF TypeInv, TypeOK, SameButSeen
<1>2. req'[r] = q
  BY DEF TypeInv, TypeOK
<1>3. QED
  BY <1>1, <1>2, QuietKeepsSafe

\* The same for a state of the request that has established nothing.
LEMMA PlainKeepsSafe ==
    ASSUME TypeInv, SafeInv, [Next]_vars, NEW r \in Requests, NEW q,
           req' = [req EXCEPT ![r] = q],
           q.pc \notin LogoutPc \cup {"refresh_mint", "api_parse"},
           UNCHANGED <<tok, loggedOut, usedLate>>
    PROVE  SafeInv'
<1>1. req'[r] = q
  BY DEF TypeInv, TypeOK
<1>2. DoneOK(req[r])'
  BY <1>1 DEF DoneOK
<1>3. QED
  BY <1>2, MoveKeepsSafe

\* RefreshFence's winner: RevokeIfNotRevoked grants the claim only for a token
\* that nobody has claimed, exchanged or logged out.
LEMMA FenceKeepsSafe ==
    ASSUME TypeInv, SafeInv, [Next]_vars, NEW r \in Requests, RefreshFence(r)
    PROVE  SafeInv'
<1> DEFINE j == req[r].token
<1>0. /\ TypeOK /\ j \in Jti /\ Issued(j) /\ req[r] \in Request
      /\ now \in Nat /\ tok[j].exp \in Nat /\ revoked[j] \in Nat
  BY DEF RefreshFence, At, TypeInv, HoldsOK, RefreshPc, TypeOK, Token
<1>1. CASE End(r) /\ UNCHANGED usedLate
  BY <1>1, PlainKeepsSafe DEF RefreshFence, End, Move, Idle, LogoutPc
<1>2. ASSUME Goto(r, "refresh_mint"), usedLate' = usedLate \cup ({j} \cap loggedOut),
             ~HasJti(j) \/ Claim(j, tok[j].exp)
      PROVE  SafeInv'
  <2>0. tok' = tok /\ loggedOut' = loggedOut /\ now' = now
    BY DEF RefreshFence
  <2>1. Fenced(j) => ~Spent(j)
    BY <1>0, <1>2 DEF Claim, Claimable, Held, Fenced, Spent, Lapsed
  <2>2. Spent(j)'
    <3>0. req'[r].token = req[r].token
      BY <1>0, <1>2 DEF Goto, Move, TypeOK, Request
    <3>1. CASE ~HasJti(j)
      BY <3>0, <3>1 DEF Spent, Lapsed, Fenced, HasJti
    <3>2. CASE Claim(j, tok[j].exp)
      <4>1. revoked'[j] = tok[j].exp
        BY <1>0, <3>2, InsertSets DEF Claim
      <4>2. \A k \in Jti : k = j => Spent(k)'
        BY <1>0, <2>0, <4>1 DEF Spent
      <4>3. QED
        BY <1>0, <3>0, <4>2 DEF Spent, Lapsed, Fenced, HasJti
    <3>3. QED
      BY <1>2, <3>1, <3>2
  <2>3. /\ \A s \in Requests : s # r => req'[s] = req[s]
        /\ req'[r].pc = "refresh_mint" /\ req'[r].token = j
    BY <1>0, <1>2 DEF Goto, Move, TypeOK, Request
  <2>4. \A k \in Jti : /\ Issued(k) => (Spent(k) => Spent(k)')
                       /\ Fenced(k)' => Fenced(k)
    BY SpentStable, NextForgets DEF Fenced, HasJti
  <2>5. (\A k \in Jti : tok[k].parent # Nil => Spent(tok[k].parent))'
    <3> SUFFICES ASSUME NEW k \in Jti, tok[k].parent # Nil PROVE Spent(tok[k].parent)'
      BY <2>0
    <3>1. tok[k].parent \in Jti /\ Issued(tok[k].parent) /\ Spent(tok[k].parent)
      BY DEF TypeInv, TypeOK, Token, ClaimsOK, SafeInv
    <3>2. \A i \in Jti : i = tok[k].parent => Spent(i)'
      BY <2>4, <3>1
    <3>3. QED
      BY <2>0, <3>1, <3>2 DEF Spent, Lapsed, Fenced, HasJti
  <2>6. \A s \in Requests : DoneOK(req[s])'
    <3>1. \A s \in Requests : s # r => DoneOK(req[s])'
      BY <2>3, DoneStable DEF SameButSeen
    <3>2. DoneOK(req[r])'
      BY <2>2, <2>3 DEF DoneOK, LogoutPc
    <3>3. QED
      BY <3>1, <3>2
  <2>7. \A k \in loggedOut' : Spent(k)'
    BY <2>0, <2>4 DEF TypeInv, TypeOK, SafeInv
  <2>8. RotatedAtMostOnce'
    <3>1. \A k \in Jti : Heirs(k)' = Heirs(k)
      BY <2>0 DEF Heirs
    <3>2. \A k \in Jti : k # j => Winners(k)' \subseteq Winners(k)
      BY <2>3 DEF Winners
    <3>3. Fenced(j) => Winners(j) = {} /\ Heirs(j) = {}
      <4>1. ASSUME Fenced(j), NEW s \in Winners(j) PROVE FALSE
        BY <1>0, <2>1, <4>1 DEF Winners, SafeInv, DoneOK
      <4>2. ASSUME Fenced(j), NEW k \in Heirs(j) PROVE FALSE
        <5>1. k \in Jti /\ tok[k].parent = j /\ j # Nil
          BY <1>0, AuthAssumption DEF Heirs, AuthAssumption
        <5>2. QED
          BY <2>1, <4>2, <5>1 DEF SafeInv
      <4>3. QED
        BY <4>1, <4>2
    <3>4. \A k \in Jti : k = j => Winners(k)' \subseteq Winners(k) \cup {r}
      BY <2>3 DEF Winners
    <3>5. ASSUME NEW k \in Jti, Fenced(k)'
          PROVE  /\ \A p, q \in Winners(k)' : p = q
                 /\ Winners(k)' # {} => Heirs(k)' = {}
                 /\ \A p, q \in Heirs(k)' : p = q
      <4>1. Fenced(k)
        BY <2>4, <3>5
      <4>2. CASE k # j
        BY <3>1, <3>2, <4>1, <4>2 DEF SafeInv, RotatedAtMostOnce
      <4>3. CASE k = j
        BY <3>1, <3>3, <3>4, <4>1, <4>3
      <4>4. QED
        BY <4>2, <4>3
    <3>6. QED
      BY <3>5 DEF RotatedAtMostOnce
  <2>9. LogoutIsFinal'
    <3>1. \A k \in usedLate : k \in Jti /\ ~Fenced(k)
      BY <1>0 DEF TypeOK, SafeInv, LogoutIsFinal
    <3>2. j \in loggedOut => ~Fenced(j)
      BY <2>1 DEF SafeInv
    <3>3. \A k \in usedLate' : k \in Jti /\ ~Fenced(k)
      BY <1>0, <1>2, <3>1, <3>2
    <3>4. QED
      BY <2>4, <3>3 DEF LogoutIsFinal
  <2>10. QED
    BY <2>5, <2>6, <2>7, <2>8, <2>9 DEF SafeInv
<1>3. QED
  BY <1>1, <1>2 DEF RefreshFence

\* A pair is issued, by a login (no parent) or by the one winner of an
\* exchange.
LEMMA MintKeepsSafe ==
    ASSUME TypeInv, SafeInv, [Next]_vars, NEW r \in Requests,
           NEW parent \in Jti \cup {Nil},
           parent # Nil => Issued(parent) /\ Spent(parent) /\ r \in Winners(parent),
           MintPair(req[r].uid, req[r].role, parent),
           End(r), UNCHANGED <<storeVars, loggedOut, usedLate>>
    PROVE  SafeInv'
<1>0. TypeOK /\ ClaimsOK
  BY DEF TypeInv
<1>1. PICK a \in Jti, f \in Jti :
             /\ ~Issued(a) /\ ~Issued(f) /\ a # f
             /\ tok' = [tok EXCEPT
                          ![a] = NewToken("access", req[r].uid, req[r].role, AccessTTL, parent),
                          ![f] = NewToken("refresh", req[r].uid, req[r].role, RefreshTTL, parent)]
  BY MintPairEffect
<1>2. /\ \A k \in Jti : k \notin {a, f} => tok'[k] = tok[k]
      /\ tok'[a].kind = "access" /\ tok'[a].parent = parent
      /\ tok'[f].kind = "refresh" /\ tok'[f].parent = parent
  BY <1>0, <1>1 DEF TypeOK, NewToken
<1>3. \A k \in Jti : /\ Issued(k) => tok'[k] = tok[k] /\ (Spent(k) => Spent(k)')
                     /\ Fenced(k)' <=> Fenced(k)
  BY SpentStable DEF storeVars, Fenced, HasJti
<1>4. req'[r] = Idle /\ \A s \in Requests : s # r => req'[s] = req[s]
  BY <1>0 DEF End, Move, TypeOK
<1>5. (\A k \in Jti : tok[k].parent # Nil => Spent(tok[k].parent))'
  <2> SUFFICES ASSUME NEW k \in Jti, tok'[k].parent # Nil PROVE Spent(tok[k].parent)'
    OBVIOUS
  <2>1. tok'[k].parent \in Jti /\ Issued(tok'[k].parent) /\ Spent(tok'[k].parent)
    <3>1. CASE k \in {a, f}
      BY <1>2, <3>1
    <3>2. CASE k \notin {a, f}
      BY <1>0, <1>2, <3>2 DEF TypeOK, Token, ClaimsOK, SafeInv
    <3>3. QED
      BY <3>1, <3>2
  <2>2. \A i \in Jti : i = tok'[k].parent => Spent(i)'
    BY <1>3, <2>1
  <2>3. QED
    BY <2>1, <2>2 DEF Spent, Lapsed, Fenced, HasJti
<1>6. \A s \in Requests : DoneOK(req[s])'
  <2>1. \A s \in Requests : s # r => DoneOK(req[s])'
    BY <1>4, DoneStable DEF SameButSeen
  <2>2. DoneOK(req[r])'
    BY <1>4 DEF DoneOK, Idle, LogoutPc
  <2>3. QED
    BY <2>1, <2>2
<1>7. \A k \in loggedOut' : Spent(k)'
  BY <1>3 DEF TypeInv, TypeOK, SafeInv
<1>8. RotatedAtMostOnce'
  <2>1. \A k \in Jti : Winners(k)' \subseteq Winners(k) \ {r}
    BY <1>4 DEF Winners, Idle
  <2>2. \A k \in Jti : k # parent => Heirs(k)' \subseteq Heirs(k)
    BY <1>2 DEF Heirs
  <2>3. \A k \in Jti : k = parent => Heirs(k)' \subseteq Heirs(k) \cup {f}
    BY <1>2 DEF Heirs
  <2>4. ASSUME NEW k \in Jti, Fenced(k)'
        PROVE  /\ \A p, q \in Winners(k)' : p = q
               /\ Winners(k)' # {} => Heirs(k)' = {}
               /\ \A p, q \in Heirs(k)' : p = q
    <3>1. Fenced(k)
      BY <1>3, <2>4
    <3>2. CASE k # parent
      BY <2>1, <2>2, <3>1, <3>2 DEF SafeInv, RotatedAtMostOnce
    <3>3. CASE k = parent
      <4>1. r \in Winners(k)
        BY <3>3, AuthAssumption DEF AuthAssumption
      <4>2. Heirs(k) = {} /\ Winners(k)' = {}
        BY <2>1, <3>1, <4>1 DEF SafeInv, RotatedAtMostOnce
      <4>3. QED
        BY <2>3, <3>3, <4>2
    <3>4. QED
      BY <3>2, <3>3
  <2>5. QED
    BY <2>4 DEF RotatedAtMostOnce
<1>9. LogoutIsFinal'
  <2>1. \A k \in usedLate : k \in Jti /\ ~Fenced(k)
    BY <1>0 DEF TypeOK, SafeInv, LogoutIsFinal
  <2>2. QED
    BY <1>3, <2>1 DEF LogoutIsFinal
<1>10. QED
  BY <1>5, <1>6, <1>7, <1>8, <1>9 DEF SafeInv

\* Logout names a spent token last: the next one, or the reply.
LEMMA AdvanceKeepsSafe ==
    ASSUME TypeInv, SafeInv, [Next]_vars, NEW r \in Requests, req[r].pc \in LogoutPc,
           LogoutAdvance(r), UNCHANGED <<tok, usedLate>>,
           \A j \in Jti : j = req[r].token => Spent(j)'
    PROVE  SafeInv'
<1>1. HoldsOK(req[r]) /\ DoneOK(req[r]) /\ req[r] \in Request
  BY DEF TypeInv, TypeOK, SafeInv
<1>2. \A j \in req[r].named : j # req[r].next => Spent(j)'
  <2> SUFFICES ASSUME NEW j \in req[r].named, j # req[r].next PROVE Spent(j)'
    OBVIOUS
  <2>1. j \in Jti /\ Issued(j) /\ (j = req[r].token \/ Spent(j))
    BY <1>1 DEF HoldsOK, DoneOK, Request
  <2>2. QED
    BY <2>1, SpentStable
<1>3. CASE req[r].next # Nil
  <2> DEFINE q == [req[r] EXCEPT !.pc = "logout_parse", !.token = req[r].next, !.next = Nil]
  <2>1. req' = [req EXCEPT ![r] = q] /\ UNCHANGED loggedOut
    BY <1>3 DEF LogoutAdvance, Move
  <2>2. q.pc = "logout_parse" /\ q.token = req[r].next /\ q.named = req[r].named
    BY <1>1 DEF Request
  <2>3. req'[r] = q
    BY <2>1 DEF TypeInv, TypeOK
  <2> HIDE DEF q
  <2>4. DoneOK(req[r])'
    BY <1>2, <2>2, <2>3 DEF DoneOK, LogoutPc
  <2>5. QED
    BY <2>1, <2>2, <2>4, MoveKeepsSafe
<1>4. CASE req[r].next = Nil
  <2>1. req' = [req EXCEPT ![r] = Idle] /\ loggedOut' = loggedOut \cup req[r].named
    BY <1>4 DEF LogoutAdvance, End, Move
  <2>2. \A j \in req[r].named : j # Nil
    BY <1>1, AuthAssumption DEF Request, AuthAssumption
  <2>3. \A j \in loggedOut' : j \in loggedOut \/ Spent(j)'
    BY <1>2, <1>4, <2>1, <2>2
  <2>4. \A s \in Requests : s # r => SameButSeen(req'[s], req[s])
    BY <2>1 DEF TypeInv, TypeOK, SameButSeen
  <2>5. req'[r].pc # "refresh_mint" /\ DoneOK(req[r])'
    BY <2>1 DEF TypeInv, TypeOK, DoneOK, Idle, LogoutPc
  <2>6. QED
    BY <2>3, <2>4, <2>5, QuietKeepsSafe
<1>5. QED
  BY <1>3, <1>4

\* Nothing has been rotated, logged out or used in the initial states.
LEMMA InitSafe == Init => SafeInv
<1> SUFFICES ASSUME Init PROVE SafeInv
  OBVIOUS
<1>1. \A j \in Jti : tok[j].parent = Nil
  BY DEF Init, NoToken
<1>2. \A r \in Requests : req[r] = Idle
  BY DEF Init
<1>3. \A j \in Jti : Heirs(j) = {} /\ Winners(j) = {}
  BY <1>1, <1>2, AuthAssumption DEF Heirs, Winners, Idle, AuthAssumption
<1>4. \A r \in Requests : DoneOK(req[r])
  BY <1>2, IdleOK
<1>5. RotatedAtMostOnce
  BY <1>3 DEF RotatedAtMostOnce
<1>6. QED
  BY <1>1, <1>4, <1>5 DEF Init, SafeInv, LogoutIsFinal

\* Every step keeps SafeInv.
LEMMA NextSafe == TypeInv /\ SafeInv /\ [Next]_vars => SafeInv'
<1> SUFFICES ASSUME TypeInv, SafeInv, [Next]_vars PROVE SafeInv'
  OBVIOUS
<1>0. /\ TypeOK
      /\ \A r \in Requests : HoldsOK(req[r]) /\ DoneOK(req[r]) /\ req[r] \in Request
  BY DEF TypeInv, TypeOK, SafeInv
<1>1. ASSUME NEW r \in Requests, NEW u \in Users, LoginUser(r, u) PROVE SafeInv'
  BY <1>1, PlainKeepsSafe DEF LoginUser, Begin, Idle, LogoutPc
<1>2. ASSUME NEW r \in Requests, LoginRole(r) PROVE SafeInv'
  BY <1>0, <1>2, PlainKeepsSafe DEF LoginRole, Goto, End, Move, Idle, LogoutPc, Request
<1>3. ASSUME NEW r \in Requests, LoginTenant(r) PROVE SafeInv'
  <2>1. CASE MintPair(req[r].uid, req[r].role, Nil)
    BY <1>3, <2>1, MintKeepsSafe DEF LoginTenant
  <2>2. CASE UNCHANGED tok
    BY <1>3, <2>2, PlainKeepsSafe DEF LoginTenant, End, Move, Idle, LogoutPc
  <2>3. QED
    BY <1>3, <2>1, <2>2 DEF LoginTenant
<1>4. ASSUME NEW r \in Requests, NEW j \in Jti, RefreshParse(r, j) PROVE SafeInv'
  BY <1>4, PlainKeepsSafe DEF RefreshParse, Begin, Idle, LogoutPc
<1>5. ASSUME NEW r \in Requests, RefreshUser(r) PROVE SafeInv'
  BY <1>0, <1>5, PlainKeepsSafe DEF RefreshUser, End, Move, Idle, LogoutPc, Request
<1>6. ASSUME NEW r \in Requests, RefreshRole(r) PROVE SafeInv'
  BY <1>0, <1>6, PlainKeepsSafe DEF RefreshRole, Goto, End, Move, Idle, LogoutPc, Request
<1>7. ASSUME NEW r \in Requests, RefreshFence(r) PROVE SafeInv'
  BY <1>7, FenceKeepsSafe
<1>8. ASSUME NEW r \in Requests, RefreshMint(r) PROVE SafeInv'
  <2>1. /\ req[r].pc = "refresh_mint" /\ req[r].token \in Jti
        /\ Issued(req[r].token) /\ Spent(req[r].token)
    BY <1>0, <1>8 DEF RefreshMint, At, HoldsOK, DoneOK, RefreshPc
  <2>2. r \in Winners(req[r].token)
    BY <2>1 DEF Winners
  <2>3. QED
    BY <1>8, <2>1, <2>2, MintKeepsSafe DEF RefreshMint
<1>9. ASSUME NEW r \in Requests, NEW a, NEW f, LogoutBegin(r, a, f) PROVE SafeInv'
  <2> DEFINE q == [Idle EXCEPT !.pc = "logout_parse",
                               !.token = IF a # Nil THEN a ELSE f,
                               !.next = IF a # Nil THEN f ELSE Nil,
                               !.named = {a, f} \ {Nil}]
  <2>1. req' = [req EXCEPT ![r] = q] /\ UNCHANGED <<tok, loggedOut, usedLate>>
    BY <1>9 DEF LogoutBegin, Begin
  <2>2. q.pc = "logout_parse" /\ \A j \in q.named : j \in {q.token, q.next}
    BY DEF Idle
  <2>3. req'[r] = q
    BY <2>1 DEF TypeInv, TypeOK
  <2> HIDE DEF q
  <2>4. DoneOK(req[r])'
    BY <2>2, <2>3 DEF DoneOK, LogoutPc
  <2>5. QED
    BY <2>1, <2>2, <2>4, MoveKeepsSafe
<1>10. ASSUME NEW r \in Requests, LogoutParse(r) PROVE SafeInv'
  <2> DEFINE j == req[r].token
  <2>1. req[r].pc \in LogoutPc /\ j \in Jti /\ Issued(j)
    BY <1>0, <1>10 DEF LogoutParse, At, HoldsOK, LogoutPc
  <2>2. CASE Unexpired(j) /\ HasJti(j)
    <3>1. req' = [req EXCEPT ![r] = [req[r] EXCEPT !.pc = "logout_revoke"]]
          /\ UNCHANGED <<tok, loggedOut, usedLate>>
      BY <1>10, <2>2 DEF LogoutParse, Goto, Move
    <3>2. /\ req'[r].pc = "logout_revoke" /\ req'[r].named = req[r].named
          /\ req'[r].token = req[r].token /\ req'[r].next = req[r].next
      BY <1>0, <3>1 DEF TypeOK, Request
    <3>3. \A k \in req[r].named : k \in {req[r].token, req[r].next} \/ Spent(k)'
      <4> TAKE k \in req[r].named
      <4>1. k \in Jti /\ Issued(k) /\ (k \in {req[r].token, req[r].next} \/ Spent(k))
        BY <1>0, <2>1 DEF HoldsOK, DoneOK, Request
      <4>2. QED
        BY <4>1, SpentStable
    <3>4. DoneOK(req[r])'
      BY <3>2, <3>3 DEF DoneOK, LogoutPc
    <3>5. [req[r] EXCEPT !.pc = "logout_revoke"].pc # "refresh_mint"
      BY <1>0 DEF Request
    <3>6. QED
      BY <3>1, <3>4, <3>5, MoveKeepsSafe
  <2>3. CASE ~(Unexpired(j) /\ HasJti(j))
    <3>1. Spent(j)
      BY <1>0, <2>1, <2>3 DEF Unexpired, Spent, Lapsed, Fenced, TypeOK, Token
    <3>2. \A k \in Jti : k = j => Spent(k)'
      BY <2>1, <3>1, SpentStable
    <3>3. QED
      BY <1>10, <2>1, <2>3, <3>2, AdvanceKeepsSafe DEF LogoutParse
  <2>4. QED
    BY <2>2, <2>3
<1>11. ASSUME NEW r \in Requests, LogoutRevoke(r) PROVE SafeInv'
  <2> DEFINE j == req[r].token
  <2>1. /\ req[r].pc \in LogoutPc /\ j \in Jti /\ Issued(j)
        /\ now \in Nat /\ tok[j].exp \in Nat
    BY <1>0, <1>11 DEF LogoutRevoke, At, HoldsOK, LogoutPc, TypeOK, Token
  <2>2. RevokeUntil(j) \in Nat /\ RevokeUntil(j) > now
        /\ (tok[j].exp > now => RevokeUntil(j) = tok[j].exp)
    BY <2>1, AuthAssumption DEF RevokeUntil, AuthAssumption
  <2>3. Insert(j, RevokeUntil(j)) /\ UNCHANGED <<now, tok>>
    BY <1>11, <2>2 DEF LogoutRevoke, Revoke
  <2>4. revoked'[j] = RevokeUntil(j)
    BY <1>0, <2>1, <2>2, <2>3, InsertSets
  <2>5. \A k \in Jti : k = j => Spent(k)'
    BY <2>1, <2>2, <2>3, <2>4 DEF Spent, Lapsed
  <2>6. QED
    BY <1>11, <2>1, <2>5, AdvanceKeepsSafe DEF LogoutRevoke
<1>12. ASSUME NEW r \in Requests, NEW j \in Jti, ApiValidate(r, j) PROVE SafeInv'
  <2>0. UNCHANGED <<tok, loggedOut, usedLate, now>>
    BY <1>12 DEF ApiValidate
  <2>1. CASE Held(j)
    BY <1>12, <2>0, <2>1, PlainKeepsSafe DEF ApiValidate, Begin, Idle, LogoutPc
  <2>2. CASE ~Held(j)
    <3> DEFINE q == [Idle EXCEPT !.pc = "api_parse", !.token = j, !.late = j \in loggedOut]
    <3>1. req' = [req EXCEPT ![r] = q]
      BY <1>12, <2>2 DEF ApiValidate, Begin
    <3>2. q.pc = "api_parse" /\ q.token = j /\ (q.late => j \in loggedOut)
      BY DEF Idle
    <3>3. req'[r] = q
      BY <3>1 DEF TypeInv, TypeOK
    <3> HIDE DEF q
    <3>4. j \in loggedOut => Lapsed(j)'
      <4>1. j \in loggedOut => Spent(j)
        BY DEF SafeInv
      <4>2. j \in loggedOut => Lapsed(j)
        BY <1>0, <2>2, <4>1 DEF Spent, Lapsed, Held, TypeOK, Token
      <4>3. Issued(j)
        BY <1>12 DEF ApiValidate, Issued
      <4>4. QED
        BY <4>2, <4>3, SpentStable
    <3>5. (req[r].pc = "api_parse" /\ req[r].late => Lapsed(req[r].token))'
      BY <3>2, <3>3, <3>4 DEF Lapsed, Fenced, HasJti
    <3>6. DoneOK(req[r])'
      BY <3>2, <3>3, <3>5 DEF DoneOK, LogoutPc
    <3>7. QED
      BY <2>0, <3>1, <3>2, <3>6, MoveKeepsSafe
  <2>3. QED
    BY <2>1, <2>2
<1>13. ASSUME NEW r \in Requests, ApiParse(r) PROVE SafeInv'
  <2> DEFINE j == req[r].token
  <2>1. req' = [req EXCEPT ![r] = Idle] /\ UNCHANGED <<tok, loggedOut>>
    BY <1>13 DEF ApiParse, End, Move
  <2>2. \A s \in Requests : s # r => SameButSeen(req'[s], req[s])
    BY <2>1 DEF TypeInv, TypeOK, SameButSeen
  <2>3. req'[r].pc # "refresh_mint" /\ DoneOK(req[r])'
    BY <2>1 DEF TypeInv, TypeOK, DoneOK, Idle, LogoutPc
  <2>4. j \in Jti /\ Issued(j) /\ (req[r].late => Lapsed(j))
    BY <1>0, <1>13 DEF ApiParse, At, HoldsOK, DoneOK
  <2>5. Unexpired(j) /\ req[r].late => ~Fenced(j)
    BY <1>0, <2>4 DEF Lapsed, Unexpired, TypeOK, Token
  <2>6. \A k \in Jti : k = j /\ ~Fenced(k) => ~Fenced(k)'
    BY <2>4, SpentStable
  <2>7. usedLate' = IF Unexpired(j) /\ req[r].late THEN usedLate \cup {j} ELSE usedLate
    BY <1>13 DEF ApiParse
  <2>8. \A k \in usedLate' : k \in usedLate \/ ~Fenced(k)'
    BY <2>4, <2>5, <2>6, <2>7
  <2>9. QED
    BY <2>1, <2>2, <2>3, <2>8, QuietKeepsSafe
<1>14. ASSUME NEW r \in Requests, RequestFails(r) PROVE SafeInv'
  BY <1>14, PlainKeepsSafe DEF RequestFails, End, Move, Idle, LogoutPc
<1>15. ASSUME NEW rows, NEW on, Witness(rows, on), UNCHANGED <<tok, loggedOut, usedLate>>
       PROVE  SafeInv'
  <2>1. \A s \in Requests : SameButSeen(req'[s], req[s])
    <3> TAKE s \in Requests
    <3> DEFINE extra == IF req[s].uid = Nil THEN {} ELSE {rows[req[s].uid]}
               q == [req[s] EXCEPT !.rows = @ \cup extra, !.on = @ \cup on]
    <3>1. req'[s] = IF At(s, "idle") THEN req[s] ELSE q
      BY <1>15 DEF Witness
    <3> HIDE DEF extra
    <3>2. SameButSeen(q, req[s]) /\ SameButSeen(req[s], req[s])
      BY <1>0 DEF SameButSeen, Request
    <3> HIDE DEF q
    <3>3. QED
      BY <3>1, <3>2
  <2>2. QED
    BY <1>15, <2>1, QuietKeepsSafe
<1>16. ASSUME NEW u \in Users, NEW row \in Row, SetUser(u, row) PROVE SafeInv'
  BY <1>15, <1>16 DEF SetUser
<1>17. ASSUME NEW x \in Roles, SetRole(x) PROVE SafeInv'
  BY <1>15, <1>17 DEF SetRole
<1>18. ASSUME UNCHANGED <<tok, req, loggedOut, usedLate>> PROVE SafeInv'
  BY <1>18, QuietKeepsSafe DEF SameButSeen
<1>19. CASE SetTenant
  BY <1>18, <1>19 DEF SetTenant
<1>20. CASE Tick
  BY <1>18, <1>20 DEF Tick, authVars
<1>21. CASE Restart
  <2>1. \A s \in Requests : req'[s].pc # "refresh_mint" /\ DoneOK(req[s])'
    BY <1>21 DEF Restart, DoneOK, Idle, LogoutPc
  <2>2. QED
    BY <1>21, <2>1, QuietKeepsSafe DEF Restart
<1>22. CASE UNCHANGED vars
  BY <1>18, <1>22 DEF vars, authVars
<1>23. QED
  BY <1>1, <1>2, <1>3, <1>4, <1>5, <1>6, <1>7, <1>8, <1>9, <1>10, <1>11, <1>12, <1>13,
     <1>14, <1>16, <1>17, <1>19, <1>20, <1>21, <1>22 DEF Next

\* TypeInv and SafeInv together are inductive.
THEOREM SafetyHolds == Spec => [](TypeInv /\ SafeInv)
BY InitTypeInv, InitSafe, NextTypeInv, NextSafe, PTL DEF Spec

\* RefreshToken's fence: in every reachable state of every instance, a fenced
\* refresh token has at most one winner, one exchange, and never both.
THEOREM RotationTheorem == Spec => []RotatedAtMostOnce
<1>1. SafeInv => RotatedAtMostOnce
  BY DEF SafeInv
<1>2. QED
  BY <1>1, SafetyHolds, PTL

\* Logout: in every instance, a fenced token that a completed Logout named is
\* neither served by the JWT middleware nor exchanged afterwards.
THEOREM LogoutTheorem == Spec => []LogoutIsFinal
<1>1. SafeInv => LogoutIsFinal
  BY DEF SafeInv
<1>2. QED
  BY <1>1, SafetyHolds, PTL

-----------------------------------------------------------------------------
(* The denylist's size.                                                    *)

\* What a step does to the denylist: nothing, an insertion that lasts as long as
\* the token it is for, the lazy drop of an expired entry, or a restart.
LEMMA StoreSteps ==
    ASSUME TypeInv, [Next]_vars
    PROVE  \/ UNCHANGED <<revoked, forgotten>>
           \/ \E j \in Jti, until \in Nat :
                 /\ Insert(j, until) /\ UNCHANGED <<now, tok>>
                 /\ Issued(j) /\ until > now /\ until >= tok[j].exp
           \/ \E j \in Jti : ReadRevoked(j) /\ UNCHANGED <<now, tok>>
           \/ StoreRestart /\ UNCHANGED <<now, tok>>
<1> DEFINE Goal ==
              \/ UNCHANGED <<revoked, forgotten>>
              \/ \E j \in Jti, until \in Nat :
                    /\ Insert(j, until) /\ UNCHANGED <<now, tok>>
                    /\ Issued(j) /\ until > now /\ until >= tok[j].exp
              \/ \E j \in Jti : ReadRevoked(j) /\ UNCHANGED <<now, tok>>
              \/ StoreRestart /\ UNCHANGED <<now, tok>>
<1>0. TypeOK /\ \A r \in Requests : HoldsOK(req[r])
  BY DEF TypeInv
<1>1. ASSUME NEW r \in Requests, RefreshFence(r) PROVE Goal
  <2> DEFINE j == req[r].token
  <2>1. j \in Jti /\ Issued(j) /\ tok[j].exp \in Nat
    BY <1>0, <1>1 DEF RefreshFence, At, HoldsOK, RefreshPc, TypeOK, Token
  <2>2. UNCHANGED <<now, tok>>
    BY <1>1 DEF RefreshFence
  <2>3. CASE Claim(j, tok[j].exp)
    BY <2>1, <2>2, <2>3 DEF Claim, Claimable
  <2>4. QED
    BY <1>1, <2>3 DEF RefreshFence
<1>2. ASSUME NEW r \in Requests, LogoutRevoke(r) PROVE Goal
  <2> DEFINE j == req[r].token
  <2>1. j \in Jti /\ Issued(j) /\ tok[j].exp \in Nat /\ now \in Nat
    BY <1>0, <1>2 DEF LogoutRevoke, At, HoldsOK, LogoutPc, TypeOK, Token
  <2>2. /\ RevokeUntil(j) \in Nat /\ RevokeUntil(j) > now
        /\ RevokeUntil(j) >= tok[j].exp
    BY <2>1, AuthAssumption DEF RevokeUntil, AuthAssumption
  <2>3. Insert(j, RevokeUntil(j)) /\ UNCHANGED <<now, tok>>
    BY <1>2, <2>2 DEF LogoutRevoke, Revoke
  <2>4. QED
    BY <2>1, <2>2, <2>3
<1>3. ASSUME NEW r \in Requests, NEW j \in Jti, ApiValidate(r, j) PROVE Goal
  BY <1>3 DEF ApiValidate
<1>4. CASE Restart
  BY <1>4 DEF Restart
<1>5. ASSUME UNCHANGED storeVars PROVE Goal
  BY <1>5 DEF storeVars
<1>6. ASSUME NEW r \in Requests,
             \/ \E u \in Users : LoginUser(r, u)
             \/ LoginRole(r) \/ LoginTenant(r)
             \/ \E j \in Jti : RefreshParse(r, j)
             \/ RefreshUser(r) \/ RefreshRole(r) \/ RefreshMint(r)
             \/ \E a \in OfKind("access") \cup {Nil}, f \in OfKind("refresh") \cup {Nil} :
                  LogoutBegin(r, a, f)
             \/ LogoutParse(r) \/ ApiParse(r) \/ RequestFails(r)
      PROVE  UNCHANGED storeVars
  BY <1>6 DEF LoginUser, LoginRole, LoginTenant, RefreshParse, RefreshUser, RefreshRole,
              RefreshMint, LogoutBegin, LogoutParse, ApiParse, RequestFails
<1>7. ASSUME (\E u \in Users, row \in Row : SetUser(u, row)) \/ (\E x \in Roles : SetRole(x))
                \/ SetTenant \/ UNCHANGED vars
      PROVE  UNCHANGED storeVars
  BY <1>7 DEF SetUser, SetRole, SetTenant, vars
<1>8. CASE Tick
  BY <1>8 DEF Tick
<1> HIDE DEF Goal
<1>9. Goal
  BY <1>1, <1>2, <1>3, <1>4, <1>5, <1>6, <1>7, <1>8 DEF Next, Goal
<1>10. QED
  BY <1>9 DEF Goal

\* sweepLocked, evictOneLocked and the insertion leave at most Capacity entries
\* where there were at most that many: a full map gives one up for the new one.
LEMMA InsertBounded ==
    ASSUME TypeOK, DenylistBounded, NEW j \in Jti, NEW until \in Nat, Insert(j, until)
    PROVE  DenylistBounded'
<1> DEFINE E == Entries(Sweep)
<1>1. Sweep \in [Jti -> Nat]
  BY DEF TypeOK, Sweep
<1>2. IsFiniteSet(Jti) /\ Capacity \in Nat \ {0}
  BY TokenStoreAssumption
<1>3. Entries(revoked) \subseteq Jti /\ E \subseteq Entries(revoked)
  BY DEF Entries, Sweep, TypeOK
<1>4. IsFiniteSet(Entries(revoked)) /\ IsFiniteSet(E)
  BY <1>2, <1>3, FS_Subset
<1>5. Cardinality(E) \in Nat /\ Cardinality(E) <= Cardinality(Entries(revoked))
         /\ Cardinality(Entries(revoked)) \in Nat
  BY <1>3, <1>4, FS_Subset, FS_CardinalityType
<1>6. Cardinality(E) <= Capacity
  BY <1>2, <1>5 DEF DenylistBounded
<1>7. IsFiniteSet(E \cup {j}) /\ Cardinality(E \cup {j}) \in Nat
         /\ Cardinality(E \cup {j}) <= Cardinality(E) + 1
         /\ (j \in E => E \cup {j} = E)
  <2>1. IsFiniteSet(E \cup {j})
           /\ Cardinality(E \cup {j}) = IF j \in E THEN Cardinality(E) ELSE Cardinality(E) + 1
    BY <1>4, FS_AddElement
  <2>2. QED
    BY <1>5, <2>1
<1>8. CASE ~Full(Sweep, j) /\ revoked' = [Sweep EXCEPT ![j] = until]
  <2>1. Entries(revoked') \subseteq E \cup {j}
    BY <1>1, <1>8 DEF Entries
  <2>2. Cardinality(Entries(revoked')) <= Cardinality(E \cup {j})
           /\ Cardinality(Entries(revoked')) \in Nat
    BY <1>7, <2>1, FS_Subset, FS_CardinalityType
  <2>3. CASE j \in E
    BY <1>2, <1>5, <1>6, <1>7, <2>2, <2>3 DEF DenylistBounded, Entries
  <2>4. CASE j \notin E
    <3>1. Cardinality(E) < Capacity
      BY <1>2, <1>5, <1>8, <2>4 DEF Full, Entries
    <3>2. QED
      BY <1>2, <1>5, <1>7, <2>2, <3>1 DEF DenylistBounded, Entries
  <2>5. QED
    BY <2>3, <2>4
<1>9. ASSUME Full(Sweep, j), NEW victim \in Soonest(Sweep),
             revoked' = [Sweep EXCEPT ![victim] = 0, ![j] = until]
      PROVE  DenylistBounded'
  <2>1. victim \in E /\ j \notin E
    BY <1>9 DEF Soonest, Full, Entries
  <2>2. Entries(revoked') \subseteq (E \cup {j}) \ {victim}
    BY <1>1, <1>9, <2>1 DEF Entries
  <2>3. IsFiniteSet((E \cup {j}) \ {victim})
           /\ Cardinality((E \cup {j}) \ {victim}) = Cardinality(E \cup {j}) - 1
    BY <1>7, <2>1, FS_RemoveElement
  <2>4. Cardinality(Entries(revoked')) <= Cardinality((E \cup {j}) \ {victim})
           /\ Cardinality(Entries(revoked')) \in Nat
    BY <2>2, <2>3, FS_Subset, FS_CardinalityType
  <2>5. QED
    BY <1>2, <1>5, <1>6, <1>7, <2>3, <2>4 DEF DenylistBounded, Entries
<1>10. QED
  BY <1>8, <1>9 DEF Insert

\* The denylist never holds more than its capacity, for any capacity and any
\* sequence of revocations, claims, lookups and restarts.
THEOREM DenylistTheorem == Spec => []DenylistBounded
<1>1. Init => DenylistBounded
  <2>1. Init => Entries(revoked) = {}
    BY DEF Init, StoreInit, Entries
  <2>2. Cardinality({}) = 0 /\ Capacity \in Nat
    BY FS_EmptySet, TokenStoreAssumption
  <2>3. QED
    BY <2>1, <2>2 DEF DenylistBounded
<1>2. TypeInv /\ DenylistBounded /\ [Next]_vars => DenylistBounded'
  <2> SUFFICES ASSUME TypeInv, DenylistBounded, [Next]_vars PROVE DenylistBounded'
    OBVIOUS
  <2>0. TypeOK /\ revoked \in [Jti -> Nat] /\ IsFiniteSet(Jti) /\ Capacity \in Nat
    BY TokenStoreAssumption DEF TypeInv, TypeOK
  <2>1. ASSUME Entries(revoked') \subseteq Entries(revoked) PROVE DenylistBounded'
    <3>1. IsFiniteSet(Entries(revoked))
      BY <2>0, FS_Subset DEF Entries
    <3>2. Cardinality(Entries(revoked')) <= Cardinality(Entries(revoked))
             /\ Cardinality(Entries(revoked)) \in Nat /\ Cardinality(Entries(revoked')) \in Nat
      BY <2>1, <3>1, FS_Subset, FS_CardinalityType
    <3>3. QED
      BY <2>0, <3>2 DEF DenylistBounded, Entries
  <2>2. CASE UNCHANGED revoked
    BY <2>1, <2>2
  <2>3. ASSUME NEW j \in Jti, NEW until \in Nat, Insert(j, until) PROVE DenylistBounded'
    BY <2>0, <2>3, InsertBounded
  <2>4. ASSUME NEW j \in Jti, ReadRevoked(j) PROVE DenylistBounded'
    <3>1. Entries(revoked') \subseteq Entries(revoked)
      BY <2>0, <2>4 DEF ReadRevoked, Entries
    <3>2. QED
      BY <2>1, <3>1
  <2>5. CASE StoreRestart
    <3>1. Entries(revoked') \subseteq Entries(revoked)
      BY <2>5 DEF StoreRestart, Entries
    <3>2. QED
      BY <2>1, <3>1
  <2>6. QED
    BY <2>2, <2>3, <2>4, <2>5, StoreSteps
<1>3. QED
  BY <1>1, <1>2, SafetyHolds, PTL DEF Spec

-----------------------------------------------------------------------------
(* The rows a pair is minted from.                                         *)

\* What a login or a refresh has seen: the rows as they are now, at least, the
\* row it read, and the role it found enabled.
SeenOK(q) ==
    /\ q.pc \in LoginPc \cup RefreshPc => user[q.uid] \in q.rows /\ roleOn \subseteq q.on
    /\ q.pc \in LoginPc \cup {"refresh_role", "refresh_fence", "refresh_mint"} =>
         [status |-> "enabled", role |-> q.role] \in q.rows
    /\ q.pc \in {"login_tenant", "refresh_fence", "refresh_mint"} => q.role \in q.on

SeenInv == \A r \in Requests : SeenOK(req[r])

\* A step of one request that leaves the account rows alone.
LEMMA MoveKeepsSeen ==
    ASSUME TypeInv, SeenInv, UNCHANGED <<user, roleOn>>, NEW r \in Requests, NEW q, SeenOK(q),
           req' = [req EXCEPT ![r] = q]
    PROVE  SeenInv'
<1>1. \A s \in Requests : SeenOK(req'[s])
  BY DEF TypeInv, TypeOK, SeenInv
<1>2. QED
  BY <1>1 DEF SeenInv, SeenOK

\* A request that is not a login or a refresh has nothing to show.
LEMMA OtherSeen ==
    ASSUME NEW q, q.pc \notin LoginPc \cup RefreshPc
    PROVE  SeenOK(q)
BY DEF SeenOK, LoginPc, RefreshPc

\* An enabled row is the row of its role.
LEMMA EnabledRow ==
    ASSUME NEW row \in Row, row.status = "enabled"
    PROVE  row = [status |-> "enabled", role |-> row.role]
BY DEF Row

\* An edit of a row or a role is seen by every request in flight.
LEMMA WitnessKeepsSeen ==
    ASSUME TypeInv, SeenInv, Witness(user', roleOn')
    PROVE  SeenInv'
<1> SUFFICES ASSUME NEW s \in Requests PROVE SeenOK(req[s])'
  BY DEF SeenInv
<1>1. req[s] \in Request /\ SeenOK(req[s]) /\ HoldsOK(req[s])
  BY DEF TypeInv, TypeOK, SeenInv
<1> DEFINE extra == IF req[s].uid = Nil THEN {} ELSE {user'[req[s].uid]}
           q == [req[s] EXCEPT !.rows = @ \cup extra, !.on = @ \cup roleOn']
<1>2. req'[s] = IF At(s, "idle") THEN req[s] ELSE q
  BY DEF Witness
<1>3. CASE At(s, "idle")
  BY <1>2, <1>3 DEF At, SeenOK, LoginPc, RefreshPc
<1>4. CASE ~At(s, "idle")
  <2>1. /\ q.pc = req[s].pc /\ q.uid = req[s].uid /\ q.role = req[s].role
        /\ q.rows = req[s].rows \cup extra /\ q.on = req[s].on \cup roleOn'
    BY <1>1 DEF Request
  <2>2. req'[s] = q
    BY <1>2, <1>4
  <2>3. q.pc \in LoginPc \cup RefreshPc => user'[q.uid] \in extra
    BY <1>1, <2>1, AuthAssumption DEF HoldsOK, AuthAssumption
  <2> HIDE DEF q, extra
  <2>4. QED
    BY <1>1, <2>1, <2>2, <2>3 DEF SeenOK
<1>5. QED
  BY <1>3, <1>4

\* Every step keeps what logins and refreshes have seen.
LEMMA NextSeen == TypeInv /\ SeenInv /\ [Next]_vars => SeenInv'
<1> SUFFICES ASSUME TypeInv, SeenInv, [Next]_vars PROVE SeenInv'
  OBVIOUS
<1>0. /\ TypeOK
      /\ \A r \in Requests : HoldsOK(req[r]) /\ SeenOK(req[r]) /\ req[r] \in Request
  BY DEF TypeInv, TypeOK, SeenInv
<1>1. SeenOK(Idle)
  BY OtherSeen DEF Idle, LoginPc, RefreshPc
<1>2. ASSUME NEW r \in Requests, UNCHANGED <<user, roleOn>>, req' = [req EXCEPT ![r] = Idle]
      PROVE  SeenInv'
  BY <1>1, <1>2, MoveKeepsSeen
<1>3. ASSUME NEW r \in Requests, NEW u \in Users, LoginUser(r, u) PROVE SeenInv'
  <2> DEFINE q == [Idle EXCEPT !.pc = "login_role", !.uid = u, !.role = user[u].role,
                               !.rows = {user[u]}, !.on = roleOn]
  <2>1. q.pc = "login_role" /\ q.uid = u /\ q.role = user[u].role /\ q.rows = {user[u]}
           /\ q.on = roleOn
    BY DEF Idle
  <2>2. user[u] = [status |-> "enabled", role |-> user[u].role]
    BY <1>0, <1>3, EnabledRow DEF LoginUser, TypeOK
  <2>3. req' = [req EXCEPT ![r] = q] /\ UNCHANGED <<user, roleOn>>
    BY <1>3 DEF LoginUser, Begin, accountVars
  <2> HIDE DEF q
  <2>4. SeenOK(q)
    BY <2>1, <2>2 DEF SeenOK, LoginPc, RefreshPc
  <2>5. QED
    BY <2>3, <2>4, MoveKeepsSeen
<1>4. ASSUME NEW r \in Requests, LoginRole(r) PROVE SeenInv'
  <2> DEFINE q == [req[r] EXCEPT !.pc = "login_tenant"]
  <2>1. UNCHANGED <<user, roleOn>>
    BY <1>4 DEF LoginRole, accountVars
  <2>2. CASE req[r].role \in roleOn
    <3>1. q.pc = "login_tenant" /\ q.uid = req[r].uid /\ q.role = req[r].role
             /\ q.rows = req[r].rows /\ q.on = req[r].on
      BY <1>0 DEF Request
    <3>2. req[r].pc = "login_role" /\ req' = [req EXCEPT ![r] = q]
      BY <1>4, <2>2 DEF LoginRole, At, Goto, Move
    <3> HIDE DEF q
    <3>3. SeenOK(q)
      BY <1>0, <2>2, <3>1, <3>2 DEF SeenOK, LoginPc, RefreshPc
    <3>4. QED
      BY <2>1, <3>2, <3>3, MoveKeepsSeen
  <2>3. CASE req[r].role \notin roleOn
    BY <1>2, <1>4, <2>1, <2>3 DEF LoginRole, End, Move
  <2>4. QED
    BY <2>2, <2>3
<1>5. ASSUME NEW r \in Requests, LoginTenant(r) \/ RefreshMint(r) PROVE SeenInv'
  BY <1>2, <1>5 DEF LoginTenant, RefreshMint, End, Move, accountVars
<1>6. ASSUME NEW r \in Requests, NEW j \in Jti, RefreshParse(r, j) PROVE SeenInv'
  <2> DEFINE q == [Idle EXCEPT !.pc = "refresh_user", !.token = j, !.uid = tok[j].uid,
                               !.role = tok[j].role,
                               !.rows = {user[tok[j].uid]}, !.on = roleOn]
  <2>1. q.pc = "refresh_user" /\ q.uid = tok[j].uid /\ q.rows = {user[tok[j].uid]}
           /\ q.on = roleOn
    BY DEF Idle
  <2>2. req' = [req EXCEPT ![r] = q] /\ UNCHANGED <<user, roleOn>>
    BY <1>6 DEF RefreshParse, Begin, accountVars
  <2> HIDE DEF q
  <2>3. SeenOK(q)
    BY <2>1 DEF SeenOK, LoginPc, RefreshPc
  <2>4. QED
    BY <2>2, <2>3, MoveKeepsSeen
<1>7. ASSUME NEW r \in Requests, RefreshUser(r) PROVE SeenInv'
  <2> DEFINE row == user[req[r].uid]
             q == [req[r] EXCEPT !.pc = "refresh_role", !.role = row.role]
  <2>1. UNCHANGED <<user, roleOn>> /\ req[r].pc = "refresh_user"
    BY <1>7 DEF RefreshUser, At, accountVars
  <2>2. CASE row.status = "enabled"
    <3>1. req[r].uid \in Users
      BY <1>0, <2>1 DEF HoldsOK, RefreshPc
    <3>2. row = [status |-> "enabled", role |-> row.role]
      BY <1>0, <2>2, <3>1, EnabledRow DEF TypeOK
    <3>3. q.pc = "refresh_role" /\ q.uid = req[r].uid /\ q.role = row.role
             /\ q.rows = req[r].rows /\ q.on = req[r].on
      BY <1>0 DEF Request
    <3>4. req' = [req EXCEPT ![r] = q]
      BY <1>7, <2>2 DEF RefreshUser, Move
    <3> HIDE DEF q
    <3>5. SeenOK(q)
      BY <1>0, <2>1, <3>2, <3>3 DEF SeenOK, LoginPc, RefreshPc
    <3>6. QED
      BY <2>1, <3>4, <3>5, MoveKeepsSeen
  <2>3. CASE row.status # "enabled"
    BY <1>2, <1>7, <2>1, <2>3 DEF RefreshUser, End, Move
  <2>4. QED
    BY <2>2, <2>3
<1>8. ASSUME NEW r \in Requests, RefreshRole(r) PROVE SeenInv'
  <2> DEFINE q == [req[r] EXCEPT !.pc = "refresh_fence"]
  <2>1. UNCHANGED <<user, roleOn>>
    BY <1>8 DEF RefreshRole, accountVars
  <2>2. CASE req[r].role \in roleOn
    <3>1. q.pc = "refresh_fence" /\ q.uid = req[r].uid /\ q.role = req[r].role
             /\ q.rows = req[r].rows /\ q.on = req[r].on
      BY <1>0 DEF Request
    <3>2. req[r].pc = "refresh_role" /\ req' = [req EXCEPT ![r] = q]
      BY <1>8, <2>2 DEF RefreshRole, At, Goto, Move
    <3> HIDE DEF q
    <3>3. SeenOK(q)
      BY <1>0, <2>2, <3>1, <3>2 DEF SeenOK, LoginPc, RefreshPc
    <3>4. QED
      BY <2>1, <3>2, <3>3, MoveKeepsSeen
  <2>3. CASE req[r].role \notin roleOn
    BY <1>2, <1>8, <2>1, <2>3 DEF RefreshRole, End, Move
  <2>4. QED
    BY <2>2, <2>3
<1>9. ASSUME NEW r \in Requests, RefreshFence(r) PROVE SeenInv'
  <2> DEFINE q == [req[r] EXCEPT !.pc = "refresh_mint"]
  <2>1. UNCHANGED <<user, roleOn>> /\ req[r].pc = "refresh_fence"
    BY <1>9 DEF RefreshFence, At, accountVars
  <2>2. q.pc = "refresh_mint" /\ q.uid = req[r].uid /\ q.role = req[r].role
           /\ q.rows = req[r].rows /\ q.on = req[r].on
    BY <1>0 DEF Request
  <2>3. req' = [req EXCEPT ![r] = q] \/ req' = [req EXCEPT ![r] = Idle]
    BY <1>9 DEF RefreshFence, Goto, End, Move
  <2> HIDE DEF q
  <2>4. SeenOK(q)
    BY <1>0, <2>1, <2>2 DEF SeenOK, LoginPc, RefreshPc
  <2>5. QED
    BY <1>2, <2>1, <2>3, <2>4, MoveKeepsSeen
<1>10. ASSUME NEW r \in Requests, NEW q, req' = [req EXCEPT ![r] = q],
              q.pc \notin LoginPc \cup RefreshPc, UNCHANGED <<user, roleOn>>
       PROVE  SeenInv'
  BY <1>10, OtherSeen, MoveKeepsSeen
<1>11. ASSUME NEW r \in Requests, NEW a, NEW f, LogoutBegin(r, a, f) PROVE SeenInv'
  <2> DEFINE q == [Idle EXCEPT !.pc = "logout_parse", !.token = IF a # Nil THEN a ELSE f,
                     !.next = IF a # Nil THEN f ELSE Nil, !.named = {a, f} \ {Nil}]
  <2>1. req' = [req EXCEPT ![r] = q] /\ UNCHANGED <<user, roleOn>>
    BY <1>11 DEF LogoutBegin, Begin, accountVars
  <2>2. q.pc \notin LoginPc \cup RefreshPc
    BY DEF Idle, LoginPc, RefreshPc
  <2> HIDE DEF q
  <2>3. QED
    BY <1>10, <2>1, <2>2
<1>12. ASSUME NEW r \in Requests, LogoutParse(r) \/ LogoutRevoke(r) PROVE SeenInv'
  <2>1. UNCHANGED <<user, roleOn>>
    BY <1>12 DEF LogoutParse, LogoutRevoke, accountVars
  <2>2. \/ req' = [req EXCEPT ![r] = Idle]
        \/ req' = [req EXCEPT ![r] = [req[r] EXCEPT !.pc = "logout_revoke"]]
        \/ req' = [req EXCEPT ![r] = [req[r] EXCEPT !.pc = "logout_parse",
                                         !.token = req[r].next, !.next = Nil]]
    BY <1>12 DEF LogoutParse, LogoutRevoke, LogoutAdvance, Goto, End, Move
  <2>3. /\ [req[r] EXCEPT !.pc = "logout_revoke"].pc = "logout_revoke"
        /\ [req[r] EXCEPT !.pc = "logout_parse", !.token = req[r].next, !.next = Nil].pc
             = "logout_parse"
    BY <1>0 DEF Request
  <2>4. {"logout_revoke", "logout_parse"} \cap (LoginPc \cup RefreshPc) = {}
    BY DEF LoginPc, RefreshPc
  <2>5. QED
    BY <1>2, <1>10, <2>1, <2>2, <2>3, <2>4
<1>13. ASSUME NEW r \in Requests, NEW j \in Jti, ApiValidate(r, j) PROVE SeenInv'
  <2> DEFINE q == [Idle EXCEPT !.pc = "api_parse", !.token = j, !.late = j \in loggedOut]
  <2>1. (req' = [req EXCEPT ![r] = Idle] \/ req' = [req EXCEPT ![r] = q])
           /\ UNCHANGED <<user, roleOn>>
    BY <1>13 DEF ApiValidate, Begin, accountVars
  <2>2. q.pc \notin LoginPc \cup RefreshPc
    BY DEF Idle, LoginPc, RefreshPc
  <2> HIDE DEF q
  <2>3. QED
    BY <1>2, <1>10, <2>1, <2>2
<1>14. ASSUME NEW r \in Requests, ApiParse(r) \/ RequestFails(r) PROVE SeenInv'
  BY <1>2, <1>14 DEF ApiParse, RequestFails, End, Move, accountVars
<1>15. ASSUME NEW u \in Users, NEW row \in Row, SetUser(u, row) PROVE SeenInv'
  BY <1>15, WitnessKeepsSeen DEF SetUser
<1>16. ASSUME NEW x \in Roles, SetRole(x) PROVE SeenInv'
  BY <1>16, WitnessKeepsSeen DEF SetRole
<1>17. CASE UNCHANGED <<user, roleOn, req>>
  BY <1>17 DEF SeenInv, SeenOK
<1>18. CASE SetTenant \/ Tick \/ UNCHANGED vars
  BY <1>17, <1>18 DEF SetTenant, Tick, vars, authVars
<1>19. CASE Restart
  <2>1. \A r \in Requests : req'[r].pc = "idle"
    BY <1>19 DEF Restart, Idle
  <2>2. QED
    BY <2>1 DEF SeenInv, SeenOK, LoginPc, RefreshPc
<1>20. QED
  BY <1>3, <1>4, <1>5, <1>6, <1>7, <1>8, <1>9, <1>11, <1>12, <1>13, <1>14, <1>15, <1>16,
     <1>18, <1>19 DEF Next

\* Login and RefreshToken mint from rows that were current during the request: the
\* user was enabled with the very role the token carries, and the role was enabled,
\* however an administrator's edits fall between the reads.
THEOREM MintTheorem == Spec => []MintFromCurrentRow
<1>1. Init => SeenInv
  BY DEF Init, Idle, SeenInv, SeenOK, LoginPc, RefreshPc
<1>2. TypeInv /\ SeenInv /\ [Next]_vars => SeenInv'
  BY NextSeen
<1>3. SeenInv => MintFromCurrentRow
  BY DEF SeenInv, SeenOK, MintFromCurrentRow, LoginPc
<1>4. QED
  BY <1>1, <1>2, <1>3, SafetyHolds, PTL DEF Spec

-----------------------------------------------------------------------------
(* Refinement: the token life cycle implements OneTimeToken.               *)

\* The denylist and its losses are about issued tokens, and an entry lasts as
\* long as its token: an expired entry can be dropped without reviving one.
LinkInv ==
    /\ \A j \in LegacyTokens : Issued(j)
    /\ \A j \in forgotten : Issued(j)
    /\ \A j \in Jti : revoked[j] # 0 => Issued(j) /\ revoked[j] >= tok[j].exp

\* Every id starts without an entry; the only tokens are the jti-less ones.
LEMMA InitLink == Init => LinkInv
<1> SUFFICES ASSUME Init PROVE LinkInv
  OBVIOUS
<1>1. \A j \in LegacyTokens : Issued(j)
  BY AuthAssumption DEF Init, Issued, AuthAssumption
<1>2. QED
  BY <1>1 DEF Init, StoreInit, LinkInv

\* Revoke, RevokeIfNotRevoked, Revoked, the sweep and a restart all keep the
\* entries tied to their tokens.
LEMMA NextLink == TypeInv /\ LinkInv /\ [Next]_vars => LinkInv'
<1> SUFFICES ASSUME TypeInv, LinkInv, [Next]_vars PROVE LinkInv'
  OBVIOUS
<1>0. /\ TypeOK /\ now \in Nat /\ LegacyTokens \subseteq Jti
      /\ \A j \in Jti : revoked[j] \in Nat /\ tok[j].exp \in Nat
  BY AuthAssumption DEF TypeInv, TypeOK, Token, AuthAssumption
<1>1. \A j \in Jti : Issued(j) => tok'[j] = tok[j] /\ Issued(j)'
  BY SpentStable DEF Issued
<1>2. \A j \in LegacyTokens : Issued(j)'
  BY <1>0, <1>1 DEF LinkInv
<1>3. \A j \in forgotten' : j \in Jti /\ Issued(j)
  <2>1. \A j \in forgotten : j \in Jti /\ Issued(j)
    BY <1>0 DEF LinkInv, TypeOK
  <2>2. ASSUME NEW j \in Jti, NEW until \in Nat, Insert(j, until)
        PROVE  \A k \in forgotten' : k \in Jti /\ Issued(k)
    BY <1>0, <2>1, <2>2 DEF Insert, Soonest, Entries, Sweep, LinkInv
  <2>3. CASE StoreRestart
    BY <1>0, <2>1, <2>3 DEF StoreRestart, Held, LinkInv
  <2>4. QED
    BY <2>1, <2>2, <2>3, StoreSteps DEF ReadRevoked
<1>4. \A j \in Jti : revoked'[j] # 0 => Issued(j) /\ revoked'[j] >= tok[j].exp
  <2>1. ASSUME NEW j \in Jti, NEW until \in Nat, Insert(j, until), Issued(j),
               until >= tok[j].exp
        PROVE  \A k \in Jti : revoked'[k] # 0 => Issued(k) /\ revoked'[k] >= tok[k].exp
    <3>1. Sweep \in [Jti -> Nat] /\ \A k \in Jti : Sweep[k] \in {0, revoked[k]}
      BY <1>0 DEF Sweep
    <3>2. \A k \in Jti \ {j} : revoked'[k] \in {0, revoked[k]}
      BY <2>1, <3>1 DEF Insert, Soonest, Entries
    <3>3. revoked'[j] = until
      BY <1>0, <2>1, InsertSets
    <3>4. QED
      BY <2>1, <3>2, <3>3 DEF LinkInv
  <2>2. ASSUME NEW j \in Jti, ReadRevoked(j)
        PROVE  \A k \in Jti : revoked'[k] # 0 => Issued(k) /\ revoked'[k] >= tok[k].exp
    BY <1>0, <2>2 DEF ReadRevoked, LinkInv, TypeOK
  <2>3. CASE StoreRestart
    BY <2>3 DEF StoreRestart
  <2>4. QED
    BY <2>1, <2>2, <2>3, StoreSteps DEF LinkInv
<1>5. QED
  BY <1>1, <1>2, <1>3, <1>4 DEF LinkInv

\* The stage one token has reached.
LifeOf(j) ==
    IF ~Issued(j) THEN "unissued"
    ELSE IF ~Fenced(j) THEN "unfenced"
    ELSE IF Winners(j) # {} THEN "claimed"
    ELSE IF Held(j) \/ ~Unexpired(j) THEN "dead"
    ELSE "live"

Offspring(j) == {k \in Jti : tok[k].parent = j}

\* Life is the stages of all tokens, before and after a step.
LEMMA LifeIs ==
    /\ Life = [j \in Jti |-> LifeOf(j)]
    /\ Life' = [j \in Jti |-> LifeOf(j)']
    /\ \A j \in Jti : LifeOf(j) \in OneTime!Stage /\ LifeOf(j)' \in OneTime!Stage
BY DEF Life, LifeOf, OneTime!Stage

\* Only an unexpired entry is evicted or lost, and only an insertion for a token
\* or the passing of its time ends it.
LEMMA StoreLoses ==
    ASSUME TypeInv, [Next]_vars, NEW k \in Jti, k \in forgotten', k \notin forgotten
    PROVE  Held(k)
<1>0. now \in Nat /\ revoked[k] \in Nat
  BY DEF TypeInv, TypeOK
<1>1. ASSUME NEW j \in Jti, NEW until \in Nat, Insert(j, until) PROVE Held(k)
  BY <1>0, <1>1 DEF Insert, Soonest, Entries, Sweep, Held
<1>2. QED
  BY <1>0, <1>1, StoreSteps DEF ReadRevoked, StoreRestart

\* A step that issues nothing and makes no new winner of a fenced token leaves
\* every token where it is, kills it, or loses its entry.
LEMMA QuietLife ==
    ASSUME TypeInv, SafeInv, LinkInv, [Next]_vars, tok' = tok, NEW j \in Jti,
           Fenced(j) => Winners(j)' \subseteq Winners(j)
    PROVE  \/ LifeOf(j)' = LifeOf(j)
           \/ LifeOf(j) \in {"claimed", "dead"} /\ LifeOf(j)' = "unfenced"
           \/ LifeOf(j) \in {"live", "claimed"} /\ LifeOf(j)' = "dead"
<1>0. /\ now \in Nat /\ revoked[j] \in Nat /\ tok[j].exp \in Nat
      /\ now' \in Nat /\ revoked'[j] \in Nat
  BY NextTypeInv DEF TypeInv, TypeOK, Token
<1>1. Issued(j)' <=> Issued(j)
  BY DEF Issued
<1>2. Issued(j) => (Spent(j) => Spent(j)') /\ (Fenced(j)' => Fenced(j))
  BY SpentStable
<1>3. Fenced(j) /\ ~Fenced(j)' => Held(j)
  BY StoreLoses DEF Fenced, HasJti
<1>4. Issued(j) /\ Fenced(j) /\ Spent(j) /\ Fenced(j)' => Held(j)' \/ ~Unexpired(j)'
  BY <1>0, <1>2 DEF Spent, Lapsed, Held, Unexpired
<1>5. Winners(j) # {} => Spent(j)
  BY DEF Winners, SafeInv, DoneOK
<1>6. Held(j) \/ ~Unexpired(j) => Spent(j)
  BY <1>0 DEF Held, Unexpired, LinkInv, Spent, Lapsed
<1>7. CASE ~Issued(j)
  BY <1>1, <1>7 DEF LifeOf
<1>8. CASE Issued(j) /\ ~Fenced(j)
  BY <1>1, <1>2, <1>8 DEF LifeOf
<1>9. CASE Issued(j) /\ Fenced(j)
  BY <1>1, <1>3, <1>4, <1>5, <1>6, <1>9 DEF LifeOf
<1>10. QED
  BY <1>7, <1>8, <1>9

\* Such a step implements the abstract Die.
LEMMA QuietDies ==
    ASSUME TypeInv, SafeInv, LinkInv, [Next]_vars, tok' = tok,
           \A j \in Jti : Fenced(j) => Winners(j)' \subseteq Winners(j)
    PROVE  OneTime!Die
<1>1. \A j \in Jti :
        \/ LifeOf(j)' = LifeOf(j)
        \/ LifeOf(j) \in {"claimed", "dead"} /\ LifeOf(j)' = "unfenced"
        \/ LifeOf(j) \in {"live", "claimed"} /\ LifeOf(j)' = "dead"
  BY QuietLife
<1>2. \A j \in Jti : OneTime!Settled(j) \/ OneTime!Dies(j)
  BY <1>1, LifeIs DEF OneTime!Settled, OneTime!Dies
<1>3. Life' \in [Jti -> OneTime!Stage]
  BY LifeIs
<1>4. QED
  BY <1>2, <1>3 DEF OneTime!Die

\* A request that moves anywhere but into the exchange wins nothing.
LEMMA MoveDies ==
    ASSUME TypeInv, SafeInv, LinkInv, [Next]_vars, tok' = tok, NEW r \in Requests, NEW q,
           req' = [req EXCEPT ![r] = q], q.pc # "refresh_mint"
    PROVE  OneTime!Die
<1>1. \A j \in Jti : Winners(j)' \subseteq Winners(j)
  BY DEF TypeInv, TypeOK, Winners
<1>2. QED
  BY <1>1, QuietDies

\* RevokeIfNotRevoked's winner takes a fenced token from live to claimed; the
\* sweep and the eviction it runs revive and kill nothing else.
LEMMA FenceLife ==
    ASSUME TypeInv, SafeInv, LinkInv, [Next]_vars, NEW r \in Requests, RefreshFence(r)
    PROVE  OneTime!ClaimOne \/ OneTime!Die
<1> DEFINE j == req[r].token
<1>0. /\ TypeOK /\ j \in Jti /\ Issued(j) /\ req[r] \in Request
      /\ now \in Nat /\ tok[j].exp \in Nat /\ revoked[j] \in Nat
      /\ tok' = tok /\ now' = now
  BY DEF RefreshFence, At, TypeInv, HoldsOK, RefreshPc, TypeOK, Token
<1>1. CASE End(r)
  <2>1. Idle.pc # "refresh_mint"
    BY DEF Idle
  <2>2. QED
    BY <1>0, <1>1, <2>1, MoveDies DEF End, Move
<1>2. ASSUME Goto(r, "refresh_mint"), ~HasJti(j) \/ Claim(j, tok[j].exp)
      PROVE  OneTime!ClaimOne \/ OneTime!Die
  <2>1. /\ \A s \in Requests : s # r => req'[s] = req[s]
        /\ req'[r].pc = "refresh_mint" /\ req'[r].token = j
        /\ req[r].pc = "refresh_fence"
    BY <1>0, <1>2 DEF RefreshFence, At, Goto, Move, TypeOK, Request
  <2>2. \A k \in Jti : k # j => Winners(k)' = Winners(k)
    BY <2>1 DEF Winners
  <2>3. CASE ~Fenced(j)
    BY <1>0, <2>2, <2>3, QuietDies
  <2>4. CASE Fenced(j)
    <3>1. Claim(j, tok[j].exp) /\ ~Spent(j) /\ ~Held(j) /\ Unexpired(j)
      BY <1>0, <1>2, <2>4 DEF Claim, Claimable, Held, Fenced, Spent, Lapsed, Unexpired
    <3>2. Winners(j) = {}
      BY <3>1 DEF Winners, SafeInv, DoneOK
    <3>3. LifeOf(j) = "live"
      BY <1>0, <2>4, <3>1, <3>2 DEF LifeOf
    <3>4. \A k \in Jti : k = j => LifeOf(k)' = "claimed"
      <4> SUFFICES ASSUME NEW k \in Jti, k = j PROVE LifeOf(k)' = "claimed"
        OBVIOUS
      <4>1. Issued(k)'
        BY <1>0 DEF Issued
      <4>2. Fenced(k)'
        BY <2>4, <3>1, StoreLoses DEF Fenced, HasJti
      <4>3. r \in Winners(k)'
        BY <2>1 DEF Winners
      <4>4. QED
        BY <4>1, <4>2, <4>3 DEF LifeOf
    <3>5. \A k \in Jti : k # j =>
             \/ LifeOf(k)' = LifeOf(k)
             \/ LifeOf(k) \in {"claimed", "dead"} /\ LifeOf(k)' = "unfenced"
      <4> SUFFICES ASSUME NEW k \in Jti, k # j
                   PROVE  \/ LifeOf(k)' = LifeOf(k)
                          \/ LifeOf(k) \in {"claimed", "dead"} /\ LifeOf(k)' = "unfenced"
        OBVIOUS
      <4>1. \/ LifeOf(k)' = LifeOf(k)
            \/ LifeOf(k) \in {"claimed", "dead"} /\ LifeOf(k)' = "unfenced"
            \/ LifeOf(k) \in {"live", "claimed"} /\ LifeOf(k)' = "dead"
        BY <1>0, <2>2, QuietLife
      <4>2. LifeOf(k) = "claimed" => LifeOf(k)' # "dead"
        BY <2>2 DEF LifeOf
      <4>3. LifeOf(k) = "live" => LifeOf(k)' # "dead"
        <5>1. revoked'[k] \in {0, revoked[k]}
          <6>1. Sweep \in [Jti -> Nat] /\ Sweep[k] \in {0, revoked[k]}
            BY <1>0 DEF Sweep, TypeOK
          <6>2. QED
            BY <3>1, <6>1 DEF Claim, Insert, Soonest, Entries
        <5>2. Held(k)' => Held(k)
          BY <1>0, <5>1 DEF Held
        <5>3. Unexpired(k)' <=> Unexpired(k)
          BY <1>0 DEF Unexpired
        <5>4. QED
          BY <5>2, <5>3 DEF LifeOf
      <4>4. QED
        BY <4>1, <4>2, <4>3
    <3> HIDE DEF j
    <3>6. j \in Jti
      BY <1>0
    <3>7. j \in OneTime!In("live") /\ Life'[j] = "claimed"
      BY <3>3, <3>4, <3>6, LifeIs DEF OneTime!In
    <3>8. \A k \in Jti \ {j} : OneTime!Settled(k)
      BY <3>5, LifeIs DEF OneTime!Settled
    <3>9. Life' \in [Jti -> OneTime!Stage]
      BY LifeIs
    <3>10. QED
      BY <1>0, <3>7, <3>8, <3>9 DEF OneTime!ClaimOne
  <2>5. QED
    BY <2>3, <2>4
<1>3. QED
  BY <1>1, <1>2 DEF RefreshFence

\* createToken, twice: two unissued ids come alive, the token they are exchanged
\* for (if any) dies of it unless it is unfenced, and nothing else changes.
LEMMA MintLife ==
    ASSUME TypeInv, SafeInv, LinkInv, [Next]_vars, NEW r \in Requests,
           NEW parent \in Jti \cup {Nil},
           MintPair(req[r].uid, req[r].role, parent), End(r), UNCHANGED storeVars,
           parent # Nil => r \in Winners(parent),
           parent = Nil => req[r].pc # "refresh_mint"
    PROVE  \E a, f \in Jti :
             /\ a # f
             /\ LifeOf(a) = "unissued" /\ LifeOf(a)' = "live"
             /\ LifeOf(f) = "unissued" /\ LifeOf(f)' = "live"
             /\ \A k \in Jti \ {a, f, parent} : LifeOf(k)' = LifeOf(k)
             /\ \A k \in Jti : k = parent =>
                  \/ LifeOf(k) = "claimed" /\ LifeOf(k)' = "dead"
                  \/ LifeOf(k) = "unfenced" /\ LifeOf(k)' = "unfenced"
             /\ \A k \in Jti : Offspring(k)' =
                  IF k = parent THEN Offspring(k) \cup {a, f} ELSE Offspring(k)
<1> USE AuthAssumption DEF AuthAssumption
<1>0. TypeOK /\ ClaimsOK /\ now \in Nat
  BY DEF TypeInv, TypeOK
<1>1. PICK a \in Jti, f \in Jti :
             /\ ~Issued(a) /\ ~Issued(f) /\ a # f
             /\ tok' = [tok EXCEPT
                          ![a] = NewToken("access", req[r].uid, req[r].role, AccessTTL, parent),
                          ![f] = NewToken("refresh", req[r].uid, req[r].role, RefreshTTL, parent)]
  BY MintPairEffect
<1>2. /\ \A k \in Jti : k \notin {a, f} => tok'[k] = tok[k]
      /\ tok'[a].kind = "access" /\ tok'[a].parent = parent /\ tok'[a].exp = now + AccessTTL
      /\ tok'[f].kind = "refresh" /\ tok'[f].parent = parent /\ tok'[f].exp = now + RefreshTTL
  BY <1>0, <1>1 DEF TypeOK, NewToken
<1>3. req'[r] = Idle /\ \A s \in Requests : s # r => req'[s] = req[s]
  BY <1>0 DEF End, Move, TypeOK
<1>4. /\ \A k \in Jti : k # parent => Winners(k)' = Winners(k)
      /\ \A k \in Jti : Winners(k)' = Winners(k) \ {r}
  BY <1>3 DEF Winners, Idle
<1>5. \A k \in Jti : (Fenced(k)' <=> Fenced(k)) /\ (Held(k)' <=> Held(k))
  BY DEF storeVars, Fenced, HasJti, Held
<1>6. \A k \in Jti : Winners(k) # {} => Issued(k)
  BY DEF Winners, TypeInv, HoldsOK, RefreshPc
<1>7. ASSUME NEW k \in {a, f} PROVE LifeOf(k) = "unissued" /\ LifeOf(k)' = "live"
  <2>1. k \in Jti /\ ~Issued(k) /\ Issued(k)'
    BY <1>1, <1>2 DEF Issued
  <2>2. Fenced(k) /\ ~Held(k)
    BY <1>0, <2>1 DEF LinkInv, Fenced, HasJti, Held, TypeOK
  <2>3. Unexpired(k)'
    BY <1>0, <1>2 DEF Unexpired, storeVars
  <2>4. Winners(k)' = {}
    BY <1>4, <1>6, <2>1
  <2>5. QED
    BY <1>5, <2>1, <2>2, <2>3, <2>4 DEF LifeOf
<1>8. \A k \in Jti \ {a, f} : (Issued(k)' <=> Issued(k)) /\ (Unexpired(k)' <=> Unexpired(k))
  BY <1>2 DEF Issued, Unexpired, storeVars
<1>9. \A k \in Jti \ {a, f, parent} : LifeOf(k)' = LifeOf(k)
  BY <1>4, <1>5, <1>8 DEF LifeOf
<1>10. ASSUME NEW k \in Jti, k = parent
       PROVE  \/ LifeOf(k) = "claimed" /\ LifeOf(k)' = "dead"
              \/ LifeOf(k) = "unfenced" /\ LifeOf(k)' = "unfenced"
  <2>1. r \in Winners(k) /\ Issued(k) /\ k \notin {a, f}
    BY <1>1, <1>6, <1>10
  <2>2. Issued(k)'
    BY <1>8, <2>1
  <2>3. CASE ~Fenced(k)
    BY <1>5, <2>1, <2>2, <2>3 DEF LifeOf
  <2>4. CASE Fenced(k)
    <3>1. Winners(k)' = {}
      BY <1>4, <2>1, <2>4 DEF SafeInv, RotatedAtMostOnce
    <3>2. Spent(k)
      BY <2>1 DEF Winners, SafeInv, DoneOK
    <3>3. Held(k) \/ ~Unexpired(k)
      BY <1>0, <2>4, <3>2 DEF Spent, Lapsed, Held, Unexpired, TypeOK, Token
    <3>4. QED
      BY <1>5, <1>8, <2>1, <2>2, <2>4, <3>1, <3>3 DEF LifeOf
  <2>5. QED
    BY <2>3, <2>4
<1>11. ASSUME NEW k \in Jti
       PROVE  Offspring(k)' = IF k = parent THEN Offspring(k) \cup {a, f} ELSE Offspring(k)
  <2>1. tok[a].parent = Nil /\ tok[f].parent = Nil
    BY <1>0, <1>1 DEF ClaimsOK
  <2>2. QED
    BY <1>2, <2>1 DEF Offspring
<1>12. QED
  BY <1>1, <1>7, <1>9, <1>10, <1>11

\* The token life cycle implements OneTimeToken step by step.
LEMMA NextRefines ==
    TypeInv /\ SafeInv /\ LinkInv /\ [Next]_vars => [OneTime!AbsNext]_(OneTime!absVars)
<1> SUFFICES ASSUME TypeInv, SafeInv, LinkInv, [Next]_vars PROVE OneTime!AbsNext
  OBVIOUS
<1> USE DEF OneTime!AbsNext
<1>0. /\ TypeOK
      /\ \A r \in Requests : HoldsOK(req[r]) /\ req[r] \in Request
      /\ Idle.pc # "refresh_mint"
  BY DEF TypeInv, TypeOK, Idle
<1>1. ASSUME NEW r \in Requests, LoginTenant(r) PROVE OneTime!AbsNext
  <2>1. CASE UNCHANGED tok
    BY <1>0, <1>1, <2>1, MoveDies DEF LoginTenant, End, Move
  <2>2. CASE MintPair(req[r].uid, req[r].role, Nil)
    <3>1. PICK a \in Jti, f \in Jti :
             /\ a # f
             /\ LifeOf(a) = "unissued" /\ LifeOf(a)' = "live"
             /\ LifeOf(f) = "unissued" /\ LifeOf(f)' = "live"
             /\ \A k \in Jti \ {a, f, Nil} : LifeOf(k)' = LifeOf(k)
             /\ \A k \in Jti : Offspring(k)' =
                  IF k = Nil THEN Offspring(k) \cup {a, f} ELSE Offspring(k)
      BY <1>1, <2>2, MintLife DEF LoginTenant, At
    <3>2. Life' = [Life EXCEPT ![a] = "live", ![f] = "live"]
      BY <3>1, LifeIs, AuthAssumption DEF AuthAssumption
    <3>3. a \in OneTime!Born /\ f \in OneTime!Born
      BY <3>1, LifeIs DEF OneTime!Born, OneTime!In
    <3>4. [j \in Jti |-> Offspring(j)]' = [j \in Jti |-> Offspring(j)]
      BY <3>1, AuthAssumption DEF AuthAssumption
    <3>5. OneTime!Issue
      BY <3>1, <3>2, <3>3, <3>4 DEF OneTime!Issue, Offspring
    <3>6. QED
      BY <3>5
  <2>3. QED
    BY <1>1, <2>1, <2>2 DEF LoginTenant
<1>2. ASSUME NEW r \in Requests, RefreshMint(r) PROVE OneTime!AbsNext
  <2> DEFINE j == req[r].token
  <2>1. j \in Jti /\ r \in Winners(j)
    BY <1>0, <1>2 DEF RefreshMint, At, HoldsOK, RefreshPc, Winners
  <2>2. MintPair(req[r].uid, req[r].role, j) /\ End(r) /\ UNCHANGED storeVars
    BY <1>2 DEF RefreshMint
  <2> HIDE DEF j
  <2>3. PICK a \in Jti, f \in Jti :
           /\ a # f
           /\ LifeOf(a) = "unissued" /\ LifeOf(a)' = "live"
           /\ LifeOf(f) = "unissued" /\ LifeOf(f)' = "live"
           /\ \A k \in Jti \ {a, f, j} : LifeOf(k)' = LifeOf(k)
           /\ \A k \in Jti : k = j =>
                \/ LifeOf(k) = "claimed" /\ LifeOf(k)' = "dead"
                \/ LifeOf(k) = "unfenced" /\ LifeOf(k)' = "unfenced"
           /\ \A k \in Jti : Offspring(k)' =
                IF k = j THEN Offspring(k) \cup {a, f} ELSE Offspring(k)
    BY <2>1, <2>2, MintLife, AuthAssumption DEF AuthAssumption
  <2>4. Life[j] \in {"claimed", "unfenced"} /\ j \notin {a, f}
    BY <2>1, <2>3, LifeIs
  <2>5. Life' = [k \in Jti |-> IF k \in {a, f} THEN "live"
                               ELSE IF k = j /\ Life[j] = "claimed" THEN "dead"
                               ELSE Life[k]]
    BY <2>1, <2>3, <2>4, LifeIs
  <2>6. a \in OneTime!Born /\ f \in OneTime!Born /\ j \in OneTime!In("claimed") \cup OneTime!In("unfenced")
    BY <2>1, <2>3, <2>4, LifeIs DEF OneTime!Born, OneTime!In
  <2>7. [k \in Jti |-> Offspring(k)]' =
           [[k \in Jti |-> Offspring(k)] EXCEPT ![j] = @ \cup {a, f}]
    BY <2>1, <2>3
  <2>8. OneTime!Exchange
    BY <2>3, <2>5, <2>6, <2>7 DEF OneTime!Exchange, Offspring
  <2>9. QED
    BY <2>8
<1>3. ASSUME NEW r \in Requests, RefreshFence(r) PROVE OneTime!AbsNext
  BY <1>3, FenceLife
<1>4. ASSUME NEW r \in Requests, LoginRole(r) \/ RefreshUser(r) \/ RefreshRole(r)
                \/ LogoutParse(r) \/ LogoutRevoke(r) \/ ApiParse(r) \/ RequestFails(r)
      PROVE  OneTime!AbsNext
  <2>1. /\ [req[r] EXCEPT !.pc = "login_tenant"].pc # "refresh_mint"
        /\ [req[r] EXCEPT !.pc = "refresh_fence"].pc # "refresh_mint"
        /\ [req[r] EXCEPT !.pc = "logout_revoke"].pc # "refresh_mint"
        /\ [req[r] EXCEPT !.pc = "refresh_role", !.role = user[req[r].uid].role].pc
             # "refresh_mint"
        /\ [req[r] EXCEPT !.pc = "logout_parse", !.token = req[r].next, !.next = Nil].pc
             # "refresh_mint"
    BY <1>0 DEF Request
  <2>2. tok' = tok
    BY <1>4 DEF LoginRole, RefreshUser, RefreshRole, LogoutParse, LogoutRevoke, ApiParse,
                RequestFails
  <2>3. \E q : req' = [req EXCEPT ![r] = q] /\ q.pc # "refresh_mint"
    BY <1>0, <1>4, <2>1 DEF LoginRole, RefreshUser, RefreshRole, LogoutParse, LogoutRevoke,
                ApiParse, RequestFails, LogoutAdvance, Goto, End, Move
  <2>4. QED
    BY <2>2, <2>3, MoveDies
<1>5. ASSUME NEW r \in Requests, NEW q, Begin(r, q), q.pc # "refresh_mint", tok' = tok
      PROVE  OneTime!AbsNext
  BY <1>5, MoveDies DEF Begin
<1>6. ASSUME NEW r \in Requests, NEW u \in Users, LoginUser(r, u) PROVE OneTime!AbsNext
  <2> DEFINE q == [Idle EXCEPT !.pc = "login_role", !.uid = u, !.role = user[u].role,
                               !.rows = {user[u]}, !.on = roleOn]
  <2>1. Begin(r, q) /\ tok' = tok /\ q.pc # "refresh_mint"
    BY <1>6 DEF LoginUser, Idle
  <2> HIDE DEF q
  <2>2. QED
    BY <1>5, <2>1
<1>7. ASSUME NEW r \in Requests, NEW j \in Jti, RefreshParse(r, j) PROVE OneTime!AbsNext
  <2> DEFINE q == [Idle EXCEPT !.pc = "refresh_user", !.token = j, !.uid = tok[j].uid,
                     !.role = tok[j].role, !.rows = {user[tok[j].uid]}, !.on = roleOn]
  <2>1. Begin(r, q) /\ tok' = tok /\ q.pc # "refresh_mint"
    BY <1>7 DEF RefreshParse, Idle
  <2> HIDE DEF q
  <2>2. QED
    BY <1>5, <2>1
<1>8. ASSUME NEW r \in Requests, NEW a, NEW f, LogoutBegin(r, a, f) PROVE OneTime!AbsNext
  <2> DEFINE q == [Idle EXCEPT !.pc = "logout_parse", !.token = IF a # Nil THEN a ELSE f,
                     !.next = IF a # Nil THEN f ELSE Nil, !.named = {a, f} \ {Nil}]
  <2>1. Begin(r, q) /\ tok' = tok /\ q.pc # "refresh_mint"
    BY <1>8 DEF LogoutBegin, Idle
  <2> HIDE DEF q
  <2>2. QED
    BY <1>5, <2>1
<1>9. ASSUME NEW r \in Requests, NEW j \in Jti, ApiValidate(r, j) PROVE OneTime!AbsNext
  <2> DEFINE q == [Idle EXCEPT !.pc = "api_parse", !.token = j, !.late = j \in loggedOut]
  <2>1. (Begin(r, q) \/ Begin(r, Idle)) /\ tok' = tok /\ q.pc # "refresh_mint"
    BY <1>9 DEF ApiValidate, Idle
  <2> HIDE DEF q
  <2>2. QED
    BY <1>0, <1>5, <2>1
<1>10. ASSUME NEW rows, NEW on, Witness(rows, on), tok' = tok PROVE OneTime!AbsNext
  <2>1. \A s \in Requests : req'[s].pc = req[s].pc /\ req'[s].token = req[s].token
    <3> TAKE s \in Requests
    <3> DEFINE extra == IF req[s].uid = Nil THEN {} ELSE {rows[req[s].uid]}
               q == [req[s] EXCEPT !.rows = @ \cup extra, !.on = @ \cup on]
    <3>1. req'[s] = IF At(s, "idle") THEN req[s] ELSE q
      BY <1>10 DEF Witness
    <3> HIDE DEF extra
    <3>2. q.pc = req[s].pc /\ q.token = req[s].token
      BY <1>0 DEF Request
    <3> HIDE DEF q
    <3>3. QED
      BY <3>1, <3>2
  <2>2. \A j \in Jti : Winners(j)' = Winners(j)
    BY <2>1 DEF Winners
  <2>3. QED
    BY <1>10, <2>2, QuietDies
<1>11. ASSUME NEW u \in Users, NEW row \in Row, SetUser(u, row) PROVE OneTime!AbsNext
  BY <1>10, <1>11 DEF SetUser
<1>12. ASSUME NEW x \in Roles, SetRole(x) PROVE OneTime!AbsNext
  BY <1>10, <1>12 DEF SetRole
<1>13. CASE SetTenant \/ Tick \/ UNCHANGED vars
  <2>1. tok' = tok /\ req' = req
    BY <1>13 DEF SetTenant, Tick, vars, authVars
  <2>2. \A j \in Jti : Winners(j)' = Winners(j)
    BY <2>1 DEF Winners
  <2>3. QED
    BY <2>1, <2>2, QuietDies
<1>14. CASE Restart
  <2>1. \A j \in Jti : Winners(j)' = {}
    BY <1>14 DEF Restart, Winners, Idle
  <2>2. QED
    BY <1>14, <2>1, QuietDies DEF Restart
<1>15. QED
  BY <1>1, <1>2, <1>3, <1>4, <1>6, <1>7, <1>8, <1>9, <1>11, <1>12, <1>13, <1>14 DEF Next

\* Refresh-token rotation keeps the one-time promise: for every number of tokens,
\* requests and restarts, a token that Fenced covers goes from live to claimed to
\* dead and never back, and successors are issued under its one claim only.
THEOREM RefinementTheorem == Spec => ImplementsOneTimeToken
<1>1. Init => OneTime!AbsInit
  <2> SUFFICES ASSUME Init PROVE OneTime!AbsInit
    OBVIOUS
  <2>1. \A j \in Jti : tok[j].parent = Nil /\ (Issued(j) => j \in LegacyTokens)
    BY DEF Init, NoToken, Issued
  <2>2. \A j \in Jti : Issued(j) => ~Fenced(j)
    BY <2>1 DEF Fenced, HasJti
  <2>3. \A j \in Jti : LifeOf(j) \in {"unissued", "unfenced"}
    BY <2>2 DEF LifeOf
  <2>4. Life \in [Jti -> {"unissued", "unfenced"}]
    BY <2>3, LifeIs
  <2>5. \A j \in Jti : {k \in Jti : tok[k].parent = j} = {}
    BY <2>1, AuthAssumption DEF AuthAssumption
  <2>6. QED
    BY <2>4, <2>5 DEF OneTime!AbsInit
<1>2. Spec => []LinkInv
  <2>1. TypeInv /\ LinkInv /\ [Next]_vars => LinkInv'
    BY NextLink
  <2>2. QED
    BY <2>1, InitLink, SafetyHolds, PTL DEF Spec
<1>3. QED
  BY <1>1, <1>2, NextRefines, SafetyHolds, PTL
     DEF Spec, ImplementsOneTimeToken, OneTime!AbsSpec

=============================================================================
