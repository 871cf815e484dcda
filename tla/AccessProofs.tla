---------------------------- MODULE AccessProofs ----------------------------
(* Proofs about Access, for any number of accounts, keys, tokens and       *)
(* requests.                                                               *)
EXTENDS Access, TLAPS

(***************************************************************************)
(* The scopes.  Implication is transitive, so what Expand returns is       *)
(* closed, and so is what two closed sets have in common.                  *)
(***************************************************************************)
Closed(scopes) == Expand(scopes) = scopes

LEMMA ImpliedScopes ==
    ASSUME NEW s \in AllScopes
    PROVE  Implied(s) \subseteq AllScopes /\ \A t \in Implied(s) : Implied(t) \subseteq Implied(s)
  BY DEF AllScopes, Implied

LEMMA ClosedScopes ==
    ASSUME NEW S
    PROVE  Closed(S) <=> S \subseteq AllScopes /\ \A s \in S : Implied(s) \subseteq S
<1>1. ASSUME Closed(S) PROVE S \subseteq AllScopes /\ \A s \in S : Implied(s) \subseteq S
  BY <1>1, ImpliedScopes DEF Closed, Expand
<1>2. ASSUME S \subseteq AllScopes, \A s \in S : Implied(s) \subseteq S PROVE Closed(S)
  BY <1>2 DEF Closed, Expand
<1> QED
  BY <1>1, <1>2

LEMMA ExpandIsClosed ==
    ASSUME NEW S
    PROVE  Closed(Expand(S)) /\ Expand(S) \subseteq AllScopes
<1>1. Expand(S) \subseteq AllScopes
  BY ImpliedScopes DEF Expand
<1>2. \A s \in Expand(S) : Implied(s) \subseteq Expand(S)
  BY ImpliedScopes DEF Expand
<1> QED
  BY <1>1, <1>2, ClosedScopes

LEMMA CommonIsClosed ==
    ASSUME NEW S, NEW T, Closed(S), Closed(T)
    PROVE  Closed(S \cap T)
  BY ClosedScopes

LEMMA ReadIsClosed == Closed(ReadScopes) /\ ReadScopes \subseteq AllScopes
  BY DEF Closed, Expand, ReadScopes, AllScopes, Implied

\* Every role and portal comes with the read scopes.
LEMMA RoleScopes ==
    ASSUME NEW role, NEW portal
    PROVE  /\ Closed(ScopesFor(role, portal)) /\ ScopesFor(role, portal) \subseteq AllScopes
           /\ ReadScopes \subseteq ScopesFor(role, portal)
<1> DEFINE own == (IF role = "admin" THEN {"system:admin"} ELSE ReadScopes) \cup PortalAdmin(portal)
<1>1. ScopesFor(role, portal) = Expand(own)
  BY DEF ScopesFor
<1>2. CASE role = "admin"
  <2>1. "system:admin" \in own \cap AllScopes
    BY <1>2 DEF AllScopes
  <2>2. Implied("system:admin") = AllScopes
    BY DEF Implied
  <2> HIDE DEF own
  <2> QED
    BY <1>1, <2>1, <2>2, ExpandIsClosed, ReadIsClosed DEF Expand
<1>3. CASE role # "admin"
  <2>1. ReadScopes \subseteq own
    BY <1>3
  <2> HIDE DEF own
  <2> QED
    BY <1>1, <2>1, ExpandIsClosed, ReadIsClosed DEF Expand
<1> QED
  BY <1>2, <1>3

LEMMA GrantedScopes ==
    ASSUME NEW c
    PROVE  /\ Closed(Granted(c)) /\ Granted(c) \subseteq AllScopes
           /\ Closed(Carried(c)) => Granted(c) \subseteq Carried(c)
           /\ Granted(c) \subseteq ScopesFor(account[Owner(c)].role, account[Owner(c)].portal)
<1> DEFINE current == ScopesFor(account[Owner(c)].role, account[Owner(c)].portal)
<1>1. Granted(c) = Expand(Carried(c)) \cap Expand(current)
  BY DEF Granted
<1>2. Closed(current)
  BY RoleScopes
<1> HIDE DEF current
<1>3. Expand(current) = current
  BY <1>2 DEF Closed
<1>4. Closed(Granted(c)) /\ Granted(c) \subseteq AllScopes
  BY <1>1, ExpandIsClosed, CommonIsClosed
<1> QED
  BY <1>1, <1>3, <1>4 DEF Closed, current

(***************************************************************************)
(* The inductive invariant.  What a key or a token carries is closed,      *)
(* comes from the signing it descends from and has, as any role grants,    *)
(* the read scopes: so the migration, which replaces what it does not know *)
(* by these, gives nobody more than that.                                  *)
(***************************************************************************)
Descended(h) ==
    /\ Closed(h.granted) /\ h.granted \subseteq h.signed
    /\ h.pc = "issue" => h.granted = h.signed
    /\ h.pc # "idle" => ReadScopes \subseteq h.signed
KeyDescended(key) ==
    key.state \in {"live", "revoked"} =>
        /\ Closed(key.scopes) /\ key.scopes # {}
        /\ key.scopes \subseteq key.signed /\ ReadScopes \subseteq key.signed
BearerDescended(b) ==
    b.state = "live" => Closed(b.scopes) /\ ReadScopes \subseteq b.scopes

Origins ==
    /\ \A r \in Handlers : Descended(handler[r])
    /\ \A k \in Keys : KeyDescended(apiKey[k])
    /\ \A t \in Tokens : BearerDescended(bearer[t])

Types ==
    /\ account \in [Users -> Account]
    /\ apiKey \in [Keys -> KeyRow]
    /\ bearer \in [Tokens -> Bearer]
    /\ handler \in [Handlers -> Handler]

\* A request that nothing has changed under acts for the owner of its credential, and a
\* key has an owner.
InForce(h) ==
    /\ h.cred \in Credentials /\ h.user = Owner(h.cred)
    /\ IsAccount(h.user) /\ h.role = account[h.user].role
    /\ IF h.cred \in Keys THEN apiKey[h.cred].state = "live" ELSE bearer[h.cred].state = "live"
    /\ h.granted \subseteq
          ScopesFor(account[h.user].role, account[h.user].portal) \cap Carried(h.cred)
Unmoved(r) == handler[r].pc \in {"serve", "insert"} /\ ~handler[r].moved
Owned == \A k \in Keys : IsKey(k) => IsAccount(apiKey[k].owner)
Current == Owned /\ \A r \in Handlers : Unmoved(r) => InForce(handler[r])

AccessInv == Types /\ Origins /\ Current /\ OneAccountPerEmail

\* What most steps do to a request: nothing, its end, or the ground moves under it.
After(h) == {h, IdleHandler, [h EXCEPT !.moved = TRUE], [h EXCEPT !.user = Nobody, !.moved = TRUE]}
NothingGained == \A r \in Handlers : handler'[r] \in After(handler[r])

LEMMA IdleTypes ==
    /\ AnyEmail \in Emails
    /\ IdleHandler \in Handler /\ Descended(IdleHandler)
    /\ NoKeyRow \in KeyRow /\ NoBearer \in Bearer /\ Unused \in Account
<1>1. AnyEmail \in Emails
  <2>1. PICK name \in Names : TRUE
    BY AccessAssumption
  <2>2. [name |-> name, mixed |-> TRUE] \in Emails
    BY DEF Emails
  <2> QED
    BY <2>2 DEF AnyEmail
<1>2. Closed({})
  BY ClosedScopes
<1> HIDE DEF AnyEmail
<1> QED
  BY <1>1, <1>2
  DEF IdleHandler, Handler, Descended, NoKeyRow, KeyRow, NoBearer, Bearer, Unused, Account,
      Roles, Portals

LEMMA AfterIsWellFormed ==
    ASSUME Types, Origins, NothingGained, handler' = [r \in Handlers |-> handler'[r]]
    PROVE  handler' \in [Handlers -> Handler] /\ \A r \in Handlers : Descended(handler'[r])
<1> SUFFICES ASSUME NEW r \in Handlers PROVE handler'[r] \in Handler /\ Descended(handler'[r])
  OBVIOUS
<1>1. handler[r] \in Handler /\ Descended(handler[r]) /\ handler'[r] \in After(handler[r])
  BY DEF Types, Origins, NothingGained
<1>2. CASE handler'[r] = IdleHandler
  BY <1>2, IdleTypes
<1>3. CASE handler'[r] = handler[r]
  BY <1>1, <1>3
<1>4. CASE handler'[r] = [handler[r] EXCEPT !.moved = TRUE]
  BY <1>1, <1>4 DEF Handler, Descended
<1>5. CASE handler'[r] = [handler[r] EXCEPT !.user = Nobody, !.moved = TRUE]
  BY <1>1, <1>5 DEF Handler, Descended
<1> QED
  BY <1>1, <1>2, <1>3, <1>4, <1>5 DEF After

\* A request stays in force as long as its account and its credential stay what they are.
LEMMA InForceLasts ==
    ASSUME Types, Current, NEW r \in Handlers, Unmoved(r)', handler'[r] \in After(handler[r]),
           account'[handler[r].user] = account[handler[r].user],
           handler[r].cred \in Keys => apiKey'[handler[r].cred] = apiKey[handler[r].cred],
           handler[r].cred \in Tokens => bearer'[handler[r].cred] = bearer[handler[r].cred]
    PROVE  InForce(handler[r])'
<1>1. handler[r] \in Handler
  BY DEF Types
<1>2. handler'[r] = handler[r] /\ Unmoved(r)
  <2>1. handler'[r].pc # "idle" /\ ~handler'[r].moved
    BY DEF Unmoved
  <2>2. handler'[r] # IdleHandler
    BY <2>1 DEF IdleHandler
  <2>3. handler'[r] # [handler[r] EXCEPT !.moved = TRUE]
    BY <1>1, <2>1 DEF Handler
  <2>4. handler'[r] # [handler[r] EXCEPT !.user = Nobody, !.moved = TRUE]
    BY <1>1, <2>1 DEF Handler
  <2>5. handler'[r] = handler[r]
    BY <2>2, <2>3, <2>4 DEF After
  <2> QED
    BY <2>5 DEF Unmoved
<1>3. InForce(handler[r])
  BY <1>2 DEF Current
<1> QED
  BY <1>2, <1>3, AccessAssumption DEF InForce, Credentials, Owner, Carried, IsAccount

(***************************************************************************)
(* Steps that change credentials.                                          *)
(***************************************************************************)
\* A credential that a step changes was derived from a signing, and no request in force
\* relies on it.
KeysKept ==
    /\ apiKey' = [k \in Keys |-> apiKey'[k]]
    /\ \A k \in Keys :
          \/ apiKey'[k] = apiKey[k]
          \/ /\ apiKey'[k] \in KeyRow /\ KeyDescended(apiKey'[k])
             /\ apiKey'[k].state # "none" => IsAccount(apiKey'[k].owner)
             /\ \A q \in Handlers : handler[q].cred = k => ~Unmoved(q)'
BearersKept ==
    /\ bearer' = [t \in Tokens |-> bearer'[t]]
    /\ \A t \in Tokens :
          \/ bearer'[t] = bearer[t]
          \/ /\ bearer'[t] \in Bearer /\ BearerDescended(bearer'[t])
             /\ \A q \in Handlers : handler[q].cred = t => ~Unmoved(q)'

LEMMA SameKeys == ASSUME Types, UNCHANGED apiKey PROVE KeysKept
  BY DEF Types, KeysKept
LEMMA SameBearers == ASSUME Types, UNCHANGED bearer PROVE BearersKept
  BY DEF Types, BearersKept

LEMMA CredentialStep ==
    ASSUME AccessInv, UNCHANGED account, KeysKept, BearersKept,
           NothingGained, handler' = [r \in Handlers |-> handler'[r]]
    PROVE  AccessInv'
<1>1. handler' \in [Handlers -> Handler] /\ \A r \in Handlers : Descended(handler'[r])
  BY AfterIsWellFormed DEF AccessInv
<1>2. apiKey' \in [Keys -> KeyRow] /\ \A k \in Keys : KeyDescended(apiKey'[k])
  BY DEF AccessInv, Types, Origins, KeysKept
<1>3. bearer' \in [Tokens -> Bearer] /\ \A t \in Tokens : BearerDescended(bearer'[t])
  BY DEF AccessInv, Types, Origins, BearersKept
<1>4. Types' /\ Origins'
  BY <1>1, <1>2, <1>3 DEF AccessInv, Types, Origins
<1>5. Owned'
  BY <1>2 DEF AccessInv, Current, Owned, KeysKept, IsKey, IsAccount
<1>6. ASSUME NEW r \in Handlers, Unmoved(r)' PROVE InForce(handler[r])'
  <2>1. handler'[r] \in After(handler[r])
    BY DEF NothingGained
  <2>2. handler[r].cred \in Keys => apiKey'[handler[r].cred] = apiKey[handler[r].cred]
    BY <1>6 DEF KeysKept
  <2>3. handler[r].cred \in Tokens => bearer'[handler[r].cred] = bearer[handler[r].cred]
    BY <1>6 DEF BearersKept
  <2> QED
    BY <1>6, <2>1, <2>2, <2>3, InForceLasts DEF AccessInv
<1>7. OneAccountPerEmail'
  BY DEF AccessInv, OneAccountPerEmail, IsAccount
<1> QED
  BY <1>4, <1>5, <1>6, <1>7 DEF AccessInv, Current

LEMMA Ends ==
    ASSUME Types, NEW r \in Handlers, End(r)
    PROVE  NothingGained /\ handler' = [q \in Handlers |-> handler'[q]]
  BY DEF Types, End, NothingGained, After

LEMMA EndsAnd ==
    ASSUME Types, NEW r \in Handlers, NEW c, EndAnd(r, c)
    PROVE  /\ NothingGained /\ handler' = [q \in Handlers |-> handler'[q]]
           /\ \A q \in Handlers : handler[q].cred = c => ~Unmoved(q)'
<1>1. NothingGained /\ handler' = [q \in Handlers |-> handler'[q]]
  BY DEF Types, EndAnd, NothingGained, After
<1>2. ASSUME NEW q \in Handlers, handler[q].cred = c PROVE ~Unmoved(q)'
  <2>1. CASE q = r
    BY <2>1 DEF EndAnd, Unmoved, IdleHandler
  <2>2. CASE q # r
    <3>1. handler[q] \in Handler /\ handler'[q] = [handler[q] EXCEPT !.moved = TRUE]
      BY <1>2, <2>2 DEF EndAnd, Types
    <3> QED
      BY <3>1 DEF Handler, Unmoved
  <2> QED
    BY <2>1, <2>2
<1> QED
  BY <1>1, <1>2

LEMMA IssueTokenStep ==
    ASSUME AccessInv, NEW r \in Handlers, NEW t \in Tokens, IssueToken(r, t)
    PROVE  AccessInv'
<1>1. Types /\ Descended(handler[r]) /\ handler[r] \in Handler
  BY DEF AccessInv, Types, Origins
<1>2. /\ NothingGained /\ handler' = [q \in Handlers |-> handler'[q]]
      /\ \A q \in Handlers : handler[q].cred = t => ~Unmoved(q)'
  BY <1>1, EndsAnd DEF IssueToken
<1>3. DEFINE new == [state |-> "live", sub |-> handler[r].user,
                     scopes |-> Expand(handler[r].granted)]
<1>4. new \in Bearer /\ BearerDescended(new)
  <2>1. /\ handler[r].granted = Expand(handler[r].granted)
        /\ ReadScopes \subseteq handler[r].granted
    BY <1>1 DEF IssueToken, Descended, Closed
  <2>2. Expand(handler[r].granted) \subseteq AllScopes
    BY ExpandIsClosed
  <2>3. handler[r].user \in Users \cup {Nobody}
    BY <1>1 DEF Handler
  <2> QED
    BY <2>1, <2>2, <2>3, ExpandIsClosed DEF Bearer, BearerDescended
<1>5. bearer' = [bearer EXCEPT ![t] = new]
  BY DEF IssueToken
<1> HIDE DEF new
<1>6. BearersKept
  BY <1>1, <1>2, <1>4, <1>5 DEF BearersKept, Types
<1> QED
  BY <1>1, <1>2, <1>6, SameKeys, CredentialStep DEF IssueToken

LEMMA CreateKeyStep ==
    ASSUME AccessInv, NEW r \in Handlers, NEW k \in Keys, NEW asked \in Requests,
           CreateKey(r, k, asked)
    PROVE  AccessInv'
<1> DEFINE own == Expand(handler[r].granted)
           grant == IF asked = {} THEN own \cap ReadScopes ELSE Expand(asked) \cap own
           new == [state |-> "live", owner |-> handler[r].user, scopes |-> grant,
                   signed |-> handler[r].signed]
<1>1. Types /\ Descended(handler[r]) /\ handler[r] \in Handler
  BY DEF AccessInv, Types, Origins
<1>2. /\ handler[r].pc = "serve" /\ IsAccount(handler[r].user)
      /\ grant # {} /\ Key(r, k, grant) /\ UNCHANGED <<account, bearer>>
  BY DEF CreateKey
<1>3. own = handler[r].granted /\ Closed(own) /\ own \subseteq AllScopes
  BY <1>1, ExpandIsClosed DEF Descended, Closed
<1>4. grant \subseteq own /\ Closed(grant)
  <2> HIDE DEF own
  <2> QED
    BY <1>3, ReadIsClosed, ExpandIsClosed, CommonIsClosed
<1> HIDE DEF grant, own
<1>5. /\ NothingGained /\ handler' = [q \in Handlers |-> handler'[q]]
      /\ \A q \in Handlers : handler[q].cred = k => ~Unmoved(q)'
  BY <1>1, <1>2, EndsAnd DEF Key
<1>6. new \in KeyRow /\ KeyDescended(new)
  <2>1. grant \subseteq handler[r].signed /\ ReadScopes \subseteq handler[r].signed
    BY <1>1, <1>2, <1>3, <1>4 DEF Descended
  <2>2. handler[r].user \in Users \cup {Nobody} /\ handler[r].signed \subseteq AllScopes
    BY <1>1 DEF Handler
  <2> QED
    BY <1>2, <1>3, <1>4, <2>1, <2>2 DEF KeyRow, KeyDescended
<1>7. apiKey' = [apiKey EXCEPT ![k] = new] /\ new.owner = handler[r].user
  BY <1>2 DEF Key
<1> HIDE DEF new
<1>8. KeysKept
  BY <1>1, <1>2, <1>5, <1>6, <1>7 DEF KeysKept, Types
<1> QED
  BY <1>1, <1>2, <1>5, <1>8, SameBearers, CredentialStep

LEMMA RevokeKeyStep ==
    ASSUME AccessInv, NEW r \in Handlers, NEW k \in Keys, RevokeKey(r, k)
    PROVE  AccessInv'
<1>1. Types /\ Owned /\ apiKey[k] \in KeyRow /\ KeyDescended(apiKey[k])
  BY DEF AccessInv, Types, Current, Origins
<1>2. /\ NothingGained /\ handler' = [q \in Handlers |-> handler'[q]]
      /\ \A q \in Handlers : handler[q].cred = k => ~Unmoved(q)'
  BY <1>1, EndsAnd DEF RevokeKey
<1>3. /\ apiKey' = [apiKey EXCEPT ![k] = [apiKey[k] EXCEPT !.state = "revoked"]]
      /\ apiKey[k].state = "live"
  BY DEF RevokeKey
<1>4. DEFINE new == [apiKey[k] EXCEPT !.state = "revoked"]
<1>5. new \in KeyRow /\ KeyDescended(new) /\ IsAccount(new.owner)
  BY <1>1, <1>3 DEF KeyRow, KeyDescended, Owned, IsKey
<1>6. KeysKept
  <2>1. apiKey' = [apiKey EXCEPT ![k] = new]
    BY <1>3
  <2> HIDE DEF new
  <2> QED
    BY <1>1, <1>2, <1>5, <2>1 DEF KeysKept, Types
<1> QED
  BY <1>1, <1>2, <1>6, SameBearers, CredentialStep DEF RevokeKey

\* What is marked is not in force, and nothing else changes.
LEMMA Marks ==
    ASSUME Types, NEW marked \in SUBSET Handlers,
           handler' = [q \in Handlers |-> IF q \in marked THEN [handler[q] EXCEPT !.moved = TRUE]
                                                          ELSE handler[q]]
    PROVE  /\ NothingGained /\ handler' = [q \in Handlers |-> handler'[q]]
           /\ \A q \in marked : ~Unmoved(q)'
<1>1. NothingGained /\ handler' = [q \in Handlers |-> handler'[q]]
  BY DEF NothingGained, After
<1>2. ASSUME NEW q \in marked PROVE ~Unmoved(q)'
  <2>1. handler[q] \in Handler /\ handler'[q] = [handler[q] EXCEPT !.moved = TRUE]
    BY DEF Types
  <2> QED
    BY <2>1 DEF Handler, Unmoved
<1> QED
  BY <1>1, <1>2

LEMMA MigrateStep ==
    ASSUME AccessInv, Migrate
    PROVE  AccessInv'
<1> DEFINE foreign == {k \in Keys : IsKey(k) /\ ~(apiKey[k].scopes \subseteq ListedScopes)}
           marked == {q \in Handlers : handler[q].cred \in foreign}
<1>1. Types /\ Owned /\ \A k \in Keys : apiKey[k] \in KeyRow /\ KeyDescended(apiKey[k])
  BY DEF AccessInv, Types, Current, Origins
<1>2. /\ apiKey' = [k \in Keys |-> IF k \in foreign THEN [apiKey[k] EXCEPT !.scopes = ReadScopes]
                                    ELSE apiKey[k]]
      /\ UNCHANGED <<account, bearer>>
  BY DEF Migrate
<1>3. handler' = [q \in Handlers |-> IF q \in marked THEN [handler[q] EXCEPT !.moved = TRUE]
                                                      ELSE handler[q]]
  BY DEF Migrate, Moved
<1>4. marked \in SUBSET Handlers
  OBVIOUS
<1>5. /\ NothingGained /\ handler' = [q \in Handlers |-> handler'[q]]
      /\ \A q \in Handlers : handler[q].cred \in foreign => ~Unmoved(q)'
  <2>1. NothingGained /\ handler' = [q \in Handlers |-> handler'[q]]
        /\ \A q \in marked : ~Unmoved(q)'
    <3> HIDE DEF marked
    <3> QED
      BY <1>1, <1>3, <1>4, Marks
  <2> QED
    BY <2>1
<1>6. ASSUME NEW k \in foreign
      PROVE  /\ apiKey'[k] \in KeyRow /\ KeyDescended(apiKey'[k])
             /\ IsAccount(apiKey'[k].owner)
  <2>1. apiKey'[k] = [apiKey[k] EXCEPT !.scopes = ReadScopes]
    BY <1>2
  <2>2. ReadScopes # {} /\ Closed(ReadScopes) /\ ReadScopes \subseteq AllScopes
    BY ReadIsClosed DEF ReadScopes
  <2>3. IsKey(k) /\ apiKey[k] \in KeyRow /\ KeyDescended(apiKey[k])
    BY <1>1
  <2> QED
    BY <1>1, <2>1, <2>2, <2>3 DEF KeyRow, KeyDescended, IsKey, Owned
<1> HIDE DEF foreign
<1>7. KeysKept
  BY <1>1, <1>2, <1>5, <1>6 DEF KeysKept, Types
<1> QED
  BY <1>1, <1>2, <1>5, <1>7, SameBearers, CredentialStep

LEMMA LapseKeyStep ==
    ASSUME AccessInv, NEW k \in Keys, LapseKey(k)
    PROVE  AccessInv'
<1> DEFINE marked == {q \in Handlers : handler[q].cred = k}
<1>1. Types
  BY DEF AccessInv
<1>2. handler' = [q \in Handlers |-> IF q \in marked THEN [handler[q] EXCEPT !.moved = TRUE]
                                                      ELSE handler[q]]
  BY DEF LapseKey, Moved
<1>3. /\ NothingGained /\ handler' = [q \in Handlers |-> handler'[q]]
      /\ \A q \in marked : ~Unmoved(q)'
  <2>1. marked \in SUBSET Handlers
    OBVIOUS
  <2> HIDE DEF marked
  <2> QED
    BY <1>1, <1>2, <2>1, Marks
<1>4. apiKey' = [apiKey EXCEPT ![k] = NoKeyRow] /\ UNCHANGED <<account, bearer>>
  BY DEF LapseKey
<1>5. NoKeyRow \in KeyRow /\ KeyDescended(NoKeyRow) /\ NoKeyRow.state = "none"
  BY IdleTypes DEF NoKeyRow, KeyDescended
<1>6. KeysKept
  BY <1>1, <1>3, <1>4, <1>5 DEF KeysKept, Types
<1> QED
  BY <1>1, <1>3, <1>4, <1>6, SameBearers, CredentialStep

LEMMA LapseTokenStep ==
    ASSUME AccessInv, NEW t \in Tokens, LapseToken(t)
    PROVE  AccessInv'
<1> DEFINE marked == {q \in Handlers : handler[q].cred = t}
<1>1. Types
  BY DEF AccessInv
<1>2. handler' = [q \in Handlers |-> IF q \in marked THEN [handler[q] EXCEPT !.moved = TRUE]
                                                      ELSE handler[q]]
  BY DEF LapseToken, Moved
<1>3. /\ NothingGained /\ handler' = [q \in Handlers |-> handler'[q]]
      /\ \A q \in marked : ~Unmoved(q)'
  <2>1. marked \in SUBSET Handlers
    OBVIOUS
  <2> HIDE DEF marked
  <2> QED
    BY <1>1, <1>2, <2>1, Marks
<1>4. bearer' = [bearer EXCEPT ![t] = NoBearer] /\ UNCHANGED <<account, apiKey>>
  BY DEF LapseToken
<1>5. NoBearer \in Bearer /\ BearerDescended(NoBearer)
  BY IdleTypes DEF NoBearer, BearerDescended
<1>6. BearersKept
  BY <1>1, <1>3, <1>4, <1>5 DEF BearersKept, Types
<1> QED
  BY <1>1, <1>3, <1>4, <1>6, SameKeys, CredentialStep

(***************************************************************************)
(* Steps that change a request only.                                       *)
(***************************************************************************)
LEMMA RequestStep ==
    ASSUME AccessInv, UNCHANGED <<account, apiKey, bearer>>,
           NEW r \in Handlers, NEW h \in Handler, handler' = [handler EXCEPT ![r] = h],
           Descended(h), h.pc \in {"serve", "insert"} /\ ~h.moved => InForce(h)
    PROVE  AccessInv'
<1>1. Types' /\ Origins'
  BY DEF AccessInv, Types, Origins
<1>2. Owned' /\ OneAccountPerEmail'
  BY DEF AccessInv, Current, Owned, IsKey, IsAccount, OneAccountPerEmail
<1>3. ASSUME NEW q \in Handlers, Unmoved(q)' PROVE InForce(handler[q])'
  <2>1. InForce(handler'[q])
    BY <1>3 DEF AccessInv, Types, Current, Unmoved
  <2> QED
    BY <2>1 DEF InForce, Owner, IsAccount, Carried
<1> QED
  BY <1>1, <1>2, <1>3 DEF AccessInv, Current

LEMMA ReadRoleStep ==
    ASSUME AccessInv, NEW r \in Handlers, NEW u \in Users, ReadRole(r, u),
           UNCHANGED <<account, apiKey, bearer>>
    PROVE  AccessInv'
<1> DEFINE scopes == ScopesFor(account[u].role, account[u].portal)
           h == [IdleHandler EXCEPT !.pc = "issue", !.user = u, !.role = account[u].role,
                                    !.granted = scopes, !.signed = scopes]
<1>1. handler' = [handler EXCEPT ![r] = h]
  BY DEF ReadRole
<1>2. Closed(scopes) /\ scopes \subseteq AllScopes /\ ReadScopes \subseteq scopes
  BY RoleScopes
<1>3. account[u].role \in Roles
  BY DEF AccessInv, Types, Account
<1>4. h \in Handler /\ h.pc = "issue" /\ Descended(h)
  <2> HIDE DEF scopes
  <2> QED
    BY <1>2, <1>3, IdleTypes DEF IdleHandler, Handler, Descended
<1> HIDE DEF h
<1> QED
  BY <1>1, <1>4, RequestStep

LEMMA AuthenticateStep ==
    ASSUME AccessInv, NEW r \in Handlers, NEW c \in Credentials, Authenticate(r, c)
    PROVE  AccessInv'
<1> DEFINE signed == IF c \in Keys THEN apiKey[c].signed ELSE bearer[c].scopes
           h == [IdleHandler EXCEPT
                   !.pc = "serve", !.user = Owner(c), !.role = account[Owner(c)].role,
                   !.granted = Granted(c), !.cred = c, !.signed = signed]
<1>1. handler' = [handler EXCEPT ![r] = h] /\ UNCHANGED <<account, apiKey, bearer>>
  BY DEF Authenticate
<1>2. Types /\ Owned /\ Origins /\ Resolves(c)
  BY DEF Authenticate, AccessInv, Current
<1>3. /\ IsAccount(Owner(c))
      /\ IF c \in Keys THEN apiKey[c].state = "live" ELSE bearer[c].state = "live"
      /\ Closed(Carried(c)) /\ Carried(c) \subseteq signed
      /\ ReadScopes \subseteq signed /\ signed \subseteq AllScopes
  <2>1. CASE c \in Keys
    <3>1. c \notin Tokens
      BY <2>1, AccessAssumption
    <3> QED
      BY <1>2, <2>1, <3>1
      DEF Resolves, Owner, Owned, IsKey, Carried, Types, Origins, KeyRow, KeyDescended
  <2>2. CASE c \in Tokens
    <3>1. c \notin Keys
      BY <2>2, AccessAssumption
    <3> QED
      BY <1>2, <2>2, <3>1
      DEF Resolves, Owner, Carried, Types, Origins, Bearer, BearerDescended
  <2> QED
    BY <2>1, <2>2 DEF Credentials
<1>4. /\ Closed(Granted(c)) /\ Granted(c) \subseteq AllScopes /\ Granted(c) \subseteq Carried(c)
      /\ Granted(c) \subseteq ScopesFor(account[Owner(c)].role, account[Owner(c)].portal)
  BY <1>3, GrantedScopes
<1>5. Owner(c) \in Users /\ account[Owner(c)].role \in Roles
  BY <1>2, <1>3 DEF IsAccount, Types, Account
<1>6. h \in Handler /\ Descended(h)
  <2> HIDE DEF signed
  <2> QED
    BY <1>3, <1>4, <1>5, IdleTypes DEF IdleHandler, Handler, Descended
<1>7. InForce(h)
  <2> HIDE DEF signed
  <2>1. h.cred = c /\ h.user = Owner(c) /\ h.role = account[Owner(c)].role
        /\ h.granted = Granted(c)
    BY DEF IdleHandler
  <2> HIDE DEF h
  <2> QED
    BY <1>3, <1>4, <2>1 DEF InForce
<1> HIDE DEF h
<1> QED
  BY <1>1, <1>6, <1>7, RequestStep

LEMMA LookForEmailStep ==
    ASSUME AccessInv, NEW r \in Handlers, NEW email \in Emails, LookForEmail(r, email)
    PROVE  AccessInv'
<1> DEFINE h == [handler[r] EXCEPT !.pc = "insert", !.email = email]
<1>1. /\ handler' = [handler EXCEPT ![r] = h] /\ UNCHANGED <<account, apiKey, bearer>>
      /\ handler[r].pc = "serve"
  BY DEF LookForEmail
<1>2. handler[r] \in Handler /\ Descended(handler[r]) /\ (Unmoved(r) => InForce(handler[r]))
  BY DEF AccessInv, Types, Origins, Current
<1>3. h \in Handler /\ Descended(h)
  BY <1>1, <1>2 DEF Handler, Descended
<1>4. ~h.moved => InForce(h)
  BY <1>1, <1>2 DEF Handler, InForce, Unmoved
<1> HIDE DEF h
<1> QED
  BY <1>1, <1>3, <1>4, RequestStep

(***************************************************************************)
(* Steps that change accounts.                                             *)
(***************************************************************************)
LEMMA ChangeAccountStep ==
    ASSUME AccessInv, NEW u \in Users, NEW role \in Roles, NEW portal \in Portals,
           ChangeAccount(u, role, portal)
    PROVE  AccessInv'
<1> DEFINE marked == {q \in Handlers : handler[q].user = u}
<1>1. Types /\ Current
  BY DEF AccessInv
<1>2. /\ IsAccount(u) /\ UNCHANGED <<apiKey, bearer>>
      /\ account' = [account EXCEPT ![u] = [account[u] EXCEPT !.role = role, !.portal = portal]]
  BY DEF ChangeAccount
<1>3. /\ NothingGained /\ handler' = [q \in Handlers |-> handler'[q]]
      /\ \A q \in marked : ~Unmoved(q)'
  <2>1. handler' = [q \in Handlers |-> IF q \in marked THEN [handler[q] EXCEPT !.moved = TRUE]
                                                        ELSE handler[q]]
    BY DEF ChangeAccount, Moved
  <2>2. marked \in SUBSET Handlers
    OBVIOUS
  <2> HIDE DEF marked
  <2> QED
    BY <1>1, <2>1, <2>2, Marks
<1>4. \A v \in Users : /\ account'[v] \in Account
                       /\ account'[v].live = account[v].live
                       /\ account'[v].email = account[v].email
                       /\ account'[v].raced = account[v].raced
                       /\ v # u => account'[v] = account[v]
  BY <1>1, <1>2 DEF Types, Account
<1>5. Types' /\ Origins'
  <2>1. handler' \in [Handlers -> Handler] /\ \A r \in Handlers : Descended(handler'[r])
    BY <1>3, AfterIsWellFormed DEF AccessInv
  <2>2. account' \in [Users -> Account]
    BY <1>1, <1>2, <1>4 DEF Types
  <2> QED
    BY <1>2, <2>1, <2>2 DEF AccessInv, Types, Origins
<1>6. Owned'
  BY <1>1, <1>2, <1>4 DEF Current, Owned, IsKey, IsAccount
<1>7. ASSUME NEW r \in Handlers, Unmoved(r)' PROVE InForce(handler[r])'
  <2>1. handler[r].user # u /\ handler'[r] \in After(handler[r])
    BY <1>3, <1>7 DEF NothingGained
  <2>2. account'[handler[r].user] = account[handler[r].user]
    BY <1>2, <2>1
  <2> QED
    BY <1>1, <1>2, <1>7, <2>1, <2>2, InForceLasts
<1>8. OneAccountPerEmail'
  BY <1>4 DEF AccessInv, OneAccountPerEmail, IsAccount
<1> QED
  BY <1>5, <1>6, <1>7, <1>8 DEF AccessInv, Current

LEMMA DeleteAccountStep ==
    ASSUME AccessInv, NEW u \in Users, DeleteAccount(u)
    PROVE  AccessInv'
<1>1. Types /\ Current /\ Origins
  BY DEF AccessInv
<1>2. /\ account' = [account EXCEPT ![u] = Unused]
      /\ apiKey' = [k \in Keys |-> IF apiKey[k].owner = u THEN NoKeyRow ELSE apiKey[k]]
      /\ bearer' = [t \in Tokens |-> IF bearer[t].sub = u THEN [bearer[t] EXCEPT !.sub = Nobody]
                                      ELSE bearer[t]]
      /\ handler' = [r \in Handlers |-> IF handler[r].user = u
                                         THEN [handler[r] EXCEPT !.user = Nobody, !.moved = TRUE]
                                         ELSE handler[r]]
  BY DEF DeleteAccount
<1>3. NothingGained /\ handler' = [q \in Handlers |-> handler'[q]]
  BY <1>2 DEF NothingGained, After
<1>4. /\ Unused \in Account /\ NoKeyRow \in KeyRow /\ KeyDescended(NoKeyRow)
      /\ Unused.live = FALSE /\ NoKeyRow.state = "none"
  BY IdleTypes DEF Unused, NoKeyRow, KeyDescended
<1>5. Types' /\ Origins'
  <2>1. handler' \in [Handlers -> Handler] /\ \A r \in Handlers : Descended(handler'[r])
    BY <1>1, <1>3, AfterIsWellFormed
  <2>2. account' \in [Users -> Account]
    BY <1>1, <1>2, <1>4 DEF Types
  <2>3. apiKey' \in [Keys -> KeyRow] /\ \A k \in Keys : KeyDescended(apiKey'[k])
    BY <1>1, <1>2, <1>4 DEF Types, Origins
  <2>4. ASSUME NEW t \in Tokens PROVE bearer'[t] \in Bearer /\ BearerDescended(bearer'[t])
    <3>1. bearer[t] \in Bearer /\ BearerDescended(bearer[t])
      BY <1>1 DEF Types, Origins
    <3>2. /\ [bearer[t] EXCEPT !.sub = Nobody] \in Bearer
          /\ BearerDescended([bearer[t] EXCEPT !.sub = Nobody])
      BY <3>1 DEF Bearer, BearerDescended
    <3> QED
      BY <1>2, <3>1, <3>2
  <2> QED
    BY <1>2, <2>1, <2>2, <2>3, <2>4 DEF Types, Origins
<1>6. Owned'
  <2> SUFFICES ASSUME NEW k \in Keys, IsKey(k)' PROVE IsAccount(apiKey[k].owner)'
    BY DEF Owned
  <2>1. apiKey'[k] = apiKey[k] /\ apiKey[k].owner # u
    BY <1>2, <1>4 DEF IsKey
  <2>2. IsKey(k)
    BY <2>1 DEF IsKey
  <2>3. apiKey[k].owner \in Users /\ account[apiKey[k].owner].live
    BY <1>1, <2>2 DEF Current, Owned, IsAccount
  <2>4. account'[apiKey[k].owner] = account[apiKey[k].owner]
    BY <1>1, <1>2, <2>1, <2>3 DEF Types
  <2> QED
    BY <2>1, <2>3, <2>4 DEF IsAccount
<1>7. ASSUME NEW r \in Handlers, Unmoved(r)' PROVE InForce(handler[r])'
  <2>1. handler[r] \in Handler
    BY <1>1 DEF Types
  <2>2. handler[r].user # u /\ handler'[r] = handler[r] /\ Unmoved(r)
    BY <1>2, <1>7, <2>1 DEF Unmoved, Handler
  <2>3. handler[r].cred \in Credentials /\ Owner(handler[r].cred) # u
    BY <1>1, <2>2 DEF Current, InForce
  <2>4. handler[r].cred \in Keys => apiKey'[handler[r].cred] = apiKey[handler[r].cred]
    BY <1>2, <2>3, AccessAssumption DEF Owner
  <2>5. handler[r].cred \in Tokens => bearer'[handler[r].cred] = bearer[handler[r].cred]
    BY <1>2, <2>3 DEF Owner
  <2>6. account'[handler[r].user] = account[handler[r].user]
    BY <1>1, <1>2, <2>2 DEF Current, InForce, IsAccount, Types
  <2>7. handler'[r] \in After(handler[r])
    BY <1>3 DEF NothingGained
  <2> QED
    BY <1>1, <1>7, <2>4, <2>5, <2>6, <2>7, InForceLasts
<1>8. OneAccountPerEmail'
  <2>1. \A v \in Users : IsAccount(v)' => v # u /\ account'[v] = account[v] /\ IsAccount(v)
    BY <1>1, <1>2, <1>4 DEF IsAccount, Types
  <2> QED
    BY <2>1 DEF AccessInv, OneAccountPerEmail
<1> QED
  BY <1>5, <1>6, <1>7, <1>8 DEF AccessInv, Current

LEMMA InsertAccountStep ==
    ASSUME AccessInv, NEW r \in Handlers, NEW u \in Users, NEW role \in Roles,
           NEW portal \in Portals, InsertAccount(r, u, role, portal)
    PROVE  AccessInv'
<1> DEFINE email == handler[r].email
           raced == \E v \in Users : SameName(v, email.name)
           new == [live |-> TRUE, email |-> email, role |-> role, portal |-> portal,
                   raced |-> raced]
<1>1. Types /\ Current /\ Origins /\ email \in Emails
  BY DEF AccessInv, Types, Handler
<1>2. /\ account' = [account EXCEPT ![u] = new] /\ ~account[u].live
      /\ ~\E v \in Users : IsAccount(v) /\ account[v].email = email
      /\ End(r) /\ UNCHANGED <<apiKey, bearer>>
  BY DEF InsertAccount, NewAccount
<1>3. NothingGained /\ handler' = [q \in Handlers |-> handler'[q]]
  BY <1>1, <1>2, Ends
<1>4. new \in Account /\ new.live /\ new.email = email /\ new.raced = raced
  <2>1. raced \in BOOLEAN
    OBVIOUS
  <2> HIDE DEF raced, email
  <2> QED
    BY <1>1, <2>1 DEF Account
<1> HIDE DEF new
<1>5. \A v \in Users \ {u} : account'[v] = account[v]
  BY <1>2
<1>6. account'[u] = new
  BY <1>1, <1>2 DEF Types
<1>7. Types' /\ Origins'
  <2>1. handler' \in [Handlers -> Handler] /\ \A q \in Handlers : Descended(handler'[q])
    BY <1>1, <1>3, AfterIsWellFormed
  <2>2. account' \in [Users -> Account]
    BY <1>1, <1>2, <1>4 DEF Types
  <2> QED
    BY <1>1, <1>2, <2>1, <2>2 DEF Types, Origins
<1>8. \A v : IsAccount(v) => v \in Users \ {u} /\ IsAccount(v)'
  BY <1>2, <1>5 DEF IsAccount
<1>9. Owned'
  BY <1>1, <1>2, <1>8 DEF Current, Owned, IsKey
<1>10. ASSUME NEW q \in Handlers, Unmoved(q)' PROVE InForce(handler[q])'
  <2>1. handler'[q] = handler[q] /\ Unmoved(q)
    BY <1>2, <1>10 DEF End, Unmoved, IdleHandler
  <2>2. account'[handler[q].user] = account[handler[q].user]
    BY <1>1, <1>5, <1>8, <2>1 DEF Current, InForce
  <2>3. handler'[q] \in After(handler[q])
    BY <1>3 DEF NothingGained
  <2> QED
    BY <1>1, <1>2, <1>10, <2>2, <2>3, InForceLasts
<1>11. OneAccountPerEmail'
  <2> SUFFICES ASSUME NEW v \in Users, NEW w \in Users, v # w, IsAccount(v)', IsAccount(w)',
                      account'[v].email.name = account'[w].email.name
               PROVE  /\ account'[v].raced \/ account'[w].raced
                      /\ account'[v].email # account'[w].email
    BY DEF OneAccountPerEmail
  <2>1. CASE v # u /\ w # u
    BY <1>5, <2>1 DEF AccessInv, OneAccountPerEmail, IsAccount
  <2>2. CASE v = u
    <3>1. IsAccount(w) /\ account'[w] = account[w]
      BY <1>5, <2>2 DEF IsAccount
    <3>2. SameName(w, email.name)
      BY <1>4, <1>6, <2>2, <3>1 DEF SameName
    <3>3. account[w].email # email
      BY <1>2, <3>1
    <3> QED
      BY <1>4, <1>6, <2>2, <3>1, <3>2, <3>3
  <2>3. CASE w = u
    <3>1. IsAccount(v) /\ account'[v] = account[v]
      BY <1>5, <2>3 DEF IsAccount
    <3>2. SameName(v, email.name)
      BY <1>4, <1>6, <2>3, <3>1 DEF SameName
    <3>3. account[v].email # email
      BY <1>2, <3>1
    <3> QED
      BY <1>4, <1>6, <2>3, <3>1, <3>2, <3>3
  <2> QED
    BY <2>1, <2>2, <2>3
<1> QED
  BY <1>7, <1>9, <1>10, <1>11 DEF AccessInv, Current

(***************************************************************************)
(* The invariant, and what it gives.                                       *)
(***************************************************************************)
LEMMA AccessInvInit ==
    ASSUME AccessInit
    PROVE  AccessInv
<1>1. PICK u \in Users, e \in Emails :
        account = [v \in Users |->
                     IF v = u THEN [Unused EXCEPT !.live = TRUE, !.email = e, !.role = "admin"]
                              ELSE Unused]
  BY DEF AccessInit
<1>2. [Unused EXCEPT !.live = TRUE, !.email = e, !.role = "admin"] \in Account
  BY IdleTypes DEF Account, Roles
<1>3. Types
  BY <1>1, <1>2, IdleTypes DEF AccessInit, Types
<1>4. Origins /\ Current
  BY IdleTypes
  DEF AccessInit, Origins, Current, Owned, Unmoved, KeyDescended, BearerDescended, NoKeyRow,
      NoBearer, IdleHandler, IsKey
<1>5. \A v \in Users : IsAccount(v) => v = u
  BY <1>1 DEF IsAccount, Unused
<1>6. OneAccountPerEmail
  BY <1>5 DEF OneAccountPerEmail
<1> QED
  BY <1>3, <1>4, <1>6 DEF AccessInv

LEMMA AccessStep ==
    ASSUME AccessInv, [AccessNext]_accessVars
    PROVE  AccessInv'
<1>0. \A post \in Posts : post[1] \in Roles /\ post[2] \in Portals
  BY AccessAssumption
<1>1. CASE UNCHANGED accessVars
  BY <1>1
  DEF accessVars, AccessInv, Types, Origins, Current, Owned, Unmoved, InForce, Owner, Carried,
      IsKey, IsAccount, OneAccountPerEmail
<1>2. CASE \E r \in Handlers, u \in Users : ReadAccount(r, u) \/ ReadSession(r, u)
  BY <1>2, ReadRoleStep DEF ReadAccount, ReadSession
<1>3. CASE \E r \in Handlers, t \in Tokens : IssueToken(r, t)
  BY <1>3, IssueTokenStep
<1>4. CASE \E r \in Handlers, c \in Credentials : Authenticate(r, c)
  BY <1>4, AuthenticateStep
<1>5. CASE \E r \in Handlers : Serve(r) \/ Abort(r)
  <2>1. PICK r \in Handlers : End(r) /\ UNCHANGED <<account, apiKey, bearer>>
    BY <1>5 DEF Serve, Abort
  <2> QED
    BY <2>1, Ends, SameKeys, SameBearers, CredentialStep DEF AccessInv
<1>6. CASE \E r \in Handlers, k \in Keys, asked \in Requests : CreateKey(r, k, asked)
  BY <1>6, CreateKeyStep
<1>7. CASE \E r \in Handlers, k \in Keys : RevokeKey(r, k)
  BY <1>7, RevokeKeyStep
<1>8. CASE \E r \in Handlers, email \in Emails : LookForEmail(r, email)
  BY <1>8, LookForEmailStep
<1>9. CASE \E r \in Handlers, u \in Users, post \in Posts : InsertAccount(r, u, post[1], post[2])
  BY <1>0, <1>9, InsertAccountStep
<1>10. CASE \E u \in Users, post \in Posts : ChangeAccount(u, post[1], post[2])
  BY <1>0, <1>10, ChangeAccountStep
<1>11. CASE \E u \in Users : DeleteAccount(u)
  BY <1>11, DeleteAccountStep
<1>12. CASE Migrate
  BY <1>12, MigrateStep
<1>13. CASE \E k \in Keys : LapseKey(k)
  BY <1>13, LapseKeyStep
<1>14. CASE \E t \in Tokens : LapseToken(t)
  BY <1>14, LapseTokenStep
<1> QED
  BY <1>1, <1>2, <1>3, <1>4, <1>5, <1>6, <1>7, <1>8, <1>9, <1>10, <1>11, <1>12, <1>13, <1>14
  DEF AccessNext

THEOREM AccessInvariant == AccessSpec => []AccessInv
<1>1. AccessInit => AccessInv
  BY AccessInvInit
<1>2. AccessInv /\ [AccessNext]_accessVars => AccessInv'
  BY AccessStep
<1> QED
  BY <1>1, <1>2, PTL DEF AccessSpec

(***************************************************************************)
(* "The key can only ever lose authority this way, never gain it"          *)
(* (core/auth.py:255): no chain of keys minted with keys, no promotion and *)
(* no migration gives a request a scope that the token its chain begins    *)
(* with did not carry when a login or a refresh signed it.                 *)
(***************************************************************************)
THEOREM NeverBeyondSigning == AccessSpec => []NothingBeyondSigning
<1>1. AccessInv => NothingBeyondSigning
  BY DEF AccessInv, Origins, Descended, NothingBeyondSigning
<1> QED
  BY <1>1, AccessInvariant, PTL

(***************************************************************************)
(* A request under whose feet nothing has changed acts for an account that *)
(* exists, within its credential and within what the account may do today. *)
(***************************************************************************)
THEOREM ActsWithinAuthority == AccessSpec => []AuthorityIsCurrent
<1>1. AccessInv => AuthorityIsCurrent
  BY DEF AccessInv, Current, Unmoved, InForce, AuthorityIsCurrent
<1> QED
  BY <1>1, AccessInvariant, PTL

(***************************************************************************)
(* Two accounts of one address take two registrations that overlap and     *)
(* spell it differently.                                                   *)
(***************************************************************************)
THEOREM AddressesDistinct == AccessSpec => []OneAccountPerEmail
<1>1. AccessInv => OneAccountPerEmail
  BY DEF AccessInv
<1> QED
  BY <1>1, AccessInvariant, PTL
=============================================================================
