------------------------------- MODULE Access -------------------------------
(***************************************************************************)
(* Who may do what: accounts, access tokens, API keys and scopes           *)
(* (core/auth.py, core/scopes.py, core/tokens.py, auth_api_keys.py and the *)
(* login, refresh and register handlers).  An action is what a handler does between *)
(* two awaits: get_current_user reads the rows once, and everything after  *)
(* it uses the principal built from them.  A password is known to its      *)
(* owner and a credential may be presented by any handler at any time.     *)
(* Audit rows change no decision and are left out.                         *)
(***************************************************************************)
EXTENDS Naturals

CONSTANTS
    Users,      \* accounts that exist at once
    Keys,       \* API keys that exist at once
    Tokens,     \* access tokens in circulation at once
    Handlers,   \* requests in progress at once
    Names,      \* e-mail addresses up to upper and lower case
    Posts,      \* the pairs of role and portal that accounts are given
    Requests    \* the scope lists that POST /api/keys is called with

VARIABLES
    account,    \* users
    apiKey,     \* api_keys
    bearer,     \* the access tokens that have been signed
    handler     \* the requests in progress

accessVars == <<account, apiKey, bearer, handler>>

-----------------------------------------------------------------------------
(* core/scopes.py.                                                         *)

AllScopes == {"tls:read", "tls:probe", "tls:admin", "ssh:read", "ssh:admin",
              "ipsec:read", "ipsec:admin", "system:admin"}
ReadScopes == {"tls:read", "ssh:read", "ipsec:read"}
Roles == {"admin", "operator"}
Portals == {"main", "tls", "ssh", "ipsec"}

\* A credential is either a key or a token, and accounts have one of the roles and portals.
ASSUME AccessAssumption ==
    Names # {} /\ Keys \cap Tokens = {} /\ Posts \subseteq Roles \X Portals

Implied(scope) ==
    CASE scope = "system:admin" -> AllScopes
      [] scope = "tls:admin"    -> {"tls:read", "tls:probe"}
      [] scope = "tls:probe"    -> {"tls:read"}
      [] scope = "ssh:admin"    -> {"ssh:read"}
      [] scope = "ipsec:admin"  -> {"ipsec:read"}
      [] OTHER                  -> {}

Expand(scopes) == LET known == scopes \cap AllScopes
                  IN known \cup UNION {Implied(s) : s \in known}

PortalAdmin(portal) ==
    CASE portal = "tls"   -> {"tls:admin"}
      [] portal = "ssh"   -> {"ssh:admin"}
      [] portal = "ipsec" -> {"ipsec:admin"}
      [] OTHER            -> {}
ScopesFor(role, portal) ==
    Expand((IF role = "admin" THEN {"system:admin"} ELSE ReadScopes) \cup PortalAdmin(portal))

HasAny(held, required) == Expand(held) \cap required \cap AllScopes # {}

-----------------------------------------------------------------------------

Nobody == "nobody"
Emails == [name: Names, mixed: BOOLEAN]     \* mixed: not written in lower case
AnyEmail == CHOOSE e \in Emails : TRUE

Account == [live: BOOLEAN, email: Emails, role: Roles, portal: Portals,
            raced: BOOLEAN]     \* history: another of the same name was there at the INSERT
Unused == [live |-> FALSE, email |-> AnyEmail, role |-> "operator", portal |-> "main",
           raced |-> FALSE]

KeyRow == [state: {"none", "live", "revoked"},
           owner: Users \cup {Nobody}, scopes: SUBSET AllScopes,
           signed: SUBSET AllScopes]    \* history: the scopes of the token it descends from
NoKeyRow == [state |-> "none", owner |-> Nobody, scopes |-> {}, signed |-> {}]

Bearer == [state: {"none", "live"},
           sub: Users \cup {Nobody}, scopes: SUBSET AllScopes]
NoBearer == [state |-> "none", sub |-> Nobody, scopes |-> {}]

Credentials == Keys \cup Tokens
Handler == [pc: {"idle", "issue", "serve", "insert"},
            user: Users \cup {Nobody},
            role: Roles,
            granted: SUBSET AllScopes,      \* the principal's scopes
            cred: Credentials \cup {Nobody},
            signed: SUBSET AllScopes,       \* history: the scopes of the token behind it
            moved: BOOLEAN,     \* history: user or credential changed since it was read
            email: Emails]      \* register: the new account's address
IdleHandler == [pc |-> "idle", user |-> Nobody, role |-> "operator", granted |-> {},
                cred |-> Nobody, signed |-> {}, moved |-> FALSE, email |-> AnyEmail]

\* An id is not given twice: what refers to a deleted account refers to nobody for ever.
IsAccount(u) == u \in Users /\ account[u].live
IsKey(k) == apiKey[k].state \in {"live", "revoked"}

\* A key never carries an empty list, and what it carries is closed under implication.
AccessTypeOK ==
    /\ account \in [Users -> Account]
    /\ apiKey \in [Keys -> KeyRow]
    /\ \A k \in Keys : IsKey(k) => /\ apiKey[k].scopes # {}
                                   /\ apiKey[k].scopes = Expand(apiKey[k].scopes)
    /\ bearer \in [Tokens -> Bearer]
    /\ handler \in [Handlers -> Handler]

\* seed_admin.py
AccessInit ==
    /\ \E u \in Users, e \in Emails :
          account = [v \in Users |->
                        IF v = u THEN [Unused EXCEPT !.live = TRUE, !.email = e, !.role = "admin"]
                                 ELSE Unused]
    /\ apiKey = [k \in Keys |-> NoKeyRow]
    /\ bearer = [t \in Tokens |-> NoBearer]
    /\ handler = [r \in Handlers |-> IdleHandler]

\* Requests whose user or credential changes under them.
Moved(affected(_)) ==
    handler' = [r \in Handlers |-> IF affected(handler[r]) THEN [handler[r] EXCEPT !.moved = TRUE]
                                   ELSE handler[r]]
End(r) == handler' = [handler EXCEPT ![r] = IdleHandler]
\* r ends by a statement that changes the credential c.
EndAnd(r, c) ==
    handler' = [q \in Handlers |->
                  IF q = r THEN IdleHandler
                  ELSE IF handler[q].cred = c THEN [handler[q] EXCEPT !.moved = TRUE]
                  ELSE handler[q]]

-----------------------------------------------------------------------------
(* Login and authentication.                                               *)

\* The account's role and portal, read now, and the scopes computed from them.
ReadRole(r, u) ==
    LET scopes == ScopesFor(account[u].role, account[u].portal)
    IN handler' = [handler EXCEPT ![r] = [IdleHandler EXCEPT
           !.pc = "issue", !.user = u, !.role = account[u].role,
           !.granted = scopes, !.signed = scopes]]

\* authenticate_user reads the row; /login-scoped then asks whether the portal fits.
PortalFits(a, portal) == a.role = "admin" \/ a.portal = "main" \/ a.portal = portal
ReadAccount(r, u) ==
    /\ handler[r].pc = "idle"
    /\ IsAccount(u)
    /\ \E portal \in Portals : PortalFits(account[u], portal)
    /\ ReadRole(r, u)
    /\ UNCHANGED <<account, apiKey, bearer>>

\* POST /refresh: the SELECT that finds the refresh token joins its user, so the role is the
\* one of now, not the one of the login.  Which refresh tokens are live is RefreshTokens's
\* matter: here any account that exists may hold one.
ReadSession(r, u) ==
    /\ handler[r].pc = "idle"
    /\ IsAccount(u)
    /\ ReadRole(r, u)
    /\ UNCHANGED <<account, apiKey, bearer>>

\* Both handlers sign what they read, several awaits later.
IssueToken(r, t) ==
    /\ handler[r].pc = "issue"
    /\ bearer[t].state # "live"
    /\ bearer' = [bearer EXCEPT ![t] = [state |-> "live", sub |-> handler[r].user,
                                        scopes |-> Expand(handler[r].granted)]]
    /\ EndAnd(r, t)
    /\ UNCHANGED <<account, apiKey>>

\* Seeded fault: the row of a revoked key still resolves.
ResolvesRevoked(c) ==
    \/ c \in Tokens /\ bearer[c].state = "live" /\ IsAccount(bearer[c].sub)
    \/ c \in Keys /\ IsKey(c)

\* The credential is live and so is its user.
Resolves(c) ==
    \/ c \in Tokens /\ bearer[c].state = "live" /\ IsAccount(bearer[c].sub)
    \/ c \in Keys /\ apiKey[c].state = "live"

Owner(c) == IF c \in Tokens THEN bearer[c].sub ELSE apiKey[c].owner
Carried(c) == IF c \in Tokens THEN bearer[c].scopes ELSE apiKey[c].scopes

\* Seeded fault: a key has what its owner's role grants, "never from the key row".
GrantedByRole(c) ==
    LET owner == account[Owner(c)]
        current == Expand(ScopesFor(owner.role, owner.portal))
    IN IF c \in Keys THEN current ELSE Expand(Carried(c)) \cap current

\* Both kinds of credential: what it carries and what its owner may do today.
Granted(c) == LET owner == account[Owner(c)]
              IN Expand(Carried(c)) \cap Expand(ScopesFor(owner.role, owner.portal))

\* (For a key the handler then waits for the UPDATE of last_used, which decides nothing.)
Authenticate(r, c) ==
    /\ handler[r].pc = "idle"
    /\ Resolves(c)
    /\ handler' = [handler EXCEPT ![r] = [IdleHandler EXCEPT
           !.pc = "serve", !.user = Owner(c), !.role = account[Owner(c)].role,
           !.granted = Granted(c), !.cred = c,
           !.signed = IF c \in Keys THEN apiKey[c].signed ELSE bearer[c].scopes]]
    /\ UNCHANGED <<account, apiKey, bearer>>

-----------------------------------------------------------------------------
(* What an authenticated handler does.                                     *)

\* Any route that changes nothing here: require_user, or require_scope with a scope held.
Serve(r) ==
    /\ handler[r].pc = "serve"
    /\ \/ HasAny(handler[r].granted, AllScopes)
       \/ handler[r].granted = {}
    /\ End(r)
    /\ UNCHANGED <<account, apiKey, bearer>>

\* A slot of the model serves again once its key can never resolve again.
Key(r, k, scopes) ==
    /\ apiKey[k].state # "live"
    /\ EndAnd(r, k)
    /\ apiKey' = [apiKey EXCEPT ![k] = [state |-> "live", owner |-> handler[r].user,
                                     scopes |-> scopes,
                                     signed |-> handler[r].signed]]

\* POST /api/keys: never a scope the caller lacks, never an empty list.
\* (A key without an end is one that LapseKey never meets; the foreign key refuses a user
\* deleted meanwhile.)
CreateKey(r, k, asked) ==
    LET own == Expand(handler[r].granted)
        grant == IF asked = {} THEN own \cap ReadScopes ELSE Expand(asked) \cap own
    IN /\ handler[r].pc = "serve" /\ IsAccount(handler[r].user)
       /\ asked \subseteq own
       /\ grant # {}
       /\ Key(r, k, grant)
       /\ UNCHANGED <<account, bearer>>

\* DELETE /api/keys/{id}
RevokeKey(r, k) ==
    /\ handler[r].pc = "serve"
    /\ apiKey[k].state = "live" /\ apiKey[k].owner = handler[r].user
    /\ apiKey' = [apiKey EXCEPT ![k].state = "revoked"]
    /\ EndAnd(r, k)
    /\ UNCHANGED <<account, bearer>>

SameName(u, name) == IsAccount(u) /\ account[u].email.name = name

\* migrations/009_api_key_scopes.sql, which run_migrations executes at every start: its
\* list of known scopes lacks one.
ListedScopes == AllScopes \ {"tls:probe"}
Migrate ==
    LET foreign == {k \in Keys : IsKey(k) /\ ~(apiKey[k].scopes \subseteq ListedScopes)}
    IN /\ apiKey' = [k \in Keys |-> IF k \in foreign THEN [apiKey[k] EXCEPT !.scopes = ReadScopes]
                                   ELSE apiKey[k]]
       /\ Moved(LAMBDA q : q.cred \in foreign)
       /\ UNCHANGED <<account, bearer>>

\* POST /register: require_admin, and nobody has the address in any spelling.
LookForEmail(r, email) ==
    /\ handler[r].pc = "serve" /\ handler[r].role = "admin"
    /\ ~\E u \in Users : SameName(u, email.name)
    /\ handler' = [handler EXCEPT ![r].pc = "insert", ![r].email = email]
    /\ UNCHANGED <<account, apiKey, bearer>>

NewAccount(r, u, role, portal) ==
    account' = [account EXCEPT ![u] =
                  [live |-> TRUE, email |-> handler[r].email, role |-> role, portal |-> portal,
                   raced |-> \E v \in Users : SameName(v, handler[r].email.name)]]

\* Seeded fault: a table without the UNIQUE constraint.
InsertAccountAnyway(r, u, role, portal) ==
    /\ handler[r].pc = "insert" /\ ~account[u].live
    /\ NewAccount(r, u, role, portal)
    /\ End(r)
    /\ UNCHANGED <<apiKey, bearer>>

\* The UNIQUE constraint compares the exact spelling; a violation is a 500 (Abort).
InsertAccount(r, u, role, portal) ==
    /\ handler[r].pc = "insert" /\ ~account[u].live
    /\ ~\E v \in Users : IsAccount(v) /\ account[v].email = handler[r].email
    /\ NewAccount(r, u, role, portal)
    /\ End(r)
    /\ UNCHANGED <<apiKey, bearer>>

\* An exception, a refusal, or the process stops.
Abort(r) ==
    /\ handler[r].pc # "idle"
    /\ End(r)
    /\ UNCHANGED <<account, apiKey, bearer>>

-----------------------------------------------------------------------------
(* What happens outside the API: an administrator's SQL, and time.  An     *)
(* expired credential is no more: nothing accepts or reads it again.       *)

ChangeAccount(u, role, portal) ==
    /\ IsAccount(u)
    /\ <<role, portal>> # <<account[u].role, account[u].portal>>
    /\ account' = [account EXCEPT ![u].role = role, ![u].portal = portal]
    /\ Moved(LAMBDA q : q.user = u)
    /\ UNCHANGED <<apiKey, bearer>>

\* ON DELETE CASCADE
DeleteAccount(u) ==
    /\ IsAccount(u)
    /\ account' = [account EXCEPT ![u] = Unused]
    /\ apiKey' = [k \in Keys |-> IF apiKey[k].owner = u THEN NoKeyRow ELSE apiKey[k]]
    /\ bearer' = [t \in Tokens |-> IF bearer[t].sub = u THEN [bearer[t] EXCEPT !.sub = Nobody]
                                   ELSE bearer[t]]
    /\ handler' = [r \in Handlers |-> IF handler[r].user = u
                                       THEN [handler[r] EXCEPT !.user = Nobody, !.moved = TRUE]
                                       ELSE handler[r]]

LapseKey(k) ==
    /\ apiKey[k].state = "live"
    /\ apiKey' = [apiKey EXCEPT ![k] = NoKeyRow]
    /\ Moved(LAMBDA q : q.cred = k)
    /\ UNCHANGED <<account, bearer>>

LapseToken(t) ==
    /\ bearer[t].state = "live"
    /\ bearer' = [bearer EXCEPT ![t] = NoBearer]
    /\ Moved(LAMBDA q : q.cred = t)
    /\ UNCHANGED <<account, apiKey>>

AccessNext ==
    \/ \E r \in Handlers, u \in Users : ReadAccount(r, u) \/ ReadSession(r, u)
    \/ \E r \in Handlers, t \in Tokens : IssueToken(r, t)
    \/ \E r \in Handlers, c \in Credentials : Authenticate(r, c)
    \/ \E r \in Handlers : Serve(r) \/ Abort(r)
    \/ \E r \in Handlers, k \in Keys, asked \in Requests : CreateKey(r, k, asked)
    \/ \E r \in Handlers, k \in Keys : RevokeKey(r, k)
    \/ \E r \in Handlers, email \in Emails : LookForEmail(r, email)
    \/ \E r \in Handlers, u \in Users, post \in Posts : InsertAccount(r, u, post[1], post[2])
    \/ \E u \in Users, post \in Posts : ChangeAccount(u, post[1], post[2])
    \/ \E u \in Users : DeleteAccount(u)
    \/ Migrate
    \/ \E k \in Keys : LapseKey(k)
    \/ \E t \in Tokens : LapseToken(t)

AccessSpec == AccessInit /\ [][AccessNext]_accessVars

-----------------------------------------------------------------------------
(* Properties.                                                             *)

\* A token is signed with the scopes of the role and portal that its login or refresh read:
\* a refresh after a promotion signs more than the login did.  From there on nothing is
\* gained: down any chain of keys minted with keys, through promotions, demotions and
\* migrations, a request never has a scope that the token at the head of the chain did not
\* carry (core/auth.py:255, "The key can only ever lose authority this way, never gain it").
NothingBeyondSigning ==
    \A r \in Handlers : handler[r].granted \subseteq handler[r].signed

\* A request whose user and credential have not been changed since it read them acts for an
\* account that exists, with a live credential, within what the credential carries and the
\* account's role and portal grant today.
AuthorityIsCurrent ==
    \A r \in Handlers :
        handler[r].pc \in {"serve", "insert"} /\ ~handler[r].moved =>
            LET a == account[handler[r].user]
                c == handler[r].cred
            IN /\ IsAccount(handler[r].user)
               /\ IF c \in Keys THEN apiKey[c].state = "live" ELSE bearer[c].state = "live"
               /\ handler[r].role = a.role
               /\ handler[r].granted \subseteq ScopesFor(a.role, a.portal) \cap Carried(c)

\* "Widening on migration would be a silent privilege grant; narrowing is the safe
\* direction" (009_api_key_scopes.sql:26): no step gives a live key a scope it did not have.
KeysOnlyNarrow ==
    [][\A k \in Keys : apiKey[k].state = "live" /\ apiKey'[k].state = "live"
           => apiKey'[k].scopes \subseteq apiKey[k].scopes]_accessVars

\* Two accounts of one address can only come from two registrations that overlapped, and
\* only in two spellings: the check ignores case (auth_router.py:598), the constraint does not.
OneAccountPerEmail ==
    \A u, v \in Users : u # v /\ IsAccount(u) /\ IsAccount(v)
                            /\ account[u].email.name = account[v].email.name
        => /\ account[u].raced \/ account[v].raced
           /\ account[u].email # account[v].email
=============================================================================
