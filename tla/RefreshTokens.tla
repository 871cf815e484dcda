--------------------------- MODULE RefreshTokens ---------------------------
(***************************************************************************)
(* The refresh-token store of quansec: core/tokens.py and the four         *)
(* handlers of protocols/auth_router.py that change it (login, refresh,    *)
(* logout, revoke-all).  A handler is a sequence of autocommit SQL         *)
(* statements: there is no transaction and no row lock around a rotation,  *)
(* so one action is one statement and any other request may run between    *)
(* two of them.  A token is its row id; what the client holds, the raw     *)
(* value, is known outside the server once its id is in `delivered'.       *)
(***************************************************************************)
EXTENDS Integers, FiniteSets

CONSTANTS
    Users,       \* accounts
    Requests,    \* handler slots: how many requests may be in flight at once
    Lifetime,    \* REFRESH_TOKEN_TTL_DAYS, in clock ticks
    MaxTokens,   \* bound: rows ever inserted
    Horizon,     \* bound: last clock tick
    MaxAborts    \* bound: requests cut short by a crash or a lost response

ASSUME Lifetime_Assumption == Lifetime \in Nat \ {0}
ASSUME Bounds_Assumption == MaxTokens \in Nat /\ Horizon \in Nat /\ MaxAborts \in Nat

VARIABLES
    issued,      \* value of the BIGSERIAL sequence of refresh_tokens.id
    token,       \* the rows, by id
    req,         \* what each request in flight has read and still has to do
    delivered,   \* ids whose raw token has left the server
    now,         \* the clock that expires_at is compared with
    aborts,      \* aborted requests so far
    raced        \* history: families in which two rotations overlapped or
                 \* one stopped between its INSERT and its UPDATE

vars == <<issued, token, req, delivered, now, aborts, raced>>

\* 0 is SQL NULL.  revoked_at and revoked_reason are always written together,
\* so one field holds both: "live" stands for revoked_at IS NULL.
Reasons == {"live", "rotated", "logout", "revoke_all", "reuse_detected"}
Row == [user: Users, family: Nat, parent: Nat, replaced_by: Nat,
        reason: Reasons, expires_at: Nat]

Outcomes == {"none", "ok", "unknown_token", "expired", "revoked", "reuse_detected"}
Request == [pc: {"idle", "revoke_family", "insert", "update", "respond"},
            tok: Nat, succ: Nat, outcome: Outcomes,
            condemned: SUBSET Nat]  \* history: what a replay has to kill
Idle == [pc |-> "idle", tok |-> 0, succ |-> 0, outcome |-> "none", condemned |-> {}]

TypeOK ==
    /\ issued \in Nat
    /\ token \in [1..issued -> Row]
    /\ req \in [Requests -> Request]
    /\ delivered \subseteq 1..issued
    /\ now \in Nat
    /\ aborts \in Nat
    /\ raced \subseteq 1..issued

Live(t) == token[t].reason = "live"
Usable(t) == Live(t) /\ token[t].expires_at > now
\* A request that read a usable token and has not yet closed it.
Rotating(r) == req[r].pc \in {"insert", "update"}
RotatingIn(r, f) == Rotating(r) /\ token[req[r].tok].family = f

Init ==
    /\ issued = 0
    /\ token = [i \in 1..0 |-> 0]
    /\ req = [r \in Requests |-> Idle]
    /\ delivered = {}
    /\ now = 0
    /\ aborts = 0
    /\ raced = {}

-----------------------------------------------------------------------------
(* Statements.                                                             *)

\* INSERT INTO refresh_tokens: the id is drawn from the sequence.  A family
\* is named by the id of the login token that opened it (its uuid is fresh).
Insert(user, family, parent) ==
    /\ issued < MaxTokens
    /\ issued' = issued + 1
    /\ token' = [i \in 1..issued + 1 |->
                    IF i <= issued THEN token[i]
                    ELSE [user |-> user, family |-> family, parent |-> parent,
                          replaced_by |-> 0, reason |-> "live",
                          expires_at |-> now + Lifetime]]

\* UPDATE ... SET revoked_at, revoked_reason WHERE <S> AND revoked_at IS NULL.
Revoke(S, why) ==
    token' = [i \in 1..issued |->
                 IF i \in S /\ Live(i) THEN [token[i] EXCEPT !.reason = why]
                 ELSE token[i]]

Family(f) == {i \in 1..issued : token[i].family = f}

-----------------------------------------------------------------------------
(* Handlers.                                                               *)

\* POST /login after the password check: _issue_session opens a new family.
Login(r, u) ==
    /\ req[r].pc = "idle"
    /\ Insert(u, issued + 1, 0)
    /\ req' = [req EXCEPT ![r] = [Idle EXCEPT !.pc = "respond", !.succ = issued + 1,
                                            !.outcome = "ok"]]
    /\ UNCHANGED <<delivered, now, aborts, raced>>

\* The operators called seeded faults are no part of Next: each is a plausible
\* bug that a property below would catch.  Here: expiry forgotten, and the
\* revocation looked for before the reuse.
VerdictIgnoringExpiry(t) ==
    IF t = 0 THEN "unknown_token"
    ELSE IF token[t].replaced_by # 0 THEN "reuse_detected"
    ELSE IF ~Live(t) THEN "revoked"
    ELSE "ok"
VerdictRevokedFirst(t) ==
    IF t = 0 THEN "unknown_token"
    ELSE IF ~Live(t) THEN "revoked"
    ELSE IF token[t].expires_at <= now THEN "expired"
    ELSE "ok"

\* The branches of rotate_refresh_token after its SELECT, in their order:
\* reuse is looked for before revocation, revocation before expiry.
Verdict(t) ==
    IF t = 0 THEN "unknown_token"
    ELSE IF token[t].replaced_by # 0 THEN "reuse_detected"
    ELSE IF ~Live(t) THEN "revoked"
    ELSE IF token[t].expires_at <= now THEN "expired"
    ELSE "ok"

NextStatement(verdict) ==
    CASE verdict = "ok" -> "insert"
      [] verdict = "reuse_detected" -> "revoke_family"
      [] OTHER -> "respond"

\* History: the live tokens of the family at the moment a rotated token of it
\* is presented.
Condemned(t) ==
    IF t # 0 /\ token[t].replaced_by # 0
    THEN {i \in Family(token[t].family) : Live(i)} ELSE {}

\* POST /refresh up to and with the SELECT.  t is any token that was ever
\* handed out, presented by its owner or by anyone else; 0 is a forged value.
Refresh(r, t) ==
    /\ req[r].pc = "idle"
    /\ req' = [req EXCEPT ![r] = [pc |-> NextStatement(Verdict(t)), tok |-> t,
                                  succ |-> 0, outcome |-> Verdict(t),
                                  condemned |-> Condemned(t)]]
    /\ raced' = IF Verdict(t) = "ok" /\ \E q \in Requests : RotatingIn(q, token[t].family)
                THEN raced \cup {token[t].family} ELSE raced
    /\ UNCHANGED <<issued, token, delivered, now, aborts>>

\* Reuse: revoke_family kills what is live in the family at this moment.
RevokeFamily(r) ==
    /\ req[r].pc = "revoke_family"
    /\ Revoke(Family(token[req[r].tok].family), "reuse_detected")
    /\ req' = [req EXCEPT ![r].pc = "respond"]
    /\ UNCHANGED <<issued, delivered, now, aborts, raced>>

\* Seeded fault: the successor opens a family of its own.
InsertSuccessorFresh(r) ==
    /\ req[r].pc = "insert"
    /\ Insert(token[req[r].tok].user, issued + 1, req[r].tok)
    /\ req' = [req EXCEPT ![r].pc = "update", ![r].succ = issued + 1]
    /\ UNCHANGED <<delivered, now, aborts, raced>>

\* issue_refresh_token for the successor, in the family that was read.
InsertSuccessor(r) ==
    /\ req[r].pc = "insert"
    /\ LET old == token[req[r].tok] IN Insert(old.user, old.family, req[r].tok)
    /\ req' = [req EXCEPT ![r].pc = "update", ![r].succ = issued + 1]
    /\ UNCHANGED <<delivered, now, aborts, raced>>

\* Seeded fault: the link is written, the revocation is not.
CloseOldLinkOnly(r) ==
    /\ req[r].pc = "update"
    /\ token' = [token EXCEPT ![req[r].tok].replaced_by = req[r].succ]
    /\ req' = [req EXCEPT ![r].pc = "respond"]
    /\ UNCHANGED <<issued, delivered, now, aborts, raced>>

\* The UPDATE that closes the presented token.  Its WHERE names the id only.
CloseOld(r) ==
    /\ req[r].pc = "update"
    /\ token' = [token EXCEPT ![req[r].tok].replaced_by = req[r].succ,
                              ![req[r].tok].reason = "rotated"]
    /\ req' = [req EXCEPT ![r].pc = "respond"]
    /\ UNCHANGED <<issued, delivered, now, aborts, raced>>

\* Seeded fault: a token is handed out with every answer.
RespondAlways(r) ==
    /\ req[r].pc = "respond"
    /\ delivered' = delivered \cup {req[r].succ}
    /\ req' = [req EXCEPT ![r] = Idle]
    /\ UNCHANGED <<issued, token, now, aborts, raced>>

\* The response reaches the client; only an OK one carries a refresh token.
Respond(r) ==
    /\ req[r].pc = "respond"
    /\ delivered' = IF req[r].outcome = "ok" THEN delivered \cup {req[r].succ} ELSE delivered
    /\ req' = [req EXCEPT ![r] = Idle]
    /\ UNCHANGED <<issued, token, now, aborts, raced>>

\* The API process dies, a statement raises or the response is lost: what was
\* committed stays, the rest never happens.
Abort(r) ==
    /\ req[r].pc # "idle"
    /\ aborts < MaxAborts
    /\ aborts' = aborts + 1
    /\ raced' = IF req[r].pc = "update" THEN raced \cup {token[req[r].tok].family} ELSE raced
    /\ req' = [req EXCEPT ![r] = Idle]
    /\ UNCHANGED <<issued, token, delivered, now>>

\* POST /logout: one UPDATE, whoever holds the raw token.
Logout(t) ==
    /\ Revoke({t}, "logout")
    /\ UNCHANGED <<issued, req, delivered, now, aborts, raced>>

\* POST /revoke-all for the caller's account: one UPDATE.
RevokeAll(u) ==
    /\ Revoke({i \in 1..issued : token[i].user = u}, "revoke_all")
    /\ UNCHANGED <<issued, req, delivered, now, aborts, raced>>

Tick ==
    /\ now < Horizon
    /\ now' = now + 1
    /\ UNCHANGED <<issued, token, req, delivered, aborts, raced>>

Next ==
    \/ \E r \in Requests, u \in Users : Login(r, u)
    \/ \E r \in Requests, t \in delivered \cup {0} : Refresh(r, t)
    \/ \E r \in Requests : RevokeFamily(r)
    \/ \E r \in Requests : InsertSuccessor(r)
    \/ \E r \in Requests : CloseOld(r)
    \/ \E r \in Requests : Respond(r)
    \/ \E r \in Requests : Abort(r)
    \/ \E t \in delivered : Logout(t)
    \/ \E u \in Users : RevokeAll(u)
    \/ Tick

Spec == Init /\ [][Next]_vars

-----------------------------------------------------------------------------
(* Properties.                                                             *)

\* Whatever requests interleave or stop half-way, the rows of a family form a
\* tree rooted at its login: a child has an older parent of the same family
\* and user, and a token is closed as rotated exactly when it names a
\* successor, which is one of its own children.  (tokens.py: reuse detection
\* and family revocation both rest on it.)
Rooted(t) == LET row == token[t] IN
    /\ row.family \in 1..t
    /\ token[row.family].parent = 0 /\ token[row.family].user = row.user
    /\ row.parent = 0 => row.family = t
    /\ row.parent # 0 =>
          /\ row.parent < t
          /\ token[row.parent].family = row.family
          /\ token[row.parent].user = row.user

Linked(t) == LET row == token[t] IN
    /\ row.replaced_by # 0 <=> row.reason = "rotated"
    /\ row.replaced_by # 0 => /\ row.replaced_by \in 1..issued
                              /\ token[row.replaced_by].parent = t

ChainIntegrity == \A t \in 1..issued : Rooted(t) /\ Linked(t)

\* The token a family currently stands on: live, and not about to be closed by
\* a rotation that has already inserted its successor.
Current(t) == Live(t) /\ ~\E r \in Requests : req[r].pc = "update" /\ req[r].tok = t

\* A family has at most one current token unless two rotations of it really
\* overlapped or one died between its INSERT and its UPDATE: logouts,
\* revoke-alls, replays and losses alone never fork a session.
OneCurrentUnlessRaced ==
    \A t1, t2 \in 1..issued :
        (Current(t1) /\ Current(t2) /\ token[t1].family = token[t2].family
            /\ token[t1].family \notin raced) => t1 = t2

\* Theft detection: by the time the presentation of a rotated token is
\* answered, every token that was live in its family at that presentation is
\* dead, whatever ran in between and however often it is replayed.
ReplayKillsFamily ==
    \A r \in Requests : req[r].pc = "respond" => \A t \in req[r].condemned : ~Live(t)

\* A session is over when none of its tokens is usable and no rotation of it
\* is in flight.  Such a session never comes back: not by a late statement, a
\* replay, a rotation of an expired token or the clock.
Over(f) ==
    /\ \A t \in 1..issued : token[t].family = f => ~Usable(t)
    /\ \A r \in Requests : ~RotatingIn(r, f)

OverIsFinal == [][\A f \in 1..issued : Over(f) => Over(f)']_vars

\* A rotated token is single-use: no token is exchanged for two successors
\* (migrations/008_auth_tokens.sql and the /refresh docstring say so).
SingleUse ==
    \A s1, s2 \in 1..issued :
        (token[s1].parent # 0 /\ token[s1].parent = token[s2].parent) => s1 = s2
=============================================================================
