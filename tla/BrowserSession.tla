--------------------------- MODULE BrowserSession ---------------------------
(***************************************************************************)
(* The session of a browser: the cookies that login and refresh set, the   *)
(* double-submit check in front of /refresh and /logout (core/csrf.py,     *)
(* auth_router.py), and the client in each tab (quansec-ui, lib/api.ts).   *)
(* Tabs share the cookies and nothing else.  Requests and answers travel,  *)
(* overtake one another and are lost, and a page may be reloaded meanwhile.*)
(* A handler is one step here; what may come between its statements is     *)
(* the subject of RefreshTokens.                                           *)
(***************************************************************************)
EXTENDS Naturals

CONSTANTS
    Tabs,           \* tabs of the browser
    Slots,          \* requests under way at once
    MaxIssued       \* bound: refresh tokens ever issued

ASSUME IssuedAssumption == MaxIssued \in Nat
ASSUME TabsAssumption == "gone" \notin Tabs

VARIABLES
    issuedToken,    \* refresh_tokens, by the order in which they are issued
    jar,            \* the cookies: a refresh token and the CSRF value set with it, or none
    csrfToken,      \* what the client in each tab remembers
    exchange,       \* the requests under way
    ended,          \* history: families of which a logout was accepted
    theft,          \* history: families revoked as stolen
    unheard,        \* history: families of which a refresh went unanswered
    met             \* history: families of which a refresh and a logout overlapped

browserVars == <<issuedToken, jar, csrfToken, exchange, ended, theft, unheard, met>>

\* A CSRF value is made with a token and set in the same response: it has the token's number.
Ids == 1..MaxIssued
None == 0

\* An expired token and a revoked one are refused alike.  The family is named by its first token.
IssuedToken == [status: {"unissued", "live", "rotated", "revoked"}, family: 0..MaxIssued]
Unissued == [status |-> "unissued", family |-> None]

Exchange == [pc: {"idle", "sent", "answered"},
             kind: {"login", "refresh", "logout", "revoke-all"},
             page: Tabs \cup {"gone"},       \* that waits for the answer
             cookie: 0..MaxIssued,           \* the refresh token that verify_csrf lets through
             barred: BOOLEAN,                \* a logout it does not let through
             ok: BOOLEAN, given: 0..MaxIssued]       \* the answer
NoExchange == [pc |-> "idle", kind |-> "login", page |-> "gone",
               cookie |-> None, barred |-> FALSE, ok |-> FALSE, given |-> None]

Good(n) == n # None /\ issuedToken[n].status = "live"

\* No CSRF value is known to two pages, and at most one token of a family is live.
BrowserTypeOK ==
    /\ issuedToken \in [Ids -> IssuedToken]
    /\ \A m, n \in Ids : Good(m) /\ Good(n) /\ issuedToken[m].family = issuedToken[n].family
                          => m = n
    /\ jar \in 0..MaxIssued
    /\ csrfToken \in [Tabs -> 0..MaxIssued]
    /\ \A t, u \in Tabs : csrfToken[t] = csrfToken[u] => t = u \/ csrfToken[t] = None
    /\ exchange \in [Slots -> Exchange]
    /\ ended \cup theft \cup unheard \cup met \subseteq Ids

BrowserInit ==
    /\ issuedToken = [n \in Ids |-> Unissued]
    /\ jar = None
    /\ csrfToken = [t \in Tabs |-> None]
    /\ exchange = [x \in Slots |-> NoExchange]
    /\ ended = {} /\ theft = {} /\ unheard = {} /\ met = {}

FamilyOf(n) == IF n = None THEN {} ELSE {issuedToken[n].family}
Members(families) == {n \in Ids : issuedToken[n].family \in families}

-----------------------------------------------------------------------------
(* The client.                                                             *)

Under(kind) == {x \in Slots : exchange[x].pc # "idle" /\ exchange[x].kind = kind}

\* verify_csrf compares the header with the cookie, for a request that relies on the cookies,
\* as refresh and logout do and login does not.  csrfHeaders sends what the page remembers:
\* the CSRF cookie is set for the path of the API (config.py:143), and document.cookie of a
\* page elsewhere does not show it.
Matches(t) == jar # None => csrfToken[t] = jar

Send(x, t, kind) ==
    /\ exchange[x].pc = "idle"
    /\ exchange' = [exchange EXCEPT ![x] =
           [pc |-> "sent", kind |-> kind, page |-> t,
            cookie |-> IF kind \in {"refresh", "logout"} /\ Matches(t) THEN jar ELSE None,
            barred |-> kind = "logout" /\ ~Matches(t), ok |-> FALSE, given |-> None]]
    /\ UNCHANGED <<issuedToken, jar, csrfToken, ended, theft, unheard>>

\* Families of which a request of that kind is under way, if this page can add one of another.
Meets(kind, t) ==
    IF Matches(t)
    THEN FamilyOf(jar) \cap UNION {FamilyOf(exchange[x].cookie) : x \in Under(kind)}
    ELSE {}

SendLogin(x, t) == Send(x, t, "login") /\ UNCHANGED met

\* Seeded fault: every call that meets a 401 sends a refresh of its own.
RefreshEach(t) == TRUE

\* refreshInFlight
MayRefresh(t) == ~\E x \in Under("refresh") : exchange[x].page = t

\* A call was answered 401: there is no access token, or it has expired.
SendRefresh(x, t) ==
    /\ MayRefresh(t)
    /\ Send(x, t, "refresh")
    /\ met' = met \cup Meets("logout", t)

SendLogout(x, t) == Send(x, t, "logout") /\ met' = met \cup Meets("refresh", t)

\* With the access token of the page, and not on the strength of a cookie.
SendRevokeAll(x, t) == Send(x, t, "revoke-all") /\ UNCHANGED met

\* A page load; the browser may still receive what the old page has asked for.
Reload(t) ==
    /\ csrfToken' = [csrfToken EXCEPT ![t] = None]
    /\ exchange' = [x \in Slots |->
          IF exchange[x].page = t THEN [exchange[x] EXCEPT !.page = "gone"] ELSE exchange[x]]
    /\ UNCHANGED <<issuedToken, jar, ended, theft, unheard, met>>

-----------------------------------------------------------------------------
(* The handlers.                                                           *)

Reply(x, ok, given) ==
    exchange' = [exchange EXCEPT
        ![x].pc = "answered", ![x].barred = FALSE, ![x].ok = ok, ![x].given = given]

\* A wrong password, 429, or an error.
TurnDown(x) ==
    /\ exchange[x].pc = "sent"
    /\ Reply(x, FALSE, None)
    /\ UNCHANGED <<issuedToken, jar, csrfToken, ended, theft, unheard, met>>

Issued(n) == n # None /\ issuedToken[n].status # "unissued"
Fresh(n) == ~Issued(n) /\ \A m \in 1..(n - 1) : Issued(m)
Arrived(x, kind) == exchange[x].pc = "sent" /\ exchange[x].kind = kind

\* _issue_session
LogIn(x, n) ==
    /\ Arrived(x, "login") /\ Fresh(n)
    /\ issuedToken' = [issuedToken EXCEPT ![n] = [status |-> "live", family |-> n]]
    /\ Reply(x, TRUE, n)
    /\ UNCHANGED <<jar, csrfToken, ended, theft, unheard, met>>

RevokeIn(ids) ==
    issuedToken' = [n \in Ids |-> IF n \in ids /\ Good(n)
                                  THEN [issuedToken[n] EXCEPT !.status = "revoked"]
                                  ELSE issuedToken[n]]

\* rotate_refresh_token, of a token that is live
Rotate(x, n) ==
    LET old == exchange[x].cookie
    IN /\ Arrived(x, "refresh")
       /\ Good(old) /\ Fresh(n)
       /\ issuedToken' = [issuedToken EXCEPT
              ![old].status = "rotated",
              ![n] = [status |-> "live", family |-> issuedToken[old].family]]
       /\ Reply(x, TRUE, n)
       /\ UNCHANGED <<jar, csrfToken, ended, theft, unheard, met>>

\* The same of one that has been exchanged already.  The answer is an exception: the
\* deletion of the cookies is on a response that is not sent (auth_router.py:400-402).
DetectReuse(x) ==
    LET old == exchange[x].cookie
    IN /\ Arrived(x, "refresh")
       /\ old # None /\ issuedToken[old].status = "rotated"
       /\ RevokeIn(Members(FamilyOf(old)))
       /\ theft' = theft \cup FamilyOf(old)
       /\ Reply(x, FALSE, None)
       /\ UNCHANGED <<jar, csrfToken, ended, unheard, met>>

\* Without the CSRF header, with one that does not match, or with a token that is no good.
Dismiss(x) ==
    /\ Arrived(x, "refresh")
    /\ exchange[x].cookie # None => issuedToken[exchange[x].cookie].status = "revoked"
    /\ Reply(x, FALSE, None)
    /\ UNCHANGED <<issuedToken, jar, csrfToken, ended, theft, unheard, met>>

\* Seeded fault: the cookies are cleared, the row stays.
LogOutHere(x) ==
    /\ Arrived(x, "logout")
    /\ ~exchange[x].barred
    /\ ended' = ended \cup FamilyOf(exchange[x].cookie)
    /\ Reply(x, TRUE, None)
    /\ UNCHANGED <<issuedToken, jar, csrfToken, theft, unheard, met>>

LogOut(x) ==
    /\ Arrived(x, "logout")
    /\ ~exchange[x].barred
    /\ RevokeIn({exchange[x].cookie})
    /\ ended' = ended \cup FamilyOf(exchange[x].cookie)
    /\ Reply(x, TRUE, None)
    /\ UNCHANGED <<jar, csrfToken, theft, unheard, met>>

\* Of the user of that page, who is not all users of the browser: any of its families.
RevokeSessions(x, families) ==
    /\ Arrived(x, "revoke-all")
    /\ RevokeIn(Members(families))
    /\ Reply(x, TRUE, None)
    /\ UNCHANGED <<jar, csrfToken, ended, theft, unheard, met>>

\* Seven days have passed, or another device has revoked all sessions.
Lapse(n) ==
    /\ Good(n)
    /\ RevokeIn({n})
    /\ UNCHANGED <<jar, csrfToken, exchange, ended, theft, unheard, met>>

-----------------------------------------------------------------------------
(* The answers.                                                            *)

\* Seeded fault: the value is kept where every tab reads it.
InformAll(x, ok) ==
    csrfToken' = IF ok \/ exchange[x].kind = "logout"
                 THEN [t \in Tabs |-> exchange[x].given] ELSE csrfToken

\* What the page remembers then: the value it is given, and none after any logout.
Inform(x, ok) ==
    csrfToken' = IF exchange[x].page # "gone" /\ (ok \/ exchange[x].kind = "logout")
                 THEN [csrfToken EXCEPT ![exchange[x].page] = exchange[x].given]
                 ELSE csrfToken

\* Cookies are set or deleted by what is no error, whichever answer comes last.
Receive(x) ==
    /\ exchange[x].pc = "answered"
    /\ jar' = IF exchange[x].ok THEN exchange[x].given ELSE jar
    /\ Inform(x, exchange[x].ok)
    /\ exchange' = [exchange EXCEPT ![x] = NoExchange]
    /\ UNCHANGED <<issuedToken, ended, theft, unheard, met>>

\* The request or the answer to it is lost with the connection.
Break(x) ==
    /\ exchange[x].pc # "idle"
    /\ Inform(x, FALSE)
    /\ exchange' = [exchange EXCEPT ![x] = NoExchange]
    /\ unheard' = IF exchange[x].kind = "refresh" THEN unheard \cup FamilyOf(exchange[x].cookie)
                  ELSE unheard
    /\ UNCHANGED <<issuedToken, jar, ended, theft, met>>

BrowserNext ==
    \/ \E x \in Slots, t \in Tabs :
          SendLogin(x, t) \/ SendRefresh(x, t) \/ SendLogout(x, t) \/ SendRevokeAll(x, t)
    \/ \E t \in Tabs : Reload(t)
    \/ \E x \in Slots :
          \/ TurnDown(x)
          \/ \E n \in Ids : LogIn(x, n) \/ Rotate(x, n)
          \/ DetectReuse(x)
          \/ Dismiss(x)
          \/ LogOut(x)
          \/ \E families \in SUBSET Ids : RevokeSessions(x, families)
          \/ Receive(x)
          \/ Break(x)
    \/ \E n \in Ids : Lapse(n)

BrowserSpec == BrowserInit /\ [][BrowserNext]_browserVars

-----------------------------------------------------------------------------
(* Properties.                                                             *)

\* "Concurrent callers share one in-flight request" (api.ts:489): however many tabs there
\* are and however their requests overtake one another, a browser never has its own session
\* revoked as stolen, unless a refresh went unanswered.
NoFalseTheft == theft \subseteq unheard

\* "Revoke this session's refresh token" (auth_router.py:470): after a logout that was
\* accepted no token of the session is live, unless a refresh of it went unanswered or was
\* under way together with the logout.
LogoutEnds ==
    \A n \in Ids : Good(n) /\ issuedToken[n].family \in ended
        => issuedToken[n].family \in unheard \cup met
=============================================================================
