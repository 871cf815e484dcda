------------------------ MODULE BrowserSessionProofs ------------------------
(* Proofs about BrowserSession, for any Tabs, Slots and MaxIssued.         *)
EXTENDS BrowserSession, TLAPS

(***************************************************************************)
(* What is known of a token: the browser has it as its cookie, a page has  *)
(* its CSRF value, a request carries it, or an answer brings it.           *)
(***************************************************************************)
Types ==
    /\ issuedToken \in [Ids -> IssuedToken]
    /\ jar \in 0..MaxIssued
    /\ csrfToken \in [Tabs -> 0..MaxIssued]
    /\ exchange \in [Slots -> Exchange]

Known(n) ==
    \/ jar = n
    \/ \E t \in Tabs : csrfToken[t] = n
    \/ \E x \in Slots : exchange[x].cookie = n \/ exchange[x].given = n

\* Nobody knows a token that has not been issued, and no two pages the same CSRF value.
KnownIsIssued == \A n \in Ids : Known(n) => Issued(n)
OnePage == \A t, u \in Tabs : csrfToken[t] = csrfToken[u] /\ csrfToken[t] # None => t = u

\* A token that an answer brings is new to everybody else.
InTransit ==
    \A x \in Slots : exchange[x].given # None =>
        /\ exchange[x].pc = "answered"
        /\ issuedToken[exchange[x].given].status # "rotated"
        /\ jar # exchange[x].given
        /\ \A t \in Tabs : csrfToken[t] # exchange[x].given
        /\ \A y \in Slots : exchange[y].cookie # exchange[x].given
        /\ \A y \in Slots \ {x} : exchange[y].given # exchange[x].given

Refreshing(x, n) == exchange[x].pc # "idle" /\ exchange[x].kind = "refresh" /\ exchange[x].cookie = n

\* The page that knows the CSRF value of a token under exchange waits for the answer, so
\* that no other request exchanges it.
OneExchange ==
    \A x \in Slots : \A n \in Ids : Refreshing(x, n) =>
        /\ \A t \in Tabs : csrfToken[t] = n => exchange[x].page = t
        /\ \A y \in Slots \ {x} : ~Refreshing(y, n)

Heard(n) == issuedToken[n].family \notin unheard

\* A request brings a token that has been exchanged only after an answer was lost; and a
\* page that could send it still waits for what it was exchanged for.
NotAgain ==
    \A n \in Ids : issuedToken[n].status = "rotated" /\ Heard(n) =>
        /\ \A x \in Slots : Refreshing(x, n) => exchange[x].pc = "answered"
        /\ \A t \in Tabs : jar = n /\ csrfToken[t] = n =>
              \E x \in Slots : /\ Refreshing(x, n) /\ exchange[x].page = t
                               /\ exchange[x].ok /\ exchange[x].given # None

BrowserInv == Types /\ KnownIsIssued /\ OnePage /\ InTransit /\ OneExchange /\ NotAgain /\ NoFalseTheft

LEMMA InitInv == BrowserInit => BrowserInv
<1> SUFFICES ASSUME BrowserInit PROVE BrowserInv
  OBVIOUS
<1>1. Types
  BY IssuedAssumption
     DEF BrowserInit, Types, Ids, IssuedToken, Unissued, None, Exchange, NoExchange
<1>2. \A x \in Slots : exchange[x] = NoExchange
  BY DEF BrowserInit
<1>3. \A n \in Ids : n # None /\ issuedToken[n] = Unissued
  BY IssuedAssumption DEF BrowserInit, Ids, None
<1>4. KnownIsIssued /\ OnePage
  BY <1>2, <1>3 DEF BrowserInit, KnownIsIssued, Known, OnePage, NoExchange
<1>5. InTransit /\ OneExchange
  BY <1>2 DEF InTransit, OneExchange, Refreshing, NoExchange
<1>6. NotAgain
  BY <1>3 DEF NotAgain, Unissued
<1>7. NoFalseTheft
  BY DEF BrowserInit, NoFalseTheft
<1> QED
  BY <1>1, <1>4, <1>5, <1>6, <1>7 DEF BrowserInv

(***************************************************************************)
(* The tokens.                                                             *)
(***************************************************************************)
\* A revocation leaves what was issued issued, what was exchanged exchanged, and families alone.
SameTokens ==
    /\ issuedToken' \in [Ids -> IssuedToken]
    /\ \A n \in Ids :
          /\ issuedToken'[n].status = "unissued" <=> issuedToken[n].status = "unissued"
          /\ issuedToken'[n].status = "rotated" <=> issuedToken[n].status = "rotated"
          /\ issuedToken'[n].family = issuedToken[n].family

LEMMA Unchanged == ASSUME Types, UNCHANGED issuedToken PROVE SameTokens
  BY DEF Types, SameTokens

LEMMA Revoked == ASSUME Types, NEW ids, RevokeIn(ids) PROVE SameTokens
<1>1. \A n \in Ids : issuedToken[n] \in IssuedToken
  BY DEF Types
<1>2. \A n \in Ids : issuedToken'[n] = IF n \in ids /\ Good(n)
                                      THEN [issuedToken[n] EXCEPT !.status = "revoked"]
                                      ELSE issuedToken[n]
  BY DEF RevokeIn
<1>3. \A n \in Ids : issuedToken'[n] \in IssuedToken
  BY <1>1, <1>2 DEF IssuedToken
<1>4. issuedToken' \in [Ids -> IssuedToken]
  BY <1>3 DEF RevokeIn
<1>5. ASSUME NEW n \in Ids
      PROVE  /\ issuedToken'[n].family = issuedToken[n].family
             /\ \/ issuedToken'[n].status = issuedToken[n].status
                \/ issuedToken[n].status = "live" /\ issuedToken'[n].status = "revoked"
  <2>1. issuedToken[n] \in IssuedToken
    BY <1>1
  <2>2. CASE n \in ids /\ Good(n)
    BY <1>2, <2>1, <2>2 DEF IssuedToken, Good
  <2>3. CASE ~(n \in ids /\ Good(n))
    BY <1>2, <2>3
  <2> QED
    BY <2>2, <2>3
<1> QED
  BY <1>4, <1>5 DEF SameTokens

(***************************************************************************)
(* The steps.                                                              *)
(***************************************************************************)
\* An answer without a token: the request stays what it was.
Turned(x) ==
    /\ exchange[x].pc = "sent"
    /\ Reply(x, FALSE, None) \/ Reply(x, TRUE, None)
    /\ UNCHANGED <<jar, csrfToken, unheard>>

LEMMA TurnedKeeps ==
    ASSUME BrowserInv, NEW x \in Slots, Turned(x), SameTokens, NoFalseTheft'
    PROVE  BrowserInv'
<1>1. /\ \A y \in Slots \ {x} : exchange'[y] = exchange[y]
      /\ exchange'[x].pc = "answered" /\ exchange'[x].given = None
      /\ exchange'[x].kind = exchange[x].kind /\ exchange'[x].cookie = exchange[x].cookie
      /\ exchange'[x].page = exchange[x].page
      /\ exchange' \in [Slots -> Exchange]
  <2>1. exchange \in [Slots -> Exchange] /\ exchange[x] \in Exchange
    BY DEF BrowserInv, Types
  <2> QED
    BY <2>1, IssuedAssumption DEF Turned, Reply, Exchange, None
<1>2. \A y \in Slots : \A n \in Ids : Refreshing(y, n)' <=> Refreshing(y, n)
  BY <1>1 DEF Refreshing, Turned
<1>3. Types'
  BY <1>1 DEF BrowserInv, Types, SameTokens, Turned
<1>4. KnownIsIssued'
  <2> SUFFICES ASSUME NEW n \in Ids, Known(n)' PROVE Issued(n)'
    BY DEF KnownIsIssued
  <2>1. n # None
    BY IssuedAssumption DEF Ids, None
  <2>2. Known(n)
    BY <1>1, <2>1 DEF Known, Turned
  <2> QED
    BY <2>2 DEF BrowserInv, KnownIsIssued, SameTokens, Issued, None
<1>5. OnePage'
  BY DEF BrowserInv, OnePage, Turned
<1>6. InTransit'
  <2> SUFFICES ASSUME NEW y \in Slots, exchange'[y].given # None
               PROVE  /\ exchange'[y].pc = "answered"
                      /\ issuedToken'[exchange'[y].given].status # "rotated"
                      /\ jar' # exchange'[y].given
                      /\ \A t \in Tabs : csrfToken'[t] # exchange'[y].given
                      /\ \A z \in Slots : exchange'[z].cookie # exchange'[y].given
                      /\ \A z \in Slots \ {y} : exchange'[z].given # exchange'[y].given
    BY DEF InTransit, None
  <2>1. y # x /\ exchange'[y] = exchange[y]
    BY <1>1
  <2>2. exchange[y].given \in Ids
    BY <2>1, IssuedAssumption DEF BrowserInv, Types, Exchange, Ids, None
  <2>3. /\ exchange[y].pc = "answered" /\ issuedToken[exchange[y].given].status # "rotated"
        /\ jar # exchange[y].given
        /\ \A t \in Tabs : csrfToken[t] # exchange[y].given
        /\ \A z \in Slots : exchange[z].cookie # exchange[y].given
        /\ \A z \in Slots \ {y} : exchange[z].given # exchange[y].given
    BY <2>1 DEF BrowserInv, InTransit
  <2>4. \A z \in Slots : /\ exchange'[z].cookie = exchange[z].cookie
                         /\ exchange'[z].given \in {exchange[z].given, None}
    BY <1>1
  <2> QED
    BY <2>1, <2>2, <2>3, <2>4 DEF SameTokens, Turned
<1>7. OneExchange'
  BY <1>1, <1>2 DEF BrowserInv, OneExchange, Turned
<1>8. NotAgain'
  <2> SUFFICES ASSUME NEW n \in Ids, issuedToken'[n].status = "rotated", Heard(n)'
               PROVE  /\ \A y \in Slots : Refreshing(y, n)' => exchange'[y].pc = "answered"
                      /\ \A t \in Tabs : jar' = n /\ csrfToken'[t] = n =>
                           \E y \in Slots : /\ Refreshing(y, n)' /\ exchange'[y].page = t
                                            /\ exchange'[y].ok /\ exchange'[y].given # None
    BY DEF NotAgain, None
  <2>1. issuedToken[n].status = "rotated" /\ Heard(n)
    BY IssuedAssumption DEF SameTokens, Heard, Turned, Ids
  <2>2. \A y \in Slots : exchange[y].given # None => y # x
    BY DEF BrowserInv, InTransit, Turned
  <2> QED
    BY <1>1, <1>2, <2>1, <2>2 DEF BrowserInv, NotAgain, Turned
<1> QED
  BY <1>3, <1>4, <1>5, <1>6, <1>7, <1>8 DEF BrowserInv

\* A request is sent; a refresh only by a page that waits for no other.
LEMMA SendKeeps ==
    ASSUME BrowserInv, NEW x \in Slots, NEW t \in Tabs, NEW kind \in {"login", "refresh", "logout", "revoke-all"},
           Send(x, t, kind), kind = "refresh" => MayRefresh(t)
    PROVE  BrowserInv'
<1>1. /\ exchange[x].pc = "idle"
      /\ UNCHANGED <<issuedToken, jar, csrfToken, theft, unheard>>
  BY DEF Send
<1>2. /\ \A y \in Slots \ {x} : exchange'[y] = exchange[y]
      /\ exchange'[x].pc = "sent" /\ exchange'[x].given = None
      /\ exchange'[x].kind = kind /\ exchange'[x].page = t
      /\ exchange'[x].cookie \in {None, jar}
      /\ exchange'[x].cookie # None => kind \in {"refresh", "logout"} /\ Matches(t)
      /\ exchange' \in [Slots -> Exchange]
  <2> DEFINE lets == kind \in {"refresh", "logout"} /\ Matches(t)
             sent == [pc |-> "sent", kind |-> kind, page |-> t,
                      cookie |-> IF lets THEN jar ELSE None,
                      barred |-> kind = "logout" /\ ~Matches(t), ok |-> FALSE, given |-> None]
  <2>1. exchange' = [exchange EXCEPT ![x] = sent]
    BY DEF Send
  <2>2. exchange \in [Slots -> Exchange] /\ jar \in 0..MaxIssued /\ None \in 0..MaxIssued
    BY IssuedAssumption DEF BrowserInv, Types, None
  <2>3. sent \in Exchange
    BY <2>2 DEF Exchange
  <2>4. exchange'[x] = sent /\ exchange' \in [Slots -> Exchange]
        /\ \A y \in Slots \ {x} : exchange'[y] = exchange[y]
    <3> HIDE DEF sent
    <3> QED
      BY <2>1, <2>2, <2>3
  <2> QED
    BY <2>4
<1>3. ~ \E n \in Ids : Refreshing(x, n)
  BY <1>1 DEF Refreshing
<1>4. \A y \in Slots \ {x} : \A n \in Ids : Refreshing(y, n)' <=> Refreshing(y, n)
  BY <1>2 DEF Refreshing
<1>5. ASSUME NEW n \in Ids, Refreshing(x, n)'
      PROVE  /\ jar = n /\ csrfToken[t] = n
             /\ \A y \in Slots \ {x} : ~Refreshing(y, n)
  <2>1. exchange'[x].kind = "refresh" /\ exchange'[x].cookie = n /\ n # None
    BY <1>5, IssuedAssumption DEF Refreshing, Ids, None
  <2>2. MayRefresh(t) /\ Matches(t) /\ jar = n
    BY <1>2, <2>1
  <2>3. csrfToken[t] = n
    BY <2>1, <2>2 DEF Matches
  <2>4. ASSUME NEW y \in Slots \ {x}, Refreshing(y, n) PROVE FALSE
    <3>1. exchange[y].page = t
      BY <2>3, <2>4 DEF BrowserInv, OneExchange
    <3>2. y \in Under("refresh")
      BY <2>4 DEF Under, Refreshing
    <3> QED
      BY <2>2, <3>1, <3>2 DEF MayRefresh
  <2> QED
    BY <2>2, <2>3, <2>4
<1>6. Types'
  BY <1>1, <1>2 DEF BrowserInv, Types
<1>7. KnownIsIssued'
  <2> SUFFICES ASSUME NEW n \in Ids, Known(n)' PROVE Issued(n)'
    BY DEF KnownIsIssued
  <2>1. n # None
    BY IssuedAssumption DEF Ids, None
  <2>2. Known(n)
    BY <1>1, <1>2, <2>1 DEF Known
  <2> QED
    BY <1>1, <2>2 DEF BrowserInv, KnownIsIssued, Issued, None
<1>8. OnePage'
  BY <1>1 DEF BrowserInv, OnePage, None
<1>9. InTransit'
  <2> SUFFICES ASSUME NEW y \in Slots, exchange'[y].given # None
               PROVE  /\ exchange'[y].pc = "answered"
                      /\ issuedToken'[exchange'[y].given].status # "rotated"
                      /\ jar' # exchange'[y].given
                      /\ \A u \in Tabs : csrfToken'[u] # exchange'[y].given
                      /\ \A z \in Slots : exchange'[z].cookie # exchange'[y].given
                      /\ \A z \in Slots \ {y} : exchange'[z].given # exchange'[y].given
    BY DEF InTransit, None
  <2>1. y # x /\ exchange'[y] = exchange[y]
    BY <1>2
  <2>2. /\ exchange[y].pc = "answered" /\ issuedToken[exchange[y].given].status # "rotated"
        /\ jar # exchange[y].given
        /\ \A u \in Tabs : csrfToken[u] # exchange[y].given
        /\ \A z \in Slots : exchange[z].cookie # exchange[y].given
        /\ \A z \in Slots \ {y} : exchange[z].given # exchange[y].given
    BY <2>1 DEF BrowserInv, InTransit
  <2>3. \A z \in Slots : /\ exchange'[z].cookie \in {exchange[z].cookie, jar, None}
                         /\ exchange'[z].given \in {exchange[z].given, None}
    BY <1>2
  <2> QED
    BY <1>1, <2>1, <2>2, <2>3
<1>10. OneExchange'
  <2> SUFFICES ASSUME NEW y \in Slots, NEW n \in Ids, Refreshing(y, n)'
               PROVE  /\ \A u \in Tabs : csrfToken'[u] = n => exchange'[y].page = u
                      /\ \A z \in Slots \ {y} : ~Refreshing(z, n)'
    BY DEF OneExchange
  <2>1. CASE y = x
    <3>1. \A u \in Tabs : csrfToken[u] = n => u = t
      BY <1>5, <2>1, IssuedAssumption DEF BrowserInv, OnePage, Ids, None
    <3> QED
      BY <1>1, <1>2, <1>4, <1>5, <2>1, <3>1
  <2>2. CASE y # x
    <3>1. Refreshing(y, n)
      BY <1>4, <2>2
    <3>2. ~Refreshing(x, n)'
      BY <1>5, <2>2, <3>1
    <3> QED
      BY <1>1, <1>2, <1>4, <2>2, <3>1, <3>2 DEF BrowserInv, OneExchange
  <2> QED
    BY <2>1, <2>2
<1>11. NotAgain'
  <2> SUFFICES ASSUME NEW n \in Ids, issuedToken'[n].status = "rotated", Heard(n)'
               PROVE  /\ \A y \in Slots : Refreshing(y, n)' => exchange'[y].pc = "answered"
                      /\ \A u \in Tabs : jar' = n /\ csrfToken'[u] = n =>
                           \E y \in Slots : /\ Refreshing(y, n)' /\ exchange'[y].page = u
                                            /\ exchange'[y].ok /\ exchange'[y].given # None
    BY DEF NotAgain, None
  <2>1. issuedToken[n].status = "rotated" /\ Heard(n)
    BY <1>1 DEF Heard
  <2>2. /\ \A y \in Slots : Refreshing(y, n) => exchange[y].pc = "answered"
        /\ \A u \in Tabs : jar = n /\ csrfToken[u] = n =>
             \E y \in Slots : /\ Refreshing(y, n) /\ exchange[y].page = u
                              /\ exchange[y].ok /\ exchange[y].given # None
    BY <2>1 DEF BrowserInv, NotAgain
  <2>3. ~Refreshing(x, n)'
    BY <1>3, <1>5, <2>2
  <2> QED
    BY <1>1, <1>2, <1>3, <1>4, <2>2, <2>3
<1>12. NoFalseTheft'
  BY <1>1 DEF BrowserInv, NoFalseTheft
<1> QED
  BY <1>6, <1>7, <1>8, <1>9, <1>10, <1>11, <1>12 DEF BrowserInv

\* An answer with a token that nobody knows: the one it was exchanged for, if any, is the
\* one of the request.
LEMMA GivenKeeps ==
    ASSUME BrowserInv, NEW x \in Slots, NEW n \in Ids,
           exchange[x].pc = "sent", ~Known(n), Reply(x, TRUE, n),
           UNCHANGED <<jar, csrfToken, theft, unheard>>,
           issuedToken' \in [Ids -> IssuedToken], issuedToken'[n].status = "live",
           \A k \in Ids \ {n} :
              /\ Issued(k) => Issued(k)'
              /\ issuedToken'[k].family = issuedToken[k].family
              /\ issuedToken'[k].status = "rotated"
                    => issuedToken[k].status = "rotated" \/ Refreshing(x, k)
    PROVE  BrowserInv'
<1>1. /\ \A y \in Slots \ {x} : exchange'[y] = exchange[y]
      /\ exchange'[x].pc = "answered" /\ exchange'[x].given = n /\ exchange'[x].ok
      /\ exchange'[x].kind = exchange[x].kind /\ exchange'[x].cookie = exchange[x].cookie
      /\ exchange'[x].page = exchange[x].page
      /\ exchange' \in [Slots -> Exchange]
  <2>1. exchange \in [Slots -> Exchange] /\ exchange[x] \in Exchange
    BY DEF BrowserInv, Types
  <2>2. n \in 0..MaxIssued
    BY IssuedAssumption DEF Ids
  <2> QED
    BY <2>1, <2>2 DEF Reply, Exchange
<1>2. exchange[x].given = None
  BY DEF BrowserInv, InTransit
<1>3. \A y \in Slots : \A k \in Ids : Refreshing(y, k)' <=> Refreshing(y, k)
  BY <1>1 DEF Refreshing
<1>4. n # None
  BY IssuedAssumption DEF Ids, None
<1>5. /\ jar # n /\ \A t \in Tabs : csrfToken[t] # n
      /\ \A y \in Slots : exchange[y].cookie # n /\ exchange[y].given # n
  BY DEF Known
<1>6. Types'
  BY <1>1 DEF BrowserInv, Types
<1>7. KnownIsIssued'
  <2> SUFFICES ASSUME NEW k \in Ids, Known(k)' PROVE Issued(k)'
    BY DEF KnownIsIssued
  <2>1. CASE k = n
    BY <1>4, <2>1 DEF Issued
  <2>2. CASE k # n
    <3>1. Known(k)
      BY <1>1, <2>2 DEF Known
    <3> QED
      BY <2>2, <3>1 DEF BrowserInv, KnownIsIssued
  <2> QED
    BY <2>1, <2>2
<1>8. OnePage'
  BY DEF BrowserInv, OnePage, None
<1>9. InTransit'
  <2> SUFFICES ASSUME NEW y \in Slots, exchange'[y].given # None
               PROVE  /\ exchange'[y].pc = "answered"
                      /\ issuedToken'[exchange'[y].given].status # "rotated"
                      /\ jar' # exchange'[y].given
                      /\ \A t \in Tabs : csrfToken'[t] # exchange'[y].given
                      /\ \A z \in Slots : exchange'[z].cookie # exchange'[y].given
                      /\ \A z \in Slots \ {y} : exchange'[z].given # exchange'[y].given
    BY DEF InTransit, None
  <2>1. CASE y = x
    BY <1>1, <1>5, <2>1
  <2>2. CASE y # x
    <3>1. exchange'[y] = exchange[y]
      BY <1>1, <2>2
    <3>2. exchange[y].given \in Ids \ {n}
      BY <1>5, <3>1, IssuedAssumption DEF BrowserInv, Types, Exchange, Ids, None
    <3>3. /\ exchange[y].pc = "answered" /\ issuedToken[exchange[y].given].status # "rotated"
          /\ jar # exchange[y].given
          /\ \A t \in Tabs : csrfToken[t] # exchange[y].given
          /\ \A z \in Slots : exchange[z].cookie # exchange[y].given
          /\ \A z \in Slots \ {y} : exchange[z].given # exchange[y].given
      BY <3>1 DEF BrowserInv, InTransit
    <3>4. ~Refreshing(x, exchange[y].given)
      BY <3>3 DEF Refreshing
    <3>5. issuedToken'[exchange[y].given].status # "rotated"
      BY <3>2, <3>3, <3>4
    <3>6. \A z \in Slots : /\ exchange'[z].cookie = exchange[z].cookie
                           /\ exchange'[z].given \in {exchange[z].given, n}
      BY <1>1
    <3> QED
      BY <3>1, <3>2, <3>3, <3>5, <3>6
  <2> QED
    BY <2>1, <2>2
<1>10. OneExchange'
  BY <1>1, <1>3 DEF BrowserInv, OneExchange
<1>11. NotAgain'
  <2> SUFFICES ASSUME NEW k \in Ids, issuedToken'[k].status = "rotated", Heard(k)'
               PROVE  /\ \A y \in Slots : Refreshing(y, k)' => exchange'[y].pc = "answered"
                      /\ \A t \in Tabs : jar' = k /\ csrfToken'[t] = k =>
                           \E y \in Slots : /\ Refreshing(y, k)' /\ exchange'[y].page = t
                                            /\ exchange'[y].ok /\ exchange'[y].given # None
    BY DEF NotAgain, None
  <2>1. k \in Ids \ {n} /\ Heard(k)
    BY DEF Heard
  <2>2. CASE Refreshing(x, k)
    <3>1. /\ \A t \in Tabs : csrfToken[t] = k => exchange[x].page = t
          /\ \A y \in Slots \ {x} : ~Refreshing(y, k)
      BY <2>2 DEF BrowserInv, OneExchange
    <3> QED
      BY <1>1, <1>3, <1>4, <2>2, <3>1
  <2>3. CASE ~Refreshing(x, k)
    <3>1. /\ \A y \in Slots : Refreshing(y, k) => exchange[y].pc = "answered"
          /\ \A t \in Tabs : jar = k /\ csrfToken[t] = k =>
                \E y \in Slots : /\ Refreshing(y, k) /\ exchange[y].page = t
                                 /\ exchange[y].ok /\ exchange[y].given # None
      BY <2>1, <2>3 DEF BrowserInv, NotAgain
    <3> QED
      BY <1>1, <1>3, <2>3, <3>1
  <2> QED
    BY <2>2, <2>3
<1>12. NoFalseTheft'
  BY DEF BrowserInv, NoFalseTheft
<1> QED
  BY <1>6, <1>7, <1>8, <1>9, <1>10, <1>11, <1>12 DEF BrowserInv

LEMMA FreshIsUnknown == ASSUME BrowserInv, NEW n \in Ids, Fresh(n) PROVE ~Known(n)
  BY DEF BrowserInv, KnownIsIssued, Fresh

LEMMA LogInKeeps == ASSUME BrowserInv, NEW x \in Slots, NEW n \in Ids, LogIn(x, n) PROVE BrowserInv'
<1>1. ~Known(n)
  BY FreshIsUnknown DEF LogIn
<1>2. issuedToken \in [Ids -> IssuedToken] /\ n \in 0..MaxIssued
  BY IssuedAssumption DEF BrowserInv, Types, Ids
<1>3. [status |-> "live", family |-> n] \in IssuedToken
  BY <1>2 DEF IssuedToken
<1>4. /\ issuedToken' \in [Ids -> IssuedToken] /\ issuedToken'[n].status = "live"
      /\ \A k \in Ids \ {n} : issuedToken'[k] = issuedToken[k]
  BY <1>2, <1>3 DEF LogIn
<1> QED
  BY <1>1, <1>4, GivenKeeps DEF LogIn, Arrived, Issued, None

LEMMA RotateKeeps == ASSUME BrowserInv, NEW x \in Slots, NEW n \in Ids, Rotate(x, n) PROVE BrowserInv'
<1> DEFINE old == exchange[x].cookie
<1>1. ~Known(n)
  BY FreshIsUnknown DEF Rotate
<1>2. issuedToken \in [Ids -> IssuedToken] /\ old \in Ids /\ issuedToken[old].status = "live"
  BY IssuedAssumption DEF BrowserInv, Types, Exchange, Rotate, Good, Ids, None
<1>3. old # n /\ Refreshing(x, old)
  BY <1>1 DEF Known, Refreshing, Rotate, Arrived
<1>4. issuedToken[old] \in IssuedToken
  BY <1>2
<1>5. /\ [issuedToken[old] EXCEPT !.status = "rotated"] \in IssuedToken
      /\ [issuedToken[old] EXCEPT !.status = "rotated"].family = issuedToken[old].family
      /\ [status |-> "live", family |-> issuedToken[old].family] \in IssuedToken
  BY <1>4 DEF IssuedToken
<1>6. /\ issuedToken' \in [Ids -> IssuedToken] /\ issuedToken'[n].status = "live"
      /\ issuedToken'[old] = [issuedToken[old] EXCEPT !.status = "rotated"]
      /\ \A k \in Ids \ {n, old} : issuedToken'[k] = issuedToken[k]
  <2>1. issuedToken' = [[issuedToken EXCEPT ![old] = [issuedToken[old] EXCEPT !.status = "rotated"]]
                          EXCEPT ![n] = [status |-> "live", family |-> issuedToken[old].family]]
    BY <1>2 DEF Rotate
  <2> HIDE DEF old
  <2> QED
    BY <1>2, <1>3, <1>5, <2>1
<1>7. issuedToken'[old].status = "rotated"
  BY <1>4, <1>6 DEF IssuedToken
<1>8. \A k \in Ids \ {n} :
         /\ Issued(k) => Issued(k)'
         /\ issuedToken'[k].family = issuedToken[k].family
         /\ issuedToken'[k].status = "rotated"
               => issuedToken[k].status = "rotated" \/ Refreshing(x, k)
  BY <1>2, <1>3, <1>5, <1>6, <1>7 DEF Issued, None
<1> QED
  BY <1>1, <1>6, <1>8, GivenKeeps DEF Rotate, Arrived

\* What is exchanged twice was last exchanged by a refresh that went unanswered.
LEMMA DetectReuseKeeps == ASSUME BrowserInv, NEW x \in Slots, DetectReuse(x) PROVE BrowserInv'
<1> DEFINE old == exchange[x].cookie
<1>1. SameTokens
  BY Revoked DEF BrowserInv, DetectReuse
<1>2. Turned(x)
  BY DEF DetectReuse, Turned, Arrived
<1>3. old \in Ids /\ issuedToken[old].status = "rotated"
  BY IssuedAssumption DEF BrowserInv, Types, Exchange, DetectReuse, Ids, None
<1>4. Refreshing(x, old) /\ exchange[x].pc # "answered"
  BY DEF DetectReuse, Arrived, Refreshing
<1>5. issuedToken[old].family \in unheard
  BY <1>3, <1>4 DEF BrowserInv, NotAgain, Heard
<1>6. FamilyOf(old) \subseteq unheard
  BY <1>5 DEF FamilyOf
<1>7. NoFalseTheft'
  BY <1>6 DEF BrowserInv, NoFalseTheft, DetectReuse
<1> QED
  BY <1>1, <1>2, <1>7, TurnedKeeps

\* Tokens may be revoked meanwhile.
LEMMA LapseKeeps == ASSUME BrowserInv, NEW n \in Ids, Lapse(n) PROVE BrowserInv'
<1>1. SameTokens
  BY Revoked DEF BrowserInv, Lapse
<1>2. UNCHANGED <<jar, csrfToken, exchange, theft, unheard>>
  BY DEF Lapse
<1>3. \A x \in Slots : exchange[x].given # None => exchange[x].given \in Ids
  BY IssuedAssumption DEF BrowserInv, Types, Exchange, Ids, None
<1>4. Types' /\ OnePage' /\ NoFalseTheft'
  BY <1>1, <1>2 DEF BrowserInv, Types, OnePage, None, NoFalseTheft, SameTokens
<1>5. KnownIsIssued'
  BY <1>1, <1>2 DEF BrowserInv, KnownIsIssued, Known, Issued, None, SameTokens
<1>6. InTransit'
  BY <1>1, <1>2, <1>3 DEF BrowserInv, InTransit, None, SameTokens
<1>7. OneExchange'
  BY <1>2 DEF BrowserInv, OneExchange, Refreshing
<1>8. NotAgain'
  BY <1>1, <1>2 DEF BrowserInv, NotAgain, Refreshing, Heard, None, SameTokens
<1> QED
  BY <1>4, <1>5, <1>6, <1>7, <1>8 DEF BrowserInv

LEMMA ReloadKeeps == ASSUME BrowserInv, NEW t \in Tabs, Reload(t) PROVE BrowserInv'
<1>1. UNCHANGED <<issuedToken, jar, theft, unheard>>
  BY DEF Reload
<1>2. ASSUME NEW x \in Slots
      PROVE  /\ exchange'[x] \in Exchange
             /\ exchange'[x].pc = exchange[x].pc /\ exchange'[x].kind = exchange[x].kind
             /\ exchange'[x].cookie = exchange[x].cookie /\ exchange'[x].ok = exchange[x].ok
             /\ exchange'[x].given = exchange[x].given
             /\ exchange[x].page # t => exchange'[x].page = exchange[x].page
  <2>1. exchange[x] \in Exchange
    BY DEF BrowserInv, Types
  <2>2. exchange'[x] = IF exchange[x].page = t THEN [exchange[x] EXCEPT !.page = "gone"]
                                              ELSE exchange[x]
    BY DEF Reload
  <2> QED
    BY <2>1, <2>2 DEF Exchange
<1>3. /\ csrfToken' \in [Tabs -> 0..MaxIssued]
      /\ \A u \in Tabs : csrfToken'[u] # None => u # t /\ csrfToken'[u] = csrfToken[u]
  BY IssuedAssumption DEF BrowserInv, Types, Reload, None
<1>4. \A n \in Ids : n # None
  BY IssuedAssumption DEF Ids, None
<1>5. \A x \in Slots : \A n \in Ids : Refreshing(x, n)' <=> Refreshing(x, n)
  BY <1>2 DEF Refreshing
<1>6. Types'
  <2>1. exchange' \in [Slots -> Exchange]
    BY <1>2 DEF Reload
  <2> QED
    BY <1>1, <1>3, <2>1 DEF BrowserInv, Types
<1>7. KnownIsIssued'
  BY <1>1, <1>2, <1>3, <1>4 DEF BrowserInv, KnownIsIssued, Known, Issued, None
<1>8. OnePage'
  BY <1>3 DEF BrowserInv, OnePage, None
<1>9. InTransit'
  BY <1>1, <1>2, <1>3 DEF BrowserInv, InTransit, None
<1>10. OneExchange'
  BY <1>2, <1>3, <1>4, <1>5 DEF BrowserInv, OneExchange
<1>11. NotAgain'
  <2> SUFFICES ASSUME NEW n \in Ids, issuedToken'[n].status = "rotated", Heard(n)'
               PROVE  /\ \A y \in Slots : Refreshing(y, n)' => exchange'[y].pc = "answered"
                      /\ \A u \in Tabs : jar' = n /\ csrfToken'[u] = n =>
                           \E y \in Slots : /\ Refreshing(y, n)' /\ exchange'[y].page = u
                                            /\ exchange'[y].ok /\ exchange'[y].given # None
    BY DEF NotAgain, None
  <2>1. /\ \A y \in Slots : Refreshing(y, n) => exchange[y].pc = "answered"
        /\ \A u \in Tabs : jar = n /\ csrfToken[u] = n =>
             \E y \in Slots : /\ Refreshing(y, n) /\ exchange[y].page = u
                              /\ exchange[y].ok /\ exchange[y].given # None
    BY <1>1 DEF BrowserInv, NotAgain, Heard
  <2> QED
    BY <1>1, <1>2, <1>3, <1>4, <1>5, <2>1
<1>12. NoFalseTheft'
  BY <1>1 DEF BrowserInv, NoFalseTheft
<1> QED
  BY <1>6, <1>7, <1>8, <1>9, <1>10, <1>11, <1>12 DEF BrowserInv

\* A request is over: what it brought is known to its page or its browser, or to nobody.
LEMMA OverKeeps ==
    ASSUME BrowserInv, NEW x \in Slots,
           exchange' = [exchange EXCEPT ![x] = NoExchange],
           \/ UNCHANGED csrfToken
           \/ /\ exchange[x].page \in Tabs
              /\ csrfToken' = [csrfToken EXCEPT ![exchange[x].page] = exchange[x].given],
           jar' = jar \/ jar' = exchange[x].given,
           UNCHANGED <<issuedToken, theft>>, unheard \subseteq unheard',
           \A n \in Ids : Refreshing(x, n) /\ exchange[x].ok /\ exchange[x].given # None
              => jar' = exchange[x].given \/ issuedToken[n].family \in unheard'
    PROVE  BrowserInv'
<1> DEFINE new == exchange[x].given
<1>1. /\ exchange \in [Slots -> Exchange] /\ exchange[x] \in Exchange /\ NoExchange \in Exchange
      /\ new \in 0..MaxIssued
  BY IssuedAssumption DEF BrowserInv, Types, Exchange, NoExchange, None
<1>2. /\ \A y \in Slots \ {x} : exchange'[y] = exchange[y]
      /\ exchange'[x].pc = "idle" /\ exchange'[x].given = None /\ exchange'[x].cookie = None
      /\ exchange' \in [Slots -> Exchange]
  BY <1>1 DEF NoExchange
<1>3. /\ csrfToken' \in [Tabs -> 0..MaxIssued]
      /\ \A t \in Tabs : \/ csrfToken'[t] = csrfToken[t]
                         \/ csrfToken'[t] = new /\ exchange[x].page = t
  BY <1>1 DEF BrowserInv, Types
<1>4. \A n \in Ids : n # None
  BY IssuedAssumption DEF Ids, None
<1>5. new # None => /\ new \in Ids /\ issuedToken[new].status # "rotated" /\ jar # new
                    /\ \A t \in Tabs : csrfToken[t] # new
                    /\ \A y \in Slots : exchange[y].cookie # new
                    /\ \A y \in Slots \ {x} : exchange[y].given # new
  BY <1>1, IssuedAssumption DEF BrowserInv, InTransit, Ids, None
<1>6. /\ \A n \in Ids : ~Refreshing(x, n)'
      /\ \A y \in Slots \ {x} : \A n \in Ids : Refreshing(y, n)' <=> Refreshing(y, n)
  BY <1>2 DEF Refreshing
<1>7. Types'
  BY <1>1, <1>2, <1>3 DEF BrowserInv, Types
<1>8. KnownIsIssued'
  <2> SUFFICES ASSUME NEW n \in Ids, Known(n)' PROVE Issued(n)'
    BY DEF KnownIsIssued
  <2>1. Known(n)
    BY <1>2, <1>3, <1>4 DEF Known
  <2> QED
    BY <2>1 DEF BrowserInv, KnownIsIssued, Issued, None
<1>9. OnePage'
  <2> SUFFICES ASSUME NEW t \in Tabs, NEW u \in Tabs,
                      csrfToken'[t] = csrfToken'[u], csrfToken'[t] # None
               PROVE  t = u
    BY DEF OnePage, None
  <2> QED
    BY <1>3, <1>5 DEF BrowserInv, OnePage
<1>10. InTransit'
  <2> SUFFICES ASSUME NEW y \in Slots, exchange'[y].given # None
               PROVE  /\ exchange'[y].pc = "answered"
                      /\ issuedToken'[exchange'[y].given].status # "rotated"
                      /\ jar' # exchange'[y].given
                      /\ \A t \in Tabs : csrfToken'[t] # exchange'[y].given
                      /\ \A z \in Slots : exchange'[z].cookie # exchange'[y].given
                      /\ \A z \in Slots \ {y} : exchange'[z].given # exchange'[y].given
    BY DEF InTransit, None
  <2>1. y # x /\ exchange'[y] = exchange[y]
    BY <1>2
  <2>2. /\ exchange[y].pc = "answered" /\ issuedToken[exchange[y].given].status # "rotated"
        /\ jar # exchange[y].given
        /\ \A t \in Tabs : csrfToken[t] # exchange[y].given
        /\ \A z \in Slots : exchange[z].cookie # exchange[y].given
        /\ \A z \in Slots \ {y} : exchange[z].given # exchange[y].given
    BY <2>1 DEF BrowserInv, InTransit
  <2> QED
    BY <1>2, <1>3, <2>1, <2>2
<1>11. OneExchange'
  <2> SUFFICES ASSUME NEW y \in Slots, NEW n \in Ids, Refreshing(y, n)'
               PROVE  /\ \A t \in Tabs : csrfToken'[t] = n => exchange'[y].page = t
                      /\ \A z \in Slots \ {y} : ~Refreshing(z, n)'
    BY DEF OneExchange
  <2>1. y # x /\ Refreshing(y, n) /\ exchange'[y] = exchange[y]
    BY <1>2, <1>6
  <2>2. n # new
    BY <1>4, <1>5, <2>1 DEF Refreshing
  <2> QED
    BY <1>3, <1>6, <2>1, <2>2 DEF BrowserInv, OneExchange
<1>12. NotAgain'
  <2> SUFFICES ASSUME NEW n \in Ids, issuedToken'[n].status = "rotated", Heard(n)'
               PROVE  /\ \A y \in Slots : Refreshing(y, n)' => exchange'[y].pc = "answered"
                      /\ \A t \in Tabs : jar' = n /\ csrfToken'[t] = n =>
                           \E y \in Slots : /\ Refreshing(y, n)' /\ exchange'[y].page = t
                                            /\ exchange'[y].ok /\ exchange'[y].given # None
    BY DEF NotAgain, None
  <2>1. issuedToken[n].status = "rotated" /\ Heard(n) /\ issuedToken[n].family \notin unheard'
    BY DEF Heard
  <2>2. /\ \A y \in Slots : Refreshing(y, n) => exchange[y].pc = "answered"
        /\ \A t \in Tabs : jar = n /\ csrfToken[t] = n =>
             \E y \in Slots : /\ Refreshing(y, n) /\ exchange[y].page = t
                              /\ exchange[y].ok /\ exchange[y].given # None
    BY <2>1 DEF BrowserInv, NotAgain
  <2>3. n # new
    BY <1>4, <1>5, <2>1
  <2>4. ASSUME NEW t \in Tabs, jar' = n, csrfToken'[t] = n
        PROVE  \E y \in Slots : /\ Refreshing(y, n)' /\ exchange'[y].page = t
                                /\ exchange'[y].ok /\ exchange'[y].given # None
    <3>1. jar = n /\ csrfToken[t] = n
      BY <1>3, <2>3, <2>4
    <3>2. PICK y \in Slots : /\ Refreshing(y, n) /\ exchange[y].page = t
                             /\ exchange[y].ok /\ exchange[y].given # None
      BY <2>2, <3>1
    <3>3. y # x
      BY <2>1, <2>3, <2>4, <3>2
    <3> QED
      BY <1>2, <1>6, <3>2, <3>3
  <2> QED
    BY <1>2, <1>6, <2>2, <2>4
<1>13. NoFalseTheft'
  BY DEF BrowserInv, NoFalseTheft
<1> QED
  BY <1>7, <1>8, <1>9, <1>10, <1>11, <1>12, <1>13 DEF BrowserInv

LEMMA ReceiveKeeps == ASSUME BrowserInv, NEW x \in Slots, Receive(x) PROVE BrowserInv'
<1>1. exchange[x] \in Exchange
  BY DEF BrowserInv, Types
<1>2. \/ UNCHANGED csrfToken
      \/ /\ exchange[x].page \in Tabs
         /\ csrfToken' = [csrfToken EXCEPT ![exchange[x].page] = exchange[x].given]
  BY <1>1 DEF Receive, Inform, Exchange
<1>3. jar' = IF exchange[x].ok THEN exchange[x].given ELSE jar
  BY DEF Receive
<1> QED
  BY <1>2, <1>3, OverKeeps DEF Receive

LEMMA BreakKeeps == ASSUME BrowserInv, NEW x \in Slots, Break(x) PROVE BrowserInv'
<1>1. exchange[x] \in Exchange
  BY DEF BrowserInv, Types
<1>2. \/ UNCHANGED csrfToken
      \/ /\ exchange[x].page \in Tabs
         /\ csrfToken' = [csrfToken EXCEPT ![exchange[x].page] = exchange[x].given]
  BY <1>1 DEF Break, Inform, Exchange
<1>3. \A n \in Ids : Refreshing(x, n) => issuedToken[n].family \in unheard'
  BY IssuedAssumption DEF Break, Refreshing, FamilyOf, Ids, None
<1>4. unheard \subseteq unheard'
  BY DEF Break
<1> QED
  BY <1>2, <1>3, <1>4, OverKeeps DEF Break

LEMMA BrowserStep == BrowserInv /\ [BrowserNext]_browserVars => BrowserInv'
<1> SUFFICES ASSUME BrowserInv, [BrowserNext]_browserVars PROVE BrowserInv'
  OBVIOUS
<1>1. ASSUME NEW x \in Slots, NEW t \in Tabs,
             SendLogin(x, t) \/ SendRefresh(x, t) \/ SendLogout(x, t) \/ SendRevokeAll(x, t)
      PROVE  BrowserInv'
  BY <1>1, SendKeeps DEF SendLogin, SendRefresh, SendLogout, SendRevokeAll
<1>2. ASSUME NEW t \in Tabs, Reload(t) PROVE BrowserInv'
  BY <1>2, ReloadKeeps
<1>3. ASSUME NEW x \in Slots, NEW n \in Ids, LogIn(x, n) \/ Rotate(x, n) PROVE BrowserInv'
  BY <1>3, LogInKeeps, RotateKeeps
<1>4. ASSUME NEW x \in Slots, TurnDown(x) \/ Dismiss(x) PROVE BrowserInv'
  <2>1. Turned(x) /\ UNCHANGED <<issuedToken, theft>>
    BY <1>4 DEF TurnDown, Dismiss, Arrived, Turned
  <2>2. SameTokens /\ NoFalseTheft'
    BY <2>1, Unchanged DEF BrowserInv, NoFalseTheft, Turned
  <2> QED
    BY <2>1, <2>2, TurnedKeeps
<1>5. ASSUME NEW x \in Slots, NEW families \in SUBSET Ids, LogOut(x) \/ RevokeSessions(x, families)
      PROVE  BrowserInv'
  <2>1. Turned(x) /\ SameTokens
    BY <1>5, Revoked DEF BrowserInv, LogOut, RevokeSessions, Arrived, Turned
  <2>2. NoFalseTheft'
    BY <1>5 DEF BrowserInv, NoFalseTheft, LogOut, RevokeSessions
  <2> QED
    BY <2>1, <2>2, TurnedKeeps
<1>6. ASSUME NEW x \in Slots, DetectReuse(x) \/ Receive(x) \/ Break(x) PROVE BrowserInv'
  BY <1>6, DetectReuseKeeps, ReceiveKeeps, BreakKeeps
<1>7. ASSUME NEW n \in Ids, Lapse(n) PROVE BrowserInv'
  BY <1>7, LapseKeeps
<1>8. CASE UNCHANGED browserVars
  BY <1>8 DEF browserVars, BrowserInv, Types, KnownIsIssued, Known, Issued, OnePage, InTransit,
              OneExchange, Refreshing, NotAgain, Heard, NoFalseTheft, None
<1> QED
  <2>1. ASSUME NEW x \in Slots, LogOut(x) PROVE BrowserInv'
    BY <1>5, <2>1
  <2> QED
    BY <1>1, <1>2, <1>3, <1>4, <1>5, <1>6, <1>7, <1>8, <2>1 DEF BrowserNext

\* A browser that hears every answer is never taken for a thief (auth_router.py:385-404,
\* api.ts:489-517), with any number of tabs and requests.
THEOREM NeverAThief == BrowserSpec => []NoFalseTheft
<1>1. BrowserInv => NoFalseTheft
  BY DEF BrowserInv
<1> QED
  BY InitInv, BrowserStep, <1>1, PTL DEF BrowserSpec

(***************************************************************************)
(* Logging out.  At most one token of a family is live, and none once one  *)
(* has been revoked.  A refresh and a logout of one family that are under  *)
(* way together have met; and a logout that has met none, with no answer   *)
(* lost, brings the live token of its family, if there is one.             *)
(***************************************************************************)
Family(n) == issuedToken[n].family
Descended ==
    /\ \A n \in Ids : IF Issued(n) THEN Family(n) \in Ids /\ Issued(Family(n)) ELSE Family(n) = None
    /\ \A m, n \in Ids :
          Good(m) /\ issuedToken[n].status \in {"live", "revoked"} /\ Family(m) = Family(n) => m = n
Remembered == \A f \in ended \cup theft \cup unheard \cup met : f \in Ids /\ Issued(f)
Excused(f) == f \in unheard \cup met
Overlapping ==
    \A x \in Under("refresh"), y \in Under("logout") :
        FamilyOf(exchange[x].cookie) \cap FamilyOf(exchange[y].cookie) \subseteq met
Carried ==
    \A x \in Slots, n \in Ids :
        /\ Arrived(x, "logout") /\ exchange[x].cookie # None
        /\ Good(n) /\ Family(n) = Family(exchange[x].cookie)
        => n = exchange[x].cookie \/ Excused(Family(n))
LogoutInv == Descended /\ Remembered /\ Overlapping /\ Carried /\ LogoutEnds

\* A cookie, and the family of one, has been issued.
LEMMA CookieIssued ==
    ASSUME BrowserInv
    PROVE  /\ \A x \in Slots : exchange[x].cookie # None
                 => exchange[x].cookie \in Ids /\ Issued(exchange[x].cookie)
           /\ jar # None => jar \in Ids /\ Issued(jar)
<1>1. \A x \in Slots : exchange[x].cookie \in 0..MaxIssued
  BY DEF BrowserInv, Types, Exchange
<1>2. jar \in 0..MaxIssued
  BY DEF BrowserInv, Types
<1>3. \A n \in 0..MaxIssued : n # None => n \in Ids
  BY IssuedAssumption DEF Ids, None
<1>4. QED
  BY <1>1, <1>2, <1>3 DEF BrowserInv, KnownIsIssued, Known

LEMMA FamilyIssued ==
    ASSUME LogoutInv, NEW n, n # None => n \in Ids /\ Issued(n)
    PROVE  \A f \in FamilyOf(n) : f \in Ids /\ Issued(f)
  BY DEF LogoutInv, Descended, FamilyOf, Family

\* Tokens are revoked, requests answered and over.
Fewer ==
    \A n \in Ids :
        /\ Family(n)' = Family(n) /\ (Issued(n)' <=> Issued(n)) /\ (Good(n)' => Good(n))
        /\ issuedToken'[n].status = "revoked" => issuedToken[n].status \in {"live", "revoked"}
NoneSent ==
    \A y \in Slots :
        \/ exchange'[y].cookie = None
        \/ /\ exchange'[y].cookie = exchange[y].cookie /\ exchange'[y].kind = exchange[y].kind
           /\ exchange'[y].pc # "idle" => exchange[y].pc # "idle"
           /\ exchange'[y].pc = "sent" => exchange[y].pc = "sent"

LEMMA SameAreFewer == ASSUME UNCHANGED issuedToken PROVE Fewer
  BY DEF Fewer, Family, Issued, Good

LEMMA RevokedAreFewer ==
    ASSUME Types, NEW ids, RevokeIn(ids)
    PROVE  Fewer /\ \A n \in ids \cap Ids : ~Good(n)'
<1>1. \A n \in Ids : issuedToken'[n] = IF n \in ids /\ Good(n)
                                      THEN [issuedToken[n] EXCEPT !.status = "revoked"]
                                      ELSE issuedToken[n]
  BY DEF RevokeIn
<1>2. ASSUME NEW n \in Ids
      PROVE  /\ Family(n)' = Family(n) /\ (Issued(n)' <=> Issued(n)) /\ (Good(n)' => Good(n))
             /\ issuedToken'[n].status = "revoked" => issuedToken[n].status \in {"live", "revoked"}
             /\ n \in ids => ~Good(n)'
  <2>1. issuedToken[n] \in IssuedToken
    BY DEF Types
  <2>2. CASE n \in ids /\ Good(n)
    <3>1. issuedToken'[n].family = issuedToken[n].family /\ issuedToken'[n].status = "revoked"
      BY <1>1, <2>1, <2>2 DEF IssuedToken
    <3>2. QED
      BY <2>2, <3>1 DEF Family, Issued, Good
  <2>3. CASE ~(n \in ids /\ Good(n))
    BY <1>1, <2>3 DEF Family, Issued, Good
  <2>4. QED
    BY <2>2, <2>3
<1>3. QED
  BY <1>2 DEF Fewer

LEMMA FewerKeeps ==
    ASSUME BrowserInv, LogoutInv, Fewer, NoneSent,
           unheard \subseteq unheard', met \subseteq met', Remembered', LogoutEnds'
    PROVE  LogoutInv'
<1>1. Descended'
  <2>1. ASSUME NEW n \in Ids
        PROVE  IF Issued(n)' THEN Family(n)' \in Ids /\ Issued(Family(n))' ELSE Family(n)' = None
    <3>1. IF Issued(n) THEN Family(n) \in Ids /\ Issued(Family(n)) ELSE Family(n) = None
      BY DEF LogoutInv, Descended
    <3>2. Family(n)' = Family(n) /\ (Issued(n)' <=> Issued(n))
      BY DEF Fewer
    <3>3. Issued(n) => (Issued(Family(n))' <=> Issued(Family(n)))
      BY <3>1, <3>2 DEF Fewer, Issued
    <3>4. QED
      BY <3>1, <3>2, <3>3
  <2>2. ASSUME NEW m \in Ids, NEW n \in Ids,
               Good(m)', issuedToken'[n].status \in {"live", "revoked"}, Family(m)' = Family(n)'
        PROVE  m = n
    <3>1. issuedToken[n].status \in {"live", "revoked"}
      <4>1. n # None
        BY IssuedAssumption DEF Ids, None
      <4>2. QED
        BY <2>2, <4>1 DEF Fewer, Good, None
    <3>2. Good(m) /\ Family(m) = Family(n)
      BY <2>2 DEF Fewer
    <3>3. QED
      BY <3>1, <3>2 DEF LogoutInv, Descended
  <2>3. QED
    BY <2>1, <2>2 DEF Descended, None
<1>2. \A y \in Slots : exchange'[y].cookie # None =>
         /\ exchange'[y].cookie = exchange[y].cookie /\ exchange[y].cookie \in Ids
         /\ FamilyOf(exchange[y].cookie)' = FamilyOf(exchange[y].cookie)
         /\ Family(exchange[y].cookie)' = Family(exchange[y].cookie)
         /\ \A kind : /\ y \in Under(kind)' => y \in Under(kind)
                      /\ Arrived(y, kind)' => Arrived(y, kind)
  <2> SUFFICES ASSUME NEW y \in Slots, exchange'[y].cookie # None
               PROVE  /\ exchange'[y].cookie = exchange[y].cookie /\ exchange[y].cookie \in Ids
                      /\ FamilyOf(exchange[y].cookie)' = FamilyOf(exchange[y].cookie)
                      /\ Family(exchange[y].cookie)' = Family(exchange[y].cookie)
                      /\ \A kind : /\ y \in Under(kind)' => y \in Under(kind)
                                   /\ Arrived(y, kind)' => Arrived(y, kind)
    OBVIOUS
  <2>1. /\ exchange'[y].cookie = exchange[y].cookie /\ exchange'[y].kind = exchange[y].kind
        /\ exchange'[y].pc # "idle" => exchange[y].pc # "idle"
        /\ exchange'[y].pc = "sent" => exchange[y].pc = "sent"
    BY DEF NoneSent
  <2>2. exchange[y].cookie \in Ids
    BY <2>1, CookieIssued
  <2>3. Family(exchange[y].cookie)' = Family(exchange[y].cookie)
    BY <2>1, <2>2 DEF Fewer, Family
  <2>4. QED
    BY <2>1, <2>2, <2>3 DEF FamilyOf, Family, Under, Arrived, None
<1>3. Overlapping'
  <2> SUFFICES ASSUME NEW x \in Under("refresh")', NEW y \in Under("logout")',
                      NEW f \in (FamilyOf(exchange[x].cookie) \cap FamilyOf(exchange[y].cookie))'
               PROVE  f \in met
    BY DEF Overlapping
  <2>1. x \in Slots /\ y \in Slots /\ exchange'[x].cookie # None /\ exchange'[y].cookie # None
    BY DEF Under, FamilyOf, None
  <2>2. x \in Under("refresh") /\ y \in Under("logout")
    BY <1>2, <2>1
  <2>3. f \in FamilyOf(exchange[x].cookie) \cap FamilyOf(exchange[y].cookie)
    BY <1>2, <2>1
  <2>4. QED
    BY <2>2, <2>3 DEF LogoutInv, Overlapping
<1>4. Carried'
  <2> SUFFICES ASSUME NEW x \in Slots, NEW n \in Ids,
                      Arrived(x, "logout")', exchange'[x].cookie # None,
                      Good(n)', Family(n)' = Family(exchange[x].cookie)'
               PROVE  n = exchange'[x].cookie \/ Excused(Family(n))'
    BY DEF Carried, None
  <2>1. /\ Arrived(x, "logout") /\ exchange[x].cookie = exchange'[x].cookie
        /\ Good(n) /\ Family(n)' = Family(n) /\ Family(n) = Family(exchange[x].cookie)
    BY <1>2 DEF Fewer
  <2>2. n = exchange[x].cookie \/ Excused(Family(n))
    BY <2>1 DEF LogoutInv, Carried
  <2>3. QED
    BY <2>1, <2>2 DEF Excused
<1>5. QED
  BY <1>1, <1>3, <1>4 DEF LogoutInv

LEMMA MeetsBoth ==
    ASSUME NEW kind, NEW t
    PROVE  /\ Meets(kind, t) \subseteq FamilyOf(jar)
           /\ Matches(t) => \A y \in Under(kind) :
                 \A f \in FamilyOf(exchange[y].cookie) : f \in FamilyOf(jar) => f \in Meets(kind, t)
<1>1. Meets(kind, t) \subseteq FamilyOf(jar)
  BY DEF Meets
<1>2. ASSUME Matches(t), NEW y \in Under(kind), NEW f \in FamilyOf(exchange[y].cookie), f \in FamilyOf(jar)
      PROVE  f \in Meets(kind, t)
  BY <1>2 DEF Meets
<1>3. QED
  BY <1>1, <1>2

\* A request is sent: a refresh meets the logouts of its family, and a logout the refreshes.
LEMMA LogoutSends ==
    ASSUME BrowserInv, LogoutInv, NEW x \in Slots, NEW t \in Tabs,
           SendLogin(x, t) \/ SendRefresh(x, t) \/ SendLogout(x, t) \/ SendRevokeAll(x, t)
    PROVE  LogoutInv'
<1>1. PICK kind \in {"login", "refresh", "logout", "revoke-all"} :
         /\ Send(x, t, kind)
         /\ met' = met \cup (IF kind = "refresh" THEN Meets("logout", t)
                             ELSE IF kind = "logout" THEN Meets("refresh", t) ELSE {})
  BY DEF SendLogin, SendRefresh, SendLogout, SendRevokeAll
<1>2. UNCHANGED <<issuedToken, jar, csrfToken, ended, theft, unheard>> /\ exchange[x].pc = "idle"
  BY <1>1 DEF Send
<1>3. /\ \A y \in Slots \ {x} : exchange'[y] = exchange[y]
      /\ exchange'[x].kind = kind
      /\ exchange'[x].cookie # None =>
            exchange'[x].cookie = jar /\ Matches(t) /\ kind \in {"refresh", "logout"}
  BY <1>1 DEF Send, BrowserInv, Types, None
<1>4. \A n : Good(n)' = Good(n) /\ Family(n)' = Family(n) /\ FamilyOf(n)' = FamilyOf(n)
             /\ Issued(n)' = Issued(n)
  BY <1>2 DEF Good, Family, FamilyOf, Issued
<1>5. Descended'
  BY <1>2 DEF LogoutInv, Descended, Good, Family, Issued, None
<1>6. met \subseteq met' /\ \A f \in met' \ met : f \in FamilyOf(jar)
  <2>1. Meets("logout", t) \subseteq FamilyOf(jar) /\ Meets("refresh", t) \subseteq FamilyOf(jar)
    BY MeetsBoth
  <2>2. QED
    BY <1>1, <2>1
<1>7. Remembered'
  <2>1. \A f \in FamilyOf(jar) : f \in Ids /\ Issued(f)
    BY CookieIssued, FamilyIssued
  <2>2. QED
    BY <1>2, <1>4, <1>6, <2>1 DEF LogoutInv, Remembered
<1>8. LogoutEnds'
  BY <1>2, <1>6 DEF LogoutInv, LogoutEnds, Good
<1>9. \A y \in Slots \ {x} : \A k : /\ y \in Under(k)' <=> y \in Under(k)
                                    /\ Arrived(y, k)' <=> Arrived(y, k)
                                    /\ exchange'[y].cookie = exchange[y].cookie
  BY <1>3 DEF Under, Arrived
<1>10. Overlapping'
  <2> SUFFICES ASSUME NEW y \in Under("refresh")', NEW z \in Under("logout")',
                      NEW f \in (FamilyOf(exchange[y].cookie) \cap FamilyOf(exchange[z].cookie))'
               PROVE  f \in met'
    BY DEF Overlapping
  <2>1. /\ y \in Slots /\ z \in Slots /\ exchange'[y].kind = "refresh" /\ exchange'[z].kind = "logout"
        /\ exchange'[y].cookie # None /\ exchange'[z].cookie # None
        /\ f \in FamilyOf(exchange'[y].cookie) /\ f \in FamilyOf(exchange'[z].cookie)
    BY <1>2 DEF Under, FamilyOf, None
  <2>2. CASE y = x
    <3>1. z # x /\ z \in Under("logout") /\ f \in FamilyOf(exchange[z].cookie)
      BY <1>9, <2>1, <2>2
    <3>2. kind = "refresh" /\ Matches(t) /\ f \in FamilyOf(jar)
      BY <1>3, <2>1, <2>2
    <3>3. QED
      BY <1>1, <3>1, <3>2, MeetsBoth
  <2>3. CASE z = x
    <3>1. y # x /\ y \in Under("refresh") /\ f \in FamilyOf(exchange[y].cookie)
      BY <1>9, <2>1, <2>3
    <3>2. kind = "logout" /\ Matches(t) /\ f \in FamilyOf(jar)
      BY <1>3, <2>1, <2>3
    <3>3. QED
      BY <1>1, <3>1, <3>2, MeetsBoth
  <2>4. CASE y # x /\ z # x
    <3>1. /\ y \in Under("refresh") /\ z \in Under("logout")
          /\ f \in FamilyOf(exchange[y].cookie) \cap FamilyOf(exchange[z].cookie)
      BY <1>9, <2>1, <2>4
    <3>2. QED
      BY <1>6, <3>1 DEF LogoutInv, Overlapping
  <2>5. QED
    BY <2>2, <2>3, <2>4
<1>11. Carried'
  <2> SUFFICES ASSUME NEW y \in Slots, NEW n \in Ids,
                      Arrived(y, "logout")', exchange'[y].cookie # None,
                      Good(n)', Family(n)' = Family(exchange[y].cookie)'
               PROVE  n = exchange'[y].cookie \/ Excused(Family(n))'
    BY DEF Carried, None
  <2> DEFINE c == exchange'[y].cookie
  <2>1. Good(n) /\ Family(n) = Family(c) /\ (Excused(Family(n)) => Excused(Family(n))')
    BY <1>2, <1>6 DEF Good, Family, Excused
  <2>2. CASE y # x
    <3>1. n = exchange[y].cookie \/ Excused(Family(n))
      BY <1>9, <2>1, <2>2 DEF LogoutInv, Carried
    <3>2. QED
      BY <1>9, <2>1, <2>2, <3>1
  <2>3. CASE y = x
    <3>1. kind = "logout" /\ c = jar /\ Matches(t) /\ c # None
      BY <1>3, <2>3 DEF Arrived
    <3>2. c \in Ids /\ Issued(c) /\ csrfToken[t] = c
      BY <3>1, CookieIssued DEF Matches
    <3>3. issuedToken[c].status \in {"live", "rotated", "revoked"}
      BY <3>2 DEF Issued, BrowserInv, Types, IssuedToken
    <3>4. CASE issuedToken[c].status \in {"live", "revoked"}
      BY <2>1, <3>2, <3>4 DEF LogoutInv, Descended
    <3>5. CASE issuedToken[c].status = "rotated" /\ Heard(c)
      <4>1. PICK z \in Slots : Refreshing(z, c)
        BY <3>1, <3>2, <3>5 DEF BrowserInv, NotAgain
      <4>2. z \in Under("refresh") /\ exchange[z].cookie = c
        BY <4>1 DEF Refreshing, Under
      <4>3. Family(c) \in FamilyOf(exchange[z].cookie) /\ Family(c) \in FamilyOf(jar)
        BY <3>1, <4>2 DEF FamilyOf, Family
      <4>4. Family(c) \in met'
        BY <1>1, <3>1, <4>2, <4>3, MeetsBoth
      <4>5. QED
        BY <1>2, <2>1, <4>4 DEF Excused, Family
    <3>6. CASE ~Heard(c)
      BY <2>1, <3>6 DEF Heard, Excused, Family
    <3>7. QED
      BY <3>3, <3>4, <3>5, <3>6
  <2>4. QED
    BY <2>2, <2>3
<1>12. QED
  BY <1>5, <1>7, <1>8, <1>10, <1>11 DEF LogoutInv

\* A token is issued: to a family of its own, or to that of the live token it replaces, of
\* which no logout is under way unless they have met.
LEMMA LogoutGrows ==
    ASSUME BrowserInv, LogoutInv, NEW x \in Slots, NEW n \in Ids, NEW f \in Ids, NEW ok,
           ~Issued(n), exchange[x].pc = "sent", Reply(x, ok, n), UNCHANGED <<ended, theft, unheard, met>>,
           Family(n)' = f, Good(n)', f = n \/ Issued(f),
           \A k \in Ids \ {n} :
              /\ Family(k)' = Family(k)
              /\ \/ issuedToken'[k].status = issuedToken[k].status
                 \/ issuedToken'[k].status = "rotated" /\ Issued(k)
              /\ Family(k) = f => issuedToken'[k].status \notin {"live", "revoked"},
           f \in ended => Excused(f),
           \A y \in Under("logout") : f \in FamilyOf(exchange[y].cookie) => f \in met
    PROVE  LogoutInv'
<1>0. \A k \in Ids : k # None
  BY IssuedAssumption DEF Ids, None
<1>1. /\ \A k \in Ids : Issued(k)' <=> Issued(k) \/ k = n
      /\ \A k \in Ids \ {n} : Good(k)' => Good(k)
  BY <1>0 DEF Issued, Good
<1>2. Descended'
  <2>1. ASSUME NEW k \in Ids
        PROVE  IF Issued(k)' THEN Family(k)' \in Ids /\ Issued(Family(k))' ELSE Family(k)' = None
    <3>1. CASE k = n
      BY <1>1, <3>1
    <3>2. CASE k # n
      <4>1. Family(k)' = Family(k)
        BY <3>2
      <4>2. IF Issued(k) THEN Family(k) \in Ids /\ Issued(Family(k)) ELSE Family(k) = None
        BY DEF LogoutInv, Descended
      <4>3. CASE Issued(k)
        <5>1. PICK g \in Ids : g = Family(k) /\ Issued(g)
          BY <4>2, <4>3
        <5>2. Issued(g)'
          BY <1>1, <5>1
        <5>3. Family(k)' = g
          BY <4>1, <5>1
        <5>4. Issued(Family(k))'
          BY <5>2, <5>3 DEF Issued
        <5>5. QED
          BY <5>3, <5>4, <1>1, <4>3
      <4>4. CASE ~Issued(k)
        BY <1>1, <3>2, <4>1, <4>2, <4>4
      <4>5. QED
        BY <4>3, <4>4
    <3>3. QED
      BY <3>1, <3>2
  <2>2. ASSUME NEW k \in Ids, NEW m \in Ids, Good(k)', issuedToken'[m].status \in {"live", "revoked"},
               Family(k)' = Family(m)'
        PROVE  k = m
    <3>1. CASE k = n \/ m = n
      <4>1. \A l \in Ids \ {n} : Family(l)' = f => issuedToken'[l].status \notin {"live", "revoked"}
        OBVIOUS
      <4>2. issuedToken'[k].status = "live"
        BY <2>2 DEF Good
      <4>3. QED
        BY <2>2, <3>1, <4>1, <4>2
    <3>2. CASE k # n /\ m # n
      <4>1. Good(k) /\ issuedToken[m].status \in {"live", "revoked"} /\ Family(k) = Family(m)
        BY <1>1, <2>2, <3>2
      <4>2. QED
        BY <4>1 DEF LogoutInv, Descended
    <3>3. QED
      BY <3>1, <3>2
  <2>3. QED
    BY <2>1, <2>2 DEF Descended, None
<1>3. Remembered'
  <2>1. \A g \in ended \cup theft \cup unheard \cup met : g \in Ids /\ Issued(g)'
    BY <1>1 DEF LogoutInv, Remembered
  <2>2. QED
    BY <2>1 DEF Remembered, Issued
<1>4. \A y \in Slots :
         /\ exchange'[y].cookie = exchange[y].cookie
         /\ exchange[y].cookie # None => exchange[y].cookie \in Ids \ {n}
         /\ FamilyOf(exchange[y].cookie)' = FamilyOf(exchange[y].cookie)
         /\ exchange[y].cookie # None => Family(exchange[y].cookie)' = Family(exchange[y].cookie)
         /\ \A kind : /\ y \in Under(kind)' => y \in Under(kind)
                      /\ Arrived(y, kind)' => Arrived(y, kind)
  <2> SUFFICES ASSUME NEW y \in Slots
               PROVE  /\ exchange'[y].cookie = exchange[y].cookie
                      /\ exchange[y].cookie # None => exchange[y].cookie \in Ids \ {n}
                      /\ FamilyOf(exchange[y].cookie)' = FamilyOf(exchange[y].cookie)
                      /\ exchange[y].cookie # None =>
                            Family(exchange[y].cookie)' = Family(exchange[y].cookie)
                      /\ \A kind : /\ y \in Under(kind)' => y \in Under(kind)
                                   /\ Arrived(y, kind)' => Arrived(y, kind)
    OBVIOUS
  <2>1. /\ exchange'[y].cookie = exchange[y].cookie /\ exchange'[y].kind = exchange[y].kind
        /\ exchange'[y].pc = exchange[y].pc \/ (exchange'[y].pc = "answered" /\ exchange[y].pc = "sent")
    <3>1. exchange \in [Slots -> Exchange] /\ exchange[y] \in Exchange
      BY DEF BrowserInv, Types
    <3>2. CASE y = x
      BY <3>1, <3>2 DEF Reply, Exchange
    <3>3. CASE y # x
      BY <3>1, <3>3 DEF Reply
    <3>4. QED
      BY <3>2, <3>3
  <2>2. exchange[y].cookie # None => exchange[y].cookie \in Ids \ {n}
    BY CookieIssued
  <2>3. exchange[y].cookie # None => Family(exchange[y].cookie)' = Family(exchange[y].cookie)
    BY <2>1, <2>2 DEF Family
  <2>4. QED
    BY <2>1, <2>2, <2>3 DEF FamilyOf, Family, Under, Arrived, None
<1>5. Overlapping'
  BY <1>4 DEF LogoutInv, Overlapping, Under
<1>6. Carried'
  <2> SUFFICES ASSUME NEW y \in Slots, NEW k \in Ids,
                      Arrived(y, "logout")', exchange'[y].cookie # None,
                      Good(k)', Family(k)' = Family(exchange[y].cookie)'
               PROVE  k = exchange'[y].cookie \/ Excused(Family(k))'
    BY DEF Carried, None
  <2>1. /\ Arrived(y, "logout") /\ exchange[y].cookie = exchange'[y].cookie
        /\ Family(k)' = Family(exchange[y].cookie)
    BY <1>4
  <2>2. CASE k = n
    <3>1. f \in FamilyOf(exchange[y].cookie) /\ y \in Under("logout")
      BY <2>1, <2>2 DEF FamilyOf, Family, Arrived, Under
    <3>2. f \in met
      BY <3>1
    <3>3. QED
      BY <2>2, <3>2 DEF Excused
  <2>3. CASE k # n
    <3>1. Good(k) /\ Family(k)' = Family(k)
      BY <1>1, <2>3
    <3>2. k = exchange[y].cookie \/ Excused(Family(k))
      BY <2>1, <3>1 DEF LogoutInv, Carried
    <3>3. QED
      BY <2>1, <3>1, <3>2 DEF Excused
  <2>4. QED
    BY <2>2, <2>3
<1>7. LogoutEnds'
  <2> SUFFICES ASSUME NEW k \in Ids, Good(k)', Family(k)' \in ended PROVE Excused(Family(k)')
    BY DEF LogoutEnds, Excused, Family
  <2>1. CASE k = n
    BY <2>1
  <2>2. CASE k # n
    BY <1>1, <2>2 DEF LogoutInv, LogoutEnds, Excused, Family
  <2>3. QED
    BY <2>1, <2>2
<1>8. QED
  BY <1>2, <1>3, <1>5, <1>6, <1>7 DEF LogoutInv

LEMMA LogoutLogIn ==
    ASSUME BrowserInv, LogoutInv, NEW x \in Slots, NEW n \in Ids, LogIn(x, n)
    PROVE  LogoutInv'
<1>1. /\ ~Issued(n) /\ exchange[x].pc = "sent" /\ Reply(x, TRUE, n)
      /\ issuedToken' = [issuedToken EXCEPT ![n] = [status |-> "live", family |-> n]]
      /\ UNCHANGED <<ended, theft, unheard, met>>
  BY DEF LogIn, Arrived, Fresh
<1>2. /\ issuedToken'[n] = [status |-> "live", family |-> n] /\ n # None
      /\ \A k \in Ids \ {n} : issuedToken'[k] = issuedToken[k]
  BY <1>1, IssuedAssumption DEF BrowserInv, Types, Ids, None
<1>3. Family(n)' = n /\ Good(n)'
  BY <1>2 DEF Family, Good
<1>4. ASSUME NEW k \in Ids, Family(k) = n PROVE FALSE
  BY <1>1, <1>2, <1>4 DEF LogoutInv, Descended
<1>5. n \notin ended
  BY <1>1 DEF LogoutInv, Remembered
<1>6. \A y \in Slots : n \notin FamilyOf(exchange[y].cookie)
  BY <1>1, CookieIssued, FamilyIssued
<1>7. \A k \in Ids \ {n} : /\ Family(k)' = Family(k)
                           /\ issuedToken'[k].status = issuedToken[k].status
  BY <1>2 DEF Family
<1>8. QED
  BY <1>1, <1>3, <1>4, <1>5, <1>6, <1>7, LogoutGrows DEF Under

LEMMA LogoutRotate ==
    ASSUME BrowserInv, LogoutInv, NEW x \in Slots, NEW n \in Ids, Rotate(x, n)
    PROVE  LogoutInv'
<1> DEFINE old == exchange[x].cookie
           f == Family(old)
<1>1. /\ ~Issued(n) /\ exchange[x].pc = "sent" /\ Reply(x, TRUE, n) /\ Good(old)
      /\ x \in Under("refresh")
      /\ issuedToken' = [issuedToken EXCEPT
              ![old].status = "rotated",
              ![n] = [status |-> "live", family |-> issuedToken[old].family]]
      /\ UNCHANGED <<ended, theft, unheard, met>>
  BY DEF Rotate, Arrived, Fresh, Under
<1>2. old \in Ids /\ Issued(old) /\ n # None /\ old # n
  BY <1>1, CookieIssued, IssuedAssumption DEF Good, Ids, None
<1>3. f \in Ids /\ Issued(f)
  BY <1>2 DEF LogoutInv, Descended
<1>4. /\ issuedToken'[n] = [status |-> "live", family |-> f]
      /\ issuedToken'[old].status = "rotated" /\ issuedToken'[old].family = f
      /\ \A k \in Ids \ {n, old} : issuedToken'[k] = issuedToken[k]
  <2>1. issuedToken \in [Ids -> IssuedToken] /\ issuedToken[old] \in IssuedToken
    BY <1>2 DEF BrowserInv, Types
  <2>2. /\ [issuedToken[old] EXCEPT !.status = "rotated"].status = "rotated"
        /\ [issuedToken[old] EXCEPT !.status = "rotated"].family = issuedToken[old].family
    BY <2>1 DEF IssuedToken
  <2>3. /\ issuedToken'[n] = [status |-> "live", family |-> issuedToken[old].family]
        /\ issuedToken'[old] = [issuedToken[old] EXCEPT !.status = "rotated"]
        /\ \A k \in Ids \ {n, old} : issuedToken'[k] = issuedToken[k]
    <3>1. \A c \in Ids \ {n} :
             issuedToken' = [issuedToken EXCEPT
                ![c].status = "rotated",
                ![n] = [status |-> "live", family |-> issuedToken[c].family]]
             => /\ issuedToken'[n] = [status |-> "live", family |-> issuedToken[c].family]
                /\ issuedToken'[c] = [issuedToken[c] EXCEPT !.status = "rotated"]
                /\ \A k \in Ids \ {n, c} : issuedToken'[k] = issuedToken[k]
      BY <2>1
    <3>2. QED
      BY <1>1, <1>2, <3>1
  <2>4. QED
    BY <2>2, <2>3 DEF Family
<1> HIDE DEF f
<1>5. Family(n)' = f /\ Good(n)'
  BY <1>2, <1>4 DEF Family, Good
<1>6. ASSUME NEW k \in Ids \ {n}
      PROVE  /\ Family(k)' = Family(k)
             /\ \/ issuedToken'[k].status = issuedToken[k].status
                \/ issuedToken'[k].status = "rotated" /\ Issued(k)
             /\ Family(k) = f => issuedToken'[k].status \notin {"live", "revoked"}
  <2>1. CASE k = old
    BY <1>2, <1>4, <2>1 DEF f, Family
  <2>2. CASE k # old
    <3>1. Family(k) = f => issuedToken[k].status \notin {"live", "revoked"}
      BY <1>1, <1>2, <2>2 DEF LogoutInv, Descended, f
    <3>2. QED
      BY <1>4, <2>2, <3>1 DEF Family
  <2>3. QED
    BY <2>1, <2>2
<1>7. f \in ended => Excused(f)
  BY <1>1, <1>2 DEF LogoutInv, LogoutEnds, Excused, f, Family
<1>8. ASSUME NEW y \in Under("logout"), f \in FamilyOf(exchange[y].cookie) PROVE f \in met
  <2>1. f \in FamilyOf(exchange[x].cookie)
    <3>1. old # None
      BY <1>1 DEF Good
    <3>2. QED
      BY <3>1 DEF f, Family, FamilyOf
  <2>2. QED
    BY <1>1, <1>8, <2>1 DEF LogoutInv, Overlapping
<1>9. QED
  BY <1>1, <1>3, <1>5, <1>6, <1>7, <1>8, LogoutGrows

\* The logout itself: the live token of the family is the one it brings, or it is excused.
LEMMA LogoutDone ==
    ASSUME BrowserInv, LogoutInv, NEW x \in Slots, LogOut(x)
    PROVE  LogoutInv'
<1> DEFINE c == exchange[x].cookie
<1>1. /\ Arrived(x, "logout") /\ RevokeIn({c}) /\ Reply(x, TRUE, None)
      /\ ended' = ended \cup FamilyOf(c) /\ UNCHANGED <<jar, csrfToken, theft, unheard, met>>
  BY DEF LogOut
<1>2. Fewer /\ \A n \in {c} \cap Ids : ~Good(n)'
  BY <1>1, RevokedAreFewer DEF BrowserInv
<1>3. NoneSent
  BY <1>1 DEF NoneSent, Reply, Arrived, BrowserInv, Types, Exchange
<1>4. Remembered'
  <2>1. \A f \in FamilyOf(c) : f \in Ids /\ Issued(f)
    BY CookieIssued, FamilyIssued
  <2>2. \A f \in ended' \cup theft' \cup unheard' \cup met' : f \in Ids /\ Issued(f)'
    BY <1>1, <1>2, <2>1 DEF LogoutInv, Remembered, Fewer
  <2>3. QED
    BY <2>2 DEF Remembered, Issued
<1>5. LogoutEnds'
  <2> SUFFICES ASSUME NEW n \in Ids, Good(n)', Family(n)' \in ended' PROVE Excused(Family(n))'
    BY DEF LogoutEnds, Excused, Family
  <2>1. Good(n) /\ Family(n)' = Family(n) /\ n # c
    BY <1>2 DEF Fewer
  <2>2. CASE Family(n) \in ended
    BY <1>1, <2>1, <2>2 DEF LogoutInv, LogoutEnds, Excused, Family
  <2>3. CASE Family(n) \in FamilyOf(c)
    <3>1. c # None /\ Family(n) = Family(c)
      BY <2>3 DEF FamilyOf, Family
    <3>2. Excused(Family(n))
      BY <1>1, <2>1, <3>1 DEF LogoutInv, Carried
    <3>3. QED
      BY <1>1, <2>1, <3>2 DEF Excused
  <2>4. QED
    BY <1>1, <2>1, <2>2, <2>3
<1>6. QED
  BY <1>1, <1>2, <1>3, <1>4, <1>5, FewerKeeps

LEMMA LogoutStep ==
    ASSUME BrowserInv, LogoutInv, [BrowserNext]_browserVars
    PROVE  LogoutInv'
<1>1. ASSUME NEW x \in Slots, NEW t \in Tabs,
             SendLogin(x, t) \/ SendRefresh(x, t) \/ SendLogout(x, t) \/ SendRevokeAll(x, t)
      PROVE  LogoutInv'
  BY <1>1, LogoutSends
<1>2. ASSUME NEW x \in Slots, NEW n \in Ids, LogIn(x, n) \/ Rotate(x, n) PROVE LogoutInv'
  BY <1>2, LogoutLogIn, LogoutRotate
<1>3. ASSUME NEW x \in Slots, LogOut(x) PROVE LogoutInv'
  BY <1>3, LogoutDone
<1>4. ASSUME Fewer, NoneSent, unheard \subseteq unheard', UNCHANGED <<ended, met>>,
             \A f \in (theft' \cup unheard') \ (theft \cup unheard) : f \in Ids /\ Issued(f)
      PROVE  LogoutInv'
  <2>1. Remembered'
    <3>1. \A f \in ended' \cup theft' \cup unheard' \cup met' : f \in Ids /\ Issued(f)
      BY <1>4 DEF LogoutInv, Remembered
    <3>2. \A f \in ended' \cup theft' \cup unheard' \cup met' : f \in Ids /\ Issued(f)'
      BY <1>4, <3>1 DEF Fewer
    <3>3. QED
      BY <3>2 DEF Remembered, Issued
  <2>2. LogoutEnds'
    <3> SUFFICES ASSUME NEW n \in Ids, Good(n)', Family(n)' \in ended' PROVE Excused(Family(n))'
      BY DEF LogoutEnds, Excused, Family
    <3>1. Good(n) /\ Family(n)' = Family(n) /\ Family(n) \in ended
      BY <1>4 DEF Fewer
    <3>2. Excused(Family(n))
      BY <3>1 DEF LogoutInv, LogoutEnds, Excused, Family
    <3>3. QED
      BY <1>4, <3>1, <3>2 DEF Excused
  <2>3. QED
    BY <1>4, <2>1, <2>2, FewerKeeps
<1>5. exchange \in [Slots -> Exchange] /\ \A y \in Slots : exchange[y] \in Exchange
  BY DEF BrowserInv, Types
<1>6. ASSUME NEW t \in Tabs, Reload(t) PROVE LogoutInv'
  <2>1. NoneSent
    <3>1. \A y \in Slots : exchange'[y] = IF exchange[y].page = t
                                         THEN [exchange[y] EXCEPT !.page = "gone"] ELSE exchange[y]
      BY <1>6 DEF Reload
    <3>2. \A y \in Slots : /\ exchange'[y].cookie = exchange[y].cookie
                           /\ exchange'[y].kind = exchange[y].kind
                           /\ exchange'[y].pc = exchange[y].pc
      BY <1>5, <3>1 DEF Exchange
    <3>3. QED
      BY <3>2 DEF NoneSent
  <2>2. UNCHANGED <<issuedToken, ended, theft, unheard, met>>
    BY <1>6 DEF Reload
  <2>3. QED
    BY <1>4, <2>1, <2>2, SameAreFewer
<1>7. ASSUME NEW x \in Slots, exchange[x].pc = "sent", NEW ok, Reply(x, ok, None) PROVE NoneSent
  <2>1. \A y \in Slots \ {x} : exchange'[y] = exchange[y]
    BY <1>5, <1>7 DEF Reply
  <2>2. /\ exchange'[x].cookie = exchange[x].cookie /\ exchange'[x].kind = exchange[x].kind
        /\ exchange'[x].pc = "answered"
    BY <1>5, <1>7 DEF Reply, Exchange
  <2>3. QED
    BY <1>7, <2>1, <2>2 DEF NoneSent
<1>8. ASSUME NEW x \in Slots, TurnDown(x) \/ Dismiss(x) PROVE LogoutInv'
  <2>1. /\ exchange[x].pc = "sent" /\ Reply(x, FALSE, None)
        /\ UNCHANGED <<issuedToken, ended, theft, unheard, met>>
    BY <1>8 DEF TurnDown, Dismiss, Arrived
  <2>2. QED
    BY <1>4, <1>7, <2>1, SameAreFewer
<1>9. ASSUME NEW x \in Slots, DetectReuse(x) PROVE LogoutInv'
  <2> DEFINE stolen == FamilyOf(exchange[x].cookie)
  <2>1. /\ exchange[x].pc = "sent" /\ Reply(x, FALSE, None)
        /\ RevokeIn(Members(stolen)) /\ theft' = theft \cup stolen
        /\ UNCHANGED <<ended, unheard, met>>
    BY <1>9 DEF DetectReuse, Arrived
  <2>2. \A f \in stolen : f \in Ids /\ Issued(f)
    BY CookieIssued, FamilyIssued
  <2>3. Fewer
    BY <2>1, RevokedAreFewer DEF BrowserInv
  <2>4. QED
    BY <1>4, <1>7, <2>1, <2>2, <2>3
<1>10. ASSUME NEW x \in Slots, NEW families \in SUBSET Ids, RevokeSessions(x, families)
       PROVE  LogoutInv'
  <2>1. /\ exchange[x].pc = "sent" /\ Reply(x, TRUE, None) /\ RevokeIn(Members(families))
        /\ UNCHANGED <<ended, theft, unheard, met>>
    BY <1>10 DEF RevokeSessions, Arrived
  <2>2. Fewer
    BY <2>1, RevokedAreFewer DEF BrowserInv
  <2>3. QED
    BY <1>4, <1>7, <2>1, <2>2
<1>11. ASSUME NEW x \in Slots, exchange' = [exchange EXCEPT ![x] = NoExchange] PROVE NoneSent
  BY <1>5, <1>11 DEF NoExchange, NoneSent
<1>12. ASSUME NEW x \in Slots, Receive(x) PROVE LogoutInv'
  <2>1. /\ exchange' = [exchange EXCEPT ![x] = NoExchange]
        /\ UNCHANGED <<issuedToken, ended, theft, unheard, met>>
    BY <1>12 DEF Receive
  <2>2. QED
    BY <1>4, <1>11, <2>1, SameAreFewer
<1>13. ASSUME NEW x \in Slots, Break(x) PROVE LogoutInv'
  <2>1. /\ exchange' = [exchange EXCEPT ![x] = NoExchange]
        /\ unheard' = unheard \/ unheard' = unheard \cup FamilyOf(exchange[x].cookie)
        /\ UNCHANGED <<issuedToken, ended, theft, met>>
    BY <1>13 DEF Break
  <2>2. \A f \in FamilyOf(exchange[x].cookie) : f \in Ids /\ Issued(f)
    BY CookieIssued, FamilyIssued
  <2>3. QED
    BY <1>4, <1>11, <2>1, <2>2, SameAreFewer
<1>14. ASSUME NEW n \in Ids, Lapse(n) PROVE LogoutInv'
  <2>1. RevokeIn({n}) /\ UNCHANGED <<exchange, ended, theft, unheard, met>>
    BY <1>14 DEF Lapse
  <2>2. Fewer /\ NoneSent
    BY <2>1, RevokedAreFewer DEF BrowserInv, NoneSent
  <2>3. QED
    BY <1>4, <2>1, <2>2
<1>15. CASE UNCHANGED browserVars
  <2>1. UNCHANGED <<issuedToken, exchange, ended, theft, unheard, met>>
    BY <1>15 DEF browserVars
  <2>2. NoneSent
    BY <2>1 DEF NoneSent
  <2>3. QED
    BY <1>4, <2>1, <2>2, SameAreFewer
<1>16. QED
  BY <1>1, <1>2, <1>3, <1>6, <1>8, <1>9, <1>10, <1>12, <1>13, <1>14, <1>15 DEF BrowserNext

LEMMA LogoutInitially == BrowserInit => LogoutInv
<1> SUFFICES ASSUME BrowserInit PROVE LogoutInv
  OBVIOUS
<1>1. \A n \in Ids : issuedToken[n] = Unissued
  BY DEF BrowserInit
<1>2. \A n \in Ids : ~Issued(n) /\ ~Good(n) /\ Family(n) = None
  BY <1>1 DEF Issued, Good, Family, Unissued
<1>3. \A x \in Slots : exchange[x].pc = "idle"
  BY DEF BrowserInit, NoExchange
<1>4. Descended /\ Carried /\ LogoutEnds
  BY <1>2 DEF Descended, Carried, LogoutEnds
<1>5. Remembered
  BY DEF BrowserInit, Remembered
<1>6. Overlapping
  BY <1>3 DEF Overlapping, Under
<1>7. QED
  BY <1>4, <1>5, <1>6 DEF LogoutInv

THEOREM BrowserInvariant == BrowserSpec => [](BrowserInv /\ LogoutInv)
<1>1. BrowserInit => BrowserInv /\ LogoutInv
  BY InitInv, LogoutInitially
<1>2. BrowserInv /\ LogoutInv /\ [BrowserNext]_browserVars => BrowserInv' /\ LogoutInv'
  BY BrowserStep, LogoutStep
<1>3. QED
  BY <1>1, <1>2, PTL DEF BrowserSpec

(***************************************************************************)
(* The token table, the cookies and the pages: no two pages know the same  *)
(* CSRF value, and of a family at most one token is live                   *)
(* (auth_router.py:385-404).                                               *)
(***************************************************************************)
THEOREM BrowserTypes == BrowserSpec => []BrowserTypeOK
<1>1. BrowserInv /\ LogoutInv => BrowserTypeOK
  <2> SUFFICES ASSUME BrowserInv, LogoutInv PROVE BrowserTypeOK
    OBVIOUS
  <2>1. \A m, n \in Ids : Good(m) /\ Good(n) /\ issuedToken[m].family = issuedToken[n].family
                           => m = n
    BY DEF LogoutInv, Descended, Good, Family
  <2>2. \A t, u \in Tabs : csrfToken[t] = csrfToken[u] => t = u \/ csrfToken[t] = None
    BY DEF BrowserInv, OnePage
  <2>3. ended \cup theft \cup unheard \cup met \subseteq Ids
    BY DEF LogoutInv, Remembered
  <2>4. QED
    BY <2>1, <2>2, <2>3 DEF BrowserInv, Types, BrowserTypeOK
<1>2. QED
  BY <1>1, BrowserInvariant, PTL

(***************************************************************************)
(* "Revoke this session's refresh token" (auth_router.py:470): a logout    *)
(* that was accepted leaves no live token in its session, unless an answer *)
(* to a refresh of it was lost or a refresh was under way together with    *)
(* the logout, with any number of tabs and requests.                       *)
(***************************************************************************)
THEOREM LogoutHolds == BrowserSpec => []LogoutEnds
<1>1. LogoutInv => LogoutEnds
  BY DEF LogoutInv
<1>2. QED
  BY <1>1, BrowserInvariant, PTL
=============================================================================
