------------------------ MODULE RefreshTokensProofs ------------------------
(* Proofs about RefreshTokens, for any Users, Requests and bounds.         *)
EXTENDS RefreshTokens, TLAPS

(***************************************************************************)
(* What a request in flight remembers refers to rows that exist, and, once *)
(* it has inserted a successor, to a child of the token it is to close.    *)
(***************************************************************************)
RequestOKFor(r) ==
    /\ req[r].tok \in 0..issued
    /\ req[r].succ \in 0..issued
    /\ req[r].condemned \subseteq 1..issued
    /\ req[r].pc \in {"revoke_family", "insert", "update"} => req[r].tok # 0
    /\ req[r].pc = "update" => /\ req[r].succ # 0
                               /\ token[req[r].succ].parent = req[r].tok
    /\ (req[r].pc = "respond" /\ req[r].outcome = "ok") => req[r].succ # 0
    /\ Rotating(r) => req[r].outcome = "ok" /\ req[r].condemned = {}
    /\ req[r].pc = "revoke_family" =>
          /\ \A i \in req[r].condemned : token[i].family = token[req[r].tok].family
          /\ req[r].outcome = "reuse_detected"

RequestOK == \A r \in Requests : RequestOKFor(r)

Shape == TypeOK /\ RequestOK /\ ChainIntegrity

LEMMA InitShape == Init => Shape
<1> SUFFICES ASSUME Init PROVE Shape
  OBVIOUS
<1>1. TypeOK
  BY DEF Init, TypeOK, Idle, Request, Outcomes, Row
<1>2. RequestOK
  BY DEF Init, RequestOK, RequestOKFor, Idle, Rotating
<1>3. ChainIntegrity
  BY DEF Init, ChainIntegrity
<1>4. QED
  BY <1>1, <1>2, <1>3 DEF Shape

(***************************************************************************)
(* The two kinds of write on the table.                                    *)
(***************************************************************************)
\* A row, once inserted, keeps its user, family, parent and expiry, and a
\* revoked row is never live again.
RowsPersist ==
    /\ issued' \in Nat /\ issued <= issued'
    /\ \A i \in 1..issued :
          /\ token'[i].user = token[i].user
          /\ token'[i].family = token[i].family
          /\ token'[i].parent = token[i].parent
          /\ token'[i].expires_at = token[i].expires_at
          /\ token'[i].reason = "live" => token[i].reason = "live"

LEMMA InsertEffect ==
    ASSUME TypeOK, NEW u \in Users, NEW f \in Nat, NEW p \in Nat, Insert(u, f, p)
    PROVE  /\ issued' = issued + 1
           /\ token' \in [1..issued' -> Row]
           /\ \A i \in 1..issued : token'[i] = token[i]
           /\ token'[issued'] = [user |-> u, family |-> f, parent |-> p, replaced_by |-> 0,
                                 reason |-> "live", expires_at |-> now + Lifetime]
           /\ RowsPersist
<1> DEFINE new == [user |-> u, family |-> f, parent |-> p, replaced_by |-> 0,
                   reason |-> "live", expires_at |-> now + Lifetime]
<1>1. new \in Row
  BY Lifetime_Assumption DEF TypeOK, Row, Reasons
<1>2. /\ issued \in Nat
      /\ issued' = issued + 1
      /\ token' = [i \in 1..issued + 1 |-> IF i <= issued THEN token[i] ELSE new]
  BY DEF Insert, TypeOK
<1> HIDE DEF new
<1>3. token' \in [1..issued' -> Row]
  BY <1>1, <1>2 DEF TypeOK
<1>4. \A i \in 1..issued : token'[i] = token[i]
  BY <1>2
<1>5. token'[issued'] = new
  BY <1>2
<1>6. QED
  BY <1>2, <1>3, <1>4, <1>5 DEF new, RowsPersist

LEMMA RevokeEffect ==
    ASSUME TypeOK, NEW S, NEW why \in Reasons \ {"live", "rotated"}, Revoke(S, why),
           UNCHANGED issued
    PROVE  /\ token' \in [1..issued' -> Row]
           /\ \A i \in 1..issued :
                 /\ token'[i].replaced_by = token[i].replaced_by
                 /\ token'[i].reason = "rotated" <=> token[i].reason = "rotated"
                 /\ i \in S => token'[i].reason # "live"
           /\ RowsPersist
<1>1. issued \in Nat /\ issued' = issued /\ token \in [1..issued -> Row]
  BY DEF TypeOK
<1>2. token' = [i \in 1..issued |->
                   IF i \in S /\ Live(i) THEN [token[i] EXCEPT !.reason = why] ELSE token[i]]
  BY DEF Revoke
<1>3. \A i \in 1..issued : [token[i] EXCEPT !.reason = why] \in Row
  BY <1>1 DEF Row
<1>4. token' \in [1..issued' -> Row]
  BY <1>1, <1>2, <1>3
<1>5. ASSUME NEW i \in 1..issued
      PROVE  /\ token'[i].replaced_by = token[i].replaced_by
             /\ token'[i].reason = "rotated" <=> token[i].reason = "rotated"
             /\ i \in S => token'[i].reason # "live"
             /\ token'[i].user = token[i].user
             /\ token'[i].family = token[i].family
             /\ token'[i].parent = token[i].parent
             /\ token'[i].expires_at = token[i].expires_at
             /\ token'[i].reason = "live" => token[i].reason = "live"
  <2>1. CASE i \in S /\ Live(i)
    <3>1. token'[i] = [token[i] EXCEPT !.reason = why]
      BY <1>2, <2>1
    <3>2. token[i] \in Row
      BY <1>1
    <3>3. QED
      BY <3>1, <3>2, <2>1 DEF Row, Live
  <2>2. CASE ~(i \in S /\ Live(i))
    <3>1. token'[i] = token[i]
      BY <1>2, <2>2
    <3>2. QED
      BY <3>1, <2>2 DEF Live
  <2>3. QED
    BY <2>1, <2>2
<1>6. QED
  BY <1>1, <1>4, <1>5 DEF RowsPersist

LEMMA CloseOldEffect ==
    ASSUME Shape, NEW r \in Requests, CloseOld(r)
    PROVE  /\ token' \in [1..issued' -> Row]
           /\ issued' = issued
           /\ req[r].tok \in 1..issued
           /\ req[r].succ \in 1..issued
           /\ \A i \in 1..issued : i # req[r].tok => token'[i] = token[i]
           /\ token'[req[r].tok].replaced_by = req[r].succ
           /\ token'[req[r].tok].reason = "rotated"
           /\ RowsPersist
<1>1. /\ issued \in Nat /\ issued' = issued /\ token \in [1..issued -> Row]
      /\ req[r].tok \in 1..issued /\ req[r].succ \in 1..issued
  BY DEF Shape, TypeOK, RequestOK, RequestOKFor, CloseOld
<1>2. token' = [token EXCEPT ![req[r].tok].replaced_by = req[r].succ,
                              ![req[r].tok].reason = "rotated"]
  BY DEF CloseOld
<1>3. token' = [token EXCEPT ![req[r].tok] =
                   [token[req[r].tok] EXCEPT !.replaced_by = req[r].succ, !.reason = "rotated"]]
  BY <1>1, <1>2
<1>4. token[req[r].tok] \in Row /\ req[r].succ \in Nat
  BY <1>1
<1> DEFINE closed == [token[req[r].tok] EXCEPT !.replaced_by = req[r].succ,
                                              !.reason = "rotated"]
<1>5. /\ closed \in Row
      /\ closed.replaced_by = req[r].succ /\ closed.reason = "rotated"
      /\ closed.user = token[req[r].tok].user
      /\ closed.family = token[req[r].tok].family
      /\ closed.parent = token[req[r].tok].parent
      /\ closed.expires_at = token[req[r].tok].expires_at
  BY <1>4 DEF Row, Reasons
<1>6. token' = [token EXCEPT ![req[r].tok] = closed]
  BY <1>3
<1> HIDE DEF closed
<1>7. token' \in [1..issued' -> Row]
  BY <1>1, <1>5, <1>6
<1>8. \A i \in 1..issued : i # req[r].tok => token'[i] = token[i]
  BY <1>1, <1>6
<1>9. token'[req[r].tok] = closed
  BY <1>1, <1>6
<1>10. RowsPersist
  <2>1. ASSUME NEW i \in 1..issued
        PROVE  /\ token'[i].user = token[i].user
               /\ token'[i].family = token[i].family
               /\ token'[i].parent = token[i].parent
               /\ token'[i].expires_at = token[i].expires_at
               /\ token'[i].reason = "live" => token[i].reason = "live"
    <3>1. CASE i = req[r].tok
      BY <1>5, <1>9, <3>1
    <3>2. CASE i # req[r].tok
      BY <1>8, <3>2
    <3>3. QED
      BY <3>1, <3>2
  <2>2. QED
    BY <1>1, <2>1 DEF RowsPersist
<1>11. QED
  BY <1>1, <1>5, <1>7, <1>8, <1>9, <1>10
(***************************************************************************)
(* Every step keeps types, requests and the chain, and rows persist.       *)
(***************************************************************************)
LEMMA RefreshTypes ==
    ASSUME Shape, NEW t \in delivered \cup {0}
    PROVE  /\ t \in 0..issued
           /\ Verdict(t) \in Outcomes \ {"none"}
           /\ NextStatement(Verdict(t)) \in {"revoke_family", "insert", "respond"}
           /\ Verdict(t) = "ok" <=> NextStatement(Verdict(t)) = "insert"
           /\ Verdict(t) = "ok" => t # 0 /\ Usable(t) /\ token[t].replaced_by = 0
           /\ Verdict(t) = "reuse_detected" <=> NextStatement(Verdict(t)) = "revoke_family"
           /\ Verdict(t) = "reuse_detected" <=> t # 0 /\ token[t].replaced_by # 0
           /\ Condemned(t) \subseteq 1..issued
           /\ Condemned(t) # {} => /\ Verdict(t) = "reuse_detected"
                                   /\ Condemned(t) \subseteq Family(token[t].family)
<1>1. issued \in Nat /\ now \in Nat /\ t \in 0..issued /\ token \in [1..issued -> Row]
  BY DEF Shape, TypeOK
<1>2. t # 0 => token[t].expires_at \in Nat
  BY <1>1 DEF Row
<1>3. QED
  BY <1>1, <1>2 DEF Verdict, NextStatement, Condemned, Family, Outcomes, Usable, Live

LEMMA StepType == Shape /\ [Next]_vars => TypeOK' /\ RowsPersist
<1> SUFFICES ASSUME Shape, [Next]_vars PROVE TypeOK' /\ RowsPersist
  OBVIOUS
<1>0. TypeOK /\ RequestOK /\ ChainIntegrity
  BY DEF Shape
<1>1. ASSUME NEW r \in Requests, NEW u \in Users, Login(r, u)
      PROVE TypeOK' /\ RowsPersist
  <2>1. Insert(u, issued + 1, 0) /\ issued + 1 \in Nat
    BY <1>0, <1>1 DEF Login, TypeOK
  <2>2. issued' = issued + 1 /\ token' \in [1..issued' -> Row] /\ RowsPersist
    BY <1>0, <2>1, InsertEffect
  <2>3. req' \in [Requests -> Request]
    BY <1>0, <1>1, <2>1 DEF Login, TypeOK, Request, Idle, Outcomes
  <2>4. QED
    BY <1>0, <1>1, <2>2, <2>3 DEF Login, TypeOK
<1>2. ASSUME NEW r \in Requests, NEW t \in delivered \cup {0}, Refresh(r, t)
      PROVE TypeOK' /\ RowsPersist
  <2>1. UNCHANGED <<issued, token, delivered, now, aborts>>
    BY <1>2 DEF Refresh
  <2>2. req' \in [Requests -> Request]
    <3>1. [pc |-> NextStatement(Verdict(t)), tok |-> t, succ |-> 0, outcome |-> Verdict(t),
           condemned |-> Condemned(t)] \in Request
      BY <1>0, RefreshTypes DEF Request, TypeOK
    <3>2. QED
      BY <1>0, <1>2, <3>1 DEF Refresh, TypeOK
  <2>3. raced' \subseteq 1..issued
    <3>1. CASE Verdict(t) = "ok" /\ \E q \in Requests : RotatingIn(q, token[t].family)
      <4>1. t \in 1..issued
        BY <1>0, <3>1, RefreshTypes DEF TypeOK
      <4>2. token[t].family \in 1..issued
        BY <1>0, <4>1 DEF ChainIntegrity, Rooted, TypeOK
      <4>3. QED
        BY <1>0, <1>2, <3>1, <4>2 DEF Refresh, TypeOK
    <3>2. CASE ~(Verdict(t) = "ok" /\ \E q \in Requests : RotatingIn(q, token[t].family))
      BY <1>0, <1>2, <3>2 DEF Refresh, TypeOK
    <3>3. QED
      BY <3>1, <3>2
  <2>4. QED
    BY <1>0, <2>1, <2>2, <2>3 DEF TypeOK, RowsPersist
<1>3. ASSUME NEW r \in Requests, RevokeFamily(r) PROVE TypeOK' /\ RowsPersist
  <2>1. "reuse_detected" \in Reasons \ {"live", "rotated"}
    BY DEF Reasons
  <2>2. token' \in [1..issued' -> Row] /\ RowsPersist
    BY <1>0, <1>3, <2>1, RevokeEffect DEF RevokeFamily
  <2>3. req' \in [Requests -> Request]
    BY <1>0, <1>3 DEF RevokeFamily, TypeOK, Request
  <2>4. QED
    BY <1>0, <1>3, <2>2, <2>3 DEF RevokeFamily, TypeOK
<1>4. ASSUME NEW r \in Requests, InsertSuccessor(r) PROVE TypeOK' /\ RowsPersist
  <2> DEFINE old == token[req[r].tok]
  <2>1. req[r].tok \in 1..issued /\ issued \in Nat
    BY <1>0, <1>4 DEF InsertSuccessor, RequestOK, RequestOKFor, TypeOK
  <2>2. old.user \in Users /\ old.family \in Nat /\ req[r].tok \in Nat
    BY <1>0, <2>1 DEF TypeOK, Row
  <2>3. Insert(old.user, old.family, req[r].tok)
    BY <1>4 DEF InsertSuccessor
  <2>4. issued' = issued + 1 /\ token' \in [1..issued' -> Row] /\ RowsPersist
    BY <1>0, <2>2, <2>3, InsertEffect
  <2>5. req' \in [Requests -> Request]
    <3>1. req[r] \in Request /\ issued + 1 \in Nat
      BY <1>0, <2>1 DEF TypeOK
    <3>2. [req[r] EXCEPT !.pc = "update", !.succ = issued + 1] \in Request
      BY <3>1 DEF Request
    <3>3. req' = [req EXCEPT ![r] = [req[r] EXCEPT !.pc = "update", !.succ = issued + 1]]
      BY <1>0, <1>4 DEF InsertSuccessor, TypeOK
    <3>4. QED
      BY <1>0, <3>2, <3>3 DEF TypeOK
  <2>6. QED
    BY <1>0, <1>4, <2>4, <2>5 DEF InsertSuccessor, TypeOK
<1>5. ASSUME NEW r \in Requests, CloseOld(r) PROVE TypeOK' /\ RowsPersist
  <2>1. token' \in [1..issued' -> Row] /\ RowsPersist
    BY <1>5, CloseOldEffect
  <2>2. req' \in [Requests -> Request]
    BY <1>0, <1>5 DEF CloseOld, TypeOK, Request
  <2>3. QED
    BY <1>0, <1>5, <2>1, <2>2 DEF CloseOld, TypeOK
<1>6. ASSUME NEW r \in Requests, Respond(r) PROVE TypeOK' /\ RowsPersist
  <2>1. req' \in [Requests -> Request]
    BY <1>0, <1>6 DEF Respond, TypeOK, Request, Idle, Outcomes
  <2>2. req[r].outcome = "ok" => req[r].succ \in 1..issued
    BY <1>0, <1>6 DEF Respond, RequestOK, RequestOKFor, TypeOK
  <2>3. QED
    <3>1. delivered' \subseteq 1..issued
      BY <1>0, <1>6, <2>2 DEF Respond, TypeOK
    <3>2. UNCHANGED <<issued, token, now, aborts, raced>>
      BY <1>6 DEF Respond
    <3>3. QED
      BY <1>0, <2>1, <3>1, <3>2 DEF TypeOK, RowsPersist
<1>7. ASSUME NEW r \in Requests, Abort(r) PROVE TypeOK' /\ RowsPersist
  <2>1. req' \in [Requests -> Request]
    BY <1>0, <1>7 DEF Abort, TypeOK, Request, Idle, Outcomes
  <2>2. req[r].pc = "update" => token[req[r].tok].family \in 1..issued
    BY <1>0 DEF RequestOK, RequestOKFor, ChainIntegrity, Rooted, TypeOK
  <2>3. QED
    <3>1. raced' \subseteq 1..issued
      BY <1>0, <1>7, <2>2 DEF Abort, TypeOK
    <3>2. UNCHANGED <<issued, token, delivered, now>> /\ aborts' \in Nat
      BY <1>0, <1>7 DEF Abort, TypeOK
    <3>3. QED
      BY <1>0, <2>1, <3>1, <3>2 DEF TypeOK, RowsPersist
<1>8. ASSUME NEW t \in delivered, Logout(t) PROVE TypeOK' /\ RowsPersist
  <2>1. "logout" \in Reasons \ {"live", "rotated"}
    BY DEF Reasons
  <2>2. token' \in [1..issued' -> Row] /\ RowsPersist
    BY <1>0, <1>8, <2>1, RevokeEffect DEF Logout
  <2>3. QED
    BY <1>0, <1>8, <2>2 DEF Logout, TypeOK
<1>9. ASSUME NEW u \in Users, RevokeAll(u) PROVE TypeOK' /\ RowsPersist
  <2>1. "revoke_all" \in Reasons \ {"live", "rotated"}
    BY DEF Reasons
  <2>2. token' \in [1..issued' -> Row] /\ RowsPersist
    BY <1>0, <1>9, <2>1, RevokeEffect DEF RevokeAll
  <2>3. QED
    BY <1>0, <1>9, <2>2 DEF RevokeAll, TypeOK
<1>10. CASE Tick
  BY <1>0, <1>10 DEF Tick, TypeOK, RowsPersist
<1>11. CASE UNCHANGED vars
  BY <1>0, <1>11 DEF vars, TypeOK, RowsPersist
<1>12. QED
  BY <1>1, <1>2, <1>3, <1>4, <1>5, <1>6, <1>7, <1>8, <1>9, <1>10, <1>11 DEF Next

LEMMA OtherRequests ==
    ASSUME Shape, RowsPersist, NEW q \in Requests, req'[q] = req[q]
    PROVE  RequestOKFor(q)'
<1>1. issued \in Nat /\ issued' \in Nat /\ issued <= issued' /\ RequestOKFor(q)
  BY DEF Shape, TypeOK, RowsPersist, RequestOK
<1>2. ASSUME req[q].pc = "revoke_family"
      PROVE  /\ \A i \in req[q].condemned : token'[i].family = token'[req[q].tok].family
             /\ req[q].outcome = "reuse_detected"
  <2>1. req[q].tok \in 1..issued
    BY <1>1, <1>2 DEF RequestOKFor
  <2>2. QED
    BY <1>1, <1>2, <2>1 DEF RequestOKFor, RowsPersist
<1>3. ASSUME req[q].pc = "update"
      PROVE  req[q].succ # 0 /\ token'[req[q].succ].parent = req[q].tok
  BY <1>1, <1>3 DEF RequestOKFor, RowsPersist
<1>4. req[q].tok \in 0..issued' /\ req[q].succ \in 0..issued' /\ req[q].condemned \subseteq 1..issued'
  BY <1>1 DEF RequestOKFor
<1>5. QED
  BY <1>1, <1>2, <1>3, <1>4 DEF RequestOKFor, Rotating

LEMMA StepRequests == Shape /\ [Next]_vars => RequestOK'
<1> SUFFICES ASSUME Shape, [Next]_vars PROVE RequestOK'
  OBVIOUS
<1>0. /\ TypeOK /\ RequestOK /\ ChainIntegrity /\ TypeOK' /\ RowsPersist
      /\ issued \in Nat /\ issued' \in Nat /\ issued <= issued'
  BY StepType DEF Shape, RowsPersist, TypeOK
<1> SUFFICES ASSUME NEW q \in Requests, req'[q] # req[q] PROVE RequestOKFor(q)'
  BY <1>0, OtherRequests DEF RequestOK
<1>a. RequestOKFor(q) /\ req \in [Requests -> Request] /\ req[q] \in Request
  BY <1>0 DEF RequestOK, TypeOK
<1>1. ASSUME NEW r \in Requests, NEW u \in Users, Login(r, u) PROVE RequestOKFor(q)'
  <2>1. q = r /\ req'[q] = [Idle EXCEPT !.pc = "respond", !.succ = issued + 1, !.outcome = "ok"]
        /\ issued' = issued + 1
    BY <1>0, <1>1, <1>a DEF Login, Insert
  <2>2. QED
    BY <1>0, <2>1 DEF RequestOKFor, Idle, Rotating
<1>2. ASSUME NEW r \in Requests, NEW t \in delivered \cup {0}, Refresh(r, t)
      PROVE RequestOKFor(q)'
  <2>1. /\ q = r
        /\ req'[q] = [pc |-> NextStatement(Verdict(t)), tok |-> t, succ |-> 0,
                      outcome |-> Verdict(t), condemned |-> Condemned(t)]
        /\ issued' = issued /\ token' = token
    BY <1>0, <1>2, <1>a DEF Refresh
  <2>2. \A i \in Condemned(t) : token[i].family = token[t].family
    BY RefreshTypes DEF Family
  <2>3. /\ Verdict(t) = "ok" <=> NextStatement(Verdict(t)) = "insert"
        /\ Verdict(t) = "reuse_detected" <=> NextStatement(Verdict(t)) = "revoke_family"
        /\ Verdict(t) = "ok" \/ Verdict(t) = "reuse_detected" => t # 0
        /\ Verdict(t) = "ok" => Condemned(t) = {}
        /\ NextStatement(Verdict(t)) # "update"
        /\ t \in 0..issued /\ Condemned(t) \subseteq 1..issued
    BY RefreshTypes
  <2>4. QED
    BY <1>0, <2>1, <2>2, <2>3 DEF RequestOKFor, Rotating
<1>3. ASSUME NEW r \in Requests, RevokeFamily(r) PROVE RequestOKFor(q)'
  <2>1. /\ q = r /\ issued' = issued /\ req[q].pc = "revoke_family"
        /\ req'[q] = [req[q] EXCEPT !.pc = "respond"]
    BY <1>0, <1>3, <1>a DEF RevokeFamily
  <2>2. QED
    BY <1>a, <2>1 DEF RequestOKFor, Rotating, Request
<1>4. ASSUME NEW r \in Requests, InsertSuccessor(r) PROVE RequestOKFor(q)'
  <2>1. /\ q = r /\ issued' = issued + 1 /\ req[q].pc = "insert"
        /\ req'[q] = [req[q] EXCEPT !.pc = "update", !.succ = issued + 1]
        /\ req[q].tok \in 1..issued
    <3>1. q = r
      BY <1>4, <1>a DEF InsertSuccessor
    <3>2. req[q].pc = "insert" /\ issued' = issued + 1
      BY <1>4, <3>1 DEF InsertSuccessor, Insert
    <3>3. req'[q] = [req[q] EXCEPT !.pc = "update", !.succ = issued + 1]
      BY <1>4, <1>a, <3>1 DEF InsertSuccessor
    <3>4. QED
      BY <1>0, <1>a, <3>1, <3>2, <3>3 DEF RequestOKFor
  <2>2. token'[issued + 1].parent = req[q].tok
    <3>1. token[req[q].tok] \in Row
      BY <1>0, <2>1 DEF TypeOK
    <3>2. Insert(token[req[r].tok].user, token[req[r].tok].family, req[r].tok)
      BY <1>4 DEF InsertSuccessor
    <3>3. /\ token[req[r].tok].user \in Users /\ token[req[r].tok].family \in Nat
          /\ req[r].tok \in Nat
      BY <1>0, <2>1, <3>1 DEF Row
    <3>4. token'[issued'].parent = req[r].tok
      <4>1. token'[issued'] = [user |-> token[req[r].tok].user,
                               family |-> token[req[r].tok].family, parent |-> req[r].tok,
                               replaced_by |-> 0, reason |-> "live",
                               expires_at |-> now + Lifetime]
        BY <1>0, <3>2, <3>3, InsertEffect
      <4>2. QED
        BY <4>1
    <3>5. QED
      BY <2>1, <3>4
  <2>3. QED
    BY <1>0, <1>a, <2>1, <2>2 DEF RequestOKFor, Rotating, Request
<1>5. ASSUME NEW r \in Requests, CloseOld(r) PROVE RequestOKFor(q)'
  <2>1. /\ q = r /\ issued' = issued /\ req[q].pc = "update"
        /\ req'[q] = [req[q] EXCEPT !.pc = "respond"]
    BY <1>0, <1>5, <1>a DEF CloseOld
  <2>2. QED
    BY <1>a, <2>1 DEF RequestOKFor, Rotating, Request
<1>6. ASSUME NEW r \in Requests, Respond(r) PROVE RequestOKFor(q)'
  <2>1. req'[q] = Idle
    BY <1>0, <1>6, <1>a DEF Respond
  <2>2. QED
    BY <1>0, <2>1 DEF RequestOKFor, Rotating, Idle
<1>7. ASSUME NEW r \in Requests, Abort(r) PROVE RequestOKFor(q)'
  <2>1. req'[q] = Idle
    BY <1>0, <1>7, <1>a DEF Abort
  <2>2. QED
    BY <1>0, <2>1 DEF RequestOKFor, Rotating, Idle
<1>8. ASSUME \/ \E t \in delivered : Logout(t)
             \/ \E u \in Users : RevokeAll(u)
             \/ Tick
             \/ UNCHANGED vars
      PROVE RequestOKFor(q)'
  BY <1>8 DEF Logout, RevokeAll, Tick, vars
<1>9. QED
  BY <1>1, <1>2, <1>3, <1>4, <1>5, <1>6, <1>7, <1>8 DEF Next

LEMMA OldRowsRooted ==
    ASSUME Shape, RowsPersist, NEW t \in 1..issued
    PROVE  Rooted(t)'
<1>1. issued \in Nat /\ token \in [1..issued -> Row] /\ Rooted(t)
  BY DEF Shape, TypeOK, ChainIntegrity
<1>2. token[t] \in Row /\ token[t].parent \in Nat
  BY <1>1 DEF Row
<1>3. token[t].family \in 1..issued
  BY <1>1 DEF Rooted
<1>4. token[t].parent # 0 => token[t].parent \in 1..issued
  BY <1>1, <1>2 DEF Rooted
<1>5. QED
  BY <1>1, <1>2, <1>3, <1>4 DEF Rooted, RowsPersist

\* A step that adds no row and sets no replaced_by keeps the links.
LEMMA UnlinkedStep ==
    ASSUME Shape, RowsPersist, issued' = issued,
           \A i \in 1..issued :
              /\ token'[i].replaced_by = token[i].replaced_by
              /\ token'[i].reason = "rotated" <=> token[i].reason = "rotated"
    PROVE  ChainIntegrity'
<1>1. \A t \in 1..issued : Rooted(t)'
  BY OldRowsRooted
<1>2. ASSUME NEW t \in 1..issued PROVE Linked(t)'
  <2>1. Linked(t)
    BY DEF Shape, ChainIntegrity
  <2>2. QED
    BY <2>1 DEF Linked, RowsPersist
<1>3. QED
  BY <1>1, <1>2 DEF ChainIntegrity

\* Adding a live, unlinked row that is itself rooted keeps the chain.
LEMMA InsertStep ==
    ASSUME Shape, NEW u \in Users, NEW f \in 1..issued + 1, NEW p \in 0..issued,
           Insert(u, f, p),
           p = 0 => f = issued + 1,
           p # 0 => token[p].family = f /\ token[p].user = u
    PROVE  ChainIntegrity'
<1>0. TypeOK /\ issued \in Nat /\ token \in [1..issued -> Row] /\ f \in Nat /\ p \in Nat
  BY DEF Shape, TypeOK
<1>1. /\ issued' = issued + 1 /\ RowsPersist
      /\ \A i \in 1..issued : token'[i] = token[i]
      /\ token'[issued'] = [user |-> u, family |-> f, parent |-> p, replaced_by |-> 0,
                            reason |-> "live", expires_at |-> now + Lifetime]
  BY <1>0, InsertEffect
<1>n. PICK new \in Nat : new = issued + 1
  BY <1>0
<1>2. /\ token'[new].user = u /\ token'[new].family = f /\ token'[new].parent = p
      /\ token'[new].replaced_by = 0 /\ token'[new].reason = "live"
  BY <1>1, <1>n
<1>3. Rooted(new)'
  <2>1. CASE p = 0
    BY <1>0, <1>1, <1>2, <1>n, <2>1 DEF Rooted
  <2>2. CASE p # 0
    <3>1. p \in 1..issued /\ Rooted(p)
      BY <1>0, <2>2 DEF Shape, ChainIntegrity
    <3>2. /\ f \in 1..p /\ f \in 1..issued
          /\ token[f].parent = 0 /\ token[f].user = u
      BY <1>0, <2>2, <3>1 DEF Rooted
    <3>3. QED
      BY <1>0, <1>1, <1>2, <1>n, <2>2, <3>1, <3>2 DEF Rooted
  <2>3. QED
    BY <2>1, <2>2
<1>4. Linked(new)'
  BY <1>2 DEF Linked
<1>5. ASSUME NEW t \in 1..issued PROVE Rooted(t)' /\ Linked(t)'
  <2>1. Linked(t)
    BY DEF Shape, ChainIntegrity
  <2>2. Linked(t)'
    BY <1>0, <1>1, <2>1 DEF Linked
  <2>3. QED
    BY <1>1, <2>2, OldRowsRooted
<1>6. QED
  BY <1>0, <1>1, <1>3, <1>4, <1>5, <1>n DEF ChainIntegrity

LEMMA StepChain == Shape /\ [Next]_vars => ChainIntegrity'
<1> SUFFICES ASSUME Shape, [Next]_vars PROVE ChainIntegrity'
  OBVIOUS
<1>0. TypeOK /\ RequestOK /\ ChainIntegrity /\ RowsPersist /\ issued \in Nat
  BY StepType DEF Shape, TypeOK
<1>1. ASSUME NEW r \in Requests, NEW u \in Users, Login(r, u) PROVE ChainIntegrity'
  BY <1>0, <1>1, InsertStep DEF Login
<1>2. ASSUME NEW r \in Requests, RevokeFamily(r) PROVE ChainIntegrity'
  <2>1. "reuse_detected" \in Reasons \ {"live", "rotated"} /\ UNCHANGED issued
    BY <1>2 DEF Reasons, RevokeFamily
  <2>2. QED
    BY <1>0, <1>2, <2>1, RevokeEffect, UnlinkedStep DEF RevokeFamily
<1>3. ASSUME NEW r \in Requests, InsertSuccessor(r) PROVE ChainIntegrity'
  <2>1. req[r].tok \in 1..issued
    BY <1>0, <1>3 DEF InsertSuccessor, RequestOK, RequestOKFor
  <2>2. token[req[r].tok].user \in Users /\ token[req[r].tok].family \in 1..issued
    BY <1>0, <2>1 DEF TypeOK, Row, ChainIntegrity, Rooted
  <2>3. Insert(token[req[r].tok].user, token[req[r].tok].family, req[r].tok)
    BY <1>3 DEF InsertSuccessor
  <2>4. token[req[r].tok].family \in 1..issued + 1 /\ req[r].tok \in 0..issued /\ req[r].tok # 0
    BY <1>0, <2>1, <2>2
  <2>5. QED
    BY <2>2, <2>3, <2>4, InsertStep
<1>4. ASSUME NEW r \in Requests, CloseOld(r) PROVE ChainIntegrity'
  <2>1. /\ issued' = issued
        /\ req[r].tok \in 1..issued /\ req[r].succ \in 1..issued
        /\ \A i \in 1..issued : i # req[r].tok => token'[i] = token[i]
        /\ token'[req[r].tok].replaced_by = req[r].succ
        /\ token'[req[r].tok].reason = "rotated"
    BY <1>4, CloseOldEffect
  <2>2. token'[req[r].succ].parent = req[r].tok
    <3>1. token[req[r].succ].parent = req[r].tok
      BY <1>0, <1>4 DEF CloseOld, RequestOK, RequestOKFor
    <3>2. \A i \in 1..issued : token'[i].parent = token[i].parent
      BY <1>0 DEF RowsPersist
    <3>3. QED
      BY <2>1, <3>1, <3>2
  <2>3. ASSUME NEW t \in 1..issued PROVE Linked(t)'
    <3>1. CASE t = req[r].tok
      <4>1. /\ token'[t].replaced_by = req[r].succ /\ token'[t].reason = "rotated"
            /\ token'[req[r].succ].parent = t
            /\ req[r].succ # 0 /\ req[r].succ \in 1..issued'
        BY <1>0, <2>1, <2>2, <3>1
      <4>2. QED
        BY <4>1 DEF Linked
    <3>2. CASE t # req[r].tok
      <4>1. Linked(t)
        BY <1>0 DEF ChainIntegrity
      <4>2. QED
        BY <1>0, <2>1, <3>2, <4>1 DEF Linked, RowsPersist
    <3>3. QED
      BY <3>1, <3>2
  <2>4. QED
    BY <1>0, <2>1, <2>3, OldRowsRooted DEF ChainIntegrity
<1>5. ASSUME NEW t \in delivered, Logout(t) PROVE ChainIntegrity'
  <2>1. "logout" \in Reasons \ {"live", "rotated"} /\ UNCHANGED issued
    BY <1>5 DEF Reasons, Logout
  <2>2. QED
    BY <1>0, <1>5, <2>1, RevokeEffect, UnlinkedStep DEF Logout
<1>6. ASSUME NEW u \in Users, RevokeAll(u) PROVE ChainIntegrity'
  <2>1. "revoke_all" \in Reasons \ {"live", "rotated"} /\ UNCHANGED issued
    BY <1>6 DEF Reasons, RevokeAll
  <2>2. QED
    BY <1>0, <1>6, <2>1, RevokeEffect, UnlinkedStep DEF RevokeAll
<1>7. ASSUME UNCHANGED <<issued, token>> PROVE ChainIntegrity'
  BY <1>0, <1>7 DEF ChainIntegrity, Rooted, Linked
<1>8. QED
  BY <1>1, <1>2, <1>3, <1>4, <1>5, <1>6, <1>7
     DEF Next, Refresh, Respond, Abort, Tick, vars

(***************************************************************************)
(* The inductive invariant, and the type invariant and the chain from it.  *)
(***************************************************************************)
LEMMA ShapeInvariant == Spec => []Shape
<1>1. Init => Shape
  BY InitShape
<1>2. Shape /\ [Next]_vars => Shape'
  BY StepType, StepRequests, StepChain DEF Shape
<1>3. QED
  BY <1>1, <1>2, PTL DEF Spec

\* In every reachable state the rows, the clock and the requests have their
\* types.
THEOREM TypeCorrect == Spec => []TypeOK
  BY ShapeInvariant, PTL DEF Shape

\* In every reachable state the rows of a family are a tree of tokens of one
\* user whose closed nodes name one of their own children.
THEOREM ChainCorrect == Spec => []ChainIntegrity
  BY ShapeInvariant, PTL DEF Shape

(***************************************************************************)
(* Over sessions stay over.                                                *)
(***************************************************************************)
\* The clock of a step, and where a rotation and a new row can come from.
LEMMA NewRotations ==
    ASSUME Shape, Next, NEW q \in Requests, Rotating(q)'
    PROVE  \/ Rotating(q) /\ req'[q].tok = req[q].tok
           \/ \E t \in 1..issued : Refresh(q, t) /\ Usable(t) /\ req'[q].tok = t
<1>1. req \in [Requests -> Request] /\ RequestOKFor(q)
  BY DEF Shape, TypeOK, RequestOK
<1>2. ASSUME NEW r \in Requests, NEW t \in delivered \cup {0}, Refresh(r, t), q = r
      PROVE  t \in 1..issued /\ Usable(t) /\ req'[q].tok = t
  <2>1. req'[q].pc = NextStatement(Verdict(t)) /\ req'[q].tok = t
    BY <1>1, <1>2 DEF Refresh
  <2>2. Verdict(t) = "ok"
    BY <2>1, <1>2, RefreshTypes DEF Rotating
  <2>3. QED
    BY <2>1, <2>2, <1>2, RefreshTypes
<1>3. ASSUME NEW r \in Requests, NEW t \in delivered \cup {0}, Refresh(r, t), q # r
      PROVE  Rotating(q) /\ req'[q].tok = req[q].tok
  BY <1>1, <1>3 DEF Refresh, Rotating
<1>4. ASSUME NEW r \in Requests, NEW u \in Users, Login(r, u)
      PROVE  Rotating(q) /\ req'[q].tok = req[q].tok
  BY <1>1, <1>4 DEF Login, Rotating, Idle
<1>5. ASSUME NEW r \in Requests,
             RevokeFamily(r) \/ InsertSuccessor(r) \/ CloseOld(r) \/ Respond(r) \/ Abort(r)
      PROVE  Rotating(q) /\ req'[q].tok = req[q].tok
  <2>1. CASE q # r
    BY <1>1, <1>5, <2>1
       DEF RevokeFamily, InsertSuccessor, CloseOld, Respond, Abort, Rotating
  <2>2. CASE q = r
    <3>1. CASE InsertSuccessor(r)
      <4>1. req[r] \in Request
        BY <1>1
      <4>2. req'[r] = [req[r] EXCEPT !.pc = "update", !.succ = issued + 1]
        BY <1>1, <3>1 DEF InsertSuccessor
      <4>3. req[r].pc = "insert"
        BY <3>1 DEF InsertSuccessor
      <4>4. QED
        BY <2>2, <4>1, <4>2, <4>3 DEF Rotating, Request
    <3>2. CASE RevokeFamily(r) \/ CloseOld(r)
      <4>1. req' = [req EXCEPT ![r].pc = "respond"]
        BY <3>2 DEF RevokeFamily, CloseOld
      <4>2. req'[q].pc = "respond"
        BY <1>1, <2>2, <4>1
      <4>3. QED
        BY <4>2 DEF Rotating
    <3>3. CASE Respond(r) \/ Abort(r)
      BY <1>1, <2>2, <3>3 DEF Respond, Abort, Idle, Rotating
    <3>4. QED
      BY <1>5, <3>1, <3>2, <3>3
  <2>3. QED
    BY <2>1, <2>2
<1>6. ASSUME UNCHANGED req PROVE Rotating(q) /\ req'[q].tok = req[q].tok
  BY <1>6 DEF Rotating
<1>7. QED
  BY <1>2, <1>3, <1>4, <1>5, <1>6 DEF Next, Logout, RevokeAll, Tick

LEMMA NewRows ==
    ASSUME Shape, Next, NEW i \in 1..issued', i \notin 1..issued
    PROVE  /\ i = issued + 1
           /\ \/ token'[i].family = i
              \/ \E r \in Requests : InsertSuccessor(r) /\ RotatingIn(r, token'[i].family)
<1>0. TypeOK /\ RequestOK /\ issued \in Nat
  BY DEF Shape, TypeOK
<1>1. ASSUME NEW r \in Requests, NEW u \in Users, Login(r, u)
      PROVE  i = issued + 1 /\ token'[i].family = i
  <2>1. Insert(u, issued + 1, 0) /\ issued + 1 \in Nat
    BY <1>0, <1>1 DEF Login
  <2>2. issued' = issued + 1
        /\ token'[issued'] = [user |-> u, family |-> issued + 1, parent |-> 0,
                              replaced_by |-> 0, reason |-> "live",
                              expires_at |-> now + Lifetime]
    BY <1>0, <2>1, InsertEffect
  <2>3. QED
    BY <1>0, <2>2
<1>2. ASSUME NEW r \in Requests, InsertSuccessor(r)
      PROVE  i = issued + 1 /\ InsertSuccessor(r) /\ RotatingIn(r, token'[i].family)
  <2>1. req[r].tok \in 1..issued /\ Rotating(r)
    BY <1>0, <1>2 DEF InsertSuccessor, RequestOK, RequestOKFor, Rotating
  <2>2. Insert(token[req[r].tok].user, token[req[r].tok].family, req[r].tok)
    BY <1>2 DEF InsertSuccessor
  <2>3. /\ token[req[r].tok].user \in Users /\ token[req[r].tok].family \in Nat
        /\ req[r].tok \in Nat
    <3>1. token[req[r].tok] \in Row
      BY <1>0, <2>1 DEF TypeOK
    <3>2. QED
      BY <1>0, <2>1, <3>1 DEF Row
  <2>4. issued' = issued + 1
        /\ token'[issued'] = [user |-> token[req[r].tok].user,
                              family |-> token[req[r].tok].family, parent |-> req[r].tok,
                              replaced_by |-> 0, reason |-> "live",
                              expires_at |-> now + Lifetime]
    BY <1>0, <2>2, <2>3, InsertEffect
  <2>5. i = issued + 1
    BY <1>0, <2>4
  <2>6. token'[i].family = token[req[r].tok].family
    BY <2>4, <2>5
  <2>7. QED
    BY <1>2, <2>1, <2>5, <2>6 DEF RotatingIn
<1>3. QED
  <2>1. issued' # issued
    OBVIOUS
  <2>2. \/ \E r \in Requests, u \in Users : Login(r, u)
        \/ \E r \in Requests : InsertSuccessor(r)
    BY <2>1 DEF Next, Refresh, RevokeFamily, CloseOld, Respond, Abort, Logout, RevokeAll, Tick
  <2>3. QED
    BY <1>1, <1>2, <2>2

LEMMA StepOver ==
    ASSUME Shape, [Next]_vars, NEW f \in 1..issued, Over(f)
    PROVE  Over(f)'
<1>0. /\ TypeOK /\ TypeOK' /\ RequestOK /\ RowsPersist /\ issued \in Nat /\ now \in Nat
      /\ token \in [1..issued -> Row]
  BY StepType DEF Shape, TypeOK
<1>1. CASE UNCHANGED vars
  BY <1>1 DEF vars, Over, Usable, Live, RotatingIn, Rotating
<1>2. CASE Next
  <2>1. now' \in Nat /\ now <= now'
    <3>1. CASE Tick
      BY <1>0, <3>1 DEF Tick
    <3>2. CASE ~Tick
      <4>1. now' = now
        BY <1>2, <3>2 DEF Next, Login, Refresh, RevokeFamily, InsertSuccessor, CloseOld,
                          Respond, Abort, Logout, RevokeAll
      <4>2. QED
        BY <1>0, <4>1
    <3>3. QED
      BY <3>1, <3>2
  <2>2. ASSUME NEW t \in 1..issued', token'[t].family = f PROVE ~Usable(t)'
    <3>1. CASE t \in 1..issued
      <4>1. token[t].family = f /\ ~Usable(t) /\ token[t].expires_at \in Nat
        BY <1>0, <2>2, <3>1 DEF RowsPersist, Over, Row
      <4>2. QED
        BY <1>0, <2>1, <3>1, <4>1 DEF Usable, Live, RowsPersist
    <3>2. CASE t \notin 1..issued
      <4>1. ~\E r \in Requests : RotatingIn(r, f)
        BY DEF Over
      <4>2. t = issued + 1 /\ token'[t].family = t
        BY <1>2, <2>2, <3>2, <4>1, NewRows
      <4>3. QED
        BY <1>0, <2>2, <4>2
    <3>3. QED
      BY <3>1, <3>2
  <2>3. ASSUME NEW q \in Requests, RotatingIn(q, f)' PROVE FALSE
    <3>1. Rotating(q)' /\ token'[req'[q].tok].family = f
      BY <2>3 DEF RotatingIn
    <3>2. CASE Rotating(q) /\ req'[q].tok = req[q].tok
      <4>1. req[q].tok \in 1..issued
        BY <1>0, <3>2 DEF RequestOK, RequestOKFor, Rotating
      <4>2. QED
        BY <1>0, <3>1, <3>2, <4>1 DEF RowsPersist, RotatingIn, Over
    <3>3. CASE \E t \in 1..issued : Refresh(q, t) /\ Usable(t) /\ req'[q].tok = t
      <4>1. PICK t \in 1..issued : Usable(t) /\ req'[q].tok = t
        BY <3>3
      <4>2. token[t].family = f
        BY <1>0, <3>1, <4>1 DEF RowsPersist
      <4>3. QED
        BY <4>1, <4>2 DEF Over
    <3>4. QED
      BY <1>2, <3>1, <3>2, <3>3, NewRotations
  <2>4. /\ \A t \in 1..issued' : token'[t].family = f => ~Usable(t)'
        /\ \A r \in Requests : ~RotatingIn(r, f)'
    BY <2>2, <2>3
  <2>5. QED
    BY <2>4 DEF Over
<1>3. QED
  BY <1>1, <1>2

\* A session with no usable token and no rotation in flight never has either
\* again: whatever ended it, it has ended for good.
THEOREM OverForGood == Spec => OverIsFinal
<1>1. Shape /\ [Next]_vars => [\A f \in 1..issued : Over(f) => Over(f)']_vars
  BY StepOver
<1>2. QED
  BY <1>1, ShapeInvariant, PTL DEF Spec, OverIsFinal

(***************************************************************************)
(* A replay kills what was live when it arrived.                           *)
(***************************************************************************)
LEMMA StepReplay ==
    ASSUME Shape, [Next]_vars, ReplayKillsFamily
    PROVE  ReplayKillsFamily'
<1>0. /\ TypeOK /\ RequestOK /\ RowsPersist /\ issued \in Nat
      /\ req \in [Requests -> Request]
  BY StepType DEF Shape, TypeOK
<1> SUFFICES ASSUME NEW q \in Requests, req'[q].pc = "respond",
                    NEW i \in req'[q].condemned
             PROVE  ~Live(i)'
  BY DEF ReplayKillsFamily
<1>a. RequestOKFor(q) /\ req[q] \in Request
  BY <1>0 DEF RequestOK
<1>1. CASE req[q].pc = "respond" /\ req'[q].condemned = req[q].condemned
  <2>1. i \in 1..issued /\ ~Live(i)
    BY <1>1, <1>a DEF ReplayKillsFamily, RequestOKFor
  <2>2. QED
    BY <1>0, <2>1 DEF Live, RowsPersist
<1>2. ASSUME NEW r \in Requests, NEW u \in Users, Login(r, u) PROVE ~Live(i)'
  <2>1. CASE q = r
    BY <1>0, <1>2, <2>1 DEF Login, Idle
  <2>2. CASE q # r
    BY <1>0, <1>1, <1>2, <2>2 DEF Login
  <2>3. QED
    BY <2>1, <2>2
<1>3. ASSUME NEW r \in Requests, NEW t \in delivered \cup {0}, Refresh(r, t)
      PROVE ~Live(i)'
  <2>1. CASE q = r
    <3>1. req'[q].pc = NextStatement(Verdict(t)) /\ req'[q].condemned = Condemned(t)
      BY <1>0, <1>3, <2>1 DEF Refresh
    <3>2. QED
      BY <3>1, RefreshTypes
  <2>2. CASE q # r
    BY <1>0, <1>1, <1>3, <2>2 DEF Refresh
  <2>3. QED
    BY <2>1, <2>2
<1>4. ASSUME NEW r \in Requests, RevokeFamily(r) PROVE ~Live(i)'
  <2>1. CASE q = r
    <3>1. req[q].pc = "revoke_family" /\ req'[q].condemned = req[q].condemned
      BY <1>0, <1>a, <1>4, <2>1 DEF RevokeFamily, Request
    <3>2. i \in Family(token[req[r].tok].family)
      BY <1>a, <2>1, <3>1 DEF RequestOKFor, Family
    <3>3. /\ Revoke(Family(token[req[r].tok].family), "reuse_detected") /\ UNCHANGED issued
          /\ "reuse_detected" \in Reasons \ {"live", "rotated"}
      BY <1>4 DEF RevokeFamily, Reasons
    <3>4. \A j \in 1..issued : j \in Family(token[req[r].tok].family) => token'[j].reason # "live"
      BY <1>0, <3>3, RevokeEffect
    <3>5. QED
      BY <3>2, <3>4 DEF Live, Family
  <2>2. CASE q # r
    BY <1>0, <1>1, <1>4, <2>2 DEF RevokeFamily
  <2>3. QED
    BY <2>1, <2>2
<1>5. ASSUME NEW r \in Requests, InsertSuccessor(r) PROVE ~Live(i)'
  <2>1. CASE q = r
    <3>1. [req[r] EXCEPT !.pc = "update", !.succ = issued + 1].pc = "update"
      BY <1>a, <2>1 DEF Request
    <3>2. req'[r] = [req[r] EXCEPT !.pc = "update", !.succ = issued + 1]
      BY <1>0, <1>5 DEF InsertSuccessor
    <3>3. QED
      BY <2>1, <3>1, <3>2
  <2>2. CASE q # r
    BY <1>0, <1>1, <1>5, <2>2 DEF InsertSuccessor
  <2>3. QED
    BY <2>1, <2>2
<1>6. ASSUME NEW r \in Requests, CloseOld(r) PROVE ~Live(i)'
  <2>1. CASE q = r
    BY <1>0, <1>a, <1>6, <2>1 DEF CloseOld, Request, RequestOKFor, Rotating
  <2>2. CASE q # r
    BY <1>0, <1>1, <1>6, <2>2 DEF CloseOld
  <2>3. QED
    BY <2>1, <2>2
<1>7. ASSUME NEW r \in Requests, Respond(r) \/ Abort(r) PROVE ~Live(i)'
  <2>1. req' = [req EXCEPT ![r] = Idle]
    BY <1>7 DEF Respond, Abort
  <2>2. QED
    BY <1>0, <1>1, <2>1 DEF Idle
<1>8. ASSUME UNCHANGED req PROVE ~Live(i)'
  BY <1>1, <1>8
<1>9. QED
  BY <1>2, <1>3, <1>4, <1>5, <1>6, <1>7, <1>8 DEF Next, Logout, RevokeAll, Tick, vars

\* When the presentation of a rotated token is answered, no token that was
\* live in its family at that presentation is still live.
THEOREM ReplayKills == Spec => []ReplayKillsFamily
<1>1. Init => ReplayKillsFamily
  BY DEF Init, Idle, ReplayKillsFamily
<1>2. Shape /\ ReplayKillsFamily /\ [Next]_vars => ReplayKillsFamily'
  BY StepReplay
<1>3. QED
  BY <1>1, <1>2, ShapeInvariant, PTL DEF Spec

(***************************************************************************)
(* One current token, unless rotations raced.                              *)
(***************************************************************************)
\* A family that did not race has one rotation in flight at most, and one
\* current token at most: the one being rotated, or its new successor.
Undisputed(f) ==
    /\ \A q, r \in Requests : RotatingIn(q, f) /\ RotatingIn(r, f) => q = r
    /\ \A t \in 1..issued, r \in Requests :
          Current(t) /\ token[t].family = f /\ RotatingIn(r, f) =>
             t = IF req[r].pc = "insert" THEN req[r].tok ELSE req[r].succ
    /\ \A t1, t2 \in 1..issued :
          Current(t1) /\ Current(t2) /\ token[t1].family = f /\ token[t2].family = f => t1 = t2

RaceInv == \A f \in Nat : f \notin raced => Undisputed(f)

\* A step that starts no rotation in f, moves none forward and makes no token
\* of f current keeps f undisputed.
LEMMA QuietStep ==
    ASSUME NEW f, Undisputed(f), RowsPersist,
           \A r \in Requests : RotatingIn(r, f)' => RotatingIn(r, f) /\ req'[r] = req[r],
           \A t \in 1..issued' : token'[t].family = f /\ Current(t)' =>
                                   t \in 1..issued /\ Current(t)
    PROVE  Undisputed(f)'
<1>1. \A t \in 1..issued : token'[t].family = token[t].family
  BY DEF RowsPersist
<1>2. \A q, r \in Requests : RotatingIn(q, f)' /\ RotatingIn(r, f)' => q = r
  BY DEF Undisputed
<1>3. \A t \in 1..issued', r \in Requests :
          Current(t)' /\ token'[t].family = f /\ RotatingIn(r, f)' =>
             t = IF req'[r].pc = "insert" THEN req'[r].tok ELSE req'[r].succ
  BY <1>1 DEF Undisputed
<1>4. \A t1, t2 \in 1..issued' :
          Current(t1)' /\ Current(t2)' /\ token'[t1].family = f /\ token'[t2].family = f
             => t1 = t2
  BY <1>1 DEF Undisputed
<1>5. QED
  BY <1>2, <1>3, <1>4 DEF Undisputed

\* A token is current after a step only if it was before, or is new, or the
\* rotation that was to close it stopped.
LEMMA CurrentShrinks ==
    ASSUME RowsPersist, NEW t \in 1..issued, Current(t)',
           \A r \in Requests :
              req[r].pc = "update" /\ req[r].tok = t => req'[r].pc = "update" /\ req'[r].tok = t
    PROVE  Current(t)
  BY DEF Current, Live, RowsPersist

LEMMA StepRace ==
    ASSUME Shape, RaceInv, [Next]_vars, NEW f \in Nat, f \notin raced'
    PROVE  Undisputed(f)'
<1>0. /\ TypeOK /\ RequestOK /\ ChainIntegrity /\ RowsPersist
      /\ issued \in Nat /\ issued' \in Nat
      /\ req \in [Requests -> Request] /\ token \in [1..issued -> Row]
      /\ \A r \in Requests : RequestOKFor(r)
      /\ \A t \in 1..issued : token[t].family \in 1..issued
      /\ \A t \in 1..issued : token'[t].family = token[t].family
  BY StepType DEF Shape, TypeOK, RequestOK, ChainIntegrity, Rooted, RowsPersist
<1>a. \A r \in Requests : Rotating(r) => req[r].tok \in 1..issued
  BY <1>0 DEF RequestOKFor, Rotating
<1>1. ASSUME NEW r \in Requests, NEW u \in Users, Login(r, u) PROVE Undisputed(f)'
  <2>1. /\ issued' = issued + 1 /\ raced' = raced
        /\ req' = [req EXCEPT ![r] = [Idle EXCEPT !.pc = "respond", !.succ = issued + 1,
                                                  !.outcome = "ok"]]
        /\ req[r].pc = "idle"
        /\ \A i \in 1..issued : token'[i] = token[i]
        /\ token'[issued + 1].family = issued + 1
    <3>1. Insert(u, issued + 1, 0) /\ issued + 1 \in Nat
      BY <1>0, <1>1 DEF Login
    <3>2. /\ issued' = issued + 1
          /\ \A i \in 1..issued : token'[i] = token[i]
          /\ token'[issued'] = [user |-> u, family |-> issued + 1, parent |-> 0,
                                replaced_by |-> 0, reason |-> "live",
                                expires_at |-> now + Lifetime]
      BY <1>0, <3>1, InsertEffect
    <3>3. QED
      BY <1>1, <3>2 DEF Login
  <2>2. \A q \in Requests : Rotating(q)' => Rotating(q) /\ req'[q] = req[q]
    BY <1>0, <2>1 DEF Rotating, Idle
  <2>3. \A q \in Requests, g \in Nat : RotatingIn(q, g)' => RotatingIn(q, g) /\ req'[q] = req[q]
    BY <1>0, <1>a, <2>2 DEF RotatingIn
  <2>4. \A t \in 1..issued : Current(t)' => Current(t)
    BY <1>0, <2>1 DEF Current, Live
  <2>5. CASE f = issued + 1
    <3>1. \A q \in Requests : ~RotatingIn(q, f)'
      BY <1>0, <1>a, <2>3, <2>5 DEF RotatingIn
    <3>2. \A t \in 1..issued' : token'[t].family = f => t = issued + 1
      BY <1>0, <2>1, <2>5
    <3>3. QED
      BY <3>1, <3>2 DEF Undisputed
  <2>6. CASE f # issued + 1
    <3>1. Undisputed(f)
      BY <2>1 DEF RaceInv
    <3>2. \A t \in 1..issued' : token'[t].family = f => t \in 1..issued /\ token[t].family = f
      BY <1>0, <2>1, <2>6
    <3>3. \A q \in Requests : RotatingIn(q, f)' => RotatingIn(q, f) /\ req'[q] = req[q]
      BY <2>3, <3>1
    <3>4. QED
      BY <1>0, <2>4, <3>1, <3>2, <3>3, QuietStep
  <2>7. QED
    BY <2>5, <2>6
<1>2. ASSUME NEW r \in Requests, NEW t \in delivered \cup {0}, Refresh(r, t)
      PROVE Undisputed(f)'
  <2>1. /\ issued' = issued /\ token' = token /\ raced \subseteq raced' /\ req[r].pc = "idle"
        /\ req'[r].pc = NextStatement(Verdict(t)) /\ req'[r].tok = t
        /\ \A q \in Requests : q # r => req'[q] = req[q]
    BY <1>0, <1>2 DEF Refresh
  <2>2. Undisputed(f)
    BY <2>1 DEF RaceInv
  <2>3. \A i \in 1..issued : Current(i)' <=> Current(i)
    <3>1. NextStatement(Verdict(t)) # "update"
      BY RefreshTypes
    <3>2. QED
      BY <2>1, <3>1 DEF Current, Live
  <2>4. \A q \in Requests : q # r => (RotatingIn(q, f)' <=> RotatingIn(q, f))
    BY <2>1 DEF RotatingIn, Rotating
  <2>5. CASE ~RotatingIn(r, f)'
    BY <1>0, <2>1, <2>2, <2>3, <2>4, <2>5, QuietStep
  <2>6. CASE RotatingIn(r, f)'
    <3>1. /\ NextStatement(Verdict(t)) \in {"insert", "update"} /\ token[t].family = f
      BY <2>1, <2>6 DEF RotatingIn, Rotating
    <3>2. Verdict(t) = "ok" /\ t \in 1..issued /\ Live(t) /\ req'[r].pc = "insert"
      BY <1>0, <2>1, <3>1, RefreshTypes DEF Usable
    <3>3. ~\E q \in Requests : RotatingIn(q, f)
      BY <1>2, <3>1, <3>2 DEF Refresh
    <3>4. Current(t)
      BY <3>1, <3>2, <3>3 DEF Current, RotatingIn, Rotating
    <3>5. \A q \in Requests : RotatingIn(q, f)' => q = r
      BY <2>4, <3>3
    <3>6. \A i \in 1..issued : Current(i) /\ token[i].family = f => i = t
      BY <2>2, <3>1, <3>2, <3>4 DEF Undisputed
    <3>7. \A i \in 1..issued', q \in Requests :
              Current(i)' /\ token'[i].family = f /\ RotatingIn(q, f)' =>
                 i = IF req'[q].pc = "insert" THEN req'[q].tok ELSE req'[q].succ
      BY <2>1, <2>3, <3>2, <3>5, <3>6
    <3>8. \A t1, t2 \in 1..issued' :
              Current(t1)' /\ Current(t2)' /\ token'[t1].family = f /\ token'[t2].family = f
                 => t1 = t2
      BY <2>1, <2>3, <3>6
    <3>9. QED
      BY <3>5, <3>7, <3>8 DEF Undisputed
  <2>7. QED
    BY <2>5, <2>6
<1>3. ASSUME NEW r \in Requests, InsertSuccessor(r) PROVE Undisputed(f)'
  <2>1. /\ req[r].pc = "insert" /\ req[r].tok \in 1..issued /\ Rotating(r)
        /\ req[r] \in Request
    BY <1>0, <1>3 DEF InsertSuccessor, RequestOKFor, Rotating
  <2> DEFINE g == token[req[r].tok].family
  <2>2. /\ issued' = issued + 1
        /\ \A i \in 1..issued : token'[i] = token[i]
        /\ token'[issued + 1].family = g
    <3>1. Insert(token[req[r].tok].user, g, req[r].tok)
      BY <1>3 DEF InsertSuccessor
    <3>2. token[req[r].tok].user \in Users /\ g \in Nat /\ req[r].tok \in Nat
      <4>1. token[req[r].tok] \in Row
        BY <1>0, <2>1
      <4>2. QED
        BY <2>1, <4>1 DEF Row
    <3>3. /\ issued' = issued + 1
          /\ \A i \in 1..issued : token'[i] = token[i]
          /\ token'[issued'] = [user |-> token[req[r].tok].user, family |-> g,
                                parent |-> req[r].tok, replaced_by |-> 0, reason |-> "live",
                                expires_at |-> now + Lifetime]
      BY <1>0, <3>1, <3>2, InsertEffect
    <3>4. QED
      BY <3>3
  <2>3. /\ raced' = raced
        /\ req'[r] = [req[r] EXCEPT !.pc = "update", !.succ = issued + 1]
        /\ \A q \in Requests : q # r => req'[q] = req[q]
    BY <1>0, <1>3 DEF InsertSuccessor
  <2>4. req'[r].pc = "update" /\ req'[r].succ = issued + 1 /\ req'[r].tok = req[r].tok
    BY <2>1, <2>3 DEF Request
  <2>5. \A i \in 1..issued : Current(i)' => Current(i) /\ i # req[r].tok
    <3>1. ASSUME NEW i \in 1..issued, Current(i)' PROVE i # req[r].tok
      BY <2>4, <3>1 DEF Current
    <3>2. ASSUME NEW i \in 1..issued, Current(i)' PROVE Current(i)
      BY <2>1, <2>2, <2>3, <3>2 DEF Current, Live
    <3>3. QED
      BY <3>1, <3>2
  <2>6. \A q \in Requests, h \in Nat : RotatingIn(q, h)' <=> RotatingIn(q, h)
    <3>1. \A q \in Requests : /\ Rotating(q)' <=> Rotating(q)
                              /\ req'[q].tok = req[q].tok
      BY <2>1, <2>3, <2>4 DEF Rotating
    <3>2. \A q \in Requests : Rotating(q) =>
              token'[req'[q].tok].family = token[req[q].tok].family
      BY <1>0, <1>a, <3>1
    <3>3. QED
      BY <3>1, <3>2 DEF RotatingIn
  <2>7. CASE f # g
    <3>1. Undisputed(f)
      BY <2>3 DEF RaceInv
    <3>2. \A q \in Requests : RotatingIn(q, f)' => RotatingIn(q, f) /\ req'[q] = req[q]
      BY <2>1, <2>3, <2>6, <2>7 DEF RotatingIn
    <3>3. \A i \in 1..issued' : token'[i].family = f /\ Current(i)' =>
                                i \in 1..issued /\ Current(i)
      BY <1>0, <2>2, <2>5, <2>7
    <3>4. QED
      BY <1>0, <3>1, <3>2, <3>3, QuietStep
  <2>8. CASE f = g
    <3>1. Undisputed(f) /\ RotatingIn(r, f)
      BY <2>1, <2>3, <2>8 DEF RaceInv, RotatingIn
    <3>2. \A q \in Requests : RotatingIn(q, f)' => q = r
      BY <2>6, <3>1 DEF Undisputed
    <3>3. \A i \in 1..issued : ~(Current(i)' /\ token'[i].family = f)
      BY <1>0, <2>1, <2>5, <3>1 DEF Undisputed
    <3>4. \A i \in 1..issued' : Current(i)' /\ token'[i].family = f => i = issued + 1
      BY <1>0, <2>2, <3>3
    <3>5. QED
      BY <2>4, <3>2, <3>4 DEF Undisputed
  <2>9. QED
    BY <2>7, <2>8
<1>4. ASSUME NEW r \in Requests, CloseOld(r) PROVE Undisputed(f)'
  <2>1. /\ issued' = issued /\ raced' = raced /\ req[r].pc = "update"
        /\ req[r].tok \in 1..issued
        /\ req'[r].pc = "respond"
        /\ \A q \in Requests : q # r => req'[q] = req[q]
        /\ token'[req[r].tok].reason = "rotated"
    <3>1. issued' = issued /\ req[r].tok \in 1..issued /\ token'[req[r].tok].reason = "rotated"
      BY <1>4, CloseOldEffect
    <3>2. /\ raced' = raced /\ req[r].pc = "update"
          /\ req' = [req EXCEPT ![r].pc = "respond"]
      BY <1>4 DEF CloseOld
    <3>3. QED
      BY <1>0, <3>1, <3>2
  <2>2. \A q \in Requests : RotatingIn(q, f)' => RotatingIn(q, f) /\ req'[q] = req[q]
    <3>1. \A q \in Requests : Rotating(q)' => Rotating(q) /\ req'[q] = req[q]
      BY <2>1 DEF Rotating
    <3>2. QED
      BY <1>0, <1>a, <3>1 DEF RotatingIn
  <2>3. \A t \in 1..issued : Current(t)' => Current(t)
    <3>1. ASSUME NEW t \in 1..issued, Current(t)' PROVE Current(t)
      <4>1. t # req[r].tok
        BY <2>1, <3>1 DEF Current, Live
      <4>2. QED
        BY <1>0, <2>1, <3>1, <4>1, CurrentShrinks
    <3>2. QED
      BY <3>1
  <2>4. Undisputed(f)
    BY <2>1 DEF RaceInv
  <2>5. QED
    BY <1>0, <2>1, <2>2, <2>3, <2>4, QuietStep
<1>5. ASSUME NEW r \in Requests, Abort(r), req[r].pc = "update" PROVE Undisputed(f)'
  <2>1. /\ issued' = issued /\ token' = token /\ req' = [req EXCEPT ![r] = Idle]
        /\ raced' = raced \cup {token[req[r].tok].family}
    BY <1>5 DEF Abort
  <2>2. Undisputed(f) /\ token[req[r].tok].family # f
    BY <2>1 DEF RaceInv
  <2>3. \A q \in Requests : RotatingIn(q, f)' => RotatingIn(q, f) /\ req'[q] = req[q]
    BY <1>0, <2>1 DEF RotatingIn, Rotating, Idle
  <2>4. \A t \in 1..issued : token[t].family = f /\ Current(t)' => Current(t)
    BY <1>0, <2>1, <2>2 DEF Current, Live
  <2>5. QED
    BY <1>0, <2>1, <2>2, <2>3, <2>4, QuietStep
<1>6. ASSUME issued' = issued, raced' = raced,
             \/ UNCHANGED req
             \/ \E r \in Requests : /\ req[r].pc # "update" /\ req'[r].pc \in {"idle", "respond"}
                                   /\ \A q \in Requests : q # r => req'[q] = req[q]
      PROVE  Undisputed(f)'
  <2>1. Undisputed(f)
    BY <1>6 DEF RaceInv
  <2>2. \A q \in Requests : RotatingIn(q, f)' => RotatingIn(q, f) /\ req'[q] = req[q]
    <3>1. \A q \in Requests : Rotating(q)' => Rotating(q) /\ req'[q] = req[q]
      BY <1>6 DEF Rotating
    <3>2. QED
      BY <1>0, <1>a, <3>1 DEF RotatingIn
  <2>3. \A t \in 1..issued : Current(t)' => Current(t)
    BY <1>0, <1>6, CurrentShrinks
  <2>4. QED
    BY <1>0, <1>6, <2>1, <2>2, <2>3, QuietStep
<1>7. ASSUME NEW r \in Requests,
             RevokeFamily(r) \/ Respond(r) \/ (Abort(r) /\ req[r].pc # "update")
      PROVE  Undisputed(f)'
  <2>1. CASE RevokeFamily(r)
    <3>1. /\ req[r].pc = "revoke_family" /\ req' = [req EXCEPT ![r].pc = "respond"]
          /\ issued' = issued /\ raced' = raced
      BY <2>1 DEF RevokeFamily
    <3>2. req'[r].pc = "respond" /\ \A q \in Requests : q # r => req'[q] = req[q]
      BY <1>0, <3>1
    <3>3. QED
      BY <1>6, <3>1, <3>2
  <2>2. CASE Respond(r) \/ (Abort(r) /\ req[r].pc # "update")
    <3>1. /\ req[r].pc # "update" /\ req' = [req EXCEPT ![r] = Idle]
          /\ issued' = issued /\ raced' = raced
      BY <2>2 DEF Respond, Abort
    <3>2. req'[r].pc = "idle" /\ \A q \in Requests : q # r => req'[q] = req[q]
      BY <1>0, <3>1 DEF Idle
    <3>3. QED
      BY <1>6, <3>1, <3>2
  <2>3. QED
    BY <1>7, <2>1, <2>2
<1>8. ASSUME \/ \E t \in delivered : Logout(t)
             \/ \E u \in Users : RevokeAll(u)
             \/ Tick
             \/ UNCHANGED vars
      PROVE  Undisputed(f)'
  BY <1>6, <1>8 DEF Logout, RevokeAll, Tick, vars
<1>9. QED
  BY <1>1, <1>2, <1>3, <1>4, <1>5, <1>7, <1>8 DEF Next

\* A family forks, has two current tokens at once, only if two rotations of it
\* overlapped or one stopped between its two writes.
THEOREM OneCurrentToken == Spec => []OneCurrentUnlessRaced
<1>1. Init => RaceInv
  BY DEF Init, RaceInv, Undisputed, RotatingIn, Rotating, Idle
<1>2. Shape /\ RaceInv /\ [Next]_vars => RaceInv'
  BY StepRace DEF RaceInv
<1>3. Shape /\ RaceInv => OneCurrentUnlessRaced
  <2>1. ASSUME Shape PROVE \A t \in 1..issued : token[t].family \in Nat
    BY <2>1 DEF Shape, TypeOK, Row
  <2>2. QED
    BY <2>1 DEF RaceInv, Undisputed, OneCurrentUnlessRaced
<1>4. QED
  BY <1>1, <1>2, <1>3, ShapeInvariant, PTL DEF Spec
============================================================================
