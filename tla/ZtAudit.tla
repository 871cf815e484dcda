------------------------------ MODULE ZtAudit ------------------------------
(***************************************************************************)
(* protocols/ssh/ztaudit.py: every eight seconds the authentication log is *)
(* read as a whole and its certificate events are inserted into zt_audit.  *)
(* What a line has been stored under decides whether it is stored again:   *)
(* the hash of a publickey line is made of what it says, that of a lone    *)
(* rejection also of the place of the line in the text.  A rejection may   *)
(* take two lines, and lines of other connections and of other programs    *)
(* come between; of the latter none quotes what the patterns look for.     *)
(* Time stamps are taken to be ISO ones, each attempt with its own.        *)
(***************************************************************************)
EXTENDS Naturals, Sequences, SequencesExt, FiniteSets

CONSTANTS
    Attempts,       \* authentications with a certificate
    MaxLog          \* bound: lines in the log

ASSUME AttemptsAssumption == MaxLog \in Nat /\ Attempts \cap {"ok", "denied", "nobody"} = {}

VARIABLES
    authlog,    \* the log, or the tail of it that is fetched from a remote host
    audit,      \* zt_audit
    insert,     \* line by line, the rows that the cycle has not inserted yet
    attempt,    \* what each attempt has logged so far
    moved,      \* history: lines left the log, or changed their place in it
    torn,       \* history: the log was read after the first line of this attempt, or another
                \* program's line came after it
    jumbled     \* history: another attempt's line came after the first line of this one

ztVars == <<authlog, audit, insert, attempt, moved, torn, jumbled>>

\* "Certificate invalid: ...", "Failed publickey ...", "Accepted publickey ..."
Kinds == {"invalid", "failed", "accepted"}
Other == [kind |-> "other", of |-> "nobody"]     \* CRON, sudo, the rest of sshd
LogLine == [kind: Kinds, of: Attempts] \cup {Other}
PublicKey(line) == line.kind \in {"failed", "accepted"}

\* reason: the attempt whose "invalid" line gave it; place: of a lone rejection, else 0
Lone == 1..MaxLog
AuditRow == [of: Attempts, kind: Kinds, reason: Attempts \cup {"ok", "denied"}, place: {0} \cup Lone]

\* A row has a place if and only if it is a lone rejection, which has its own reason.
ZtTypeOK ==
    /\ authlog \in Seq(LogLine) /\ Len(authlog) <= MaxLog
    /\ audit \subseteq AuditRow
    /\ \A r \in audit : IF r.kind = "invalid" THEN r.place > 0 /\ r.reason = r.of
                        ELSE r.place = 0 /\ (r.kind = "accepted" <=> r.reason = "ok")
    /\ insert \in Seq(SUBSET AuditRow)
    /\ attempt \in [Attempts -> {"none", "invalid", "over"}]
    /\ moved \in BOOLEAN
    /\ torn \in [Attempts -> BOOLEAN]
    /\ jumbled \in [Attempts -> BOOLEAN]

ZtInit ==
    /\ authlog = <<>> /\ audit = {} /\ insert = <<>>
    /\ attempt = [a \in Attempts |-> "none"]
    /\ moved = FALSE
    /\ torn = [a \in Attempts |-> FALSE]
    /\ jumbled = [a \in Attempts |-> FALSE]

-----------------------------------------------------------------------------
(* sshd, other programs and logrotate.                                     *)

\* After an "invalid" line there may be a publickey line of the same attempt, or none.
Write(a, kind) ==
    /\ Len(authlog) < MaxLog
    /\ authlog' = Append(authlog, [kind |-> kind, of |-> a])
    /\ jumbled' = [b \in Attempts |->
          jumbled[b] \/ (b # a /\ authlog # <<>> /\ Last(authlog) = [kind |-> "invalid", of |-> b])]
    /\ UNCHANGED <<audit, insert, moved, torn>>

Accept(a) ==
    /\ attempt[a] = "none"
    /\ Write(a, "accepted")
    /\ attempt' = [attempt EXCEPT ![a] = "over"]

Refuse(a) ==
    /\ attempt[a] = "none"
    /\ Write(a, "invalid")
    /\ attempt' = [attempt EXCEPT ![a] = "invalid"]

Deny(a) ==
    /\ attempt[a] # "over"
    /\ Write(a, "failed")
    /\ attempt' = [attempt EXCEPT ![a] = "over"]

WriteOther ==
    /\ Len(authlog) < MaxLog
    /\ authlog' = Append(authlog, Other)
    /\ torn' = [a \in Attempts |->
          torn[a] \/ (authlog # <<>> /\ Last(authlog) = [kind |-> "invalid", of |-> a])]
    /\ UNCHANGED <<audit, insert, attempt, moved, jumbled>>

\* The file is rotated, or its tail no longer goes back as far.
MoveLog(log) ==
    /\ authlog # <<>>
    /\ authlog' = log
    /\ moved' = TRUE
    /\ UNCHANGED <<audit, insert, attempt, torn, jumbled>>
RotateLog == MoveLog(<<>>)
TrimLog == MoveLog(Tail(authlog))

-----------------------------------------------------------------------------
(* collect_zt_once.                                                        *)

\* Seeded fault: any "invalid" line before is the reason.
ReasonBefore(k) ==
    LET before == {l \in 1..k - 1 : authlog[l].kind = "invalid"}
    IN IF authlog[k].kind = "accepted" THEN "ok"
       ELSE IF before = {} THEN "denied" ELSE authlog[CHOOSE l \in before : TRUE].of

\* pending_reason is there only if the line before has left it: a rejection that no publickey
\* line follows at once clears it.
Reason(k) ==
    IF authlog[k].kind = "accepted" THEN "ok"
    ELSE IF k > 1 /\ authlog[k - 1].kind = "invalid" THEN authlog[k - 1].of
    ELSE "denied"

\* Seeded fault: a rejection is stored with its line, and again with the line that follows.
RowsOfBoth(k) ==
    LET line == authlog[k]
    IN IF line = Other THEN {}
       ELSE {[of |-> line.of, kind |-> line.kind,
              reason |-> IF PublicKey(line) THEN Reason(k) ELSE line.of,
              place |-> IF PublicKey(line) THEN 0 ELSE k]}

\* The row of a line, if it has one: a rejection leaves its reason to the publickey line that
\* is the very next one, whosever it is, and is stored by itself before any other line.
Rows(k) ==
    LET line == authlog[k]
    IN IF PublicKey(line)
       THEN {[of |-> line.of, kind |-> line.kind, reason |-> Reason(k), place |-> 0]}
       ELSE IF line = Other \/ (k < Len(authlog) /\ PublicKey(authlog[k + 1])) THEN {}
       ELSE {[of |-> line.of, kind |-> line.kind, reason |-> line.of, place |-> k]}

\* _fetch_log_text: an error is an empty text.
Fetch ==
    /\ insert = <<>> /\ authlog # <<>>
    /\ insert' = [k \in DOMAIN authlog |-> Rows(k)]
    /\ torn' = [a \in Attempts |->
          torn[a] \/ (attempt[a] = "invalid" /\ Last(authlog) = [kind |-> "invalid", of |-> a])]
    /\ UNCHANGED <<authlog, audit, attempt, moved, jumbled>>

\* Seeded fault: what has been stored already ends the cycle.
InsertStops ==
    /\ insert # <<>>
    /\ audit' = audit \cup Head(insert)
    /\ insert' = IF Head(insert) \cap audit # {} THEN <<>> ELSE Tail(insert)
    /\ UNCHANGED <<authlog, attempt, moved, torn, jumbled>>

\* INSERT ... ON CONFLICT (raw_hash) DO NOTHING; a line without a row is passed over.
InsertEvent ==
    /\ insert # <<>>
    /\ audit' = audit \cup Head(insert)
    /\ insert' = Tail(insert)
    /\ UNCHANGED <<authlog, attempt, moved, torn, jumbled>>

\* An INSERT fails and the cycle ends, or the worker does.
CycleEnds ==
    /\ insert # <<>>
    /\ insert' = <<>>
    /\ UNCHANGED <<authlog, audit, attempt, moved, torn, jumbled>>

ZtNext ==
    \/ \E a \in Attempts : Accept(a) \/ Refuse(a) \/ Deny(a)
    \/ WriteOther
    \/ RotateLog
    \/ TrimLog
    \/ Fetch
    \/ InsertEvent
    \/ CycleEnds

\* The cycles go on, and after some time none ends too early.
ZtFairness ==
    /\ WF_ztVars(Fetch \/ InsertEvent)
    /\ <>[][CycleEnds => InsertEvent]_ztVars

ZtSteps == ZtInit /\ [][ZtNext]_ztVars
ZtSpec == ZtSteps /\ ZtFairness

-----------------------------------------------------------------------------
(* Properties.                                                             *)

RowsOf(a) == {r \in audit : r.of = a}

\* However often the log is read, an attempt is stored once (ztaudit.py:146, 174), or twice if
\* the first line of its rejection was stored by itself: when that line was read, the log
\* ended there or a line of another attempt or program came next.  It takes lines that have
\* moved to store it more often.
StoredOnce ==
    \A a \in Attempts :
        moved \/ Cardinality(RowsOf(a)) <= IF torn[a] \/ jumbled[a] THEN 2 ELSE 1

\* A rejection has its own reason or none, unless the line before was another attempt's.
ReasonIsOwn ==
    \A r \in audit : r.reason \in {r.of, "ok", "denied"} \/ jumbled[r.reason]

\* "Every cert auth logged" (ztaudit.py:246): an attempt has a row in the end, unless the log
\* was rotated or its rejection was followed by another attempt's line.
EveryAttemptStored ==
    \A a \in Attempts :
        []<>(attempt[a] = "none" \/ RowsOf(a) # {} \/ moved \/ jumbled[a])
=============================================================================
