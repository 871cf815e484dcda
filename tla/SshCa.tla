------------------------------- MODULE SshCa -------------------------------
(***************************************************************************)
(* POST /api/ssh/ca/issue (protocols/ssh/ca.py): the serial is read from   *)
(* issued_certs, ssh-keygen signs with it, the row is stored and the       *)
(* certificate is handed out.  There is no transaction around these, and   *)
(* the serial is not unique in the table; other requests come between the  *)
(* two statements.                                                         *)
(***************************************************************************)
EXTENDS Naturals, FiniteSetsExt

CONSTANT Certs      \* requests for a certificate, and what each of them signs

VARIABLE
    cert            \* how far each request is, its certificate and its row of issued_certs

certVars == <<cert>>

Certificate == [pc: {"unasked", "read", "signed", "stored", "given", "failed"},
                serial: Nat,
                row: BOOLEAN,           \* issued_certs has it
                beside: SUBSET Certs]   \* history: requests that had read and not yet stored
                                        \* when this one read
Unasked == [pc |-> "unasked", serial |-> 0, row |-> FALSE, beside |-> {}]

\* No certificate has serial 0, and a row is only there for one that has been signed.
CaTypeOK ==
    /\ cert \in [Certs -> Certificate]
    /\ \A c \in Certs :
          /\ cert[c].pc # "unasked" => cert[c].serial > 0
          /\ cert[c].row => cert[c].pc \in {"stored", "given", "failed"}

CaInit == cert = [c \in Certs |-> Unasked]

Recorded == {cert[d].serial : d \in {e \in Certs : cert[e].row}}
Unstored == {d \in Certs : cert[d].pc \in {"read", "signed"}}

\* Seeded fault: the newest serial, not the next.
NewestSerial == Max({0} \cup Recorded)

\* _next_serial: COALESCE(MAX(serial), 0) + 1
NextSerial == Max({0} \cup Recorded) + 1

ReadSerial(c) ==
    /\ cert[c].pc = "unasked"
    /\ cert' = [cert EXCEPT ![c] = [pc |-> "read", serial |-> NextSerial,
                                    row |-> FALSE, beside |-> Unstored]]

Advance(c, from, to, row) ==
    /\ cert[c].pc = from
    /\ cert' = [cert EXCEPT ![c].pc = to, ![c].row = row]

Sign(c) == Advance(c, "read", "signed", FALSE)
StoreCert(c) == Advance(c, "signed", "stored", TRUE)
HandOut(c) == Advance(c, "stored", "given", TRUE)

\* ssh-keygen or the database fails, the process stops, or the answer is lost; the INSERT
\* may have taken effect.
IssueFails(c) ==
    \/ Advance(c, "read", "failed", FALSE)
    \/ \E stored \in BOOLEAN : Advance(c, "signed", "failed", stored)
    \/ Advance(c, "stored", "failed", TRUE)

CaNext ==
    \E c \in Certs :
        ReadSerial(c) \/ Sign(c) \/ StoreCert(c) \/ HandOut(c) \/ IssueFails(c)

CaSpec == CaInit /\ [][CaNext]_certVars

-----------------------------------------------------------------------------
(* Properties.                                                             *)

\* "Each cert gets a unique serial (for later revocation)" (ca.py:20): a certificate that
\* was handed out can be revoked by its serial, which its row has and neither another row nor
\* a certificate still being signed has, unless their requests overlapped.
RevocableBySerial ==
    \A c \in Certs : cert[c].pc = "given" =>
        /\ cert[c].row
        /\ \A d \in Certs \ {c} :
              (cert[d].row \/ d \in Unstored) /\ cert[d].serial = cert[c].serial
              => c \in cert[d].beside \/ d \in cert[c].beside
=============================================================================
