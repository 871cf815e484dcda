------------------------------ MODULE LogCopy ------------------------------
(***************************************************************************)
(* What it means to copy a log into a table: every usable line is copied   *)
(* once and in the order in which the lines were written; a line may stay  *)
(* uncopied, or be overtaken, only once the log has been rotated.          *)
(***************************************************************************)
EXTENDS Naturals

CONSTANT Ids                \* lines, numbered (in Nat) as they are written

VARIABLES
    written,    \* the usable lines there have been
    copied,     \* how often each line is in the table
    rotated     \* whether the log has been rotated

copyVars == <<written, copied, rotated>>

CopyInit ==
    /\ written = {}
    /\ copied = [i \in Ids |-> 0]
    /\ rotated = FALSE

Write(i) ==
    /\ \A j \in written : j < i
    /\ written' = written \cup {i}
    /\ UNCHANGED <<copied, rotated>>

Rotated ==
    /\ rotated' = TRUE
    /\ UNCHANGED <<written, copied>>

Uncopied == {i \in written : copied[i] = 0}
Copy(i) ==
    /\ i \in Uncopied
    /\ rotated \/ \A j \in Uncopied : i <= j
    /\ copied' = [copied EXCEPT ![i] = 1]
    /\ UNCHANGED <<written, rotated>>

CopyNext == Rotated \/ \E i \in Ids : Write(i) \/ Copy(i)

\* Until the log is rotated copying goes on.
CopySpec ==
    /\ CopyInit /\ [][CopyNext]_copyVars
    /\ WF_copyVars(~rotated /\ \E i \in Ids : Copy(i))
=============================================================================
