----------------------------- MODULE MCAuditRun -----------------------------
(* Values of AuditRun's constants for TLC. *)
EXTENDS AuditRun, TLC

CONSTANTS r1, r2, r3, u1, u2, A, B, C, D, E, m1, m2, d1, d2

\* A run without errors, which ends on the quorum, and one provider's result
\* while another failed.
Full(mid, date, figure) ==
  [mid |-> mid, date |-> date, figure |-> figure, results |-> Quorum, errors |-> FALSE]
Part(mid, date, figure) ==
  [mid |-> mid, date |-> date, figure |-> figure, results |-> 1, errors |-> TRUE]

\* A and B are two scans of one statement, whose figures are read within 5%;
\* C shows other figures for the same merchant number and period; D is another
\* period of the merchant of A, and E the same period of another merchant, with
\* the same figures.

Shown == [f \in Files |-> [mid  |-> IF f = E THEN m2 ELSE m1,
                           date |-> IF f = D THEN d2 ELSE d1]]

\* The form is left blank, or the period of A is typed for D, or another period
\* for B.
Mistyped == [f \in Files |-> IF f = D THEN {d1} ELSE {}]
Misfiled == [f \in Files |-> IF f = B THEN {d2} ELSE {}]

Scanned(f) == CASE f = B -> 104 [] f = C -> 120 [] OTHER -> 100

\* One provider: its answer is the result.
Periods == [f \in Files |-> {Full(Shown[f].mid, Shown[f].date, Scanned(f))}]

\* Several providers: a consensus, or the one that answered, which may miss
\* the merchant number.
Merged == [f \in Files |->
             LET full == Full(Shown[f].mid, Shown[f].date, Scanned(f))
                 part == Part(Shown[f].mid, Shown[f].date, Scanned(f)) IN
             {full, part} \cup IF f = B THEN {[part EXCEPT !.mid = NULL]} ELSE {}]

RequestSymmetry == Permutations(Requests)
=============================================================================
