------------------------------- MODULE Pricing -------------------------------
(* The rules for a price and the advice of several providers on a deal       *)
(* (services/pricing_ai.py: validate_pricing, analyze_deal and               *)
(* _build_pricing_consensus).  Rates and fees are in hundredths of a percent *)
(* and of a dollar.                                                          *)
EXTENDS Figures, Sequences

CONSTANT NULL

\* What is missing is not taken for the program that stands in for it.
ASSUME NullAssumption == NULL # "Beacon Traditional"

\* EMP_FLOORS and ADMIN_FLOORS
StaffFloors ==
  [bt |-> [markup |-> 50, auth |-> 10], bf |-> [markup |-> 60, auth |-> 10],
   ml |-> [markup |-> 47, auth |-> 10], mm |-> [markup |-> 60, auth |-> 11],
   mh |-> [markup |-> 72, auth |-> 13]]
AdminFloors ==
  [bt |-> [markup |-> 25, auth |-> 6], bf |-> [markup |-> 25, auth |-> 5],
   ml |-> [markup |-> 25, auth |-> 5], mm |-> [markup |-> 30, auth |-> 7],
   mh |-> [markup |-> 40, auth |-> 9]]

Plan(d) ==
  IF d.program = "beacon_trad" THEN "bt"
  ELSE IF d.program = "beacon_flex" THEN "bf"
  ELSE IF d.risk = "low" THEN "ml"
  ELSE IF d.risk = "moderate" THEN "mm" ELSE "mh"

\* Variant: the tables of the two kinds of role are swapped.
Floor_Swapped(role, d) == IF role = "admin" THEN StaffFloors[Plan(d)] ELSE AdminFloors[Plan(d)]

Floor(role, d) == IF role = "admin" THEN AdminFloors[Plan(d)] ELSE StaffFloors[Plan(d)]

\* Dual pricing is capped at 4.00; a surcharge at 2.00 in Colorado and at the
\* cap of Mastercard and the buffer elsewhere.
OverCap(d) ==
  \/ d.program \in {"beacon_flex", "dual_pricing", "cash_discount"} /\ d.markup > 400
  \/ d.model = "surcharge" /\ d.markup > (IF d.state = "CO" THEN 200 ELSE 405)

\* A deal: [program, risk, state, model, markup, auth].
Valid(role, d) ==
  /\ d.markup >= Floor(role, d).markup /\ d.auth >= Floor(role, d).auth
  /\ ~OverCap(d)

\* A price of an employee close to the floor waits for an administrator.
NeedsApproval(role, d) == role = "employee" /\ d.markup <= StaffFloors[Plan(d)].markup + 10

-----------------------------------------------------------------------------
(* The opinions of the providers that answered with JSON, in order of        *)
(* arrival: [program, win, tips], where NULL stands for what is missing and  *)
(* tips says whether the tips and the risks are lists, as the merge assumes. *)

Backers(s, p) == {i \in DOMAIN s : s[i].program = p}
Named(s) == {i \in DOMAIN s : s[i].program # NULL}

\* Of the programs named most often, the one named first.
MostNamed(s) ==
  LET most == {i \in Named(s) : \A j \in Named(s) :
                 Cardinality(Backers(s, s[j].program)) <= Cardinality(Backers(s, s[i].program))}
  IN  s[Smallest(most)].program

Program(s) == IF Named(s) = {} THEN "Beacon Traditional" ELSE MostNamed(s)

\* Variant: the share is taken of the providers that name a program.
AgreePct_OfNamed(s) ==
  IF Named(s) = {} THEN 100
  ELSE Rounded(100 * Cardinality(Backers(s, Program(s))), Cardinality(Named(s)))

AgreePct(s) == Rounded(100 * Cardinality(Backers(s, Program(s))), Len(s))

\* A chance of 0 counts as missing; when all are missing it is 50.
Chances(s) == {i \in DOMAIN s : s[i].win \notin {NULL, 0}}

Win(s) == IF Chances(s) = {} THEN 50 ELSE Mean([i \in Chances(s) |-> s[i].win])

Confidence(pct) ==
  IF pct >= 90 THEN "certified"
  ELSE IF pct >= 70 THEN "high"
  ELSE IF pct >= 50 THEN "moderate" ELSE "review"

\* With several opinions, one whose tips are not a list fails them all.
Answered(s) == Len(s) = 1 \/ (s # <<>> /\ \A i \in DOMAIN s : s[i].tips)

\* One opinion stands as it is.
Advice(s) ==
  IF Len(s) = 1
  THEN [program |-> s[1].program, win |-> s[1].win, confidence |-> "single"]
  ELSE [program |-> Program(s), win |-> Win(s), confidence |-> Confidence(AgreePct(s))]
=============================================================================
