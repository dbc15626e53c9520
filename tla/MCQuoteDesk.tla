---------------------------- MODULE MCQuoteDesk ----------------------------
(* Values of QuoteDesk's constants for TLC. *)
EXTENDS QuoteDesk, TLC

CONSTANTS r1, r2, ann, bob

\* bob holds a token from when he was an administrator and one of today.
MCTokens == {[user |-> ann, role |-> "admin"], [user |-> bob, role |-> "admin"],
             [user |-> bob, role |-> "employee"], [user |-> bob, role |-> "merchant"]}

\* Every plan, with prices at, under and over the floors and the caps.
MCDeals ==
  [program: {"all", "beacon_trad", "beacon_flex", "dual_pricing"},
   risk: {"low", "moderate", "high"}, state: {"CO", "TX"},
   model: {"interchange_plus", "surcharge"},
   markup: {24, 25, 30, 40, 47, 50, 60, 72, 82, 200, 201, 400, 401, 406}, auth: {5, 9, 10, 13}]

Opinion(program, win, tips) == [program |-> program, win |-> win, tips |-> tips]
MCOpinions ==
  LET one == {Opinion("Maverick", 60, TRUE), Opinion("Maverick", 0, TRUE),
              Opinion("North", 61, TRUE), Opinion(NULL, 90, TRUE),
              Opinion("Kurv", NULL, TRUE), Opinion("North", 30, FALSE)} IN
  UNION {[1..n -> one] : n \in 0..3}

\* Advice reads no quote and changes none, so it is enough to ask for it once,
\* before there are any.
MCNext ==
  /\ advice = NULL
  /\ \/ \E r \in Requests : Work(r)
     \/ used = {} /\ (\A r \in Requests : req[r] = Idle) /\ Advise

MCSpec == Init /\ [][MCNext]_vars

Interchangeable == Permutations(Requests)
=============================================================================
