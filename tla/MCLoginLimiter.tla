--------------------------- MODULE MCLoginLimiter ---------------------------
(* Values of LoginLimiter's constants for TLC. *)
EXTENDS LoginLimiter, TLC

CONSTANTS p1, p2, c1, h1, ip1, s1, admin, owner, r1, r2, r3

MCLimit == (ip1 :> 2) @@ (s1 :> 1)
Interchangeable == Permutations(Requests) \cup Permutations(Portal)
=============================================================================
