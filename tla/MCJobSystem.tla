----------------------------- MODULE MCJobSystem -----------------------------
(* Constants of the TLC runs of JobSystem.                                 *)
EXTENDS JobSystem, TLC

CONSTANTS f1, f2

(* Only the main thread creates jobs ... *)
MainCreates3 == [w \in Workers |-> IF w = Main THEN 3 ELSE 0]
(* ... or the jobs it starts create more. *)
OneEach == [w \in Workers |-> IF w \in {Main, f1} THEN 1 ELSE 0]
OneJobCreates == [w \in Workers |-> IF w = Main THEN 2 ELSE IF w = f1 THEN 1 ELSE 0]

FullSymmetry == Permutations(Full)
=============================================================================
