------------------------------ MODULE MCRouter ------------------------------
(* The instances of Router that TLC explores.                              *)
EXTENDS Router, TLC
CONSTANTS a, b, r1, r2
OnlyA == {{a}}
AsksOf == r1 :> {"proxy"} @@ r2 :> {"load", "unload", "reload"}
OneOrBoth == {{a}, {a, b}}
=============================================================================
