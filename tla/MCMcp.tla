------------------------------- MODULE MCMcp -------------------------------
(* TLC instances of Mcp: two servers, one of which could expose the other's *)
(* name: server "a" with tool "b__t" and server "a__b" with tool "t" both   *)
(* come out as mcp__a__b__t.                                                *)
EXTENDS Mcp, TLC

CONSTANTS a, a_b, t, b_t, n1, n2

MCOrder == <<a, a_b>>
MCOffers == (a :> <<b_t, t>>) @@ (a_b :> <<t>>)
MCExposedName(s, x) == IF s = a /\ x = t THEN n1 ELSE n2
=============================================================================
