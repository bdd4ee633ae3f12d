------------------------------- MODULE MCGateway -------------------------------
(***************************************************************************)
(* Gateway for TLC: one entity, an alias of it, and an id that is not      *)
(* registered at the start.                                                *)
(***************************************************************************)
EXTENDS Gateway, TLC

CONSTANTS e1, alias, other, r1, r2, r3, a1, a2

MCLimit == (e1 :> 1) @@ (alias :> 1)
MCScore == [e \in Entities |-> 96]
\* Some words; a pattern, encoded as often as is undone; and a vector near the signature.
Payload(encoded, pattern, bigrams) == [encoded |-> encoded, pattern |-> pattern, bigrams |-> bigrams]
MCPayloads == {Payload(0, FALSE, ("or" :> 1) @@ ("he" :> 3)),
               Payload(3, TRUE, ("he" :> 1)),
               Payload(1, FALSE, ("or" :> 1) @@ ("1=" :> 1))}
MCThreatSignatures == {("or" :> 1) @@ ("1=" :> 1) @@ ("=1" :> 1)}

RequestSymmetry == Permutations(Requests) \cup Permutations(IPs)
===============================================================================
