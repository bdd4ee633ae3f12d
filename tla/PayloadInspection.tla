--------------------------- MODULE PayloadInspection ---------------------------
(***************************************************************************)
(* What the gateway (gateway.service.ts) and the vector firewall           *)
(* (shield.service.ts) make of a payload.  A payload is how often it was   *)
(* encoded, whether one of the patterns is in it, and how often each of    *)
(* its bigrams is: a function to 1, 2, ...                                 *)
(***************************************************************************)
EXTENDS Naturals, FiniteSetsExt

CONSTANTS
  Payloads,         \* the payloads of the model
  ThreatSignatures  \* the bigrams of the known attack vectors

\* Decoded up to three times.
NormalizePayload(payload) ==
  [payload EXCEPT !.encoded = IF @ > 3 THEN @ - 3 ELSE 0]

\* Some pattern of the five categories is found; encoded, none is.
InspectDeepPayload(payload) == payload.pattern /\ payload.encoded = 0

GetBigrams(payload) == IF payload.encoded = 0 THEN payload.bigrams ELSE [b \in {} |-> 0]

Dot(v1, v2) == MapThenSumSet(LAMBDA b : v1[b] * v2[b], DOMAIN v1 \cap DOMAIN v2)

\* The cosine of the angle between two vectors is above 3/4; a vector of length 0 has none.
Similar(v1, v2) == 16 * Dot(v1, v2) * Dot(v1, v2) > 9 * Dot(v1, v1) * Dot(v2, v2)

VectorFirewallCheck(payload) ==
  \E signature \in ThreatSignatures : Similar(GetBigrams(payload), signature)

\* In the order the gateway asks.
Verdict ==
  [payload \in Payloads |->
     LET normalized == NormalizePayload(payload)
     IN  IF InspectDeepPayload(normalized) THEN "pattern"
         ELSE IF VectorFirewallCheck(normalized) THEN "vector" ELSE "clean"]
===============================================================================
