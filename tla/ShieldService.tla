----------------------------- MODULE ShieldService -----------------------------
(***************************************************************************)
(* The proof-of-work challenges of ShieldService (shield.service.ts), kept *)
(* in memory with their expiry and swept when there are many, and the use  *)
(* the middleware (shield.middleware.ts) makes of them.  A challenge is a  *)
(* random string nobody guesses, named here by the order of issue.         *)
(***************************************************************************)
EXTENDS Integers, FiniteSets

CONSTANTS
  CHALLENGE_TTL,  \* CHALLENGE_TTL_MS, in ticks
  SweepAbove      \* 5000: a larger map is swept before the next challenge

ASSUME ChallengeAssumption == CHALLENGE_TTL \in Nat /\ SweepAbove \in Nat

VARIABLES
  now,               \* Date.now(), in ticks
  issuedChallenges,  \* the map: challenge |-> expiry
  expiryOf,          \* history: the expiry each challenge was issued with
  solved             \* history: how often each has been accepted

challengeVars == <<issuedChallenges, expiryOf, solved>>

Issued == DOMAIN expiryOf

ShieldTypeOK ==
  /\ now \in Nat
  /\ Issued = 1..Cardinality(Issued)
  /\ DOMAIN issuedChallenges \subseteq Issued
  /\ \A c \in Issued : expiryOf[c] \in 0..(now + CHALLENGE_TTL) /\ solved[c] \in Nat
  /\ \A c \in DOMAIN issuedChallenges : issuedChallenges[c] = expiryOf[c]

ShieldInit ==
  /\ now = 0
  /\ issuedChallenges = [c \in {} |-> 0]
  /\ expiryOf = [c \in {} |-> 0]
  /\ solved = [c \in {} |-> 0]

\* Mutant: a challenge that is kept gets a new life.
Only_Renewed(S) == [c \in S |-> now + CHALLENGE_TTL]

\* What deleting from the map leaves.
Only(S) == [c \in S |-> issuedChallenges[c]]

\* Mutant: a full map is emptied of the challenges that are still good.
Swept_Inverted ==
  IF Cardinality(DOMAIN issuedChallenges) > SweepAbove
    THEN {c \in DOMAIN issuedChallenges : now > issuedChallenges[c]}
    ELSE DOMAIN issuedChallenges

\* What generateChallenge leaves of the map: above the limit, what has not expired.
Swept ==
  IF Cardinality(DOMAIN issuedChallenges) > SweepAbove
    THEN {c \in DOMAIN issuedChallenges : now <= issuedChallenges[c]}
    ELSE DOMAIN issuedChallenges

GenerateChallenge ==
  LET c == Cardinality(Issued) + 1 expiry == now + CHALLENGE_TTL IN
    /\ issuedChallenges' = [d \in Swept \cup {c} |-> IF d = c THEN expiry ELSE issuedChallenges[d]]
    /\ expiryOf' = [d \in Issued \cup {c} |-> IF d = c THEN expiry ELSE expiryOf[d]]
    /\ solved' = [d \in Issued \cup {c} |-> IF d = c THEN 0 ELSE solved[d]]

Accepted(c) ==
  /\ solved' = [solved EXCEPT ![c] = @ + 1]
  /\ issuedChallenges' = Only(DOMAIN issuedChallenges \ {c})
  /\ UNCHANGED expiryOf

\* verifyPoW: unknown or expired, not the right nonce, or right.
Usable(c) == c \in DOMAIN issuedChallenges /\ now <= issuedChallenges[c]

VerifyPoW(c, rightNonce, verified) ==
  /\ verified = (Usable(c) /\ rightNonce)
  /\ IF Usable(c)
       THEN IF rightNonce THEN Accepted(c) ELSE UNCHANGED challengeVars
       ELSE /\ issuedChallenges' = Only(DOMAIN issuedChallenges \ {c})
            /\ UNCHANGED <<expiryOf, solved>>

(* The memory of challenges may be trusted: one that was issued, is good and  *)
(* has not been used is still known, however often the map was swept, and     *)
(* none is accepted twice.                                                    *)
ChallengesHonoured ==
  \A c \in Issued :
    /\ solved[c] <= 1
    /\ now <= expiryOf[c] /\ solved[c] = 0 => c \in DOMAIN issuedChallenges
===============================================================================
