--------------------------- MODULE AuthServiceProofs ---------------------------
(***************************************************************************)
(* Theorems about AuthService, for any requests, any number of challenges, *)
(* every time to live and every limit of the sweep.                        *)
(***************************************************************************)
EXTENDS AuthService, FiniteSetTheorems, TLAPS

\* Challenges are numbered, and each is accepted at most once.
ChallengesNumbered ==
  /\ now \in Nat
  /\ \E n \in Nat : Issued = 1..n
  /\ solved \in [Issued -> {0, 1}]
  /\ \A c \in Issued : expiryOf[c] \in Int

\* The map holds what was issued and has not been accepted, as it was issued.
MapHoldsUnsolved ==
  \A c \in DOMAIN issuedChallenges :
    c \in Issued /\ issuedChallenges[c] = expiryOf[c] /\ solved[c] = 0

\* What is good and has not been accepted is in the map.
GoodIsKept ==
  \A c \in Issued : now <= expiryOf[c] /\ solved[c] = 0 => c \in DOMAIN issuedChallenges

ChallengeInv == ChallengesNumbered /\ MapHoldsUnsolved /\ GoodIsKept
-------------------------------------------------------------------------------
(* The number of a new challenge is one nobody has.                           *)
LEMMA NextNumber ==
  ASSUME NEW n \in Nat
  PROVE  Cardinality(1..n) + 1 = n + 1 /\ (1..n) \cup {n + 1} = 1..(n + 1) /\ n + 1 \notin 1..n
<1>1. Cardinality(1..n) = n
  BY FS_Interval
<1> QED
  BY <1>1

(* Issuing a challenge, with or without a sweep, forgets none that is good.   *)
LEMMA IssueStep ==
  ASSUME ChallengeInv, GenerateChallenge, now' = now
  PROVE  ChallengeInv'
<1> USE ChallengeAssumption
<1>1. PICK n \in Nat : Issued = 1..n
  BY DEF ChallengeInv, ChallengesNumbered
<1> DEFINE c == n + 1
<1>2. /\ Cardinality(Issued) + 1 = c /\ Issued \cup {c} = 1..c /\ c \notin Issued
  BY <1>1, NextNumber
<1>3. now \in Nat /\ now + CHALLENGE_TTL \in Int
  BY DEF ChallengeInv, ChallengesNumbered
<1>4. /\ issuedChallenges' = [d \in Swept \cup {c} |-> IF d = c THEN now + CHALLENGE_TTL
                                                              ELSE issuedChallenges[d]]
      /\ expiryOf' = [d \in Issued \cup {c} |-> IF d = c THEN now + CHALLENGE_TTL ELSE expiryOf[d]]
      /\ solved' = [d \in Issued \cup {c} |-> IF d = c THEN 0 ELSE solved[d]]
  BY <1>2 DEF GenerateChallenge
<1>5. Swept \subseteq DOMAIN issuedChallenges
  BY DEF Swept
<1>6. \A d \in DOMAIN issuedChallenges : now <= issuedChallenges[d] => d \in Swept
  BY DEF Swept
<1> HIDE DEF c
<1>7. Issued' = 1..c /\ c \in Nat
  BY <1>2, <1>4 DEF Issued, c
<1>8. Issued' = Issued \cup {c}
  BY <1>4 DEF Issued
<1>9. ChallengesNumbered'
  <2>1. solved' \in [Issued' -> {0, 1}]
    BY <1>4, <1>8 DEF ChallengeInv, ChallengesNumbered
  <2>2. \A d \in Issued' : expiryOf'[d] \in Int
    BY <1>3, <1>4, <1>8 DEF ChallengeInv, ChallengesNumbered
  <2> QED
    BY <1>3, <1>7, <2>1, <2>2 DEF ChallengesNumbered
<1>10. MapHoldsUnsolved'
  BY <1>2, <1>4, <1>5, <1>8 DEF ChallengeInv, MapHoldsUnsolved
<1>11. GoodIsKept'
  BY <1>2, <1>4, <1>6, <1>8 DEF ChallengeInv, MapHoldsUnsolved, GoodIsKept
<1> QED
  BY <1>9, <1>10, <1>11 DEF ChallengeInv

(* Accepting one, or finding it expired, takes only that one out of the map.  *)
LEMMA ProofStep ==
  ASSUME ChallengeInv, NEW c \in Issued, NEW right, NEW verified,
         VerifyPoW(c, right, verified), now' = now
  PROVE  ChallengeInv'
<1>1. CASE Usable(c) /\ right
  <2>1. /\ solved' = [solved EXCEPT ![c] = @ + 1] /\ expiryOf' = expiryOf
        /\ issuedChallenges' = [d \in DOMAIN issuedChallenges \ {c} |-> issuedChallenges[d]]
    BY <1>1 DEF VerifyPoW, Accepted, Only
  <2>2. solved[c] = 0
    BY <1>1 DEF Usable, ChallengeInv, MapHoldsUnsolved
  <2>3. Issued' = Issued
    BY <2>1 DEF Issued
  <2>4. /\ solved' \in [Issued' -> {0, 1}]
        /\ \A d \in Issued : solved'[d] = IF d = c THEN 1 ELSE solved[d]
    BY <2>1, <2>2, <2>3 DEF ChallengeInv, ChallengesNumbered
  <2>5. ChallengesNumbered'
    BY <2>1, <2>3, <2>4 DEF ChallengeInv, ChallengesNumbered
  <2>6. MapHoldsUnsolved'
    BY <2>1, <2>3, <2>4 DEF ChallengeInv, MapHoldsUnsolved
  <2>7. GoodIsKept'
    BY <2>1, <2>3, <2>4 DEF ChallengeInv, GoodIsKept
  <2> QED
    BY <2>5, <2>6, <2>7 DEF ChallengeInv
<1>2. CASE ~Usable(c)
  <2>1. /\ UNCHANGED <<solved, expiryOf>>
        /\ issuedChallenges' = [d \in DOMAIN issuedChallenges \ {c} |-> issuedChallenges[d]]
    BY <1>2 DEF VerifyPoW, Only
  <2>2. Issued' = Issued
    BY <2>1 DEF Issued
  <2>3. ChallengesNumbered' /\ MapHoldsUnsolved'
    BY <2>1, <2>2 DEF ChallengeInv, ChallengesNumbered, MapHoldsUnsolved
  <2>4. GoodIsKept'
    BY <1>2, <2>1, <2>2 DEF ChallengeInv, MapHoldsUnsolved, GoodIsKept, Usable
  <2> QED
    BY <2>3, <2>4 DEF ChallengeInv
<1>3. CASE Usable(c) /\ ~right
  BY <1>3 DEF VerifyPoW, challengeVars, ChallengeInv, ChallengesNumbered, MapHoldsUnsolved,
              GoodIsKept, Issued
<1> QED
  BY <1>1, <1>2, <1>3

(* Nothing else touches the challenges, but time passes.                      *)
LEMMA OtherStep ==
  ASSUME ChallengeInv, UNCHANGED challengeVars, now' \in {now, now + 1}
  PROVE  ChallengeInv'
<1>1. now' \in Nat /\ \A e \in Int : now' <= e => now <= e
  BY DEF ChallengeInv, ChallengesNumbered
<1>2. Issued' = Issued
  BY DEF challengeVars, Issued
<1>3. ChallengesNumbered' /\ MapHoldsUnsolved'
  BY <1>1, <1>2 DEF challengeVars, ChallengeInv, ChallengesNumbered, MapHoldsUnsolved
<1>4. GoodIsKept'
  BY <1>1, <1>2 DEF challengeVars, ChallengeInv, ChallengesNumbered, GoodIsKept
<1> QED
  BY <1>3, <1>4 DEF ChallengeInv
-------------------------------------------------------------------------------
LEMMA HandleStep ==
  ASSUME ChallengeInv, NEW r \in Requests, Handle(r)
  PROVE  ChallengeInv'
<1>1. CASE Unproven(r)
  <2>1. now' = now /\ (GenerateChallenge \/ UNCHANGED challengeVars)
    BY <1>1 DEF Unproven
  <2> QED
    BY <2>1, IssueStep, OtherStep
<1>2. CASE Proven(r)
  <2>1. PICK c \in Issued, right \in BOOLEAN, verified \in BOOLEAN :
          VerifyPoW(c, right, verified) /\ now' = now
    BY <1>2 DEF Proven
  <2> QED
    BY <2>1, ProofStep
<1>3. CASE ~Unproven(r) /\ ~Proven(r)
  <2>1. UNCHANGED <<challengeVars, now>>
    BY <1>3 DEF Handle, rest, QueryFails, Approach, Turned, Register, RegisterFind,
                CreateTenantAndUser, LoginFind, LoginCompare, CreateSession, Behind, Validate,
                Logout, SetupFind, SetupUpdate, ConfirmFind, ConfirmUpdate, TransferLock,
                TransferRelease
  <2> QED
    BY <2>1, OtherStep
<1> QED
  BY <1>1, <1>2, <1>3

(* The invariant holds.                                                       *)
LEMMA ChallengeInvHolds == Spec => []ChallengeInv
<1>1. Init => ChallengeInv
  <2> SUFFICES ASSUME Init PROVE ChallengeInv
    OBVIOUS
  <2>1. Issued = {} /\ solved = [c \in {} |-> 0] /\ DOMAIN issuedChallenges = {} /\ now = 0
    BY DEF Init, ShieldInit, Issued
  <2>2. Issued = 1..0 /\ solved \in [Issued -> {0, 1}]
    BY <2>1
  <2> QED
    BY <2>1, <2>2 DEF ChallengeInv, ChallengesNumbered, MapHoldsUnsolved, GoodIsKept
<1>2. ChallengeInv /\ [Next]_vars => ChallengeInv'
  <2> SUFFICES ASSUME ChallengeInv, [Next]_vars PROVE ChallengeInv'
    OBVIOUS
  <2>1. CASE \E r \in Requests : Handle(r)
    BY <2>1, HandleStep
  <2>2. CASE VaultAct \/ Tick \/ RedisExpires \/ UNCHANGED vars
    <3>1. UNCHANGED challengeVars /\ now' \in {now, now + 1}
      BY <2>2 DEF VaultAct, Tick, RedisExpires, vars
    <3> QED
      BY <3>1, OtherStep
  <2> QED
    BY <2>1, <2>2 DEF Next
<1> QED
  BY <1>1, <1>2, PTL DEF Spec

(* A challenge that is good and unused is always still known, however many    *)
(* were issued and however often the map was swept, and none is ever accepted *)
(* a second time.                                                             *)
THEOREM ChallengesAreHonoured == Spec => []ChallengesHonoured
<1>1. ChallengeInv => ChallengesHonoured
  BY DEF ChallengeInv, ChallengesNumbered, GoodIsKept, ChallengesHonoured
<1> QED
  BY <1>1, ChallengeInvHolds, PTL
-------------------------------------------------------------------------------
(* MFA                                                                        *)

Places == {"idle", "edge", "guard", "find", "hash", "compare", "update", "session", "lock",
           "hold", "over"}

\* The functions are functions, and a row has its two columns.
AccountFunctions ==
  /\ pc \in [Requests -> Places]
  /\ mfaOnAt = [r \in Requests |-> mfaOnAt[r]]
  /\ row = [r \in Requests |-> row[r]]
  /\ user = [r \in Requests |-> user[r]]
  /\ secret = [r \in Requests |-> secret[r]]
  /\ sessions = [l \in Rows |-> sessions[l]]
  /\ tokens = [l \in Rows |-> tokens[l]]
  /\ users = [u \in DOMAIN users |-> users[u]]
  /\ \A u \in DOMAIN users :
       users[u] = [secret |-> users[u].secret, mfaEnabled |-> users[u].mfaEnabled]

\* Rows and sessions are made by requests at their end.
MadeAtTheEnd ==
  /\ \A u \in DOMAIN users : u = First \/ (u \in Requests /\ pc[u] = "over")
  /\ \A l \in Requests : sessions[l] # None => pc[l] = "over"

\* What was seen on when a login arrived is on for ever.
OnForEver == \A r \in Requests : mfaOnAt[r] \subseteq MfaOn

\* A login of such a row has read that MFA is on, and then had its code compared.
CodeCompared ==
  \A r \in Requests : row[r] \in mfaOnAt[r] =>
    /\ pc[r] \in {"compare", "session"} => user[r].mfaEnabled
    /\ pc[r] = "session" => secret[r] = user[r].secret.plain

MfaInv == AccountFunctions /\ MadeAtTheEnd /\ OnForEver /\ CodeCompared /\ MfaAskedFor

(* A step of a request that comes to no session and writes no table.          *)
LEMMA OwnStep ==
  ASSUME MfaInv, NEW r \in Requests, pc[r] # "over",
         NEW there \in Places \ {"compare", "session"}, pc' = [pc EXCEPT ![r] = there],
         UNCHANGED <<users, sessions, tokens>>,
         NEW a, row' = row \/ row' = [row EXCEPT ![r] = a],
         NEW b, user' = user \/ user' = [user EXCEPT ![r] = b],
         NEW c, secret' = secret \/ secret' = [secret EXCEPT ![r] = c],
         NEW d \in SUBSET MfaOn, mfaOnAt' = mfaOnAt \/ mfaOnAt' = [mfaOnAt EXCEPT ![r] = d]
  PROVE  MfaInv'
<1> USE NoneIsNoRow
<1>1. AccountFunctions'
  BY DEF MfaInv, AccountFunctions
<1>2. \A q \in Requests \ {r} :
        /\ pc'[q] = pc[q] /\ row'[q] = row[q] /\ user'[q] = user[q]
        /\ secret'[q] = secret[q] /\ mfaOnAt'[q] = mfaOnAt[q]
  BY DEF MfaInv, AccountFunctions
<1>3. pc'[r] = there /\ mfaOnAt'[r] \subseteq MfaOn /\ MfaOn' = MfaOn
  BY DEF MfaInv, AccountFunctions, OnForEver, MfaOn
<1>4. MadeAtTheEnd'
  BY <1>2 DEF MfaInv, MadeAtTheEnd
<1>5. OnForEver'
  BY <1>2, <1>3 DEF MfaInv, OnForEver
<1>6. CodeCompared'
  BY <1>2, <1>3 DEF MfaInv, CodeCompared
<1>7. MfaAskedFor'
  <2>1. sessions'[r] = None
    BY DEF MfaInv, MadeAtTheEnd
  <2>2. None \notin mfaOnAt'[r]
    BY <1>3 DEF MfaInv, MadeAtTheEnd, MfaOn, Rows
  <2> QED
    BY <1>2, <2>1, <2>2 DEF MfaInv, MfaAskedFor
<1> QED
  BY <1>1, <1>4, <1>5, <1>6, <1>7 DEF MfaInv

LEMMA OwnSteps ==
  ASSUME MfaInv, NEW r \in Requests,
         \/ QueryFails(r) \/ Approach(r) \/ Turned(r) \/ Unproven(r) \/ Proven(r)
         \/ Register(r) \/ RegisterFind(r) \/ Behind(r) \/ Validate(r)
         \/ SetupFind(r) \/ ConfirmFind(r) \/ TransferLock(r) \/ TransferRelease(r)
  PROVE  MfaInv'
<1>1. /\ pc[r] # "over" /\ UNCHANGED <<users, sessions, tokens>>
      /\ \E there \in Places \ {"compare", "session"} : pc' = [pc EXCEPT ![r] = there]
      /\ row' = row \/ \E a : row' = [row EXCEPT ![r] = a]
      /\ user' = user \/ \E a : user' = [user EXCEPT ![r] = a]
      /\ secret' = secret \/ \E a : secret' = [secret EXCEPT ![r] = a]
      /\ mfaOnAt' = mfaOnAt \/ \E a \in SUBSET MfaOn : mfaOnAt' = [mfaOnAt EXCEPT ![r] = a]
  <2>1. CASE QueryFails(r) \/ Turned(r) \/ Register(r) \/ RegisterFind(r)
    BY <2>1 DEF QueryFails, Turned, Register, RegisterFind, Begin, Goto, End, Places, tables
  <2>2. CASE Approach(r)
    <3>1. mfaOnAt' = [mfaOnAt EXCEPT ![r] = MfaOn] \/ mfaOnAt' = [mfaOnAt EXCEPT ![r] = {}]
      BY <2>2 DEF Approach
    <3> QED
      BY <2>2, <3>1 DEF Approach, Begin, Goto, Places, tables
  <2>3. CASE Unproven(r) \/ Proven(r)
    BY <2>3 DEF Unproven, Proven, PastEdge, Goto, End, Places, tables
  <2>4. CASE Behind(r) \/ Validate(r)
    BY <2>4 DEF Behind, Validate, Begin, Goto, End, Places, tables
  <2>5. CASE SetupFind(r) \/ ConfirmFind(r)
    BY <2>5 DEF SetupFind, ConfirmFind, Goto, End, Places, tables
  <2>6. CASE TransferLock(r) \/ TransferRelease(r)
    BY <2>6 DEF TransferLock, TransferRelease, Goto, End, Places, tables
  <2> QED
    BY <2>1, <2>2, <2>3, <2>4, <2>5, <2>6
<1> QED
  BY <1>1, OwnStep

(* A row that is new is the one of a registration that has just ended.        *)
LEMMA CreateStep ==
  ASSUME MfaInv, NEW r \in Requests, CreateTenantAndUser(r)
  PROVE  MfaInv'
<1> USE FirstIsOver
<1>1. /\ pc[r] = "hash" /\ pc' = [pc EXCEPT ![r] = "over"]
      /\ users' = [u \in DOMAIN users \cup {r} |-> IF u = r THEN NoRow ELSE users[u]]
      /\ UNCHANGED <<sessions, tokens, mfaOnAt, row, user, secret>>
  BY DEF CreateTenantAndUser, End, Goto
<1>2. r \notin DOMAIN users
  BY <1>1 DEF MfaInv, MadeAtTheEnd
<1>3. AccountFunctions'
  BY <1>1, <1>2 DEF MfaInv, AccountFunctions, Places, NoRow
<1>4. pc'[r] = "over" /\ \A q \in Requests \ {r} : pc'[q] = pc[q]
  BY <1>1 DEF MfaInv, AccountFunctions
<1>5. MadeAtTheEnd'
  BY <1>1, <1>4 DEF MfaInv, MadeAtTheEnd
<1>6. MfaOn \subseteq MfaOn'
  BY <1>1, <1>2 DEF MfaOn
<1>7. OnForEver' /\ CodeCompared' /\ MfaAskedFor'
  BY <1>1, <1>4, <1>6 DEF MfaInv, OnForEver, CodeCompared, MfaAskedFor
<1> QED
  BY <1>3, <1>5, <1>7 DEF MfaInv

(* An update of a row leaves MFA on where it is on.                           *)
LEMMA UpdateStep ==
  ASSUME MfaInv, NEW r \in Requests, SetupUpdate(r) \/ ConfirmUpdate(r)
  PROVE  MfaInv'
<1>1. /\ pc[r] = "update" /\ pc' = [pc EXCEPT ![r] = "over"]
      /\ UNCHANGED <<sessions, tokens, mfaOnAt, row, user, secret>>
      /\ \/ users' = [users EXCEPT ![row[r]].secret = user[r].secret]
         \/ users' = [users EXCEPT ![row[r]].mfaEnabled = TRUE]
  BY DEF SetupUpdate, ConfirmUpdate, End, Goto
<1>2. /\ DOMAIN users' = DOMAIN users /\ users' = [u \in DOMAIN users |-> users'[u]]
      /\ \A u \in DOMAIN users :
           /\ users'[u] = [secret |-> users'[u].secret, mfaEnabled |-> users'[u].mfaEnabled]
           /\ users[u].mfaEnabled => users'[u].mfaEnabled
  BY <1>1 DEF MfaInv, AccountFunctions
<1>3. AccountFunctions'
  BY <1>1, <1>2 DEF MfaInv, AccountFunctions, Places
<1>4. pc'[r] = "over" /\ \A q \in Requests \ {r} : pc'[q] = pc[q]
  BY <1>1 DEF MfaInv, AccountFunctions
<1>5. MadeAtTheEnd'
  BY <1>1, <1>2, <1>4 DEF MfaInv, MadeAtTheEnd
<1>6. MfaOn \subseteq MfaOn'
  BY <1>2 DEF MfaOn
<1>7. OnForEver' /\ CodeCompared' /\ MfaAskedFor'
  BY <1>1, <1>4, <1>6 DEF MfaInv, OnForEver, CodeCompared, MfaAskedFor
<1> QED
  BY <1>3, <1>5, <1>7 DEF MfaInv

(* A login: the row is read, the code compared, the session created.          *)
LEMMA LoginSteps ==
  ASSUME MfaInv, NEW r \in Requests, LoginFind(r) \/ LoginCompare(r) \/ CreateSession(r)
  PROVE  MfaInv'
<1> USE NoneIsNoRow
<1>1. CASE /\ pc[r] # "over" /\ pc' = [pc EXCEPT ![r] = "over"]
           /\ UNCHANGED <<users, sessions, tokens, row, user, secret, mfaOnAt>>
  BY <1>1, OwnStep DEF Places
<1>2. CASE /\ LoginFind(r)
           /\ \E u \in DOMAIN users :
                /\ row' = [row EXCEPT ![r] = u]
                /\ user' = [user EXCEPT ![r] = users[u]]
                /\ Goto(r, "compare")
  <2>1. PICK u \in DOMAIN users :
          /\ pc[r] = "find" /\ pc' = [pc EXCEPT ![r] = "compare"]
          /\ row' = [row EXCEPT ![r] = u]
          /\ user' = [user EXCEPT ![r] = users[u]]
          /\ UNCHANGED <<users, sessions, tokens, secret, mfaOnAt>>
    BY <1>2 DEF LoginFind, Goto, tables
  <2>2. AccountFunctions'
    BY <2>1 DEF MfaInv, AccountFunctions, Places
  <2>3. /\ pc'[r] = "compare" /\ row'[r] = u /\ user'[r] = users[u]
        /\ \A q \in Requests \ {r} : pc'[q] = pc[q] /\ row'[q] = row[q] /\ user'[q] = user[q]
    BY <2>1 DEF MfaInv, AccountFunctions
  <2>4. MadeAtTheEnd' /\ OnForEver'
    BY <2>1, <2>3 DEF MfaInv, MadeAtTheEnd, OnForEver, MfaOn
  <2>5. CodeCompared'
    BY <2>1, <2>3 DEF MfaInv, OnForEver, MfaOn, CodeCompared
  <2>6. MfaAskedFor'
    <3>1. sessions[r] \notin mfaOnAt[r]
      BY <2>1 DEF MfaInv, MadeAtTheEnd, OnForEver, MfaOn, Rows
    <3> QED
      BY <2>1, <2>3, <3>1 DEF MfaInv, MfaAskedFor
  <2> QED
    BY <2>2, <2>4, <2>5, <2>6 DEF MfaInv
<1>3. CASE /\ LoginCompare(r) /\ Goto(r, "session")
           /\ \/ ~user[r].mfaEnabled /\ UNCHANGED secret
              \/ secret' = [secret EXCEPT ![r] = user[r].secret.plain]
  <2>1. /\ pc[r] = "compare" /\ pc' = [pc EXCEPT ![r] = "session"]
        /\ UNCHANGED <<users, sessions, tokens, mfaOnAt, row, user>>
    BY <1>3 DEF LoginCompare, Goto, tables
  <2>2. AccountFunctions'
    BY <1>3, <2>1 DEF MfaInv, AccountFunctions, Places
  <2>3. /\ pc'[r] = "session"
        /\ ~user[r].mfaEnabled \/ secret'[r] = user[r].secret.plain
        /\ \A q \in Requests \ {r} : pc'[q] = pc[q] /\ secret'[q] = secret[q]
    BY <1>3, <2>1 DEF MfaInv, AccountFunctions
  <2>4. MadeAtTheEnd' /\ OnForEver'
    BY <2>1, <2>3 DEF MfaInv, MadeAtTheEnd, OnForEver, MfaOn
  <2>5. CodeCompared'
    BY <2>1, <2>3 DEF MfaInv, CodeCompared
  <2>6. MfaAskedFor'
    <3>1. sessions[r] \notin mfaOnAt[r]
      BY <2>1 DEF MfaInv, MadeAtTheEnd, OnForEver, MfaOn, Rows
    <3> QED
      BY <2>1, <2>3, <3>1 DEF MfaInv, MfaAskedFor
  <2> QED
    BY <2>2, <2>4, <2>5, <2>6 DEF MfaInv
<1>4. CASE CreateSession(r)
  <2>1. /\ pc[r] = "session" /\ pc' = [pc EXCEPT ![r] = "over"]
        /\ sessions' = [sessions EXCEPT ![r] = row[r]]
        /\ tokens' = [tokens EXCEPT ![r] = [user |-> row[r], mfaVerified |-> user[r].mfaEnabled]]
        /\ UNCHANGED <<users, mfaOnAt, row, user, secret>>
    BY <1>4 DEF CreateSession, End, Goto
  <2>2. AccountFunctions'
    BY <2>1 DEF MfaInv, AccountFunctions, Places, Rows
  <2>3. /\ pc'[r] = "over" /\ sessions'[r] = row[r]
        /\ tokens'[r] = [user |-> row[r], mfaVerified |-> user[r].mfaEnabled]
        /\ \A q \in Requests \ {r} : /\ pc'[q] = pc[q] /\ sessions'[q] = sessions[q]
                                     /\ tokens'[q] = tokens[q]
    BY <2>1 DEF MfaInv, AccountFunctions, Rows
  <2>4. MadeAtTheEnd' /\ OnForEver'
    BY <2>1, <2>3 DEF MfaInv, MadeAtTheEnd, OnForEver, MfaOn
  <2>5. CodeCompared'
    BY <2>1, <2>3 DEF MfaInv, CodeCompared
  <2>6. MfaAskedFor'
    BY <2>1, <2>3 DEF MfaInv, CodeCompared, MfaAskedFor
  <2> QED
    BY <2>2, <2>4, <2>5, <2>6 DEF MfaInv
<1>5. CASE LoginFind(r)
  <2>1. pc[r] # "over" /\ UNCHANGED <<users, sessions, tokens, secret, mfaOnAt>>
    BY <1>5 DEF LoginFind, tables
  <2> QED
    BY <1>1, <1>2, <1>5, <2>1 DEF LoginFind, End, Goto
<1>6. CASE LoginCompare(r)
  <2>1. pc[r] # "over" /\ UNCHANGED <<users, sessions, tokens, row, user, mfaOnAt>>
    BY <1>6 DEF LoginCompare, tables
  <2> QED
    BY <1>1, <1>3, <1>6, <2>1 DEF LoginCompare, CodeAccepted, End, Goto
<1> QED
  BY <1>4, <1>5, <1>6

(* A logout takes a session away, and nothing else does.                      *)
LEMMA LogoutStep ==
  ASSUME MfaInv, NEW r \in Requests, Logout(r)
  PROVE  MfaInv'
<1> USE NoneIsNoRow
<1>1. /\ pc[r] = "find" /\ pc' = [pc EXCEPT ![r] = "over"]
      /\ sessions' = [sessions EXCEPT ![secret[r]] = None]
      /\ UNCHANGED <<users, tokens, mfaOnAt, row, user, secret>>
  BY DEF Logout, End, Goto
<1>2. AccountFunctions'
  BY <1>1 DEF MfaInv, AccountFunctions, Places
<1>3. /\ pc'[r] = "over" /\ \A q \in Requests \ {r} : pc'[q] = pc[q]
      /\ \A l \in Rows : sessions'[l] \in {sessions[l], None}
  BY <1>1 DEF MfaInv, AccountFunctions
<1>4. MadeAtTheEnd' /\ OnForEver' /\ CodeCompared'
  BY <1>1, <1>3 DEF MfaInv, MadeAtTheEnd, OnForEver, MfaOn, CodeCompared, Rows
<1>5. \A q \in Requests : None \notin mfaOnAt[q]
  BY DEF MfaInv, MadeAtTheEnd, OnForEver, MfaOn, Rows
<1>6. MfaAskedFor'
  BY <1>1, <1>3, <1>5 DEF MfaInv, MfaAskedFor, Rows
<1> QED
  BY <1>2, <1>4, <1>6 DEF MfaInv

(* The invariant holds.                                                       *)
LEMMA MfaInvHolds == Spec => []MfaInv
<1>1. Init => MfaInv
  <2> SUFFICES ASSUME Init PROVE MfaInv
    OBVIOUS
  <2>1. /\ pc = [r \in Requests |-> "idle"]
        /\ mfaOnAt = [r \in Requests |-> {}]
        /\ row = [r \in Requests |-> None]
        /\ user = [r \in Requests |-> NoRow]
        /\ secret = [r \in Requests |-> None]
    BY DEF Init
  <2>2. \/ /\ users = [u \in {} |-> NoRow]
           /\ sessions = [l \in Rows |-> None]
           /\ tokens = [l \in Rows |-> NoToken]
        \/ /\ \E s, on : users = [u \in {First} |-> [secret |-> s, mfaEnabled |-> on]]
           /\ sessions = [l \in Rows |-> IF l = First THEN First ELSE None]
           /\ tokens = [l \in Rows |-> IF l = First THEN [user |-> First, mfaVerified |-> FALSE]
                                                    ELSE NoToken]
    <3>1. CASE /\ users = [u \in {} |-> NoRow]
               /\ sessions = [l \in Rows |-> None]
               /\ tokens = [l \in Rows |-> NoToken]
      BY <3>1
    <3>2. CASE /\ \E s \in {NoSecret, Encrypt(First)}, on \in BOOLEAN :
                    /\ on => s # NoSecret
                    /\ users = [u \in {First} |-> [secret |-> s, mfaEnabled |-> on]]
                    /\ confirmed = IF on THEN {First} ELSE {}
               /\ sessions = [l \in Rows |-> IF l = First THEN First ELSE None]
               /\ tokens = [l \in Rows |-> IF l = First
                                             THEN [user |-> First, mfaVerified |-> FALSE]
                                             ELSE NoToken]
      <4>1. \E s, on : users = [u \in {First} |-> [secret |-> s, mfaEnabled |-> on]]
        <5>1. PICK s \in {NoSecret, Encrypt(First)}, on \in BOOLEAN :
                users = [u \in {First} |-> [secret |-> s, mfaEnabled |-> on]]
          BY <3>2, Zenon
        <5> QED
          BY <5>1, Zenon
      <4> QED
        BY <3>2, <4>1, Zenon
    <3> QED
      BY <3>1, <3>2, Zenon DEF Init
  <2>3. /\ users = [u \in DOMAIN users |-> users[u]] /\ DOMAIN users \subseteq {First}
        /\ \A u \in DOMAIN users :
             users[u] = [secret |-> users[u].secret, mfaEnabled |-> users[u].mfaEnabled]
    <3>1. CASE users = [u \in {} |-> NoRow]
      BY <3>1
    <3>2. CASE \E s, on : users = [u \in {First} |-> [secret |-> s, mfaEnabled |-> on]]
      <4>1. PICK s, on : users = [u \in {First} |-> [secret |-> s, mfaEnabled |-> on]]
        BY <3>2
      <4>2. DOMAIN users = {First} /\ users[First] = [secret |-> s, mfaEnabled |-> on]
        BY <4>1
      <4>3. users[First].secret = s /\ users[First].mfaEnabled = on
        BY <4>2
      <4> QED
        BY <4>1, <4>2, <4>3
    <3> QED
      BY <2>2, <3>1, <3>2
  <2>4. /\ sessions = [l \in Rows |-> sessions[l]] /\ tokens = [l \in Rows |-> tokens[l]]
        /\ \A l \in Requests : sessions[l] = None
    <3>1. CASE sessions = [l \in Rows |-> None] /\ tokens = [l \in Rows |-> NoToken]
      BY <3>1 DEF Rows
    <3>2. CASE /\ sessions = [l \in Rows |-> IF l = First THEN First ELSE None]
               /\ tokens = [l \in Rows |-> IF l = First
                                             THEN [user |-> First, mfaVerified |-> FALSE]
                                             ELSE NoToken]
      BY <3>2, FirstIsOver DEF Rows
    <3> QED
      BY <2>2, <3>1, <3>2
  <2>5. AccountFunctions
    BY <2>1, <2>3, <2>4 DEF AccountFunctions, Places
  <2>6. \A r \in Requests : mfaOnAt[r] = {}
    BY <2>1
  <2>7. MadeAtTheEnd
    BY <2>3, <2>4 DEF MadeAtTheEnd
  <2>8. OnForEver /\ CodeCompared /\ MfaAskedFor
    BY <2>6 DEF OnForEver, CodeCompared, MfaAskedFor
  <2> QED
    BY <2>5, <2>7, <2>8 DEF MfaInv
<1>2. MfaInv /\ [Next]_vars => MfaInv'
  <2> SUFFICES ASSUME MfaInv, [Next]_vars PROVE MfaInv'
    OBVIOUS
  <2>1. ASSUME NEW r \in Requests, Handle(r) PROVE MfaInv'
    BY <2>1, OwnSteps, CreateStep, UpdateStep, LoginSteps, LogoutStep DEF Handle
  <2>2. CASE UNCHANGED authVars
    BY <2>2 DEF authVars, MfaInv, AccountFunctions, MadeAtTheEnd, OnForEver, MfaOn, CodeCompared,
                MfaAskedFor
  <2> QED
    BY <2>1, <2>2 DEF Next, VaultAct, Tick, RedisExpires, vars
<1> QED
  BY <1>1, <1>2, PTL DEF Spec

(* A user who had MFA on when a login arrived gets no session of that login   *)
(* without a code of the secret that was stored, however the login's awaits   *)
(* fall among registrations, set-ups, confirmations and vault operations.     *)
THEOREM MfaIsAskedFor == Spec => []MfaAskedFor
<1>1. MfaInv => MfaAskedFor
  BY DEF MfaInv
<1> QED
  BY <1>1, MfaInvHolds, PTL
-------------------------------------------------------------------------------
(* Registration                                                               *)

Registering(r) == op[r] = "register" /\ pc[r] \in {"find", "hash"}

RegisterFunctions ==
  /\ pc \in [Requests -> Places]
  /\ op \in [Requests -> Ops \cup {None}]
  /\ during \in [Requests -> SUBSET Requests]

\* Only registrations hash a password and make a row, and they pass no guard.
HashRegisters ==
  \A r \in Requests : /\ pc[r] = "hash" => op[r] = "register"
                      /\ pc[r] = "guard" => op[r] # "register"

\* Registrations that are under way know of each other.
RivalsKnown ==
  \A r, s \in Requests : r # s /\ Registering(r) /\ Registering(s) => s \in during[r]

\* A registration past its look-up overlapped with whoever made a row since.
RowsSinceLookup ==
  \A r \in Requests, u \in DOMAIN users :
    pc[r] = "hash" => u \in Requests /\ u \in during[r] /\ r \in during[u]

RowsAreOver == \A u \in DOMAIN users : u = First \/ (u \in Requests /\ pc[u] = "over")

RegisterInv ==
  RegisterFunctions /\ HashRegisters /\ RivalsKnown /\ RowsSinceLookup /\ RowsAreOver
    /\ AddressTakenOnce

(* A request that begins: its rivals and it learn of each other.              *)
LEMMA BeginKeeps ==
  ASSUME RegisterInv, NEW r \in Requests, NEW what \in Ops,
         NEW there \in {"find", "edge", "guard"}, Begin(r, what, there),
         there = "guard" => what # "register", DOMAIN users' = DOMAIN users
  PROVE  RegisterInv'
<1>1. /\ pc[r] = "idle" /\ pc' = [pc EXCEPT ![r] = there] /\ op' = [op EXCEPT ![r] = what]
      /\ during' = [s \in Requests |-> IF s = r THEN Rivals(what)
                                       ELSE IF s \in Rivals(what) THEN during[s] \cup {r}
                                       ELSE during[s]]
  BY DEF Begin, Goto
<1>2. Rivals(what) \subseteq Requests
  BY DEF Rivals
<1>3. RegisterFunctions'
  BY <1>1, <1>2 DEF RegisterInv, RegisterFunctions, Places
<1>4. /\ pc'[r] = there /\ op'[r] = what
      /\ \A s \in Requests \ {r} : /\ pc'[s] = pc[s] /\ op'[s] = op[s]
                                   /\ during[s] \subseteq during'[s]
  BY <1>1 DEF RegisterInv, RegisterFunctions
<1>5. HashRegisters'
  BY <1>4 DEF RegisterInv, HashRegisters
<1>6. ASSUME NEW s \in Requests \ {r}, what = "register", Registering(s)
      PROVE  s \in during'[r] /\ r \in during'[s]
  <2>1. s \in Rivals(what)
    BY <1>6 DEF Rivals, Registering
  <2> QED
    BY <1>1, <2>1
<1>7. RivalsKnown'
  BY <1>4, <1>6 DEF RegisterInv, RivalsKnown, Registering
<1>8. r \notin DOMAIN users
  BY <1>1, FirstIsOver DEF RegisterInv, RowsAreOver
<1>9. RowsSinceLookup'
  BY <1>4, <1>8 DEF RegisterInv, RowsSinceLookup
<1>10. RowsAreOver' /\ AddressTakenOnce'
  BY <1>4, <1>8 DEF RegisterInv, RowsAreOver, AddressTakenOnce
<1> QED
  BY <1>3, <1>5, <1>7, <1>9, <1>10 DEF RegisterInv

(* A request that goes on, without having looked an address up or made a row. *)
LEMMA GoOnKeeps ==
  ASSUME RegisterInv, NEW r \in Requests, pc[r] # "over",
         NEW there \in Places \ {"guard"}, pc' = [pc EXCEPT ![r] = there],
         UNCHANGED <<op, during>>,
         there = "hash" => op[r] = "register" /\ pc[r] = "find" /\ DOMAIN users = {},
         there = "find" => op[r] # "register",
         DOMAIN users' = DOMAIN users
  PROVE  RegisterInv'
<1>1. RegisterFunctions'
  BY DEF RegisterInv, RegisterFunctions
<1>2. pc'[r] = there /\ \A s \in Requests \ {r} : pc'[s] = pc[s]
  BY DEF RegisterInv, RegisterFunctions
<1>3. HashRegisters' /\ RowsSinceLookup'
  BY <1>2 DEF RegisterInv, HashRegisters, RowsSinceLookup
<1>4. RivalsKnown'
  BY <1>2 DEF RegisterInv, RivalsKnown, Registering
<1>5. RowsAreOver' /\ AddressTakenOnce'
  BY <1>2 DEF RegisterInv, RowsAreOver, AddressTakenOnce
<1> QED
  BY <1>1, <1>3, <1>4, <1>5 DEF RegisterInv

LEMMA CreateKeeps ==
  ASSUME RegisterInv, NEW r \in Requests, CreateTenantAndUser(r)
  PROVE  RegisterInv'
<1>1. /\ pc[r] = "hash" /\ pc' = [pc EXCEPT ![r] = "over"] /\ UNCHANGED <<op, during>>
      /\ DOMAIN users' = DOMAIN users \cup {r}
  BY DEF CreateTenantAndUser, End, Goto
<1>2. RegisterFunctions'
  BY <1>1 DEF RegisterInv, RegisterFunctions, Places
<1>3. pc'[r] = "over" /\ \A s \in Requests \ {r} : pc'[s] = pc[s]
  BY <1>1 DEF RegisterInv, RegisterFunctions
<1>4. HashRegisters' /\ RivalsKnown' /\ RowsAreOver'
  BY <1>1, <1>3 DEF RegisterInv, HashRegisters, RivalsKnown, RowsAreOver, Registering
<1>5. \A s \in Requests \ {r} : pc[s] = "hash" => s \in during[r] /\ r \in during[s]
  BY <1>1 DEF RegisterInv, HashRegisters, RivalsKnown, Registering
<1>6. RowsSinceLookup'
  BY <1>1, <1>3, <1>5 DEF RegisterInv, RowsSinceLookup
<1>7. AddressTakenOnce'
  BY <1>1 DEF RegisterInv, RowsSinceLookup, AddressTakenOnce
<1> QED
  BY <1>2, <1>4, <1>6, <1>7 DEF RegisterInv

LEMMA RegisterStep ==
  ASSUME RegisterInv, NEW r \in Requests, Handle(r)
  PROVE  RegisterInv'
<1>1. CASE Approach(r) \/ Register(r) \/ Behind(r)
  <2>1. /\ \E what \in Ops, there \in {"find", "edge", "guard"} :
             Begin(r, what, there) /\ (there = "guard" => what # "register")
        /\ UNCHANGED users
    BY <1>1 DEF Approach, Register, Behind, Ops, tables
  <2> QED
    BY <2>1, BeginKeeps
<1>2. CASE CreateTenantAndUser(r)
  BY <1>2, CreateKeeps
<1>3. CASE RegisterFind(r)
  <2>1. /\ pc[r] = "find" /\ op[r] = "register" /\ UNCHANGED <<op, during, users>>
        /\ \/ DOMAIN users = {} /\ pc' = [pc EXCEPT ![r] = "hash"]
           \/ pc' = [pc EXCEPT ![r] = "over"]
    BY <1>3 DEF RegisterFind, Goto, End, tables
  <2> QED
    BY <2>1, GoOnKeeps DEF Places
<1>4. CASE QueryFails(r) \/ Turned(r) \/ Unproven(r) \/ Proven(r) \/ LoginFind(r) \/ LoginCompare(r)
           \/ CreateSession(r) \/ Validate(r) \/ Logout(r) \/ SetupFind(r) \/ SetupUpdate(r)
           \/ ConfirmFind(r) \/ ConfirmUpdate(r) \/ TransferLock(r) \/ TransferRelease(r)
  <2>1. /\ pc[r] # "over" /\ UNCHANGED <<op, during>> /\ DOMAIN users' = DOMAIN users
        /\ \E there \in Places \ {"hash", "guard"} :
             pc' = [pc EXCEPT ![r] = there] /\ (there = "find" => op[r] # "register")
    <3>1. CASE QueryFails(r) \/ Turned(r)
      BY <3>1 DEF QueryFails, Turned, Goto, End, Places, tables
    <3>2. CASE Unproven(r) \/ Proven(r)
      BY <3>2 DEF Unproven, Proven, PastEdge, Goto, End, Places, tables
    <3>3. CASE LoginFind(r) \/ LoginCompare(r) \/ CreateSession(r) \/ Logout(r)
      BY <3>3 DEF LoginFind, LoginCompare, CreateSession, Logout, Goto, End, Places, tables
    <3>4. CASE Validate(r)
      BY <3>4 DEF Validate, Goto, End, Places, tables, RegisterInv, HashRegisters
    <3>5. CASE SetupFind(r) \/ SetupUpdate(r) \/ ConfirmFind(r) \/ ConfirmUpdate(r)
      BY <3>5 DEF SetupFind, SetupUpdate, ConfirmFind, ConfirmUpdate, Goto, End, Places, tables
    <3>6. CASE TransferLock(r) \/ TransferRelease(r)
      BY <3>6 DEF TransferLock, TransferRelease, Goto, End, Places, tables
    <3> QED
      BY <1>4, <3>1, <3>2, <3>3, <3>4, <3>5, <3>6
  <2> QED
    BY <2>1, GoOnKeeps
<1> QED
  BY <1>1, <1>2, <1>3, <1>4 DEF Handle

(* The invariant holds.                                                       *)
LEMMA RegisterInvHolds == Spec => []RegisterInv
<1>1. Init => RegisterInv
  <2> SUFFICES ASSUME Init PROVE RegisterInv
    OBVIOUS
  <2>1. /\ pc = [r \in Requests |-> "idle"]
        /\ op = [r \in Requests |-> None]
        /\ during = [r \in Requests |-> {}]
    BY DEF Init
  <2>2. DOMAIN users \subseteq {First}
    BY DEF Init
  <2> QED
    BY <2>1, <2>2 DEF RegisterInv, RegisterFunctions, HashRegisters, RivalsKnown, Registering,
                      RowsSinceLookup, RowsAreOver, AddressTakenOnce, Places
<1>2. RegisterInv /\ [Next]_vars => RegisterInv'
  <2> SUFFICES ASSUME RegisterInv, [Next]_vars PROVE RegisterInv'
    OBVIOUS
  <2>1. CASE \E r \in Requests : Handle(r)
    BY <2>1, RegisterStep
  <2>2. CASE UNCHANGED authVars
    BY <2>2 DEF authVars, RegisterInv, RegisterFunctions, HashRegisters, RivalsKnown, Registering,
                RowsSinceLookup, RowsAreOver, AddressTakenOnce
  <2> QED
    BY <2>1, <2>2 DEF Next, VaultAct, Tick, RedisExpires, vars
<1> QED
  BY <1>1, <1>2, PTL DEF Spec

(* An address has two accounts only if their registrations overlapped: the    *)
(* look-up misses nobody who had registered before it.                        *)
THEOREM AddressesAreTakenOnce == Spec => []AddressTakenOnce
<1>1. RegisterInv => AddressTakenOnce
  BY DEF RegisterInv
<1> QED
  BY <1>1, RegisterInvHolds, PTL
-------------------------------------------------------------------------------
(* The secret MFA is on for                                                   *)

Running(r) == pc[r] \notin {"idle", "over"}

\* A set-up of the row ran at some time while a confirmation of it did.
Overlap(u) ==
  \E s, c \in Requests :
    op[s] = "setup" /\ op[c] = "confirm" /\ row[s] = u /\ row[c] = u /\ s \in during[c]

SetupsKnown ==
  /\ \A r \in Requests : pc[r] = "idle" => op[r] = None
  /\ \A s, c \in Requests :
       op[s] = "setup" /\ op[c] = "confirm" /\ Running(s) /\ Running(c) => s \in during[c]

\* Nobody is at work on a row that is not there.
RowsThere ==
  /\ \A r \in Requests :
       op[r] \in {"setup", "confirm"} \/ pc[r] \in {"compare", "session"} => row[r] \in DOMAIN users
  /\ \A l \in Rows : tokens[l] # NoToken => tokens[l].user \in DOMAIN users

\* The secret a confirmation has checked is the one it will turn MFA on for,
Confirming ==
  \A c \in Requests : op[c] = "confirm" /\ pc[c] = "update" =>
    \/ users[row[c]].secret # NoSecret /\ users[row[c]].secret.plain = secret[c]
    \/ Overlap(row[c])

\* and a set-up replaces no secret MFA is on for -- but for an overlap.
SettingUp ==
  \A s \in Requests : op[s] = "setup" /\ pc[s] = "update" =>
    ~users[row[s]].mfaEnabled \/ Overlap(row[s])

Confirmed(u) ==
  users[u].mfaEnabled =>
    \/ users[u].secret # NoSecret /\ users[u].secret.plain \in confirmed
    \/ Overlap(u)

SecretInv ==
  /\ SetupsKnown /\ RowsThere /\ Confirming /\ SettingUp
  /\ \A u \in DOMAIN users : Confirmed(u)

\* What holds anyhow.
Known == AccountFunctions /\ RegisterFunctions /\ RowsAreOver

\* What a step of r that does not begin leaves as it is.
GoesOn(r) ==
  /\ pc[r] \notin {"idle", "over"} /\ pc'[r] # "idle"
  /\ \A q \in Requests \ {r} : pc'[q] = pc[q] /\ row'[q] = row[q] /\ secret'[q] = secret[q]
  /\ op[r] \in {"setup", "confirm"} => row'[r] = row[r]
  /\ UNCHANGED <<op, during>>

(* A request that begins.                                                     *)
LEMMA SecretBegin ==
  ASSUME Known, SecretInv, NEW r \in Requests, NEW what \in Ops,
         NEW there \in {"find", "edge", "guard"}, Begin(r, what, there),
         UNCHANGED <<users, tokens, confirmed>>,
         NEW a, row' = row \/ row' = [row EXCEPT ![r] = a],
         NEW b, secret' = secret \/ secret' = [secret EXCEPT ![r] = b],
         what \in {"setup", "confirm"} => row'[r] \in DOMAIN users
  PROVE  SecretInv'
<1>1. /\ pc[r] = "idle" /\ pc' = [pc EXCEPT ![r] = there] /\ op' = [op EXCEPT ![r] = what]
      /\ during' = [s \in Requests |-> IF s = r THEN Rivals(what)
                                       ELSE IF s \in Rivals(what) THEN during[s] \cup {r}
                                       ELSE during[s]]
  BY DEF Begin, Goto
<1>2. /\ pc'[r] = there /\ op'[r] = what /\ op[r] = None /\ during'[r] = Rivals(what)
      /\ \A s \in Requests \ {r} :
           /\ pc'[s] = pc[s] /\ op'[s] = op[s] /\ row'[s] = row[s] /\ secret'[s] = secret[s]
           /\ during'[s] = IF s \in Rivals(what) THEN during[s] \cup {r} ELSE during[s]
  BY <1>1 DEF Known, AccountFunctions, RegisterFunctions, SecretInv, SetupsKnown
<1>3. \A u : Overlap(u) => Overlap(u)'
  <2>1. \A s \in Requests : op[s] \in {"setup", "confirm"} =>
          op'[s] = op[s] /\ row'[s] = row[s] /\ during[s] \subseteq during'[s]
    BY <1>2 DEF None
  <2> QED
    BY <2>1 DEF Overlap
<1>4. ASSUME NEW s \in Requests \ {r}, Running(s),
             \/ op[s] = "setup" /\ what = "confirm"
             \/ op[s] = "confirm" /\ what = "setup"
      PROVE  s \in during'[r] /\ r \in during'[s]
  <2>1. s \in Rivals(what)
    BY <1>4 DEF Rivals, Running
  <2> QED
    BY <1>2, <2>1
<1>5. SetupsKnown'
  <2>1. \A q \in Requests : pc'[q] = "idle" => op'[q] = None
    BY <1>2 DEF SecretInv, SetupsKnown
  <2>2. ASSUME NEW s \in Requests, NEW c \in Requests, op'[s] = "setup", op'[c] = "confirm",
               Running(s)', Running(c)'
        PROVE  s \in during'[c]
    <3>1. CASE s # r /\ c # r
      <4>1. s \in during[c]
        BY <1>2, <2>2, <3>1 DEF SecretInv, SetupsKnown, Running
      <4> QED
        BY <1>2, <3>1, <4>1
    <3>2. CASE s = r /\ c # r
      BY <1>2, <1>4, <2>2, <3>2 DEF Running
    <3>3. CASE s # r /\ c = r
      BY <1>2, <1>4, <2>2, <3>3 DEF Running
    <3> QED
      BY <2>2, <3>1, <3>2, <3>3
  <2> QED
    BY <2>1, <2>2 DEF SetupsKnown
<1>6. RowsThere'
  BY <1>2 DEF SecretInv, RowsThere
<1>7. Confirming' /\ SettingUp'
  BY <1>2, <1>3 DEF SecretInv, Confirming, SettingUp
<1>8. \A u \in DOMAIN users' : Confirmed(u)'
  BY <1>3 DEF SecretInv, Confirmed
<1> QED
  BY <1>5, <1>6, <1>7, <1>8 DEF SecretInv

LEMMA OverlapStays ==
  ASSUME Known, NEW r \in Requests, GoesOn(r)
  PROVE  \A u : Overlap(u) => Overlap(u)'
BY DEF GoesOn, Overlap

LEMMA SetupsStayKnown ==
  ASSUME Known, SetupsKnown, NEW r \in Requests, GoesOn(r)
  PROVE  SetupsKnown'
BY DEF GoesOn, SetupsKnown, Running

(* A request that goes on and writes neither rows nor tokens.                 *)
LEMMA SecretGoOn ==
  ASSUME Known, SecretInv, NEW r \in Requests, GoesOn(r), UNCHANGED <<users, tokens, confirmed>>,
         pc'[r] = "compare" => row'[r] \in DOMAIN users,
         pc'[r] = "session" => pc[r] = "compare" /\ row'[r] = row[r],
         pc'[r] = "update" =>
           \/ /\ op[r] = "confirm"
              /\ users[row[r]].secret # NoSecret /\ users[row[r]].secret.plain = secret'[r]
           \/ op[r] = "setup" /\ ~users[row[r]].mfaEnabled
  PROVE  SecretInv'
<1>1. (\A u : Overlap(u) => Overlap(u)') /\ SetupsKnown'
  BY OverlapStays, SetupsStayKnown DEF SecretInv
<1>2. RowsThere'
  BY DEF SecretInv, RowsThere, GoesOn
<1>3. Confirming'
  BY <1>1 DEF SecretInv, Confirming, GoesOn
<1>4. SettingUp'
  BY <1>1 DEF SecretInv, SettingUp, GoesOn
<1>5. \A u \in DOMAIN users' : Confirmed(u)'
  BY <1>1 DEF SecretInv, Confirmed
<1> QED
  BY <1>1, <1>2, <1>3, <1>4, <1>5 DEF SecretInv

(* A row is made, or a session.                                               *)
LEMMA SecretCreate ==
  ASSUME Known, SecretInv, NEW r \in Requests, CreateTenantAndUser(r) \/ CreateSession(r)
  PROVE  SecretInv'
<1>1. CASE CreateTenantAndUser(r)
  <2>1. /\ pc[r] = "hash" /\ pc' = [pc EXCEPT ![r] = "over"]
        /\ users' = [u \in DOMAIN users \cup {r} |-> IF u = r THEN NoRow ELSE users[u]]
        /\ UNCHANGED <<op, during, tokens, confirmed, row, user, secret>>
    BY <1>1 DEF CreateTenantAndUser, End, Goto
  <2>2. r \notin DOMAIN users
    BY <2>1, FirstIsOver DEF Known, RowsAreOver
  <2>3. GoesOn(r) /\ pc'[r] = "over"
    BY <2>1 DEF Known, RegisterFunctions, GoesOn
  <2>4. (\A u : Overlap(u) => Overlap(u)') /\ SetupsKnown'
    BY <2>3, OverlapStays, SetupsStayKnown DEF SecretInv
  <2>5. RowsThere'
    BY <2>1, <2>3 DEF SecretInv, RowsThere, GoesOn
  <2>6. \A u \in DOMAIN users : users'[u] = users[u]
    BY <2>1, <2>2
  <2>7. Confirming' /\ SettingUp'
    BY <2>1, <2>3, <2>4, <2>6 DEF SecretInv, RowsThere, Confirming, SettingUp, GoesOn
  <2>8. \A u \in DOMAIN users' : Confirmed(u)'
    BY <2>1, <2>2, <2>4 DEF SecretInv, Confirmed, NoRow
  <2> QED
    BY <2>4, <2>5, <2>7, <2>8 DEF SecretInv
<1>2. CASE CreateSession(r)
  <2>1. /\ pc[r] = "session" /\ pc' = [pc EXCEPT ![r] = "over"]
        /\ tokens' = [tokens EXCEPT ![r] = [user |-> row[r], mfaVerified |-> user[r].mfaEnabled]]
        /\ UNCHANGED <<op, during, users, confirmed, row, user, secret>>
    BY <1>2 DEF CreateSession, End, Goto
  <2>2. GoesOn(r) /\ pc'[r] = "over"
    BY <2>1 DEF Known, RegisterFunctions, GoesOn
  <2>3. (\A u : Overlap(u) => Overlap(u)') /\ SetupsKnown'
    BY <2>2, OverlapStays, SetupsStayKnown DEF SecretInv
  <2>4. \A l \in Rows : tokens'[l] = tokens[l] \/ tokens'[l].user = row[r]
    BY <2>1 DEF Known, AccountFunctions
  <2>5. RowsThere'
    BY <2>1, <2>2, <2>4 DEF SecretInv, RowsThere, GoesOn
  <2>6. Confirming' /\ SettingUp'
    BY <2>1, <2>2, <2>3 DEF SecretInv, Confirming, SettingUp, GoesOn
  <2>7. \A u \in DOMAIN users' : Confirmed(u)'
    BY <2>1, <2>3 DEF SecretInv, Confirmed
  <2> QED
    BY <2>3, <2>5, <2>6, <2>7 DEF SecretInv
<1> QED
  BY <1>1, <1>2

(* The update of a set-up: what it spoils, it has overlapped with.            *)
LEMMA SecretSetup ==
  ASSUME Known, SecretInv, NEW r \in Requests, SetupUpdate(r)
  PROVE  SecretInv'
<1>1. /\ pc[r] = "update" /\ op[r] = "setup" /\ pc' = [pc EXCEPT ![r] = "over"]
      /\ users' = [users EXCEPT ![row[r]].secret = user[r].secret]
      /\ UNCHANGED <<op, during, tokens, confirmed, row, user, secret>>
  BY DEF SetupUpdate, End, Goto
<1>2. GoesOn(r) /\ pc'[r] = "over"
  BY <1>1 DEF Known, RegisterFunctions, GoesOn
<1>3. (\A u : Overlap(u) => Overlap(u)') /\ SetupsKnown'
  BY <1>2, OverlapStays, SetupsStayKnown DEF SecretInv
<1>4. /\ DOMAIN users' = DOMAIN users
      /\ \A u \in DOMAIN users : u # row[r] => users'[u] = users[u]
      /\ \A u \in DOMAIN users : users'[u].mfaEnabled = users[u].mfaEnabled
  BY <1>1 DEF Known, AccountFunctions
<1>5. RowsThere'
  BY <1>1, <1>2, <1>4 DEF SecretInv, RowsThere, GoesOn
<1>6. ASSUME NEW c \in Requests, op[c] = "confirm", Running(c), row[c] = row[r]
      PROVE  Overlap(row[r])
  <2>1. r \in during[c]
    BY <1>1, <1>6 DEF SecretInv, SetupsKnown, Running
  <2> QED
    BY <1>1, <1>6, <2>1 DEF Overlap
<1>7. Confirming'
  <2> SUFFICES ASSUME NEW c \in Requests, op'[c] = "confirm", pc'[c] = "update"
               PROVE  \/ /\ users'[row'[c]].secret # NoSecret
                         /\ users'[row'[c]].secret.plain = secret'[c]
                      \/ Overlap(row[c])
    BY <1>1, <1>3 DEF Confirming
  <2>1. op[c] = "confirm" /\ pc[c] = "update" /\ row[c] \in DOMAIN users
    BY <1>1, <1>2 DEF GoesOn, SecretInv, RowsThere
  <2>2. CASE row[c] = row[r]
    BY <1>6, <2>1, <2>2 DEF Running
  <2>3. CASE row[c] # row[r]
    BY <1>1, <1>4, <2>1, <2>3 DEF SecretInv, Confirming
  <2> QED
    BY <2>2, <2>3
<1>8. SettingUp'
  BY <1>1, <1>2, <1>3, <1>4 DEF SecretInv, RowsThere, SettingUp, GoesOn
<1>9. ASSUME NEW u \in DOMAIN users' PROVE Confirmed(u)'
  <2>1. CASE u = row[r]
    BY <1>1, <1>3, <1>4, <2>1 DEF SecretInv, SettingUp, Confirmed
  <2>2. CASE u # row[r]
    BY <1>1, <1>3, <1>4, <2>2 DEF SecretInv, Confirmed
  <2> QED
    BY <2>1, <2>2
<1> QED
  BY <1>3, <1>5, <1>7, <1>8, <1>9 DEF SecretInv

(* The update of a confirmation.                                              *)
LEMMA SecretConfirm ==
  ASSUME Known, SecretInv, NEW r \in Requests, ConfirmUpdate(r)
  PROVE  SecretInv'
<1>1. /\ pc[r] = "update" /\ op[r] = "confirm" /\ pc' = [pc EXCEPT ![r] = "over"]
      /\ users' = [users EXCEPT ![row[r]].mfaEnabled = TRUE]
      /\ confirmed' = confirmed \cup {secret[r]}
      /\ UNCHANGED <<op, during, tokens, row, user, secret>>
  BY DEF ConfirmUpdate, End, Goto
<1>2. GoesOn(r) /\ pc'[r] = "over"
  BY <1>1 DEF Known, RegisterFunctions, GoesOn
<1>3. (\A u : Overlap(u) => Overlap(u)') /\ SetupsKnown'
  BY <1>2, OverlapStays, SetupsStayKnown DEF SecretInv
<1>4. /\ DOMAIN users' = DOMAIN users
      /\ \A u \in DOMAIN users : u # row[r] => users'[u] = users[u]
      /\ \A u \in DOMAIN users : users'[u].secret = users[u].secret
  BY <1>1 DEF Known, AccountFunctions
<1>5. RowsThere'
  BY <1>1, <1>2, <1>4 DEF SecretInv, RowsThere, GoesOn
<1>6. Confirming'
  BY <1>1, <1>2, <1>3, <1>4 DEF SecretInv, RowsThere, Confirming, GoesOn
<1>7. SettingUp'
  <2> SUFFICES ASSUME NEW s \in Requests, op'[s] = "setup", pc'[s] = "update"
               PROVE  ~users'[row'[s]].mfaEnabled \/ Overlap(row[s])
    BY <1>1, <1>3 DEF SettingUp
  <2>1. op[s] = "setup" /\ pc[s] = "update" /\ row[s] \in DOMAIN users
    BY <1>1, <1>2 DEF GoesOn, SecretInv, RowsThere
  <2>2. CASE row[s] = row[r]
    <3>1. s \in during[r]
      BY <1>1, <2>1 DEF SecretInv, SetupsKnown, Running
    <3> QED
      BY <1>1, <2>1, <2>2, <3>1 DEF Overlap
  <2>3. CASE row[s] # row[r]
    BY <1>1, <1>4, <2>1, <2>3 DEF SecretInv, SettingUp
  <2> QED
    BY <2>2, <2>3
<1>8. ASSUME NEW u \in DOMAIN users' PROVE Confirmed(u)'
  <2>1. CASE u = row[r]
    <3>1. u \in DOMAIN users /\ users'[u].secret = users[u].secret
      BY <1>4
    <3>2. (users[u].secret # NoSecret /\ users[u].secret.plain = secret[r]) \/ Overlap(u)
      BY <1>1, <2>1 DEF SecretInv, Confirming
    <3>3. secret[r] \in confirmed'
      BY <1>1
    <3> QED
      BY <1>3, <3>1, <3>2, <3>3 DEF Confirmed
  <2>2. CASE u # row[r]
    BY <1>1, <1>3, <1>4, <2>2 DEF SecretInv, Confirmed
  <2> QED
    BY <2>1, <2>2
<1> QED
  BY <1>3, <1>5, <1>6, <1>7, <1>8 DEF SecretInv

LEMMA SecretStep ==
  ASSUME Known, SecretInv, NEW r \in Requests, Handle(r)
  PROVE  SecretInv'
<1>1. CASE Approach(r) \/ Register(r)
  <2>1. /\ \E what \in Ops \ {"setup", "confirm"}, there \in {"find", "edge"} : Begin(r, what, there)
        /\ UNCHANGED <<users, tokens, confirmed, row, secret>>
    BY <1>1 DEF Approach, Register, Ops, tables
  <2> QED
    BY <2>1, SecretBegin
<1>2. CASE Behind(r)
  <2>1. PICK what \in Ops, l \in Rows :
          /\ tokens[l] # NoToken /\ Begin(r, what, "guard")
          /\ row' = [row EXCEPT ![r] = tokens[l].user]
          /\ secret' = [secret EXCEPT ![r] = l]
          /\ UNCHANGED <<users, tokens, confirmed>>
    BY <1>2 DEF Behind, Ops, tables
  <2>2. row'[r] \in DOMAIN users
    BY <2>1 DEF Known, AccountFunctions, SecretInv, RowsThere
  <2> QED
    BY <2>1, <2>2, SecretBegin
<1>3. CASE CreateTenantAndUser(r) \/ CreateSession(r)
  BY <1>3, SecretCreate
<1>4. CASE SetupUpdate(r)
  BY <1>4, SecretSetup
<1>5. CASE ConfirmUpdate(r)
  BY <1>5, SecretConfirm
<1>6. CASE \/ QueryFails(r) \/ Turned(r) \/ Unproven(r) \/ Proven(r) \/ RegisterFind(r)
           \/ Validate(r) \/ Logout(r) \/ TransferLock(r) \/ TransferRelease(r)
  <2>1. /\ Running(r) /\ UNCHANGED <<op, during, users, tokens, confirmed, row, secret>>
        /\ \E there \in Places \ {"idle", "compare", "session", "update"} :
             pc' = [pc EXCEPT ![r] = there]
    <3>1. CASE QueryFails(r) \/ Turned(r) \/ RegisterFind(r)
      BY <3>1 DEF QueryFails, Turned, RegisterFind, Goto, End, Places, tables, Running
    <3>2. CASE Unproven(r) \/ Proven(r)
      BY <3>2 DEF Unproven, Proven, PastEdge, Goto, End, Places, tables, Running
    <3>3. CASE Validate(r) \/ Logout(r)
      BY <3>3 DEF Validate, Logout, Goto, End, Places, tables, Running
    <3>4. CASE TransferLock(r) \/ TransferRelease(r)
      BY <3>4 DEF TransferLock, TransferRelease, Goto, End, Places, tables, Running
    <3> QED
      BY <1>6, <3>1, <3>2, <3>3, <3>4
  <2>2. GoesOn(r) /\ pc'[r] \notin {"compare", "session", "update"}
    BY <2>1 DEF Known, RegisterFunctions, GoesOn, Running
  <2> QED
    BY <2>1, <2>2, SecretGoOn
<1>7. CASE LoginFind(r)
  <2>1. /\ pc[r] = "find" /\ op[r] = "login"
        /\ UNCHANGED <<op, during, users, tokens, confirmed, secret>>
        /\ \/ pc' = [pc EXCEPT ![r] = "over"] /\ row' = row
           \/ \E u \in DOMAIN users : /\ row' = [row EXCEPT ![r] = u]
                                      /\ pc' = [pc EXCEPT ![r] = "compare"]
    BY <1>7 DEF LoginFind, Goto, End, tables
  <2>2. /\ GoesOn(r) /\ pc'[r] \in {"over", "compare"}
        /\ pc'[r] = "compare" => row'[r] \in DOMAIN users
    BY <2>1 DEF Known, AccountFunctions, RegisterFunctions, GoesOn
  <2> QED
    BY <2>1, <2>2, SecretGoOn
<1>8. CASE LoginCompare(r)
  <2>1. /\ pc[r] = "compare" /\ UNCHANGED <<op, during, users, tokens, confirmed, row>>
        /\ \E there \in {"over", "session"} : pc' = [pc EXCEPT ![r] = there]
        /\ secret' = secret \/ \E code : secret' = [secret EXCEPT ![r] = code]
    BY <1>8 DEF LoginCompare, Goto, End, tables
  <2>2. GoesOn(r) /\ pc'[r] \in {"over", "session"}
    BY <2>1 DEF Known, AccountFunctions, RegisterFunctions, GoesOn
  <2> QED
    BY <2>1, <2>2, SecretGoOn
<1>9. CASE SetupFind(r)
  <2>1. /\ pc[r] = "find" /\ op[r] = "setup"
        /\ UNCHANGED <<op, during, users, tokens, confirmed, row, secret>>
        /\ \/ pc' = [pc EXCEPT ![r] = "over"]
           \/ ~users[row[r]].mfaEnabled /\ pc' = [pc EXCEPT ![r] = "update"]
    BY <1>9 DEF SetupFind, Goto, End, tables
  <2>2. /\ GoesOn(r) /\ pc'[r] \in {"over", "update"}
        /\ pc'[r] = "update" => ~users[row[r]].mfaEnabled
    BY <2>1 DEF Known, RegisterFunctions, GoesOn
  <2> QED
    BY <2>1, <2>2, SecretGoOn
<1>10. CASE ConfirmFind(r)
  <2>1. /\ pc[r] = "find" /\ op[r] = "confirm"
        /\ UNCHANGED <<op, during, users, tokens, confirmed, row>>
        /\ \/ pc' = [pc EXCEPT ![r] = "over"] /\ secret' = secret
           \/ \E code : /\ users[row[r]].secret # NoSecret /\ users[row[r]].secret.plain = code
                        /\ secret' = [secret EXCEPT ![r] = code]
                        /\ pc' = [pc EXCEPT ![r] = "update"]
    BY <1>10 DEF ConfirmFind, CodeAccepted, Goto, End, tables
  <2>2. /\ GoesOn(r) /\ pc'[r] \in {"over", "update"}
        /\ pc'[r] = "update" =>
             users[row[r]].secret # NoSecret /\ users[row[r]].secret.plain = secret'[r]
    BY <2>1 DEF Known, AccountFunctions, RegisterFunctions, GoesOn
  <2>3. secret' = secret \/ \E code : secret' = [secret EXCEPT ![r] = code]
    BY <2>1
  <2> QED
    BY <2>1, <2>2, <2>3, SecretGoOn
<1> QED
  BY <1>1, <1>2, <1>3, <1>4, <1>5, <1>6, <1>7, <1>8, <1>9, <1>10 DEF Handle

(* The invariant holds.                                                       *)
LEMMA SecretInvHolds == Spec => []SecretInv
<1>1. Init => SecretInv
  <2> SUFFICES ASSUME Init PROVE SecretInv
    OBVIOUS
  <2>1. pc = [r \in Requests |-> "idle"] /\ op = [r \in Requests |-> None]
    BY DEF Init
  <2>2. SetupsKnown /\ Confirming /\ SettingUp
    BY <2>1 DEF SetupsKnown, Running, Confirming, SettingUp, None
  <2>3. CASE /\ users = [u \in {} |-> NoRow]
             /\ tokens = [l \in Rows |-> NoToken]
    BY <2>1, <2>2, <2>3 DEF SecretInv, RowsThere, None
  <2>4. CASE /\ \E s \in {NoSecret, Encrypt(First)}, on \in BOOLEAN :
                  /\ on => s # NoSecret
                  /\ users = [u \in {First} |-> [secret |-> s, mfaEnabled |-> on]]
                  /\ confirmed = IF on THEN {First} ELSE {}
             /\ tokens = [l \in Rows |-> IF l = First
                                           THEN [user |-> First, mfaVerified |-> FALSE]
                                           ELSE NoToken]
    <3>1. PICK s \in {NoSecret, Encrypt(First)}, on \in BOOLEAN :
            /\ on => s # NoSecret
            /\ users = [u \in {First} |-> [secret |-> s, mfaEnabled |-> on]]
            /\ confirmed = IF on THEN {First} ELSE {}
      BY <2>4, Zenon
    <3>2. /\ DOMAIN users = {First}
          /\ users[First].secret = s /\ users[First].mfaEnabled = on
      BY <3>1
    <3>3. on => s # NoSecret /\ s.plain = First /\ confirmed = {First}
      BY <3>1 DEF Encrypt
    <3>4. \A u \in DOMAIN users : Confirmed(u)
      BY <3>2, <3>3 DEF Confirmed
    <3>5. \A l \in Rows : tokens[l] # NoToken => tokens[l].user = First
      BY <2>4
    <3>6. RowsThere
      BY <2>1, <3>2, <3>5 DEF RowsThere, None
    <3> QED
      BY <2>2, <3>4, <3>6 DEF SecretInv
  <2> QED
    BY <2>3, <2>4, Zenon DEF Init
<1>2. Known /\ SecretInv /\ [Next]_vars => SecretInv'
  <2> SUFFICES ASSUME Known, SecretInv, [Next]_vars PROVE SecretInv'
    OBVIOUS
  <2>1. CASE \E r \in Requests : Handle(r)
    BY <2>1, SecretStep
  <2>2. CASE UNCHANGED authVars
    BY <2>2 DEF authVars, SecretInv, SetupsKnown, Running, RowsThere, Confirming, SettingUp,
                Confirmed, Overlap
  <2> QED
    BY <2>1, <2>2 DEF Next, VaultAct, Tick, RedisExpires, vars
<1>3. MfaInv /\ RegisterInv => Known
  BY DEF MfaInv, RegisterInv, Known
<1> QED
  BY <1>1, <1>2, <1>3, MfaInvHolds, RegisterInvHolds, PTL DEF Spec

(* With MFA on, the secret in the row is one whose owner has proved to have   *)
(* it, unless a set-up and a confirmation of the row overlapped.              *)
THEOREM SecretsAreConfirmed == Spec => []MfaSecretConfirmed
<1>1. SecretInv => MfaSecretConfirmed
  BY DEF SecretInv, Confirmed, Overlap, MfaSecretConfirmed
<1> QED
  BY <1>1, SecretInvHolds, PTL
-------------------------------------------------------------------------------
(* The vault                                                                  *)

\* What is lost is not loaded; the active version is, unless the vault is shredded.
KeysKept ==
  /\ \A v \in DOMAIN keys : <<v, keys[v]>> \notin lostKeys
  /\ ~isKeyShredded => activeVersion \in DOMAIN keys

\* What was encrypted, was so with a key that is loaded under its version, or lost.
Sealed(e) ==
  \/ e = NoSecret
  \/ <<e.version, e.key>> \in lostKeys
  \/ e.version \in DOMAIN keys /\ e.key = keys[e.version]

VaultInv ==
  /\ KeysKept
  /\ \A u \in DOMAIN users : Sealed(users[u].secret)
  /\ \A r \in Requests : op[r] = "setup" /\ pc[r] = "update" => Sealed(user[r].secret)

(* Shredding and restoring leave what is sealed sealed: a key that is no      *)
(* longer loaded is lost, until it is loaded again.                           *)
LEMMA VaultActKeeps ==
  ASSUME VaultInv, VaultAct
  PROVE  VaultInv'
<1>1. UNCHANGED <<users, user, op, pc>>
  BY DEF VaultAct, authVars
<1>2. /\ lostKeys' = (lostKeys \cup Loaded) \ Loaded'
      /\ ~isKeyShredded' => activeVersion' \in DOMAIN keys'
  <2>1. CASE CryptoShred
    BY <2>1 DEF CryptoShred, SomeAreLost
  <2>2. CASE \E k \in MasterKeys, v \in Versions : RestoreKey(k, v)
    <3>1. PICK k \in MasterKeys, v \in Versions : RestoreKey(k, v)
      BY <2>2
    <3> QED
      BY <3>1 DEF RestoreKey, NewKeys, SomeAreLost
  <2> QED
    BY <2>1, <2>2 DEF VaultAct
<1>3. KeysKept'
  BY <1>2 DEF KeysKept, Loaded
<1>4. ASSUME NEW e, Sealed(e) PROVE Sealed(e)'
  <2>1. CASE e = NoSecret
    BY <2>1 DEF Sealed
  <2>2. CASE <<e.version, e.key>> \in Loaded'
    <3>1. PICK v \in DOMAIN keys' : <<e.version, e.key>> = <<v, keys'[v]>>
      BY <2>2 DEF Loaded
    <3>2. e.version = v /\ e.key = keys'[v]
      BY <3>1
    <3> QED
      BY <3>2 DEF Sealed
  <2>3. CASE <<e.version, e.key>> \in lostKeys \cup Loaded /\ <<e.version, e.key>> \notin Loaded'
    BY <1>2, <2>3 DEF Sealed
  <2>4. e # NoSecret => <<e.version, e.key>> \in lostKeys \cup Loaded
    BY <1>4 DEF Sealed, Loaded
  <2> QED
    BY <2>1, <2>2, <2>3, <2>4
<1> QED
  BY <1>1, <1>3, <1>4 DEF VaultInv

(* What encrypt() returns is sealed.                                          *)
LEMMA EncryptSeals ==
  ASSUME VaultInv, CanEncrypt, NEW plain
  PROVE  Sealed(Encrypt(plain))
BY DEF VaultInv, KeysKept, CanEncrypt, Encrypt, Sealed

LEMMA VaultHandleKeeps ==
  ASSUME Known, SecretInv, VaultInv, NEW r \in Requests, Handle(r)
  PROVE  VaultInv'
<1>1. CASE SetupFind(r)
  <2>1. /\ pc[r] = "find" /\ op[r] = "setup" /\ UNCHANGED <<vaultVars, users, op>>
        /\ row[r] \in DOMAIN users
    BY <1>1 DEF SetupFind, rest, tables, SecretInv, RowsThere
  <2>2. \/ pc' = [pc EXCEPT ![r] = "over"] /\ user' = user
        \/ /\ CanEncrypt /\ pc' = [pc EXCEPT ![r] = "update"]
           /\ user' = [user EXCEPT ![r] = [users[row[r]] EXCEPT !.secret = Encrypt(r)]]
    BY <1>1 DEF SetupFind, Goto, End
  <2>3. \A q \in Requests \ {r} : pc'[q] = pc[q] /\ user'[q] = user[q]
    BY <2>2 DEF Known, AccountFunctions
  <2>4. pc'[r] = "update" => CanEncrypt /\ user'[r].secret = Encrypt(r)
    BY <2>1, <2>2 DEF Known, AccountFunctions
  <2>5. \A e : Sealed(e) => Sealed(e)'
    BY <2>1 DEF vaultVars, Sealed
  <2>6. KeysKept'
    BY <2>1 DEF vaultVars, VaultInv, KeysKept
  <2>7. pc'[r] = "update" => Sealed(user'[r].secret)
    BY <2>4, EncryptSeals
  <2> QED
    BY <2>1, <2>3, <2>5, <2>6, <2>7 DEF VaultInv
<1>2. CASE SetupUpdate(r)
  <2>1. /\ pc[r] = "update" /\ op[r] = "setup" /\ pc' = [pc EXCEPT ![r] = "over"]
        /\ UNCHANGED <<vaultVars, user, op>>
        /\ users' = [users EXCEPT ![row[r]].secret = user[r].secret]
    BY <1>2 DEF SetupUpdate, End, Goto, rest
  <2>2. /\ DOMAIN users' = DOMAIN users
        /\ \A u \in DOMAIN users : users'[u].secret \in {users[u].secret, user[r].secret}
    BY <2>1 DEF Known, AccountFunctions
  <2>3. \A q \in Requests : pc'[q] = "update" => pc[q] = "update"
    BY <2>1 DEF Known, AccountFunctions
  <2>4. (\A e : Sealed(e) => Sealed(e)') /\ KeysKept'
    BY <2>1 DEF vaultVars, Sealed, VaultInv, KeysKept
  <2> QED
    BY <2>1, <2>2, <2>3, <2>4 DEF VaultInv
<1>3. CASE ConfirmUpdate(r) \/ CreateTenantAndUser(r)
  <2>1. /\ pc[r] \in {"update", "hash"} /\ pc' = [pc EXCEPT ![r] = "over"]
        /\ UNCHANGED <<vaultVars, user, op>>
    BY <1>3 DEF ConfirmUpdate, CreateTenantAndUser, End, Goto, rest
  <2>2. \A u \in DOMAIN users' : users'[u].secret = NoSecret
                                 \/ (u \in DOMAIN users /\ users'[u].secret = users[u].secret)
    <3>1. CASE ConfirmUpdate(r)
      <4>1. users' = [users EXCEPT ![row[r]].mfaEnabled = TRUE]
        BY <3>1 DEF ConfirmUpdate
      <4> QED
        BY <4>1 DEF Known, AccountFunctions
    <3>2. CASE CreateTenantAndUser(r)
      <4>1. users' = [u \in DOMAIN users \cup {r} |-> IF u = r THEN NoRow ELSE users[u]]
        BY <3>2 DEF CreateTenantAndUser
      <4> QED
        BY <4>1 DEF NoRow
    <3> QED
      BY <1>3, <3>1, <3>2
  <2>3. \A q \in Requests : pc'[q] = "update" => pc[q] = "update"
    BY <2>1 DEF Known, AccountFunctions
  <2>4. (\A e : Sealed(e) => Sealed(e)') /\ KeysKept' /\ Sealed(NoSecret)'
    BY <2>1 DEF vaultVars, Sealed, VaultInv, KeysKept
  <2> QED
    BY <2>1, <2>2, <2>3, <2>4 DEF VaultInv
<1>4. ASSUME UNCHANGED <<vaultVars, users>>,
             \A q \in Requests : op'[q] = "setup" /\ pc'[q] = "update" =>
               op[q] = "setup" /\ pc[q] = "update" /\ user'[q] = user[q]
      PROVE  VaultInv'
  BY <1>4 DEF vaultVars, VaultInv, KeysKept, Sealed
<1>5. CASE Approach(r) \/ Register(r) \/ Behind(r)
  <2>1. /\ UNCHANGED <<vaultVars, users, user>>
        /\ \E what \in Ops, there \in {"find", "edge", "guard"} : Begin(r, what, there)
    BY <1>5 DEF Approach, Register, Behind, rest, tables, Ops
  <2>2. /\ \A q \in Requests \ {r} : pc'[q] = pc[q] /\ op'[q] = op[q]
        /\ pc'[r] # "update"
    BY <2>1 DEF Begin, Goto, Known, AccountFunctions, RegisterFunctions
  <2> QED
    BY <1>4, <2>1, <2>2
<1>6. CASE \/ QueryFails(r) \/ Turned(r) \/ Unproven(r) \/ Proven(r) \/ RegisterFind(r)
           \/ Validate(r) \/ Logout(r) \/ TransferLock(r) \/ TransferRelease(r) \/ CreateSession(r)
           \/ LoginCompare(r)
  <2>1. /\ UNCHANGED <<vaultVars, users, user, op>>
        /\ \E there \in Places \ {"update"} : pc' = [pc EXCEPT ![r] = there]
    <3>1. CASE QueryFails(r) \/ Turned(r) \/ RegisterFind(r)
      BY <3>1 DEF QueryFails, Turned, RegisterFind, Goto, End, Places, tables, rest
    <3>2. CASE Unproven(r) \/ Proven(r)
      BY <3>2 DEF Unproven, Proven, PastEdge, Goto, End, Places, tables
    <3>3. CASE Validate(r) \/ Logout(r)
      BY <3>3 DEF Validate, Logout, Goto, End, Places, tables, rest
    <3>4. CASE TransferLock(r) \/ TransferRelease(r)
      BY <3>4 DEF TransferLock, TransferRelease, Goto, End, Places, tables
    <3>5. CASE CreateSession(r) \/ LoginCompare(r)
      BY <3>5 DEF CreateSession, LoginCompare, Goto, End, Places, tables, rest
    <3> QED
      BY <1>6, <3>1, <3>2, <3>3, <3>4, <3>5
  <2>2. \A q \in Requests : pc'[q] = "update" => pc[q] = "update"
    BY <2>1 DEF Known, AccountFunctions
  <2> QED
    BY <1>4, <2>1, <2>2
<1>7. CASE LoginFind(r) \/ ConfirmFind(r)
  <2>1. /\ UNCHANGED <<vaultVars, users, op>> /\ op[r] \in {"login", "confirm"}
        /\ \E there \in Places : pc' = [pc EXCEPT ![r] = there]
        /\ user' = user \/ \E a : user' = [user EXCEPT ![r] = a]
    BY <1>7 DEF LoginFind, ConfirmFind, Goto, End, Places, tables, rest
  <2>2. \A q \in Requests \ {r} : pc'[q] = pc[q] /\ user'[q] = user[q]
    BY <2>1 DEF Known, AccountFunctions
  <2> QED
    BY <1>4, <2>1, <2>2
<1> QED
  BY <1>1, <1>2, <1>3, <1>5, <1>6, <1>7 DEF Handle

(* Whatever is shredded and restored, in the middle of set-ups and logins     *)
(* too: a vault that is not shredded can encrypt, and it fails to open only   *)
(* what was written with a key it has lost.                                   *)
THEOREM VaultStaysUsable == Spec => []VaultUsable
<1>1. Init => VaultInv
  <2> SUFFICES ASSUME Init PROVE VaultInv
    OBVIOUS
  <2>1. /\ pc = [r \in Requests |-> "idle"]
        /\ keys = InitialKeys /\ activeVersion = InitialVersion
    BY DEF Init, VaultInit
  <2>2. KeysKept
    BY <2>1, VaultAssumption DEF KeysKept, Init, VaultInit
  <2>3. Sealed(NoSecret) /\ Sealed(Encrypt(First))
    BY <2>1, VaultAssumption DEF Sealed, Encrypt
  <2>4. \A u \in DOMAIN users : users[u].secret \in {NoSecret, Encrypt(First)}
    <3>1. CASE users = [u \in {} |-> NoRow]
      BY <3>1
    <3>2. CASE \E s \in {NoSecret, Encrypt(First)}, on \in BOOLEAN :
                 /\ on => s # NoSecret
                 /\ users = [u \in {First} |-> [secret |-> s, mfaEnabled |-> on]]
                 /\ confirmed = IF on THEN {First} ELSE {}
      <4>1. PICK s \in {NoSecret, Encrypt(First)}, on \in BOOLEAN :
              users = [u \in {First} |-> [secret |-> s, mfaEnabled |-> on]]
        BY <3>2, Zenon
      <4>2. DOMAIN users = {First} /\ users[First].secret = s
        BY <4>1
      <4> QED
        BY <4>2
    <3> QED
      BY <3>1, <3>2, Zenon DEF Init
  <2> QED
    BY <2>1, <2>2, <2>3, <2>4 DEF VaultInv
<1>2. Known /\ SecretInv /\ VaultInv /\ [Next]_vars => VaultInv'
  <2> SUFFICES ASSUME Known, SecretInv, VaultInv, [Next]_vars PROVE VaultInv'
    OBVIOUS
  <2>1. CASE \E r \in Requests : Handle(r)
    BY <2>1, VaultHandleKeeps
  <2>2. CASE VaultAct
    BY <2>2, VaultActKeeps
  <2>3. CASE UNCHANGED <<authVars, vaultVars>>
    BY <2>3 DEF authVars, vaultVars, VaultInv, KeysKept, Sealed
  <2> QED
    BY <2>1, <2>2, <2>3 DEF Next, Tick, RedisExpires, vars
<1>3. VaultInv => VaultUsable
  BY DEF VaultInv, KeysKept, Sealed, VaultUsable, CanEncrypt, CanDecrypt
<1>4. MfaInv /\ RegisterInv => Known
  BY DEF MfaInv, RegisterInv, Known
<1> QED
  BY <1>1, <1>2, <1>3, <1>4, MfaInvHolds, RegisterInvHolds, SecretInvHolds, PTL DEF Spec
-------------------------------------------------------------------------------
(* The lock of a transaction                                                  *)

\* The key is kept in Redis where there is one, else in memory, and whoever holds it is alone.
LockKept ==
  redisFailed \/ lockExpired \/
    /\ redis => ~activeLocks
    /\ ~redis => lockExpiry = Unlocked
    /\ \A p, q \in Holders : p = q
    /\ (Holders # {}) = (activeLocks \/ lockExpiry # Unlocked)

LockInv == pc \in [Requests -> Places] /\ now \in Nat /\ LockTypeOK /\ LockKept

(* Acquiring gives the lock to one who has it alone.                          *)
LEMMA AcquireKeeps ==
  ASSUME LockInv, NEW r \in Requests, TransferLock(r)
  PROVE  LockInv'
<1>1. PICK acquired \in BOOLEAN :
        /\ AcquireLock(now, acquired)
        /\ IF acquired THEN Goto(r, "hold") ELSE End(r)
  BY DEF TransferLock
<1>2. pc[r] = "lock" /\ now' = now
  BY DEF TransferLock
<1>3. /\ pc' \in [Requests -> Places]
      /\ pc'[r] = IF acquired THEN "hold" ELSE "over"
      /\ \A q \in Requests \ {r} : pc'[q] = pc[q]
  BY <1>1 DEF LockInv, Goto, End, Places
<1>4. Holders' = IF acquired THEN Holders \cup {r} ELSE Holders
  BY <1>2, <1>3 DEF Holders
<1>5. now + LOCK_TTL \in Int /\ now + LOCK_TTL # Unlocked
  BY LockAssumption DEF LockInv, Unlocked
<1>6. LockTypeOK'
  BY <1>1, <1>5 DEF LockInv, LockTypeOK, AcquireLock, RedisAnswers, InMemory, RedisFails
<1>7. LockKept'
  <2>1. CASE redisFailed' \/ lockExpired'
    BY <2>1 DEF LockKept
  <2>2. CASE ~redisFailed' /\ ~lockExpired'
    <3>1. /\ redis' = redis /\ ~redisFailed /\ ~lockExpired
          /\ redis => ~activeLocks
          /\ ~redis => lockExpiry = Unlocked
          /\ \A p, q \in Holders : p = q
          /\ (Holders # {}) = (activeLocks \/ lockExpiry # Unlocked)
      BY <1>1, <2>2 DEF LockInv, LockTypeOK, LockKept, AcquireLock, RedisAnswers, InMemory, RedisFails
    <3>2. CASE redis
      <4>1. /\ acquired = (lockExpiry = Unlocked) /\ activeLocks' = activeLocks
            /\ lockExpiry' = IF acquired THEN now + LOCK_TTL ELSE lockExpiry
        BY <1>1, <2>2, <3>2 DEF AcquireLock, RedisAnswers, InMemory, RedisFails
      <4>2. CASE acquired
        <5>1. Holders = {} /\ lockExpiry' # Unlocked
          BY <1>5, <3>1, <3>2, <4>1, <4>2
        <5>2. Holders' = {r}
          BY <1>4, <4>2, <5>1
        <5> QED
          BY <3>1, <3>2, <4>1, <5>1, <5>2 DEF LockKept
      <4>3. CASE ~acquired
        BY <1>4, <3>1, <3>2, <4>1, <4>3 DEF LockKept
      <4> QED
        BY <4>2, <4>3
    <3>3. CASE ~redis
      <4>1. acquired = ~activeLocks /\ activeLocks' = TRUE /\ lockExpiry' = lockExpiry
        BY <1>1, <3>3 DEF AcquireLock, RedisAnswers, InMemory, RedisFails
      <4>2. CASE acquired
        <5>1. Holders = {}
          BY <3>1, <3>3, <4>1, <4>2
        <5>2. Holders' = {r}
          BY <1>4, <4>2, <5>1
        <5> QED
          BY <3>1, <3>3, <4>1, <5>2 DEF LockKept
      <4>3. CASE ~acquired
        <5>1. activeLocks = TRUE /\ Holders # {} /\ Holders' = Holders
          BY <1>4, <3>1, <4>1, <4>3 DEF LockInv, LockTypeOK
        <5> QED
          BY <3>1, <3>3, <4>1, <5>1 DEF LockKept
      <4> QED
        BY <4>2, <4>3
    <3> QED
      BY <3>2, <3>3
  <2> QED
    BY <2>1, <2>2
<1> QED
  BY <1>2, <1>3, <1>6, <1>7 DEF LockInv

(* Releasing it leaves it to nobody.                                          *)
LEMMA ReleaseKeeps ==
  ASSUME LockInv, NEW r \in Requests, TransferRelease(r)
  PROVE  LockInv'
<1>1. pc[r] = "hold" /\ ReleaseLock /\ pc' = [pc EXCEPT ![r] = "over"] /\ now' = now
  BY DEF TransferRelease, End, Goto
<1>2. pc' \in [Requests -> Places] /\ Holders' = Holders \ {r} /\ r \in Holders
  BY <1>1 DEF LockInv, Holders, Places
<1>3. LockTypeOK'
  <2>1. /\ redis' = redis /\ lockExpired' = lockExpired
        /\ redisFailed' = redisFailed \/ redisFailed' = TRUE
        /\ activeLocks' = activeLocks \/ activeLocks' = FALSE
        /\ lockExpiry' = lockExpiry \/ lockExpiry' = Unlocked
    BY <1>1 DEF ReleaseLock, RedisAnswers, InMemory, RedisFails
  <2>2. lockExpiry' \in Int
    BY <2>1 DEF LockInv, LockTypeOK, Unlocked
  <2> QED
    BY <2>1, <2>2 DEF LockInv, LockTypeOK
<1>4. LockKept'
  <2>1. CASE redisFailed' \/ lockExpired'
    BY <2>1 DEF LockKept
  <2>2. CASE ~redisFailed' /\ ~lockExpired'
    <3>1. /\ redis' = redis
          /\ redis => ~activeLocks
          /\ ~redis => lockExpiry = Unlocked
          /\ \A p, q \in Holders : p = q
      BY <1>1, <2>2 DEF LockInv, LockTypeOK, LockKept, ReleaseLock, RedisAnswers, InMemory, RedisFails
    <3>2. Holders' = {}
      BY <1>2, <3>1
    <3>3. ~activeLocks' /\ lockExpiry' = Unlocked
      BY <1>1, <2>2, <3>1 DEF ReleaseLock, RedisAnswers, InMemory, RedisFails
    <3> QED
      BY <3>1, <3>2, <3>3 DEF LockKept
  <2> QED
    BY <2>1, <2>2
<1> QED
  BY <1>1, <1>2, <1>3, <1>4 DEF LockInv

(* Nobody else takes or gives back the lock, or is taken for its holder.      *)
LEMMA LockAlone ==
  ASSUME LockInv, UNCHANGED lockVars, now' \in Nat,
         pc' \in [Requests -> Places], Holders' = Holders
  PROVE  LockInv'
BY DEF LockInv, LockTypeOK, LockKept, lockVars

LEMMA LockHandleKeeps ==
  ASSUME LockInv, NEW r \in Requests, Handle(r)
  PROVE  LockInv'
<1>1. CASE TransferLock(r)
  BY <1>1, AcquireKeeps
<1>2. CASE TransferRelease(r)
  BY <1>2, ReleaseKeeps
<1>3. CASE ~TransferLock(r) /\ ~TransferRelease(r)
  <2>1. /\ UNCHANGED lockVars /\ now' = now /\ pc[r] # "hold"
        /\ \E there \in Places \ {"hold"} : pc' = [pc EXCEPT ![r] = there]
    <3>1. CASE Approach(r) \/ Register(r) \/ Behind(r)
      BY <3>1 DEF Approach, Register, Behind, Begin, Goto, Places, rest
    <3>2. CASE QueryFails(r) \/ Turned(r) \/ RegisterFind(r) \/ CreateTenantAndUser(r)
      BY <3>2 DEF QueryFails, Turned, RegisterFind, CreateTenantAndUser, Goto, End, Places, rest
    <3>3. CASE Unproven(r) \/ Proven(r)
      BY <3>3 DEF Unproven, Proven, PastEdge, Goto, End, Places
    <3>4. CASE LoginFind(r) \/ LoginCompare(r) \/ CreateSession(r)
      BY <3>4 DEF LoginFind, LoginCompare, CreateSession, Goto, End, Places, rest
    <3>5. CASE Validate(r) \/ Logout(r)
      BY <3>5 DEF Validate, Logout, Goto, End, Places, rest
    <3>6. CASE SetupFind(r) \/ SetupUpdate(r) \/ ConfirmFind(r) \/ ConfirmUpdate(r)
      BY <3>6 DEF SetupFind, SetupUpdate, ConfirmFind, ConfirmUpdate, Goto, End, Places, rest
    <3> QED
      BY <1>3, <3>1, <3>2, <3>3, <3>4, <3>5, <3>6 DEF Handle
  <2>2. pc' \in [Requests -> Places] /\ Holders' = Holders
    BY <2>1 DEF LockInv, Holders
  <2> QED
    BY <2>1, <2>2, LockAlone DEF LockInv
<1> QED
  BY <1>1, <1>2, <1>3

(* The invariant holds.                                                       *)
LEMMA LockInvHolds == Spec => []LockInv
<1>1. Init => LockInv
  <2> SUFFICES ASSUME Init PROVE LockInv
    OBVIOUS
  <2>1. pc = [r \in Requests |-> "idle"] /\ now = 0 /\ LockInit
    BY DEF Init, ShieldInit
  <2>2. Holders = {}
    BY <2>1 DEF Holders
  <2>3. /\ redis \in BOOLEAN /\ lockExpiry = Unlocked /\ activeLocks = FALSE
        /\ redisFailed = FALSE /\ lockExpired = FALSE
    BY <2>1 DEF LockInit
  <2>4. LockTypeOK
    <3>1. lockExpiry \in Int
      BY <2>3 DEF Unlocked
    <3>2. activeLocks \in BOOLEAN /\ redisFailed \in BOOLEAN /\ lockExpired \in BOOLEAN
      BY <2>3, Zenon
    <3> QED
      BY <2>3, <3>1, <3>2, Zenon DEF LockTypeOK
  <2>5. LockKept
    BY <2>2, <2>3 DEF LockKept
  <2>6. pc \in [Requests -> Places] /\ now \in Nat
    BY <2>1 DEF Places
  <2> QED
    BY <2>4, <2>5, <2>6 DEF LockInv
<1>2. LockInv /\ [Next]_vars => LockInv'
  <2> SUFFICES ASSUME LockInv, [Next]_vars PROVE LockInv'
    OBVIOUS
  <2>1. CASE \E r \in Requests : Handle(r)
    BY <2>1, LockHandleKeeps
  <2>2. ASSUME pc' = pc, now' \in Nat, UNCHANGED lockVars PROVE LockInv'
    BY <2>2, LockAlone DEF LockInv, Holders
  <2>3. CASE VaultAct \/ UNCHANGED vars
    BY <2>2, <2>3 DEF VaultAct, vars, authVars, LockInv
  <2>4. CASE Tick
    BY <2>2, <2>4 DEF Tick, authVars, LockInv
  <2>5. CASE RedisExpires
    BY <2>5 DEF RedisExpires, LockExpires, authVars, LockInv, LockTypeOK, LockKept, Unlocked
  <2> QED
    BY <2>1, <2>3, <2>4, <2>5 DEF Next
<1> QED
  BY <1>1, <1>2, PTL DEF Spec

(* As long as Redis answers and nobody outlasts the key, no two transactions  *)
(* work at once, and the lock is held exactly while one does.                 *)
THEOREM TransactionsWorkAlone == Spec => []OneTransactionAtATime
<1>1. LockInv => OneTransactionAtATime
  <2> SUFFICES ASSUME LockInv, ~redisFailed, ~lockExpired
               PROVE  /\ Cardinality(Holders) <= 1
                      /\ (Holders # {}) = (activeLocks \/ lockExpiry # Unlocked)
    BY DEF OneTransactionAtATime
  <2>1. /\ \A p, q \in Holders : p = q
        /\ (Holders # {}) = (activeLocks \/ lockExpiry # Unlocked)
    BY DEF LockInv, LockKept
  <2>2. CASE Holders = {}
    BY <2>1, <2>2, FS_EmptySet
  <2>3. CASE Holders # {}
    <3>1. PICK h \in Holders : TRUE
      BY <2>3
    <3>2. Holders = {h}
      BY <2>1, <3>1
    <3>3. Cardinality({h}) = 1
      BY FS_Singleton
    <3> QED
      BY <2>1, <3>2, <3>3
  <2> QED
    BY <2>2, <2>3
<1> QED
  BY <1>1, LockInvHolds, PTL
-------------------------------------------------------------------------------
(* Types                                                                      *)

\* No challenge outlives its time to live.
Expiries == \A c \in Issued : expiryOf[c] \in Nat /\ expiryOf[c] <= now + CHALLENGE_TTL

LEMMA ExpiriesHandle ==
  ASSUME ChallengeInv, Expiries, NEW r \in Requests, Handle(r)
  PROVE  Expiries'
<1> USE ChallengeAssumption
<1>1. now \in Nat
  BY DEF ChallengeInv, ChallengesNumbered
<1>2. now' = now /\ (expiryOf' = expiryOf \/ GenerateChallenge)
  <2>1. CASE Unproven(r)
    BY <2>1 DEF Unproven, challengeVars
  <2>2. CASE Proven(r)
    BY <2>2 DEF Proven, VerifyPoW, Accepted, challengeVars
  <2>3. CASE ~Unproven(r) /\ ~Proven(r)
    BY <2>3 DEF Handle, rest, challengeVars, QueryFails, Approach, Turned, Register, RegisterFind,
                CreateTenantAndUser, LoginFind, LoginCompare, CreateSession, Behind, Validate,
                Logout, SetupFind, SetupUpdate, ConfirmFind, ConfirmUpdate, TransferLock,
                TransferRelease
  <2> QED
    BY <2>1, <2>2, <2>3
<1>3. CASE expiryOf' = expiryOf
  BY <1>1, <1>2, <1>3 DEF Expiries, Issued
<1>4. CASE GenerateChallenge
  <2>1. PICK c : expiryOf' = [d \in Issued \cup {c} |-> IF d = c THEN now + CHALLENGE_TTL ELSE expiryOf[d]]
    BY <1>4 DEF GenerateChallenge
  <2>2. now + CHALLENGE_TTL \in Nat /\ now + CHALLENGE_TTL <= now + CHALLENGE_TTL
    BY <1>1
  <2> QED
    BY <1>1, <1>2, <2>1, <2>2 DEF Expiries, Issued
<1> QED
  BY <1>2, <1>3, <1>4

LEMMA LaterIsMore ==
  \A a, b, t \in Nat : a <= b => \A e \in Nat : e <= a + t => e <= b + t
OBVIOUS

LEMMA ExpiriesHold == Spec => []Expiries
<1>1. Init => Expiries
  BY DEF Init, ShieldInit, Expiries, Issued
<1>2. ChallengeInv /\ Expiries /\ [Next]_vars => Expiries'
  <2> SUFFICES ASSUME ChallengeInv, Expiries, [Next]_vars PROVE Expiries'
    OBVIOUS
  <2>1. CASE \E r \in Requests : Handle(r)
    BY <2>1, ExpiriesHandle
  <2>2. CASE VaultAct \/ Tick \/ RedisExpires \/ UNCHANGED vars
    <3>1. UNCHANGED expiryOf /\ now' \in {now, now + 1}
      BY <2>2 DEF VaultAct, Tick, RedisExpires, vars, challengeVars
    <3>2. now \in Nat /\ now' \in Nat /\ now <= now' /\ CHALLENGE_TTL \in Nat
      BY <3>1, ChallengeAssumption DEF ChallengeInv, ChallengesNumbered
    <3>3. \A e \in Nat : e <= now + CHALLENGE_TTL => e <= now' + CHALLENGE_TTL
      BY <3>2, LaterIsMore
    <3> QED
      BY <3>1, <3>3 DEF Expiries, Issued
  <2> QED
    BY <2>1, <2>2 DEF Next
<1> QED
  BY <1>1, <1>2, ChallengeInvHolds, PTL DEF Spec

LEMMA ShieldTypes == ChallengeInv /\ Expiries => ShieldTypeOK
<1> SUFFICES ASSUME ChallengeInv, Expiries PROVE ShieldTypeOK
  OBVIOUS
<1>1. Issued = 1..Cardinality(Issued)
  <2>1. PICK n \in Nat : Issued = 1..n
    BY DEF ChallengeInv, ChallengesNumbered
  <2>2. Cardinality(1..n) = n
    BY FS_Interval
  <2> QED
    BY <2>1, <2>2
<1>2. now \in Nat /\ \A c \in Issued : expiryOf[c] \in 0..(now + CHALLENGE_TTL) /\ solved[c] \in Nat
  BY ChallengeAssumption DEF ChallengeInv, ChallengesNumbered, Expiries
<1> QED
  BY <1>1, <1>2 DEF ChallengeInv, MapHoldsUnsolved, ShieldTypeOK

\* The rows are rows, and what requests have read and written is of their type.
AccountTypes ==
  /\ mfaOnAt \in [Requests -> SUBSET Rows]
  /\ DOMAIN users \subseteq Rows /\ \A u \in DOMAIN users : users[u] \in UserRow
  /\ sessions \in [Rows -> Rows \cup {None}]
  /\ tokens \in [Rows -> [user : Rows \cup {None}, mfaVerified : BOOLEAN]]
  /\ row \in [Requests -> Rows \cup {None}]
  /\ user \in [Requests -> UserRow]
  /\ secret \in [Requests -> Rows \cup {None}]
  /\ confirmed \subseteq Rows

\* A confirmation has a session, and then a code it sent.
CodesSent == \A r \in Requests : op[r] = "confirm" => secret[r] \in Rows

TypeInv ==
  /\ VaultTypeOK /\ AccountTypes /\ vaultActs \in 0..MaxVaultActs

LEMMA CodesSentHandle ==
  ASSUME Known, CodesSent, NEW r \in Requests, Handle(r)
  PROVE  CodesSent'
<1>1. \A q \in Requests \ {r} : op'[q] = op[q] /\ secret'[q] = secret[q]
  <2>1. (op' = op \/ \E a : op' = [op EXCEPT ![r] = a])
        /\ (secret' = secret \/ \E a : secret' = [secret EXCEPT ![r] = a])
    <3>1. CASE Approach(r) \/ Register(r) \/ Behind(r)
      BY <3>1 DEF Approach, Register, Behind, Begin
    <3>2. CASE ~(Approach(r) \/ Register(r) \/ Behind(r))
      BY <3>2 DEF Handle, QueryFails, Turned, Unproven, Proven, RegisterFind,
                CreateTenantAndUser, LoginFind, LoginCompare, CreateSession, Validate,
                Logout, SetupFind, SetupUpdate, ConfirmFind, ConfirmUpdate, TransferLock,
                TransferRelease
    <3> QED
      BY <3>1, <3>2
  <2> QED
    BY <2>1 DEF Known, AccountFunctions, RegisterFunctions
<1>2. op'[r] = "confirm" => secret'[r] \in Rows
  <2>1. CASE Approach(r) \/ Register(r)
    <3>1. \E what \in Ops \ {"confirm"} : op' = [op EXCEPT ![r] = what]
      BY <2>1 DEF Approach, Register, Begin, Ops
    <3> QED
      BY <3>1 DEF Known, RegisterFunctions
  <2>2. CASE Behind(r)
    <3>1. \E l \in Rows : secret' = [secret EXCEPT ![r] = l]
      BY <2>2 DEF Behind
    <3> QED
      BY <3>1 DEF Known, AccountFunctions
  <2>3. CASE op' = op /\ (secret' = secret \/ \E code \in Rows : secret' = [secret EXCEPT ![r] = code])
    BY <2>3 DEF Known, AccountFunctions, CodesSent
  <2>4. CASE ~(Approach(r) \/ Register(r) \/ Behind(r))
    <3>1. op' = op /\ (secret' = secret \/ \E code \in Rows : secret' = [secret EXCEPT ![r] = code])
      BY <2>4 DEF Handle, QueryFails, Turned, Unproven, Proven, RegisterFind,
                CreateTenantAndUser, LoginFind, LoginCompare, CreateSession, Validate,
                Logout, SetupFind, SetupUpdate, ConfirmFind, ConfirmUpdate, TransferLock,
                TransferRelease
    <3> QED
      BY <2>3, <3>1
  <2> QED
    BY <2>1, <2>2, <2>4
<1> QED
  BY <1>1, <1>2 DEF CodesSent

LEMMA EncryptTyped ==
  ASSUME VaultTypeOK, activeVersion \in DOMAIN keys, NEW plain \in Rows
  PROVE  Encrypt(plain) \in Stored
BY DEF VaultTypeOK, Encrypt, Stored

LEMMA RowTyped ==
  /\ NoRow \in UserRow
  /\ \A e \in UserRow : e.secret \in Stored \cup {NoSecret} /\ e.mfaEnabled \in BOOLEAN
  /\ \A e \in UserRow, s \in Stored : [e EXCEPT !.secret = s] \in UserRow
  /\ \A e \in UserRow, s \in Stored \cup {NoSecret} : [e EXCEPT !.secret = s] \in UserRow
  /\ \A e \in UserRow : [e EXCEPT !.mfaEnabled = TRUE] \in UserRow
<1>1. NoRow \in UserRow
  BY DEF NoRow, UserRow
<1> HIDE DEF NoSecret
<1> QED
  BY <1>1 DEF UserRow

(* What a request reads is typed, and so is what it sends.                    *)
LEMMA ReadsTyped ==
  ASSUME TypeInv, NEW r \in Requests, UNCHANGED <<vaultVars, vaultActs, users, sessions, tokens, confirmed>>,
         mfaOnAt' = mfaOnAt \/ \E d \in SUBSET Rows : mfaOnAt' = [mfaOnAt EXCEPT ![r] = d],
         row' = row \/ \E u \in Rows \cup {None} : row' = [row EXCEPT ![r] = u],
         user' = user \/ \E e \in UserRow : user' = [user EXCEPT ![r] = e],
         secret' = secret \/ \E s \in Rows \cup {None} : secret' = [secret EXCEPT ![r] = s]
  PROVE  TypeInv'
<1>1. mfaOnAt' \in [Requests -> SUBSET Rows]
  BY DEF TypeInv, AccountTypes
<1>2. row' \in [Requests -> Rows \cup {None}] /\ secret' \in [Requests -> Rows \cup {None}]
  BY DEF TypeInv, AccountTypes
<1>3. user' \in [Requests -> UserRow]
  BY DEF TypeInv, AccountTypes
<1>4. VaultTypeOK'
  BY DEF TypeInv, VaultTypeOK, vaultVars
<1> QED
  BY <1>1, <1>2, <1>3, <1>4 DEF TypeInv, AccountTypes

LEMMA ReadStepsTyped ==
  ASSUME TypeInv, SecretInv, NEW r \in Requests,
         \/ QueryFails(r) \/ Approach(r) \/ Turned(r) \/ Unproven(r) \/ Proven(r)
         \/ Register(r) \/ RegisterFind(r) \/ LoginFind(r) \/ LoginCompare(r) \/ Behind(r)
         \/ Validate(r) \/ SetupFind(r) \/ ConfirmFind(r) \/ TransferLock(r) \/ TransferRelease(r)
  PROVE  TypeInv'
<1>1. CASE \/ QueryFails(r) \/ Turned(r) \/ Unproven(r) \/ Proven(r) \/ Register(r)
           \/ RegisterFind(r) \/ Validate(r) \/ TransferLock(r) \/ TransferRelease(r)
  <2>1. UNCHANGED <<vaultVars, vaultActs, users, sessions, tokens, confirmed, mfaOnAt, row, user, secret>>
    BY <1>1 DEF QueryFails, Turned, Unproven, Proven, Register, RegisterFind, Validate, TransferLock,
                TransferRelease, tables, rest
  <2> QED
    BY <2>1, ReadsTyped
<1>2. CASE Approach(r)
  <2>1. UNCHANGED <<vaultVars, vaultActs, users, sessions, tokens, confirmed, row, user, secret>>
    BY <1>2 DEF Approach, tables, rest
  <2>2. mfaOnAt' = [mfaOnAt EXCEPT ![r] = MfaOn] \/ mfaOnAt' = [mfaOnAt EXCEPT ![r] = {}]
    BY <1>2 DEF Approach
  <2>3. MfaOn \in SUBSET Rows
    BY DEF MfaOn, TypeInv, AccountTypes
  <2> QED
    BY <2>1, <2>2, <2>3, ReadsTyped
<1>3. CASE LoginFind(r)
  <2>1. UNCHANGED <<vaultVars, vaultActs, users, sessions, tokens, confirmed, mfaOnAt, secret>>
    BY <1>3 DEF LoginFind, tables, rest
  <2>2. \/ UNCHANGED <<row, user>>
        \/ \E u \in DOMAIN users : row' = [row EXCEPT ![r] = u] /\ user' = [user EXCEPT ![r] = users[u]]
    BY <1>3 DEF LoginFind
  <2>3. \A u \in DOMAIN users : u \in Rows /\ users[u] \in UserRow
    BY DEF TypeInv, AccountTypes
  <2> QED
    BY <2>1, <2>2, <2>3, ReadsTyped
<1>4. CASE LoginCompare(r)
  <2>1. UNCHANGED <<vaultVars, vaultActs, users, sessions, tokens, confirmed, mfaOnAt, row, user>>
    BY <1>4 DEF LoginCompare, tables, rest
  <2>2. secret' = secret \/ \E s \in Rows : secret' = [secret EXCEPT ![r] = s]
    BY <1>4 DEF LoginCompare
  <2> QED
    BY <2>1, <2>2, ReadsTyped
<1>5. CASE Behind(r)
  <2>1. UNCHANGED <<vaultVars, vaultActs, users, sessions, tokens, confirmed, mfaOnAt, user>>
    BY <1>5 DEF Behind, tables, rest
  <2>2. \E l \in Rows : /\ row' = [row EXCEPT ![r] = tokens[l].user]
                        /\ secret' = [secret EXCEPT ![r] = l]
    BY <1>5 DEF Behind
  <2>3. \A l \in Rows : tokens[l].user \in Rows \cup {None}
    BY DEF TypeInv, AccountTypes
  <2> QED
    BY <2>1, <2>2, <2>3, ReadsTyped
<1>6. CASE SetupFind(r)
  <2>1. /\ UNCHANGED <<vaultVars, vaultActs, users, sessions, tokens, confirmed, mfaOnAt, row, secret>>
        /\ row[r] \in DOMAIN users
    BY <1>6 DEF SetupFind, tables, rest, SecretInv, RowsThere
  <2>2. \/ user' = user
        \/ CanEncrypt /\ user' = [user EXCEPT ![r] = [users[row[r]] EXCEPT !.secret = Encrypt(r)]]
    BY <1>6 DEF SetupFind
  <2>3. CanEncrypt => Encrypt(r) \in Stored
    BY EncryptTyped DEF CanEncrypt, TypeInv, Rows
  <2>4. CanEncrypt => [users[row[r]] EXCEPT !.secret = Encrypt(r)] \in UserRow
    BY <2>1, <2>3, RowTyped DEF TypeInv, AccountTypes
  <2> QED
    BY <2>1, <2>2, <2>4, ReadsTyped
<1>7. CASE ConfirmFind(r)
  <2>1. /\ UNCHANGED <<vaultVars, vaultActs, users, sessions, tokens, confirmed, mfaOnAt, row>>
        /\ row[r] \in DOMAIN users
    BY <1>7 DEF ConfirmFind, tables, rest, SecretInv, RowsThere
  <2>2. \/ UNCHANGED <<user, secret>>
        \/ \E code \in Rows : /\ secret' = [secret EXCEPT ![r] = code]
                              /\ user' = [user EXCEPT ![r] = users[row[r]]]
    BY <1>7 DEF ConfirmFind
  <2>3. users[row[r]] \in UserRow
    BY <2>1 DEF TypeInv, AccountTypes
  <2> QED
    BY <2>1, <2>2, <2>3, ReadsTyped
<1> QED
  BY <1>1, <1>2, <1>3, <1>4, <1>5, <1>6, <1>7

LEMMA WriteStepsTyped ==
  ASSUME TypeInv, SecretInv, CodesSent, NEW r \in Requests,
         \/ CreateTenantAndUser(r) \/ CreateSession(r) \/ Logout(r) \/ SetupUpdate(r) \/ ConfirmUpdate(r)
  PROVE  TypeInv'
<1>1. /\ UNCHANGED <<vaultVars, vaultActs, mfaOnAt, row, user, secret>> /\ VaultTypeOK' /\ r \in Rows
  <2>1. UNCHANGED <<vaultVars, vaultActs, mfaOnAt, row, user, secret>>
    BY DEF CreateTenantAndUser, CreateSession, Logout, SetupUpdate, ConfirmUpdate, rest
  <2> QED
    BY <2>1 DEF vaultVars, TypeInv, VaultTypeOK, Rows
<1>2. CASE CreateTenantAndUser(r)
  <2>1. /\ users' = [u \in DOMAIN users \cup {r} |-> IF u = r THEN NoRow ELSE users[u]]
        /\ UNCHANGED <<sessions, tokens, confirmed>>
    BY <1>2 DEF CreateTenantAndUser
  <2>2. DOMAIN users' \subseteq Rows /\ \A u \in DOMAIN users' : users'[u] \in UserRow
    BY <1>1, <2>1, RowTyped DEF TypeInv, AccountTypes
  <2> QED
    BY <1>1, <2>1, <2>2 DEF TypeInv, AccountTypes
<1>3. CASE CreateSession(r)
  <2>1. /\ sessions' = [sessions EXCEPT ![r] = row[r]]
        /\ tokens' = [tokens EXCEPT ![r] = [user |-> row[r], mfaVerified |-> user[r].mfaEnabled]]
        /\ UNCHANGED <<users, confirmed>>
    BY <1>3 DEF CreateSession
  <2>2. row[r] \in Rows \cup {None} /\ user[r].mfaEnabled \in BOOLEAN
    BY RowTyped DEF TypeInv, AccountTypes
  <2>3. [user |-> row[r], mfaVerified |-> user[r].mfaEnabled] \in [user : Rows \cup {None}, mfaVerified : BOOLEAN]
    BY <2>2
  <2>4. /\ sessions' \in [Rows -> Rows \cup {None}]
        /\ tokens' \in [Rows -> [user : Rows \cup {None}, mfaVerified : BOOLEAN]]
    BY <1>1, <2>1, <2>2, <2>3 DEF TypeInv, AccountTypes
  <2> QED
    BY <1>1, <2>1, <2>4 DEF TypeInv, AccountTypes
<1>4. CASE Logout(r)
  <2>1. sessions' = [sessions EXCEPT ![secret[r]] = None] /\ UNCHANGED <<users, tokens, confirmed>>
    BY <1>4 DEF Logout
  <2>2. sessions' \in [Rows -> Rows \cup {None}]
    BY <2>1 DEF TypeInv, AccountTypes
  <2> QED
    BY <1>1, <2>1, <2>2 DEF TypeInv, AccountTypes
<1>5. CASE SetupUpdate(r)
  <2>1. /\ users' = [users EXCEPT ![row[r]].secret = user[r].secret] /\ row[r] \in DOMAIN users
        /\ UNCHANGED <<sessions, tokens, confirmed>>
    BY <1>5 DEF SetupUpdate, SecretInv, RowsThere
  <2>2. user[r].secret \in Stored \cup {NoSecret} /\ users[row[r]] \in UserRow
    BY <2>1, RowTyped DEF TypeInv, AccountTypes
  <2>3. [users[row[r]] EXCEPT !.secret = user[r].secret] \in UserRow
    BY <2>2, RowTyped
  <2>4. /\ DOMAIN users' = DOMAIN users
        /\ \A u \in DOMAIN users : users'[u] = IF u = row[r] THEN [users[row[r]] EXCEPT !.secret = user[r].secret]
                                               ELSE users[u]
    BY <2>1
  <2> QED
    BY <1>1, <2>1, <2>3, <2>4 DEF TypeInv, AccountTypes
<1>6. CASE ConfirmUpdate(r)
  <2>1. /\ users' = [users EXCEPT ![row[r]].mfaEnabled = TRUE] /\ row[r] \in DOMAIN users
        /\ confirmed' = confirmed \cup {secret[r]}
        /\ UNCHANGED <<sessions, tokens>>
    BY <1>6 DEF ConfirmUpdate, SecretInv, RowsThere
  <2>2. [users[row[r]] EXCEPT !.mfaEnabled = TRUE] \in UserRow
    BY <2>1, RowTyped DEF TypeInv, AccountTypes
  <2>3. secret[r] \in Rows
    BY <1>6 DEF ConfirmUpdate, CodesSent
  <2>4. /\ DOMAIN users' = DOMAIN users
        /\ \A u \in DOMAIN users : users'[u] = IF u = row[r] THEN [users[row[r]] EXCEPT !.mfaEnabled = TRUE]
                                               ELSE users[u]
    BY <2>1
  <2> QED
    BY <1>1, <2>1, <2>2, <2>3, <2>4 DEF TypeInv, AccountTypes
<1> QED
  BY <1>2, <1>3, <1>4, <1>5, <1>6

LEMMA VaultActTyped ==
  ASSUME TypeInv, VaultAct
  PROVE  TypeInv'
<1>1. vaultActs' \in 0..MaxVaultActs
  BY BoundsAssumption DEF VaultAct, TypeInv
<1>2. AccountTypes'
  BY DEF VaultAct, authVars, TypeInv, AccountTypes
<1>3. VaultTypeOK'
  <2> DEFINE Pairs == Versions \X MasterKeys
  <2>0. Loaded \subseteq Pairs /\ lostKeys \subseteq Pairs
    BY DEF TypeInv, VaultTypeOK, Loaded
  <2>3. lostKeys' = (lostKeys \cup Loaded) \ Loaded' => lostKeys' \subseteq Pairs
    BY <2>0
  <2>1. CASE CryptoShred
    <3>1. DOMAIN keys' = {}
      BY <2>1 DEF CryptoShred
    <3> QED
      BY <2>1, <2>3, <3>1 DEF CryptoShred, SomeAreLost, TypeInv, VaultTypeOK
  <2>2. CASE \E k \in MasterKeys, v \in Versions : RestoreKey(k, v)
    <3>1. PICK k \in MasterKeys, v \in Versions : RestoreKey(k, v)
      BY <2>2
    <3>2. /\ keys' = [w \in DOMAIN keys \cup {v} |-> IF w = v THEN k ELSE keys[w]]
          /\ activeVersion' = v /\ isKeyShredded' = FALSE
          /\ lostKeys' = (lostKeys \cup Loaded) \ Loaded'
      BY <3>1 DEF RestoreKey, NewKeys, SomeAreLost
    <3>3. DOMAIN keys' \subseteq Versions /\ \A w \in DOMAIN keys' : keys'[w] \in MasterKeys
      BY <3>2 DEF TypeInv, VaultTypeOK
    <3> QED
      BY <2>3, <3>2, <3>3 DEF TypeInv, VaultTypeOK
  <2> QED
    BY <2>1, <2>2 DEF VaultAct
<1> QED
  BY <1>1, <1>2, <1>3 DEF TypeInv

LEMMA TypesInit == Init => TypeInv /\ CodesSent
<1> SUFFICES ASSUME Init PROVE TypeInv /\ CodesSent
  OBVIOUS
<1>1. /\ mfaOnAt = [r \in Requests |-> {}]
      /\ op = [r \in Requests |-> None]
      /\ row = [r \in Requests |-> None]
      /\ user = [r \in Requests |-> NoRow]
      /\ secret = [r \in Requests |-> None]
      /\ vaultActs = 0 /\ VaultInit
  BY DEF Init
<1>2. VaultTypeOK /\ activeVersion \in DOMAIN keys /\ vaultActs \in 0..MaxVaultActs
  <2>1. /\ keys = InitialKeys /\ activeVersion = InitialVersion
        /\ isKeyShredded = FALSE /\ lostKeys = {}
    BY <1>1 DEF VaultInit
  <2>2. /\ DOMAIN keys \subseteq Versions /\ \A v \in DOMAIN keys : keys[v] \in MasterKeys
        /\ activeVersion \in Versions /\ activeVersion \in DOMAIN keys
    BY <2>1, VaultAssumption
  <2>3. isKeyShredded \in BOOLEAN /\ lostKeys \subseteq Versions \X MasterKeys
    BY <2>1, Zenon
  <2>4. vaultActs \in 0..MaxVaultActs
    BY <1>1, BoundsAssumption
  <2> QED
    BY <2>2, <2>3, <2>4, Zenon DEF VaultTypeOK
<1>3. Encrypt(First) \in Stored
  BY <1>2, EncryptTyped DEF Rows
<1>4. \/ users = [u \in {} |-> NoRow] /\ confirmed = {}
      \/ \E s \in Stored \cup {NoSecret}, on \in BOOLEAN :
           /\ users = [u \in {First} |-> [secret |-> s, mfaEnabled |-> on]]
           /\ confirmed = IF on THEN {First} ELSE {}
  <2>1. CASE \E s \in {NoSecret, Encrypt(First)}, on \in BOOLEAN :
               /\ on => s # NoSecret
               /\ users = [u \in {First} |-> [secret |-> s, mfaEnabled |-> on]]
               /\ confirmed = IF on THEN {First} ELSE {}
    <3>1. PICK s \in {NoSecret, Encrypt(First)}, on \in BOOLEAN :
            /\ users = [u \in {First} |-> [secret |-> s, mfaEnabled |-> on]]
            /\ confirmed = IF on THEN {First} ELSE {}
      BY <2>1, Zenon
    <3>2. s \in Stored \cup {NoSecret}
      BY <1>3
    <3> QED
      BY <3>1, <3>2, Zenon
  <2>2. CASE users = [u \in {} |-> NoRow] /\ confirmed = {}
    BY <2>2, Zenon
  <2> QED
    BY <2>1, <2>2, Zenon DEF Init
<1>5. /\ DOMAIN users \subseteq Rows /\ \A u \in DOMAIN users : users[u] \in UserRow
      /\ confirmed \subseteq Rows
  <2>1. CASE users = [u \in {} |-> NoRow] /\ confirmed = {}
    BY <2>1
  <2>2. ASSUME NEW s \in Stored \cup {NoSecret}, NEW on \in BOOLEAN,
               users = [u \in {First} |-> [secret |-> s, mfaEnabled |-> on]],
               confirmed = IF on THEN {First} ELSE {}
        PROVE  /\ DOMAIN users \subseteq Rows /\ \A u \in DOMAIN users : users[u] \in UserRow
               /\ confirmed \subseteq Rows
    <3>1. [secret |-> s, mfaEnabled |-> on] \in UserRow
      BY Zenon DEF UserRow
    <3>2. confirmed \subseteq {First}
      BY <2>2
    <3> QED
      BY <2>2, <3>1, <3>2 DEF Rows
  <2> QED
    BY <1>4, <2>1, <2>2
<1>6. /\ sessions \in [Rows -> Rows \cup {None}]
      /\ tokens \in [Rows -> [user : Rows \cup {None}, mfaVerified : BOOLEAN]]
  <2>1. CASE sessions = [l \in Rows |-> None] /\ tokens = [l \in Rows |-> NoToken]
    BY <2>1 DEF NoToken
  <2>2. CASE /\ sessions = [l \in Rows |-> IF l = First THEN First ELSE None]
             /\ tokens = [l \in Rows |-> IF l = First THEN [user |-> First, mfaVerified |-> FALSE]
                                                      ELSE NoToken]
    BY <2>2 DEF NoToken, Rows
  <2> QED
    BY <2>1, <2>2, Zenon DEF Init
<1>7. /\ mfaOnAt \in [Requests -> SUBSET Rows] /\ row \in [Requests -> Rows \cup {None}]
      /\ secret \in [Requests -> Rows \cup {None}] /\ user \in [Requests -> UserRow]
  BY <1>1, RowTyped
<1>8. CodesSent
  BY <1>1 DEF CodesSent, None
<1> QED
  BY <1>2, <1>5, <1>6, <1>7, <1>8 DEF TypeInv, AccountTypes

(* Every variable is of its type: rows are made by registrations, sessions    *)
(* and tokens by logins, secrets by set-ups, each under a version of the      *)
(* vault; no challenge outlives its time to live.                             *)
THEOREM AccountTypesOK == Spec => []TypeOK
<1>1. Known /\ SecretInv /\ TypeInv /\ CodesSent /\ [Next]_vars => TypeInv' /\ CodesSent'
  <2> SUFFICES ASSUME Known, SecretInv, TypeInv, CodesSent, [Next]_vars PROVE TypeInv' /\ CodesSent'
    OBVIOUS
  <2>1. ASSUME NEW r \in Requests, Handle(r) PROVE TypeInv' /\ CodesSent'
    BY <2>1, ReadStepsTyped, WriteStepsTyped, CodesSentHandle DEF Handle
  <2>2. CASE VaultAct
    BY <2>2, VaultActTyped DEF VaultAct, authVars, CodesSent
  <2>3. CASE UNCHANGED <<authVars, vaultVars, vaultActs>>
    BY <2>3 DEF authVars, vaultVars, TypeInv, VaultTypeOK, AccountTypes, CodesSent
  <2> QED
    BY <2>1, <2>2, <2>3 DEF Next, Tick, RedisExpires, vars
<1>2. MfaInv /\ RegisterInv => Known
  BY DEF MfaInv, RegisterInv, Known
<1>3. Known /\ TypeInv /\ ShieldTypeOK /\ LockInv => TypeOK
  BY DEF Known, RegisterFunctions, Places, TypeInv, AccountTypes, LockInv, TypeOK
<1>4. ChallengeInv /\ Expiries => ShieldTypeOK
  BY ShieldTypes
<1> QED
  BY <1>1, <1>2, <1>3, <1>4, TypesInit, MfaInvHolds, RegisterInvHolds, SecretInvHolds,
     ChallengeInvHolds, ExpiriesHold, LockInvHolds, PTL DEF Spec
===============================================================================
