------------------------------ MODULE AuthService ------------------------------
(***************************************************************************)
(* AuthService (auth.service.ts) behind the middleware                     *)
(* (shield.middleware.ts), with the session check of jwt.strategy.ts, the  *)
(* vault the TOTP secrets are kept in and the transaction of               *)
(* security-hardening.controller.ts with its lock.                         *)
(*                                                                         *)
(* A request is one handler, suspended at the await pc names.  All are     *)
(* about one email address: addresses share nothing.  A user row is named  *)
(* by the registration that made it, a session by its login, a secret by   *)
(* the set-up that drew it.  Every query may reject; the handler then ends *)
(* where it is.  Codes are those of a secret: the 30-second windows and    *)
(* the expiry of tokens (minutes) are left out.                            *)
(***************************************************************************)
EXTENDS DbCrypto, ShieldService, KeyLock

CONSTANTS
  Requests,
  First,      \* the registration, login and set-up that came before the model starts
  MaxClock, MaxVaultActs  \* bounds: ticks, and operations on the vault

ASSUME FirstIsOver == First \notin Requests
ASSUME BoundsAssumption == MaxClock \in Nat /\ MaxVaultActs \in Nat

Ops == {"register", "login", "setup", "confirm", "logout", "transfer", "other"}
Rows == Requests \cup {First}
NoSecret == [plain |-> "none", version |-> "none", key |-> "none"]
NoRow == [secret |-> NoSecret, mfaEnabled |-> FALSE]

VARIABLES
  pc, op,
  during,      \* history, per request: its rivals that ran at some time while it did
  mfaOnAt,     \* history, per login: the rows that had MFA on when it arrived
  users,       \* the rows of the address
  sessions,    \* per login: the row it is for while its session exists, or None
  tokens,      \* per login: what its token says, or NoToken
  row,         \* per request: the user it is about
  user,        \* per request: the row as findFirst read it
  secret,      \* per request: whose codes it sends
  confirmed,   \* history: secrets a code of which was accepted by confirmMfa
  vaultActs

None == "none"

ASSUME NoneIsNoRow == None \notin Rows

NoToken == [user |-> None, mfaVerified |-> FALSE]
authVars == <<pc, op, during, mfaOnAt, users, sessions, tokens, row, user, secret, confirmed>>
vars == <<authVars, vaultVars, vaultActs, challengeVars, now, lockVars>>

Stored == UNION {{[plain |-> s, version |-> v, key |-> k] : s \in Rows, v \in Versions}
                 : k \in MasterKeys}
UserRow == [secret : Stored \cup {NoSecret}, mfaEnabled : BOOLEAN]

TypeOK ==
  /\ VaultTypeOK /\ ShieldTypeOK /\ LockTypeOK
  /\ pc \in [Requests -> {"idle", "edge", "guard", "find", "hash", "compare", "update",
                          "session", "lock", "hold", "over"}]
  /\ op \in [Requests -> Ops \cup {None}]
  /\ during \in [Requests -> SUBSET Requests]
  /\ mfaOnAt \in [Requests -> SUBSET Rows]
  /\ DOMAIN users \subseteq Rows /\ \A u \in DOMAIN users : users[u] \in UserRow
  /\ sessions \in [Rows -> Rows \cup {None}]
  /\ tokens \in [Rows -> [user : Rows \cup {None}, mfaVerified : BOOLEAN]]
  /\ row \in [Requests -> Rows \cup {None}]
  /\ user \in [Requests -> UserRow]
  /\ secret \in [Requests -> Rows \cup {None}]
  /\ confirmed \subseteq Rows
  /\ vaultActs \in 0..MaxVaultActs

\* Nobody is registered yet, or there is a user who is logged in, without MFA, with
\* a set-up begun, or with MFA on.
Init ==
  /\ VaultInit /\ ShieldInit /\ LockInit
  /\ pc = [r \in Requests |-> "idle"]
  /\ op = [r \in Requests |-> None]
  /\ during = [r \in Requests |-> {}]
  /\ mfaOnAt = [r \in Requests |-> {}]
  /\ \/ /\ users = [u \in {} |-> NoRow] /\ confirmed = {}
        /\ sessions = [l \in Rows |-> None]
        /\ tokens = [l \in Rows |-> NoToken]
     \/ /\ \E s \in {NoSecret, Encrypt(First)}, on \in BOOLEAN :
             /\ on => s # NoSecret
             /\ users = [u \in {First} |-> [secret |-> s, mfaEnabled |-> on]]
             /\ confirmed = IF on THEN {First} ELSE {}
        /\ sessions = [l \in Rows |-> IF l = First THEN First ELSE None]
        /\ tokens = [l \in Rows |-> IF l = First THEN [user |-> First, mfaVerified |-> FALSE]
                                                 ELSE NoToken]
  /\ row = [r \in Requests |-> None]
  /\ user = [r \in Requests |-> NoRow]
  /\ secret = [r \in Requests |-> None]
  /\ vaultActs = 0
-------------------------------------------------------------------------------
Goto(r, there) == pc' = [pc EXCEPT ![r] = there]
End(r) == Goto(r, "over")

\* The running requests that may spoil what a new one does, and be spoilt by it.
Rivals(what) ==
  {r \in Requests : pc[r] \notin {"idle", "over"}
                    /\ {op[r], what} \in {{"register"}, {"setup", "confirm"}}}

Begin(r, what, there) ==
  /\ pc[r] = "idle"
  /\ op' = [op EXCEPT ![r] = what]
  /\ Goto(r, there)
  /\ during' = [s \in Requests |-> IF s = r THEN Rivals(what)
                                   ELSE IF s \in Rivals(what) THEN during[s] \cup {r}
                                   ELSE during[s]]

tables == <<users, sessions, tokens, confirmed>>
MfaOn == {u \in DOMAIN users : users[u].mfaEnabled}
rest == <<vaultVars, vaultActs, challengeVars, now, lockVars>>

\* A query rejects, or bcrypt does: a 500 for the client, nothing is undone.
QueryFails(r) ==
  /\ pc[r] \in {"guard", "find", "hash", "compare", "update", "session"}
  /\ End(r)
  /\ UNCHANGED <<op, during, mfaOnAt, tables, row, user, secret, rest>>
-------------------------------------------------------------------------------
(* The middleware *)

\* Requests for the routes where it does more than let through: a login, which
\* always needs a solved challenge, and any other route a bot may be seen on.
Approach(r) ==
  /\ \E what \in {"login", "other"} :
       /\ Begin(r, what, "edge")
       /\ mfaOnAt' = [mfaOnAt EXCEPT ![r] = IF what = "login" THEN MfaOn ELSE {}]
  /\ UNCHANGED <<tables, row, user, secret, rest>>

PastEdge(r) == IF op[r] = "login" THEN Goto(r, "find") ELSE End(r)

\* Blacklist, country and payload are decided elsewhere: any of them may turn the
\* request away, before or after its challenge is looked at.
Turned(r) ==
  /\ pc[r] = "edge"
  /\ End(r)
  /\ UNCHANGED <<op, during, mfaOnAt, tables, row, user, secret, rest>>

\* No challenge is sent: one is issued, unless the route is not sensitive and the
\* requests of the address do not look like a bot's.
Unproven(r) ==
  /\ pc[r] = "edge"
  /\ \/ End(r) /\ GenerateChallenge
     \/ op[r] # "login" /\ PastEdge(r) /\ UNCHANGED challengeVars
  /\ UNCHANGED <<op, during, mfaOnAt, tables, row, user, secret, vaultVars, vaultActs, now, lockVars>>

\* A challenge is sent with a nonce.
Proven(r) ==
  /\ pc[r] = "edge"
  /\ \E c \in Issued, rightNonce \in BOOLEAN, verified \in BOOLEAN :
       /\ VerifyPoW(c, rightNonce, verified)
       /\ IF verified THEN PastEdge(r) ELSE End(r)
  /\ UNCHANGED <<op, during, mfaOnAt, tables, row, user, secret, vaultVars, vaultActs, now, lockVars>>
-------------------------------------------------------------------------------
(* register *)

Register(r) ==
  /\ Begin(r, "register", "find")
  /\ UNCHANGED <<mfaOnAt, tables, row, user, secret, rest>>

\* Mutant: the address is not looked up.
RegisterFind_Skipped(r) ==
  /\ pc[r] = "find" /\ op[r] = "register"
  /\ Goto(r, "hash")
  /\ UNCHANGED <<op, during, mfaOnAt, tables, row, user, secret, rest>>

\* findFirst: a conflict, or on to bcrypt.hash.
RegisterFind(r) ==
  /\ pc[r] = "find" /\ op[r] = "register"
  /\ IF DOMAIN users = {} THEN Goto(r, "hash") ELSE End(r)
  /\ UNCHANGED <<op, during, mfaOnAt, tables, row, user, secret, rest>>

\* The transaction: a tenant and its user.  The unique index is on tenant and
\* address, and the tenant is new.
CreateTenantAndUser(r) ==
  /\ pc[r] = "hash"
  /\ users' = [u \in DOMAIN users \cup {r} |-> IF u = r THEN NoRow ELSE users[u]]
  /\ End(r)
  /\ UNCHANGED <<op, during, mfaOnAt, sessions, tokens, confirmed, row, user, secret, rest>>
-------------------------------------------------------------------------------
(* login *)

\* findFirst by address: with several rows, any; then bcrypt.compare.
LoginFind(r) ==
  /\ pc[r] = "find" /\ op[r] = "login"
  /\ \/ /\ DOMAIN users = {} /\ End(r) /\ UNCHANGED <<row, user>>
     \/ \E u \in DOMAIN users :
          /\ row' = [row EXCEPT ![r] = u]
          /\ user' = [user EXCEPT ![r] = users[u]]
          /\ Goto(r, "compare")
  /\ UNCHANGED <<op, during, mfaOnAt, tables, secret, rest>>

\* decrypt() and verifyCode with the row that was read.
CodeAccepted(stored, code) ==
  stored # NoSecret /\ CanDecrypt(stored) /\ stored.plain = code

\* Mutant: a code is asked for but not compared.
LoginCompare_AnyCode(r) ==
  /\ pc[r] = "compare"
  /\ \E code \in Rows : secret' = [secret EXCEPT ![r] = code]
  /\ Goto(r, "session")
  /\ UNCHANGED <<op, during, mfaOnAt, tables, row, user, rest>>

\* The password is that of the row, or the login ends; MFA asks for a code too.
LoginCompare(r) ==
  /\ pc[r] = "compare"
  /\ \/ /\ End(r) /\ UNCHANGED secret
     \/ /\ ~user[r].mfaEnabled
        /\ Goto(r, "session")
        /\ UNCHANGED secret
     \/ /\ user[r].mfaEnabled
        /\ \E code \in Rows :
             /\ CodeAccepted(user[r].secret, code)
             /\ secret' = [secret EXCEPT ![r] = code]
        /\ Goto(r, "session")
  /\ UNCHANGED <<op, during, mfaOnAt, tables, row, user, rest>>

\* userSession.create, then the token.
CreateSession(r) ==
  /\ pc[r] = "session"
  /\ sessions' = [sessions EXCEPT ![r] = row[r]]
  /\ tokens' = [tokens EXCEPT ![r] = [user |-> row[r], mfaVerified |-> user[r].mfaEnabled]]
  /\ End(r)
  /\ UNCHANGED <<op, during, mfaOnAt, users, confirmed, row, user, secret, rest>>
-------------------------------------------------------------------------------
(* Behind JwtAuthGuard *)

Behind(r) ==
  /\ \E what \in {"setup", "confirm", "logout", "transfer"}, l \in Rows :
       /\ tokens[l] # NoToken
       /\ Begin(r, what, "guard")
       /\ row' = [row EXCEPT ![r] = tokens[l].user]
       /\ secret' = [secret EXCEPT ![r] = l]  \* whose session, until it sends a code
  /\ UNCHANGED <<mfaOnAt, tables, user, rest>>

\* JwtStrategy.validate: the session of the token still exists.
Validate(r) ==
  /\ pc[r] = "guard"
  /\ IF sessions[secret[r]] = row[r]
       THEN Goto(r, IF op[r] = "transfer" THEN "lock" ELSE "find")
       ELSE End(r)
  /\ UNCHANGED <<op, during, mfaOnAt, tables, row, user, secret, rest>>

Logout(r) ==
  /\ pc[r] = "find" /\ op[r] = "logout"
  /\ sessions' = [sessions EXCEPT ![secret[r]] = None]
  /\ End(r)
  /\ UNCHANGED <<op, during, mfaOnAt, users, tokens, confirmed, row, user, secret, rest>>

\* Mutant: a user who has MFA may start again.
SetupFind_Again(r) ==
  /\ pc[r] = "find" /\ op[r] = "setup"
  /\ IF CanEncrypt
       THEN /\ user' = [user EXCEPT ![r] = [users[row[r]] EXCEPT !.secret = Encrypt(r)]]
            /\ Goto(r, "update")
       ELSE End(r) /\ UNCHANGED user
  /\ UNCHANGED <<op, during, mfaOnAt, tables, row, secret, rest>>

\* enableMfaSetup: findFirst, then a new secret is drawn and encrypted.
SetupFind(r) ==
  /\ pc[r] = "find" /\ op[r] = "setup"
  /\ IF ~users[row[r]].mfaEnabled /\ CanEncrypt
       THEN /\ user' = [user EXCEPT ![r] = [users[row[r]] EXCEPT !.secret = Encrypt(r)]]
            /\ Goto(r, "update")
       ELSE End(r) /\ UNCHANGED user
  /\ UNCHANGED <<op, during, mfaOnAt, tables, row, secret, rest>>

\* ... and its update writes the envelope, whatever the row has become.
SetupUpdate(r) ==
  /\ pc[r] = "update" /\ op[r] = "setup"
  /\ users' = [users EXCEPT ![row[r]].secret = user[r].secret]
  /\ End(r)
  /\ UNCHANGED <<op, during, mfaOnAt, sessions, tokens, confirmed, row, user, secret, rest>>

\* confirmMfa: findFirst and the check of a code of some secret,
ConfirmFind(r) ==
  /\ pc[r] = "find" /\ op[r] = "confirm"
  /\ \/ End(r) /\ UNCHANGED <<user, secret>>
     \/ \E code \in Rows :
          /\ CodeAccepted(users[row[r]].secret, code)
          /\ secret' = [secret EXCEPT ![r] = code]
          /\ user' = [user EXCEPT ![r] = users[row[r]]]
          /\ Goto(r, "update")
  /\ UNCHANGED <<op, during, mfaOnAt, tables, row, rest>>

\* and the update that turns MFA on for whatever secret is there by then.
ConfirmUpdate(r) ==
  /\ pc[r] = "update" /\ op[r] = "confirm"
  /\ users' = [users EXCEPT ![row[r]].mfaEnabled = TRUE]
  /\ confirmed' = confirmed \cup {secret[r]}
  /\ End(r)
  /\ UNCHANGED <<op, during, mfaOnAt, sessions, tokens, row, user, secret, rest>>

\* executeTransaction: the lock, 100 ms of work, and the finally block.
TransferLock(r) ==
  /\ pc[r] = "lock"
  /\ \E acquired \in BOOLEAN :
       /\ AcquireLock(now, acquired)
       /\ IF acquired THEN Goto(r, "hold") ELSE End(r)
  /\ UNCHANGED <<op, during, mfaOnAt, tables, row, user, secret, vaultVars, vaultActs, challengeVars, now>>

TransferRelease(r) ==
  /\ pc[r] = "hold"
  /\ ReleaseLock
  /\ End(r)
  /\ UNCHANGED <<op, during, mfaOnAt, tables, row, user, secret, vaultVars, vaultActs, challengeVars, now>>
-------------------------------------------------------------------------------
(* Operators of the vault, and time *)

VaultAct ==
  /\ vaultActs < MaxVaultActs
  /\ vaultActs' = vaultActs + 1
  /\ \/ CryptoShred
     \/ \E k \in MasterKeys, v \in Versions : RestoreKey(k, v)
  /\ UNCHANGED <<authVars, challengeVars, now, lockVars>>

\* A tick nothing was waiting for changes nothing.
Tick ==
  /\ now < MaxClock
  /\ DOMAIN issuedChallenges # {} \/ lockExpiry # Unlocked
  /\ now' = now + 1
  /\ UNCHANGED <<authVars, vaultVars, vaultActs, challengeVars, lockVars>>

RedisExpires ==
  /\ LockExpires(now)
  /\ UNCHANGED <<authVars, vaultVars, vaultActs, challengeVars, now>>

Handle(r) ==
  \/ QueryFails(r) \/ Approach(r) \/ Turned(r) \/ Unproven(r) \/ Proven(r)
  \/ Register(r) \/ RegisterFind(r) \/ CreateTenantAndUser(r)
  \/ LoginFind(r) \/ LoginCompare(r) \/ CreateSession(r)
  \/ Behind(r) \/ Validate(r) \/ Logout(r)
  \/ SetupFind(r) \/ SetupUpdate(r) \/ ConfirmFind(r) \/ ConfirmUpdate(r)
  \/ TransferLock(r) \/ TransferRelease(r)

Next == (\E r \in Requests : Handle(r)) \/ VaultAct \/ Tick \/ RedisExpires

Spec == Init /\ [][Next]_vars
-------------------------------------------------------------------------------
(* Properties *)

(* An address has two accounts only if their registrations overlapped.        *)
AddressTakenOnce ==
  \A u, v \in DOMAIN users : u # v => u \in Requests /\ v \in Requests /\ v \in during[u]

(* With MFA on, the secret in the row is one whose owner has proved to have   *)
(* it -- unless a set-up and a confirmation overlapped: the set-up may then   *)
(* have replaced the secret that was confirmed.                               *)
MfaSecretConfirmed ==
  \A u \in DOMAIN users : users[u].mfaEnabled =>
    \/ users[u].secret # NoSecret /\ users[u].secret.plain \in confirmed
    \/ \E s, c \in Requests :
         op[s] = "setup" /\ op[c] = "confirm" /\ row[s] = u /\ row[c] = u /\ s \in during[c]

(* A user who had MFA on when a login arrived gets no session of that login   *)
(* without a code of the secret that was stored: only a login already under   *)
(* way when MFA is turned on may still slip through without one.              *)
MfaAskedFor ==
  \A l \in Requests : sessions[l] \in mfaOnAt[l] =>
    tokens[l].mfaVerified /\ secret[l] = user[l].secret.plain

(* Whenever the vault is not shredded it can write.  What it cannot read is   *)
(* what was written with a key that was shredded, or overwritten by another   *)
(* one restored under its version, and not restored since under that version: *)
(* that, restoreKey does lose, and nothing else, however set-ups were under   *)
(* way meanwhile.                                                             *)
VaultUsable ==
  ~isKeyShredded =>
    /\ CanEncrypt
    /\ \A u \in DOMAIN users :
         LET stored == users[u].secret
         IN stored # NoSecret =>
              (CanDecrypt(stored) <=> <<stored.version, stored.key>> \notin lostKeys)

Holders == {r \in Requests : pc[r] = "hold"}

(* No two transactions of a user work at once and the lock is held exactly    *)
(* while one of them does, unless Redis failed or a holder outlasted its key. *)
OneTransactionAtATime ==
  redisFailed \/ lockExpired \/
    /\ Cardinality(Holders) <= 1
    /\ (Holders # {}) = (activeLocks \/ lockExpiry # Unlocked)
===============================================================================
