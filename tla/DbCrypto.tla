------------------------------- MODULE DbCrypto -------------------------------
(***************************************************************************)
(* DbCryptoService (db-crypto.service.ts): the keys of the vault, by       *)
(* version, and what they can still read.  Every method is synchronous.    *)
(* AES-GCM is taken to be perfect: a ciphertext opens under the key it was *)
(* made with and no other.  The plaintexts are TOTP secrets, which do not  *)
(* start with "enc:", so isEncrypted tells the two apart.                  *)
(***************************************************************************)
EXTENDS Integers

CONSTANTS
  Versions,     \* names of key versions
  MasterKeys,   \* what keys are derived from
  InitialKeys,  \* versions configured by the environment, with their keys
  InitialVersion

ASSUME VaultAssumption ==
  /\ InitialVersion \in Versions
  /\ \E S \in SUBSET Versions : InitialVersion \in S /\ InitialKeys \in [S -> MasterKeys]

VARIABLES
  keys,           \* the key of each version that is loaded
  activeVersion,
  isKeyShredded,
  lostKeys        \* history: keys that were loaded under a version and are not any more

vaultVars == <<keys, activeVersion, isKeyShredded, lostKeys>>

VaultTypeOK ==
  /\ DOMAIN keys \subseteq Versions /\ \A v \in DOMAIN keys : keys[v] \in MasterKeys
  /\ activeVersion \in Versions
  /\ isKeyShredded \in BOOLEAN
  /\ lostKeys \subseteq Versions \X MasterKeys

\* initializeKeys
VaultInit ==
  /\ keys = InitialKeys
  /\ activeVersion = InitialVersion
  /\ isKeyShredded = FALSE
  /\ lostKeys = {}

\* encrypt() throws without a key, else the envelope names the version.
CanEncrypt == ~isKeyShredded /\ activeVersion \in DOMAIN keys
Encrypt(plain) == [plain |-> plain, version |-> activeVersion, key |-> keys[activeVersion]]

\* decrypt() throws unless the version is loaded with the key that was used.
CanDecrypt(c) == ~isKeyShredded /\ c.version \in DOMAIN keys /\ keys[c.version] = c.key

Loaded == {<<v, keys[v]>> : v \in DOMAIN keys}
SomeAreLost == lostKeys' = (lostKeys \cup Loaded) \ Loaded'

CryptoShred ==
  /\ keys' = [v \in {} |-> v]
  /\ SomeAreLost
  /\ isKeyShredded' = TRUE
  /\ UNCHANGED activeVersion

NewKeys(key, version) ==
  /\ keys' = [v \in DOMAIN keys \cup {version} |-> IF v = version THEN key ELSE keys[v]]
  /\ SomeAreLost

\* Mutant: the restored version is loaded, and the old one stays active.
RestoreKey_NotActivated(key, version) ==
  /\ NewKeys(key, version)
  /\ isKeyShredded' = FALSE
  /\ UNCHANGED activeVersion

\* restoreKey, also when nothing was shredded: one version is loaded, and a key it
\* had before is overwritten.
RestoreKey(key, version) ==
  /\ NewKeys(key, version)
  /\ activeVersion' = version
  /\ isKeyShredded' = FALSE
===============================================================================
