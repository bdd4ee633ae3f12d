---------------------------- MODULE BreachResponse ----------------------------
(***************************************************************************)
(* BreachResponseService (breach-response.service.ts): the segments of     *)
(* handleBreachEvent between its awaits, and the operations that reset or  *)
(* extend what it has set.  A segment says what happens to the state of    *)
(* this service; who runs it, and when, is Gateway's.                      *)
(*                                                                         *)
(* Callers pass the sources GATEWAY_DPI and HONEYTOKEN only, so the branch *)
(* that shreds the keys is never taken here (DbCrypto has the operation).  *)
(* revokeToken is an await and nothing else: no code asks isTokenRevoked.  *)
(***************************************************************************)
EXTENDS FleetService

VARIABLES
  currentDefcon,   \* NORMAL or LOCKDOWN: the levels between are never set
  blacklistedIps,
  tarpittedIps,    \* the addresses; how often and since when is not used
  incidents        \* per kind: the incident rows, by who opened them and the level noted

listVars == <<currentDefcon, blacklistedIps, tarpittedIps>>

Normal == "DEFCON_5_NORMAL"
Lockdown == "DEFCON_1_BREACH_LOCKDOWN"

ListsInit ==
  /\ currentDefcon = Normal
  /\ blacklistedIps = {}
  /\ tarpittedIps = {}
  /\ incidents = {}

\* Up to the first await: the level, and the entity if it is one of the fleet;
\* for any other id quarantineEntity throws and the response ends there.
RaiseDefcon == currentDefcon' = Lockdown

EngageTarpit(ip) == tarpittedIps' = tarpittedIps \cup {ip}

\* Edge blacklisting and tarpit, after the await of revokeToken.
Blacklist(ip) == blacklistedIps' = blacklistedIps \cup {ip}

\* incident.create of freezeForensicEvidence and of handleDeceptionHit.
OpenIncident(r, level) == incidents' = incidents \cup {[by |-> r, defcon |-> level]}

\* Mutant: only the level is reset.
ResetDefcon_LevelOnly ==
  /\ currentDefcon' = Normal
  /\ UNCHANGED <<tarpittedIps, blacklistedIps>>

ResetDefcon ==
  /\ currentDefcon' = Normal
  /\ tarpittedIps' = {}
  /\ blacklistedIps' = {}
===============================================================================
