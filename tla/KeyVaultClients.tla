-------------------------- MODULE KeyVaultClients ---------------------------
(* The process-wide cache of Key Vault clients, keyvault.go: goroutines that  *)
(* resolve a secret of the same vault at the same time may each make a client *)
(* but use the one that was stored first.                                     *)
EXTENDS FiniteSets

CONSTANTS Caller, NoClient

ASSUME VaultAssumption == NoClient \notin Caller

VARIABLES
    stored,   \* keyVaultClientCache of the vault: the caller whose client it is
    holds,    \* caller -> the client it uses
    resolving \* caller -> "start", "missed", "done", "failed"

vaultVars == <<stored, holds, resolving>>

VaultInit == stored = NoClient /\ holds = [c \in Caller |-> NoClient] /\ resolving = [c \in Caller |-> "start"]

(* sync.Map.Load.                                                             *)
LoadClient(c) ==
    /\ resolving[c] = "start"
    /\ resolving' = [resolving EXCEPT ![c] = IF stored = NoClient THEN "missed" ELSE "done"]
    /\ holds' = [holds EXCEPT ![c] = stored]
    /\ UNCHANGED stored

(* Mutant: Store and use the caller's own client.                             *)
MakeOwnClient(c) ==
    /\ resolving[c] = "missed"
    /\ stored' = c
    /\ holds' = [holds EXCEPT ![c] = c]
    /\ resolving' = [resolving EXCEPT ![c] = "done"]

(* newKeyVaultClient may fail; otherwise LoadOrStore.                         *)
MakeClient(c) ==
    /\ resolving[c] = "missed"
    /\ \/ /\ stored' = IF stored = NoClient THEN c ELSE stored
          /\ holds' = [holds EXCEPT ![c] = stored']
          /\ resolving' = [resolving EXCEPT ![c] = "done"]
       \/ resolving' = [resolving EXCEPT ![c] = "failed"] /\ UNCHANGED <<stored, holds>>

VaultNext == \E c \in Caller : LoadClient(c) \/ MakeClient(c)

(* All callers of one vault share one client, also when they all missed the   *)
(* cache at once.  keyVaultClientFor.                                         *)
OneClientPerVault ==
    \A c, d \in Caller : resolving[c] = "done" /\ resolving[d] = "done" => holds[c] = holds[d] /\ holds[c] # NoClient
=============================================================================
