------------------------------ MODULE Bootstrap ------------------------------
(***************************************************************************)
(* Opening the standalone hub's state: Open, ensureMeta,                   *)
(* ensureAttestationKey and ensureAPIKey of connect/hub/standalone.go, and *)
(* the start of runStandalone in hub.go.  Each SQL statement and the       *)
(* write of the key file is a step of its own: there is no transaction.    *)
(* Hub processes may overlap on one state file (a restart that begins      *)
(* before the old process has gone) and may die at any step.               *)
(***************************************************************************)
EXTENDS Naturals

CONSTANTS
  Hubs,    \* hub processes that use the state file, one after the other or at once
  Values,  \* what uuid.NewString and ed25519.GenerateKey may return
  Keys,    \* bound: what apikeys.Generate returns, never the same twice
  None     \* no row, no file, nothing read

ASSUME BootstrapAssumption == None \notin Values /\ None \notin Keys

VARIABLES
  meta,     \* the meta table
  apiKeys,  \* the active rows of api_keys
  file,     \* the content of initial-api-key; None: empty or no file
  shown,    \* the keys that were logged or written to the file
  pc,       \* what each process does next
  ident,    \* State.InstanceID and the key in State.Signer, of each process
  minted    \* State.BootstrapAPIKey of each process

disk == <<meta, apiKeys, file>>
vars == <<meta, apiKeys, file, shown, pc, ident, minted>>

MetaKeys == {"instance_id", "attestation_key_pem"}
Reading == [instance_id |-> "readID", attestation_key_pem |-> "readPEM"]
Storing == [instance_id |-> "storeID", attestation_key_pem |-> "storePEM"]
Identified == {"countKeys", "storeKey", "writeFile", "fillFile", "show", "serving"}
PCs == {"down", "readID", "readPEM", "storeID", "storePEM"} \cup Identified

Init ==
  /\ meta = [k \in MetaKeys |-> None]
  /\ apiKeys = {}
  /\ file = None
  /\ shown = {}
  /\ pc = [h \in Hubs |-> "down"]
  /\ ident = [h \in Hubs |-> [k \in MetaKeys |-> None]]
  /\ minted = [h \in Hubs |-> None]

-----------------------------------------------------------------------------
Goes(h, next) == pc' = [pc EXCEPT ![h] = next]

\* The process ends; what it held in memory is gone.
Dies(h) ==
  /\ Goes(h, "down")
  /\ ident' = [ident EXCEPT ![h] = [k \in MetaKeys |-> None]]
  /\ minted' = [minted EXCEPT ![h] = None]

\* Open goes through the two entries of meta in this order, then to the API key.
After(k) == IF k = "instance_id" THEN "readPEM" ELSE "countKeys"

\* sql.Open and the schema, whose statements all say IF NOT EXISTS.
Start(h) ==
  /\ pc[h] = "down"
  /\ Goes(h, "readID")
  /\ UNCHANGED <<disk, shown, ident, minted>>

\* ensureMeta: SELECT ...
ReadMeta(h, k) ==
  /\ pc[h] = Reading[k]
  /\ ident' = [ident EXCEPT ![h][k] = meta[k]]
  /\ Goes(h, IF meta[k] # None THEN After(k) ELSE Storing[k])
  /\ UNCHANGED <<disk, shown, minted>>

\* Mutant: INSERT OR REPLACE.
StoreMetaReplaces(h, k, v) ==
  /\ pc[h] = Storing[k]
  /\ meta' = [meta EXCEPT ![k] = v]
  /\ ident' = [ident EXCEPT ![h][k] = v]
  /\ Goes(h, After(k))
  /\ UNCHANGED <<apiKeys, file, shown, minted>>

\* ... and INSERT of a value just generated, which is also the one returned.
StoreMeta(h, k, v) ==
  /\ pc[h] = Storing[k]
  /\ meta[k] = None
  /\ meta' = [meta EXCEPT ![k] = v]
  /\ ident' = [ident EXCEPT ![h][k] = v]
  /\ Goes(h, After(k))
  /\ UNCHANGED <<apiKeys, file, shown, minted>>

\* The key is meta's PRIMARY KEY: the INSERT fails if another process was faster,
\* Open returns the error and the process ends.
StoreMetaConflicts(h, k) ==
  /\ pc[h] = Storing[k]
  /\ meta[k] # None
  /\ Dies(h)
  /\ UNCHANGED <<disk, shown>>

\* ensureAPIKey: SELECT COUNT(*) ...
CountKeys(h) ==
  /\ pc[h] = "countKeys"
  /\ Goes(h, IF apiKeys # {} THEN "serving" ELSE "storeKey")
  /\ UNCHANGED <<disk, shown, ident, minted>>

\* Mutant: the file is written before the row.
StoreKeyFileFirst(h, key) ==
  /\ pc[h] \in {"storeKey", "writeFile"}
  /\ IF pc[h] = "storeKey"
       THEN /\ key \in Keys \ apiKeys
            /\ minted' = [minted EXCEPT ![h] = key]
            /\ file' = key
            /\ Goes(h, "writeFile")
            /\ UNCHANGED apiKeys
       ELSE /\ key = minted[h]
            /\ apiKeys' = apiKeys \cup {key}
            /\ Goes(h, "show")
            /\ UNCHANGED <<minted, file>>
  /\ UNCHANGED <<meta, shown, ident>>

\* ... and INSERT of a new key; nothing keeps two processes from minting one each.
StoreKey(h, key) ==
  /\ pc[h] = "storeKey"
  /\ key \notin apiKeys
  /\ apiKeys' = apiKeys \cup {key}
  /\ minted' = [minted EXCEPT ![h] = key]
  /\ Goes(h, "writeFile")
  /\ UNCHANGED <<meta, file, shown, ident>>

\* os.WriteFile of the key minted by this Open: O_TRUNC ...
TruncateFile(h) ==
  /\ pc[h] = "writeFile"
  /\ file' = None
  /\ Goes(h, "fillFile")
  /\ UNCHANGED <<meta, apiKeys, shown, ident, minted>>

\* ... then one write.
WriteFile(h) ==
  /\ pc[h] = "fillFile"
  /\ file' = minted[h]
  /\ shown' = shown \cup {minted[h]}
  /\ Goes(h, "show")
  /\ UNCHANGED <<meta, apiKeys, ident, minted>>

\* runStandalone logs the key and serves.
Show(h) ==
  /\ pc[h] = "show"
  /\ shown' = shown \cup {minted[h]}
  /\ Goes(h, "serving")
  /\ UNCHANGED <<disk, ident, minted>>

\* A crash, a stop, or an error of any statement or of the file write.
Crash(h) ==
  /\ pc[h] # "down"
  /\ Dies(h)
  /\ UNCHANGED <<disk, shown>>

Opens(h) ==
  \/ \E k \in MetaKeys : ReadMeta(h, k) \/ StoreMetaConflicts(h, k)
  \/ \E k \in MetaKeys, v \in Values : StoreMeta(h, k, v)
  \/ CountKeys(h) \/ TruncateFile(h) \/ WriteFile(h) \/ Show(h)
  \/ \E key \in Keys : StoreKey(h, key)

Next == \E h \in Hubs : Start(h) \/ Opens(h) \/ Crash(h)

Spec == Init /\ [][Next]_vars

-----------------------------------------------------------------------------
(* Properties.                                                              *)

\* The values every variable ranges over.
TypeOK ==
  /\ meta \in [MetaKeys -> Values \cup {None}]
  /\ apiKeys \in SUBSET Keys
  /\ file \in Keys \cup {None}
  /\ shown \in SUBSET (Keys \cup {None})
  /\ pc \in [Hubs -> PCs]
  /\ ident \in [Hubs -> [MetaKeys -> Values \cup {None}]]
  /\ minted \in [Hubs -> Keys \cup {None}]

\* Instance ID and attestation key are one and the same for all processes that
\* ever serve from the state, whatever starts raced and wherever they died: a
\* JWT signed before a restart verifies with the JWKS served after it.
OneIdentity ==
  \A h \in Hubs : pc[h] \in Identified
                    => ident[h] = meta /\ None \notin {meta[k] : k \in MetaKeys}

\* What is stored under a meta key never changes.
IdentityStable ==
  [][\A k \in MetaKeys : meta[k] # None => meta'[k] = meta[k]]_vars

\* The key in initial-api-key opens the REST API, also after a crash of Open:
\* its row is stored before the file is written.
FileKeyWorks == file # None => file \in apiKeys

\* The inductive invariant behind OneIdentity and FileKeyWorks: what a process
\* has read or stored is what meta holds; the key it is about to write has a row.
BootInv ==
  /\ TypeOK
  /\ \A h \in Hubs, k \in MetaKeys : ident[h][k] \in {None, meta[k]}
  /\ \A h \in Hubs : pc[h] \in {"readPEM", "storePEM"}
                       => ident[h]["instance_id"] # None
  /\ \A h \in Hubs : pc[h] \in Identified
                       => \A k \in MetaKeys : ident[h][k] # None
  /\ \A h \in Hubs : pc[h] \in {"writeFile", "fillFile", "show"} => minted[h] \in apiKeys
  /\ FileKeyWorks

-----------------------------------------------------------------------------
(* What the documentation claims and a crash refutes.                       *)

\* "The initial API key is written next to the state DB and printed": when a hub
\* serves, the operator could read a key that works.
ServingHubHasShownKey ==
  (\E h \in Hubs : pc[h] = "serving") => apiKeys \cap shown # {}
=============================================================================
