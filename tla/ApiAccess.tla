------------------------------ MODULE ApiAccess ------------------------------
(***************************************************************************)
(* Which requests the admin REST API lets in: checkAPIKey of               *)
(* standalone_rest.go over the rows that ensureAPIKey stored.  It composes *)
(* Bootstrap, whose Keys are now the bytes Generate reads, with ApiKeys.   *)
(* The row of a key is what generateWithReader derives from those bytes.   *)
(***************************************************************************)
EXTENDS Bootstrap, ApiKeys

CONSTANTS
  apiKeyEnv,  \* "standalone"
  Headers     \* the Authorization headers that requests come with

ASSUME KeyAssumption ==
  \A k \in Keys : /\ k.id \in [1..idBytesLen -> 0..255]
                  /\ k.secret \in [1..secretBytesLen -> 0..255]

\* Generate takes any environment that is not blank; one with a '_' would make keys
\* that split cannot read.
ASSUME EnvAssumption == apiKeyEnv \in Seq(Chars \ {Underscore}) \ {<<>>}

ASSUME HeaderAssumption == \A h \in Headers : Len(h) = 2 => h[2] \in Seq(Chars)

\* The row that ensureAPIKey inserts; nothing in the repository sets revoked_at_millis.
Row(key) == [ID |-> key.ID, SecretHash |-> key.SecretHash, revokedAt |-> None]

\* The row under the id of the parsed key is not revoked and has the hash of its secret.
checkAPIKey(apiKey, rows) ==
  \E row \in rows : /\ row.revokedAt = None
                    /\ apiKey = {[ID |-> row.ID, SecretHash |-> row.SecretHash]}

-----------------------------------------------------------------------------
(* What the requests say.  What depends on no variable is a function of its *)
(* own, computed once.                                                      *)

generated == [k \in Keys |-> Generate(apiKeyEnv, k)]

\* The header says the key that Generate made of the bytes k, if need be in another
\* spelling of what no row holds: the environment.
Carries(header, k) ==
  /\ Len(header) = 2 /\ header[1] = "bearer"
  /\ IsRaw(header[2], encodeBase62(k.id, idEncodedLen),
           encodeBase62(k.secret, secretEncodedLen))

\* The requests as far as they differ: the key read from the header, and those it says.
requests ==
  {[apiKey |-> FromAuthHeader(h), carried |-> {k \in Keys : Carries(h, k)}] : h \in Headers}

-----------------------------------------------------------------------------
(* Properties.                                                              *)

Rows == {Row(generated[k]) : k \in apiKeys}

\* The API is open to exactly the keys with a row, from the moment the row is
\* stored and through every crash: the string in the file or the log is accepted
\* whatever bytes were drawn (leading zeros, the largest number), a key that was
\* drawn but never stored is not, and neither is any near miss.
OpensForStoredKeysOnly ==
  \A r \in requests : checkAPIKey(r.apiKey, Rows) <=> r.carried \cap apiKeys # {}
=============================================================================
