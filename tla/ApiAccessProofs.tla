--------------------------- MODULE ApiAccessProofs ---------------------------
(***************************************************************************)
(* Proofs about ApiAccess: for any keys drawn, any headers and any number  *)
(* of hubs and crashes, the admin API is open to the stored keys and to    *)
(* nothing else.  What a header says is decided by ApiKeysProofs, what is  *)
(* stored by BootstrapProofs.                                              *)
(***************************************************************************)
EXTENDS ApiAccess, ApiKeysProofs, BootstrapProofs

\* The bytes of a key are of the sizes that Generate reads.
LEMMA KeyBytes ==
  ASSUME NEW k \in Keys
  PROVE  k.id \in Digits(256, idBytesLen) /\ k.secret \in Digits(256, secretBytesLen)
<1>1. \A n : Digits(256, n) = [1..n -> 0..255] BY DEF Digits
<1> QED BY <1>1, KeyAssumption, Zenon

\* What Parse has to read to find the row of a key.
Stored(k) == [ID |-> encodeBase62(k.id, idEncodedLen), SecretHash |-> Sum256(k.secret)]

\* The row of a key, part by part.
LEMMA RowIs ==
  ASSUME NEW k \in Keys, NEW row, row = Row(generated[k])
  PROVE  /\ row.revokedAt = None
         /\ [ID |-> row.ID, SecretHash |-> row.SecretHash] = Stored(k)
BY DEF Row, generated, Generate, Stored

\* A header is read as the id and the hash of a key if and only if it carries that key.
LEMMA ReadIsCarried ==
  ASSUME NEW k \in Keys, NEW h, Len(h) = 2 => h[2] \in Seq(Chars)
  PROVE  FromAuthHeader(h) = {Stored(k)} <=> Carries(h, k)
<1> DEFINE row == Stored(k)
           id == encodeBase62(k.id, idEncodedLen)
<1>1. row = [ID |-> id, SecretHash |-> Sum256(k.secret)] BY DEF Stored
<1>2. id \in Digits(Base, idEncodedLen) BY KeyBytes, Lengths, EncodedIsDigits
<1> HIDE DEF row, id
<1>3. CASE Len(h) = 2 /\ h[1] = "bearer"
  <2>1. FromAuthHeader(h) = Parse(h[2]) BY <1>3 DEF FromAuthHeader
  <2>2. Carries(h, k) <=> IsRaw(h[2], id, encodeBase62(k.secret, secretEncodedLen))
        BY <1>3 DEF Carries, id
  <2>3. Parse(h[2]) = {row} <=> IsRaw(h[2], id, encodeBase62(k.secret, secretEncodedLen))
        BY <1>1, <1>2, <1>3, KeyBytes, ParseReadsRawKeys
  <2> QED BY <2>1, <2>2, <2>3 DEF row
<1>4. CASE ~(Len(h) = 2 /\ h[1] = "bearer")
      BY <1>4 DEF FromAuthHeader, Carries
<1> QED BY <1>3, <1>4

\* checkAPIKey compares with what is stored of the keys.
LEMMA ChecksStored ==
  ASSUME apiKeys \in SUBSET Keys, NEW read
  PROVE  checkAPIKey(read, Rows) <=> \E k \in apiKeys : read = {Stored(k)}
<1>1. \A k \in apiKeys : /\ Row(generated[k]).revokedAt = None
                         /\ [ID |-> Row(generated[k]).ID,
                             SecretHash |-> Row(generated[k]).SecretHash] = Stored(k)
      BY RowIs
<1> QED BY <1>1 DEF checkAPIKey, Rows

\* Of the keys stored, a request gets in with those its header carries.
LEMMA OpensInState == ASSUME apiKeys \in SUBSET Keys PROVE OpensForStoredKeysOnly
<1> SUFFICES ASSUME NEW h \in Headers
             PROVE  checkAPIKey(FromAuthHeader(h), Rows)
                      <=> {k \in Keys : Carries(h, k)} \cap apiKeys # {}
    BY DEF OpensForStoredKeysOnly, requests
<1>1. \A k \in Keys : FromAuthHeader(h) = {Stored(k)} <=> Carries(h, k)
      BY HeaderAssumption, ReadIsCarried
<1> QED BY <1>1, ChecksStored

\* checkAPIKey lets in a request if and only if its header carries a key whose row is
\* stored, in every state of any number of hubs that start, race and crash.
THEOREM ApiOpensForStoredKeysOnly == Spec => []OpensForStoredKeysOnly
<1>1. BootInv => OpensForStoredKeysOnly BY OpensInState DEF BootInv, TypeOK
<1> QED BY <1>1, BootInvariant, PTL

-----------------------------------------------------------------------------
\* The string that Open writes to initial-api-key, sent as it is, opens the API.
InitialKeyOpens ==
  file # None => checkAPIKey(FromAuthHeader(<<"bearer", generated[file].Encoded>>), Rows)

\* What Generate makes of the bytes of a key carries that key: the environment is not
\* empty and has no '_'.
LEMMA GeneratedCarries ==
  ASSUME NEW k \in Keys, NEW h, h = <<"bearer", generated[k].Encoded>>
  PROVE  h[2] \in Seq(Chars) /\ Carries(h, k)
<1> DEFINE id == encodeBase62(k.id, idEncodedLen)
           secret == encodeBase62(k.secret, secretEncodedLen)
           raw == Raw(apiKeyEnv, id, secret)
           e == 4 + Len(apiKeyEnv)
           d == e + 1 + idEncodedLen
<1>1. /\ id \in Digits(Base, idEncodedLen) /\ id \in Seq(Chars) /\ Len(id) = idEncodedLen
      /\ secret \in Seq(Chars) /\ Len(secret) = secretEncodedLen
      BY KeyBytes, Lengths, EncodedIsDigits
<1>2. /\ apiKeyEnv \in Seq(Chars) /\ Len(apiKeyEnv) \in Nat \ {0}
      /\ \A i \in 1..Len(apiKeyEnv) : apiKeyEnv[i] # Underscore
  <2>1. apiKeyEnv \in Seq(Chars \ {Underscore}) /\ apiKeyEnv # <<>> BY EnvAssumption
  <2>2. Len(apiKeyEnv) \in Nat \ {0} BY <2>1, EmptySeq
  <2>3. \A i \in 1..Len(apiKeyEnv) : apiKeyEnv[i] \in Chars \ {Underscore}
        BY <2>1, ElementOfSeq
  <2>4. apiKeyEnv \in [1..Len(apiKeyEnv) -> Chars] BY <2>1, <2>3, LenProperties
  <2>5. apiKeyEnv \in Seq(Chars) BY <2>2, <2>4, SeqDef
  <2> QED BY <2>2, <2>3, <2>5
<1>3. h[1] = "bearer" /\ h[2] = raw /\ Len(h) = 2
      BY DEF generated, Generate
<1> HIDE DEF id, secret
<1>4. Made(raw, apiKeyEnv, id, secret, e, d) BY <1>1, <1>2, RawAt
<1> HIDE DEF raw
<1> DEFINE n == 3 + Len(apiKeyEnv)
           env == SubSeq(raw, 4, n)
<1>5. n \in 4..Len(raw) BY <1>2, <1>4, Lengths DEF Made
<1>6. env = apiKeyEnv
  <2>1. 4 \in Int /\ n \in Int /\ \A i \in 4..n : raw[i] \in Chars
        BY <1>2, <1>4, <1>5, LenProperties DEF Made
  <2>2. /\ env \in Seq(Chars)
        /\ Len(env) = IF 4 <= n THEN n - 4 + 1 ELSE 0
        /\ \A i \in 1..(n - 4 + 1) : env[i] = raw[4 + i - 1]
        BY <2>1, SubSeqProperties
  <2> HIDE DEF env
  <2>3. Len(env) = Len(apiKeyEnv) BY <1>2, <2>2
  <2>4. ASSUME NEW i \in 1..Len(env) PROVE env[i] = apiKeyEnv[i]
    <3>1. i \in 1..(n - 4 + 1) /\ i \in 1..Len(apiKeyEnv) /\ 4 + i - 1 = 3 + i
          BY <1>2, <2>3
    <3> QED BY <1>4, <2>2, <3>1 DEF Made
  <2> QED BY <1>2, <2>2, <2>3, <2>4, SeqEqual
<1>7. IsRaw(raw, id, secret)
  <2>1. Len(keyPrefix) + 1 = 4 BY PrefixIsSeq
  <2>2. (\A i \in 1..Len(env) : env[i] # Underscore) /\ raw = Raw(env, id, secret)
        BY <1>2, <1>6 DEF raw
  <2> QED BY <1>5, <2>1, <2>2 DEF IsRaw
<1>8. raw \in Seq(Chars) BY <1>4 DEF Made
<1> QED BY <1>3, <1>7, <1>8 DEF Carries, id, secret

\* From the draw of the bytes over the row and the file to the check of a request: the
\* key that initial-api-key shows works, whatever bytes were drawn and wherever hubs died.
THEOREM InitialKeyAlwaysOpens == Spec => []InitialKeyOpens
<1>1. BootInv => InitialKeyOpens
  <2> SUFFICES ASSUME BootInv, file # None
               PROVE  checkAPIKey(FromAuthHeader(<<"bearer", generated[file].Encoded>>), Rows)
      BY DEF InitialKeyOpens
  <2>1. file \in apiKeys /\ file \in Keys /\ apiKeys \in SUBSET Keys
        BY DEF BootInv, TypeOK, FileKeyWorks
  <2> DEFINE h == <<"bearer", generated[file].Encoded>>
  <2>2. h[2] \in Seq(Chars) /\ Carries(h, file) BY <2>1, GeneratedCarries
  <2> HIDE DEF h
  <2>3. FromAuthHeader(h) = {Stored(file)} BY <2>1, <2>2, ReadIsCarried
  <2>4. checkAPIKey(FromAuthHeader(h), Rows) BY <2>1, <2>3, ChecksStored
  <2> QED BY <2>4 DEF h
<1> QED BY <1>1, BootInvariant, PTL
=============================================================================
