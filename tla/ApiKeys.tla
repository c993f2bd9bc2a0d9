------------------------------- MODULE ApiKeys -------------------------------
(***************************************************************************)
(* API keys of connect/shared/apikeys.go: "wc_<env>_<id>.<secret>", where  *)
(* id and secret are random bytes in base 62 at a fixed width.  A string   *)
(* is a sequence of characters; a character is its index in the base62     *)
(* alphabet, or one of the three numbers after it.  An operation that may  *)
(* fail returns the set of its result: {} is an error.                     *)
(***************************************************************************)
EXTENDS Naturals, SequencesExt

CONSTANTS
  idBytesLen, idEncodedLen,          \* the code: 12 bytes in 17 digits
  secretBytesLen, secretEncodedLen   \* the code: 32 bytes in 43 digits

Base == 62
Underscore == Base
Dot == Base + 1
Dollar == Base + 2   \* any character that is neither these nor a digit
Chars == 0..Dollar
keyPrefix == <<58, 38, Underscore>>   \* "wc_"

-----------------------------------------------------------------------------
\* The numbers that growing prefixes of the digits spell (num.Mul, num.Add; SetBytes).
Numbers(digits, base) ==
  LET num[i \in 0..Len(digits)] == IF i = 0 THEN 0 ELSE base * num[i - 1] + digits[i]
  IN  num

Number(digits, base) == Numbers(digits, base)[Len(digits)]

\* What num.DivMod leaves of num, time after time (and Bytes).
Left(num, base) ==
  LET left[i \in Nat] == IF i = 0 THEN num ELSE left[i - 1] \div base
  IN  left

\* Nothing is left of num after len digits.
Fits(num, base, len) == Left(num, base)[len] = 0

\* The last len digits of num: each is the remainder of one division, zeros on the left.
Spelled(num, base, len) == [i \in 1..len |-> Left(num, base)[len - i] % base]

encodeBase62(src, maxLen) == Spelled(Number(src, 256), Base, maxLen)

\* The number of bytes that num.Bytes() returns, if size are enough.
BytesLen(num, size) ==
  CHOOSE n \in 0..size : Fits(num, 256, n) /\ \A m \in 0..(n - 1) : ~Fits(num, 256, m)

\* Mutant: the bytes that num.Bytes() returns are not padded to their size.
decodeBase62Bare(s, size) ==
  {Spelled(num, 256, BytesLen(num, size)) :
     num \in {num \in {Number(s, Base)} :
               Fits(num, 256, size) /\ \A i \in 1..Len(s) : s[i] < Base}}

\* size bytes, zeros on the left, if s is of digits and its number fits.
decodeBase62(s, size) ==
  {Spelled(num, 256, size) :
     num \in {num \in {Number(s, Base)} :
               Fits(num, 256, size) /\ \A i \in 1..Len(s) : s[i] < Base}}

\* Otherwise encodeBase62 panics: "maxLen too small for source bytes".
Wide(size, maxLen) == Fits(Number([i \in 1..size |-> 255], 256), Base, maxLen)

ASSUME WidthAssumption ==
  /\ {idBytesLen, idEncodedLen, secretBytesLen, secretEncodedLen} \subseteq Nat \ {0}
  /\ Wide(idBytesLen, idEncodedLen)
  /\ Wide(secretBytesLen, secretEncodedLen)

-----------------------------------------------------------------------------
\* sha256.Sum256: no two secrets have the same hash.
Sum256(secret) == [sha256 |-> secret]

Raw(env, id, secret) ==
  keyPrefix \o env \o <<Underscore>> \o id \o <<Dot>> \o secret

\* The key that Generate makes of the bytes it reads.
Generate(env, bytes) ==
  LET idPart == encodeBase62(bytes.id, idEncodedLen)
  IN  [ID |-> idPart,
       Encoded |-> Raw(env, idPart, encodeBase62(bytes.secret, secretEncodedLen)),
       SecretHash |-> Sum256(bytes.secret)]

\* The first position of c in s; 0: none.
IndexByte(s, c) == SelectInSeq(s, LAMBDA x : x = c)

\* The parts of a raw key: environment up to the first '_', id up to the first '.'.
split(raw) ==
  LET trimmed == SubSeq(raw, Len(keyPrefix) + 1, Len(raw))
      envSep == IndexByte(trimmed, Underscore)
      remainder == SubSeq(trimmed, envSep + 1, Len(trimmed))
      dot == IndexByte(remainder, Dot)
  IN  {p \in {[id |-> SubSeq(remainder, 1, dot - 1),
               secret |-> SubSeq(remainder, dot + 1, Len(remainder))]} :
         /\ IsPrefix(keyPrefix, raw)
         /\ envSep > 1
         /\ dot > 1
         /\ Len(p.id) = idEncodedLen
         /\ Len(p.secret) = secretEncodedLen}

\* The id as it is spelled, and the hash of the secret's bytes.
Parse(raw) ==
  UNION {{[ID |-> p.id, SecretHash |-> Sum256(b)]
            : b \in decodeBase62(p.secret, secretBytesLen)} : p \in split(raw)}

\* A header is the sequence of its parts between spaces; strings.EqualFold does not
\* tell the case of the first one.
FromAuthHeader(header) ==
  IF Len(header) = 2 /\ header[1] = "bearer" THEN Parse(header[2]) ELSE {}

-----------------------------------------------------------------------------
\* The raw key of some environment with this id and this secret.
IsRaw(raw, id, secret) ==
  \E n \in Len(keyPrefix) + 1..Len(raw) :
    LET env == SubSeq(raw, Len(keyPrefix) + 1, n)
    IN  (\A i \in 1..Len(env) : env[i] # Underscore) /\ raw = Raw(env, id, secret)
=============================================================================
