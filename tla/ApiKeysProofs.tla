--------------------------- MODULE ApiKeysProofs ---------------------------
(***************************************************************************)
(* Proofs about ApiKeys, for any widths that hold the bytes: base 62 at a  *)
(* fixed width loses nothing and spells nothing twice, and a raw key is    *)
(* read back as the parts it was made of.                                  *)
(*                                                                         *)
(* Induction is over sets of numbers: the set of those that have the       *)
(* property is Nat.  That a recursive function meets its own equation is   *)
(* proved once, for a step given as a function (Recursion).                *)
(***************************************************************************)
EXTENDS ApiKeys, SequenceTheorems, WellFoundedInduction, TLAPS

-----------------------------------------------------------------------------
(* Induction and recursion on the naturals.                                 *)

\* A set of naturals that is not empty has a least element.
LEMMA Least ==
  ASSUME NEW S \in SUBSET Nat, S # {}
  PROVE  \E x \in S : \A y \in S : x <= y
<1> DEFINE Less == OpToRel(<, Nat)
<1>1. PICK x \in S : \A y \in S : ~(<<y, x>> \in Less)
  <2>1. IsWellFoundedOn(Less, Nat) BY NatLessThanWellFounded
  <2> HIDE DEF Less
  <2> QED BY <2>1, WFMin
<1>2. \A y \in S : <<y, x>> \in Less <=> y < x
      BY DEF OpToRel
<1>3. \A y \in S : ~(y < x) BY <1>1, <1>2, Zenon
<1> HIDE DEF Less
<1> QED BY <1>3

\* A set of naturals that holds 0 and with every number the next one holds them all.
LEMMA Induction ==
  ASSUME NEW S \in SUBSET Nat, 0 \in S, \A n \in S : n + 1 \in S
  PROVE  S = Nat
<1> SUFFICES ASSUME Nat \ S # {} PROVE FALSE OBVIOUS
<1>1. PICK x \in Nat \ S : \A y \in Nat \ S : x <= y BY Least
<1>2. x - 1 \in Nat /\ (x - 1) + 1 = x OBVIOUS
<1>3. x - 1 \in S BY <1>1, <1>2
<1> QED BY <1>2, <1>3

\* g is the recursion from a by step, as far as n.
Recurs(g, a, step, n) ==
  /\ g \in [0..n -> Nat] /\ g[0] = a
  /\ \A i \in 0..(n - 1) : g[i + 1] = step[<<i, g[i]>>]

\* Two recursions agree as far as both go.
LEMMA RecursUnique ==
  ASSUME NEW a, NEW step, NEW m \in Nat, NEW n \in Nat, NEW g, NEW h,
         Recurs(g, a, step, m), Recurs(h, a, step, n), m <= n
  PROVE  \A i \in 0..m : g[i] = h[i]
<1> DEFINE A == {i \in Nat : i <= m => g[i] = h[i]}
<1>1. 0 \in A BY DEF Recurs
<1>2. ASSUME NEW i \in A PROVE i + 1 \in A
  <2> SUFFICES ASSUME i + 1 <= m PROVE g[i + 1] = h[i + 1] OBVIOUS
  <2>1. g[i] = h[i] OBVIOUS
  <2>2. i \in 0..(m - 1) /\ i \in 0..(n - 1) OBVIOUS
  <2> QED BY <2>1, <2>2 DEF Recurs
<1>3. A = Nat
  <2>1. A \in SUBSET Nat OBVIOUS
  <2> HIDE DEF A
  <2> QED BY <1>1, <1>2, <2>1, Induction
<1> QED BY <1>3

\* f is that recursion, without an end.
Iterates(f, a, step) ==
  f \in [Nat -> Nat] /\ f[0] = a /\ \A n \in Nat : f[n + 1] = step[<<n, f[n]>>]

\* A recursion by a step that is a function goes on for ever.
LEMMA Recursion ==
  ASSUME NEW a \in Nat, NEW step \in [Nat \X Nat -> Nat]
  PROVE  \E f : Iterates(f, a, step)
<1> DEFINE A == {n \in Nat : \E g : Recurs(g, a, step, n)}
<1>1. 0 \in A
  <2>1. Recurs([i \in 0..0 |-> a], a, step, 0) BY DEF Recurs
  <2> QED BY <2>1
<1>2. ASSUME NEW n \in A PROVE n + 1 \in A
  <2>1. PICK g : Recurs(g, a, step, n) OBVIOUS
  <2> DEFINE h == [i \in 0..(n + 1) |-> IF i <= n THEN g[i] ELSE step[<<n, g[n]>>]]
  <2>2. g \in [0..n -> Nat] /\ g[n] \in Nat /\ n \in Nat BY <2>1 DEF Recurs
  <2>3. h \in [0..(n + 1) -> Nat] BY <2>2
  <2>4. h[0] = a BY <2>1, <2>2 DEF Recurs
  <2>5. ASSUME NEW i \in 0..((n + 1) - 1) PROVE h[i + 1] = step[<<i, h[i]>>]
    <3>1. CASE i < n BY <2>1, <2>2, <3>1 DEF Recurs
    <3>2. CASE i = n
      <4>1. h[n] = g[n] /\ h[n + 1] = step[<<n, g[n]>>] BY <2>2
      <4> QED BY <3>2, <4>1
    <3> QED BY <2>2, <3>1, <3>2
  <2>6. Recurs(h, a, step, n + 1) BY <2>3, <2>4, <2>5 DEF Recurs
  <2> QED BY <2>2, <2>6
<1>3. A = Nat
  <2>1. A \in SUBSET Nat OBVIOUS
  <2> HIDE DEF A
  <2> QED BY <1>1, <1>2, <2>1, Induction
<1> DEFINE G(n) == CHOOSE g : Recurs(g, a, step, n)
           f == [n \in Nat |-> G(n)[n]]
<1>4. \A n \in Nat : Recurs(G(n), a, step, n)
  <2>1. \A n \in Nat : \E g : Recurs(g, a, step, n) BY <1>3
  <2> QED BY <2>1
<1> HIDE DEF G
<1>5. f \in [Nat -> Nat] /\ f[0] = a BY <1>4 DEF Recurs
<1>6. ASSUME NEW n \in Nat PROVE f[n + 1] = step[<<n, f[n]>>]
  <2>1. G(n + 1)[n + 1] = step[<<n, G(n + 1)[n]>>]
    <3>1. n \in 0..((n + 1) - 1) /\ n + 1 \in Nat OBVIOUS
    <3> QED BY <1>4, <3>1 DEF Recurs
  <2>2. G(n)[n] = G(n + 1)[n]
    <3>1. n \in 0..n /\ n + 1 \in Nat /\ n <= n + 1 OBVIOUS
    <3>2. Recurs(G(n), a, step, n) /\ Recurs(G(n + 1), a, step, n + 1) BY <1>4, <3>1
    <3>3. ASSUME NEW k \in Nat, n <= k, NEW g, NEW h,
                 Recurs(g, a, step, n), Recurs(h, a, step, k)
          PROVE  g[n] = h[n]
      <4> HIDE DEF f, A
      <4>1. \A i \in 0..n : g[i] = h[i] BY <3>3, RecursUnique
      <4> QED BY <3>1, <4>1
    <3> QED BY <3>1, <3>2, <3>3
  <2> QED BY <2>1, <2>2
<1> QED BY <1>5, <1>6 DEF Iterates

-----------------------------------------------------------------------------
(* The loops of decodeBase62 and encodeBase62 compute what they say.        *)

\* One division, undone and done (big.Int.DivMod, Mul and Add).
LEMMA DivMod ==
  ASSUME NEW base \in Nat, base > 1, NEW x \in Nat
  PROVE  /\ x = base * (x \div base) + (x % base)
         /\ x \div base \in Nat /\ x % base \in 0..(base - 1)
OBVIOUS

\* One multiplication, done and undone.
LEMMA MulAdd ==
  ASSUME NEW base \in Nat, base > 1, NEW q \in Nat, NEW r \in 0..(base - 1)
  PROVE  (base * q + r) \div base = q /\ (base * q + r) % base = r
OBVIOUS

\* It stays in the naturals.
LEMMA MulAddType ==
  ASSUME NEW base \in Nat, NEW q \in Nat, NEW r \in Nat
  PROVE  base * q + r \in Nat
OBVIOUS

\* The loop of decodeBase62: times the base, plus the next digit.
LEMMA NumbersDef ==
  ASSUME NEW base \in Nat, NEW s \in Seq(Nat)
  PROVE  /\ Numbers(s, base) \in [0..Len(s) -> Nat]
         /\ Numbers(s, base)[0] = 0
         /\ \A i \in 1..Len(s) :
              Numbers(s, base)[i] = base * Numbers(s, base)[i - 1] + s[i]
<1> DEFINE step == [p \in Nat \X Nat |-> IF p[1] + 1 <= Len(s)
                                           THEN base * p[2] + s[p[1] + 1] ELSE 0]
<1>1. Len(s) \in Nat /\ \A i \in 1..Len(s) : s[i] \in Nat
      BY LenProperties, ElementOfSeq
<1>2. step \in [Nat \X Nat -> Nat]
  <2>1. ASSUME NEW p \in Nat \X Nat
        PROVE  (IF p[1] + 1 <= Len(s) THEN base * p[2] + s[p[1] + 1] ELSE 0) \in Nat
    <3>1. p[1] \in Nat /\ p[2] \in Nat OBVIOUS
    <3>2. CASE p[1] + 1 <= Len(s)
      <4>1. s[p[1] + 1] \in Nat BY <1>1, <3>1, <3>2
      <4> QED BY <3>1, <3>2, <4>1, MulAddType
    <3> QED BY <3>2
  <2> QED BY <2>1
<1>3. PICK f : Iterates(f, 0, step)
  <2> HIDE DEF step
  <2> QED BY <1>2, Recursion
<1>3a. f \in [Nat -> Nat] /\ f[0] = 0 /\ \A n \in Nat : f[n + 1] = step[<<n, f[n]>>]
  <2> HIDE DEF step
  <2> QED BY <1>3 DEF Iterates
<1> DEFINE g == [i \in 0..Len(s) |-> f[i]]
<1>4. ASSUME NEW i \in 1..Len(s) PROVE f[i] = base * f[i - 1] + s[i]
  <2>1. i - 1 \in Nat /\ (i - 1) + 1 = i /\ i <= Len(s) BY <1>1
  <2>2. f[i] = step[<<i - 1, f[i - 1]>>]
    <3> HIDE DEF step
    <3> QED BY <1>3a, <2>1
  <2>3. <<i - 1, f[i - 1]>> \in Nat \X Nat BY <1>3a, <2>1
  <2> QED BY <2>1, <2>2, <2>3
<1>5. g = [i \in 0..Len(s) |-> IF i = 0 THEN 0 ELSE base * g[i - 1] + s[i]]
  <2>1. ASSUME NEW i \in 0..Len(s)
        PROVE  g[i] = IF i = 0 THEN 0 ELSE base * g[i - 1] + s[i]
    <3>1. CASE i = 0 BY <1>1, <1>3a, <3>1
    <3>2. CASE i # 0
      <4>1. i \in 1..Len(s) /\ i - 1 \in 0..Len(s) BY <1>1, <3>2
      <4>2. g[i] = f[i] /\ g[i - 1] = f[i - 1] BY <4>1
      <4> QED BY <1>4, <3>2, <4>1, <4>2
    <3> QED BY <3>1, <3>2
  <2> QED BY <2>1
<1> HIDE DEF g, step
<1> DEFINE N == Numbers(s, base)
<1>6. N = [i \in 0..Len(s) |-> IF i = 0 THEN 0 ELSE base * N[i - 1] + s[i]]
  <2>1. \E h : h = [i \in 0..Len(s) |-> IF i = 0 THEN 0 ELSE base * h[i - 1] + s[i]]
        BY <1>5
  <2> QED BY <2>1 DEF Numbers
<1> HIDE DEF N
<1>7. N[0] = 0 /\ \A i \in 1..Len(s) : N[i] = base * N[i - 1] + s[i]
  <2>1. ASSUME NEW i \in 1..Len(s) PROVE N[i] = base * N[i - 1] + s[i]
    <3>1. i \in 0..Len(s) /\ i # 0 BY <1>1
    <3> QED BY <1>6, <3>1
  <2>2. 0 \in 0..Len(s) BY <1>1
  <2> QED BY <1>6, <2>1, <2>2
<1>8. \A i \in 0..Len(s) : N[i] \in Nat
  <2> DEFINE A == {i \in Nat : i <= Len(s) => N[i] \in Nat}
  <2>1. 0 \in A BY <1>7
  <2>2. ASSUME NEW i \in A PROVE i + 1 \in A
    <3> SUFFICES ASSUME i + 1 <= Len(s) PROVE N[i + 1] \in Nat OBVIOUS
    <3>1. i \in Nat /\ i + 1 \in 1..Len(s) /\ (i + 1) - 1 = i /\ N[i] \in Nat BY <1>1
    <3>2. N[i + 1] = base * N[i] + s[i + 1] BY <1>7, <3>1
    <3>3. N[i] \in Nat /\ s[i + 1] \in Nat BY <1>1, <3>1
    <3> QED BY <3>2, <3>3, MulAddType
  <2>3. A = Nat
    <3>1. A \in SUBSET Nat OBVIOUS
    <3> HIDE DEF A
    <3> QED BY <2>1, <2>2, <3>1, Induction
  <2> QED BY <1>1, <2>3
<1> QED BY <1>6, <1>7, <1>8 DEF N

\* The loop of encodeBase62: divided by the base.
LEMMA LeftDef ==
  ASSUME NEW base \in Nat, base > 1, NEW num \in Nat
  PROVE  /\ Left(num, base) \in [Nat -> Nat]
         /\ Left(num, base)[0] = num
         /\ \A i \in Nat : Left(num, base)[i + 1] = Left(num, base)[i] \div base
<1> DEFINE step == [p \in Nat \X Nat |-> p[2] \div base]
<1>1. step \in [Nat \X Nat -> Nat]
  <2>1. \A p \in Nat \X Nat : p[2] \div base \in Nat BY DivMod
  <2> QED BY <2>1
<1>2. PICK f : Iterates(f, num, step)
  <2> HIDE DEF step
  <2> QED BY <1>1, Recursion
<1>2a. f \in [Nat -> Nat] /\ f[0] = num /\ \A n \in Nat : f[n + 1] = step[<<n, f[n]>>]
  <2> HIDE DEF step
  <2> QED BY <1>2 DEF Iterates
<1>3. \A n \in Nat : f[n + 1] = f[n] \div base BY <1>2a
<1>4. f = [i \in Nat |-> IF i = 0 THEN num ELSE f[i - 1] \div base]
  <2> HIDE DEF step
  <2>1. ASSUME NEW i \in Nat PROVE f[i] = IF i = 0 THEN num ELSE f[i - 1] \div base
    <3>1. CASE i # 0
      <4>1. i - 1 \in Nat /\ (i - 1) + 1 = i BY <3>1
      <4> QED BY <1>3, <3>1, <4>1
    <3> QED BY <1>2a, <3>1
  <2> QED BY <1>2a, <2>1
<1> HIDE DEF step
<1> DEFINE L == Left(num, base)
<1>5. L = [i \in Nat |-> IF i = 0 THEN num ELSE L[i - 1] \div base]
  <2>1. \E h : h = [i \in Nat |-> IF i = 0 THEN num ELSE h[i - 1] \div base] BY <1>4
  <2> QED BY <2>1 DEF Left
<1> HIDE DEF L
<1>6. L[0] = num /\ \A i \in Nat : L[i + 1] = L[i] \div base
  <2>1. ASSUME NEW i \in Nat PROVE L[i + 1] = L[i] \div base
    <3>1. i + 1 \in Nat /\ i + 1 # 0 /\ (i + 1) - 1 = i OBVIOUS
    <3> QED BY <1>5, <3>1
  <2> QED BY <1>5, <2>1
<1>7. \A i \in Nat : L[i] \in Nat
  <2> DEFINE A == {i \in Nat : L[i] \in Nat}
  <2>1. 0 \in A BY <1>6
  <2>2. ASSUME NEW i \in A PROVE i + 1 \in A
    <3>1. i \in Nat /\ L[i] \in Nat OBVIOUS
    <3>2. L[i + 1] = L[i] \div base BY <1>6, <3>1
    <3>3. L[i] \div base \in Nat BY <3>1, DivMod
    <3> QED BY <3>1, <3>2, <3>3
  <2>3. A = Nat
    <3>1. A \in SUBSET Nat OBVIOUS
    <3> HIDE DEF A
    <3> QED BY <2>1, <2>2, <3>1, Induction
  <2> QED BY <2>3
<1> QED BY <1>5, <1>6, <1>7 DEF L

-----------------------------------------------------------------------------
(* Spelling and reading a number undo each other.                           *)

\* The sequences of len digits in a base.
Digits(base, len) == [1..len -> 0..(base - 1)]

\* They are sequences of that length.
LEMMA DigitsAreSeq ==
  ASSUME NEW base \in Nat, NEW len \in Nat, NEW s \in Digits(base, len)
  PROVE  s \in Seq(Nat) /\ Len(s) = len
<1>1. s \in [1..len -> Nat] BY DEF Digits
<1>2. s \in Seq(Nat) BY <1>1, SeqDef
<1> QED BY <1>1, <1>2, LenProperties

\* A number is spelled in digits, and in as many as asked for.
LEMMA SpelledIsDigits ==
  ASSUME NEW base \in Nat, base > 1, NEW num \in Nat, NEW len \in Nat
  PROVE  Spelled(num, base, len) \in Digits(base, len)
<1>1. ASSUME NEW i \in 1..len PROVE Left(num, base)[len - i] % base \in 0..(base - 1)
  <2>1. len - i \in Nat OBVIOUS
  <2>2. Left(num, base)[len - i] \in Nat BY <2>1, LeftDef
  <2> QED BY <2>2, DivMod
<1> QED BY <1>1 DEF Spelled, Digits

\* What encodeBase62 spells is read back by the loop of decodeBase62, if nothing
\* was left to spell.
LEMMA NumberOfSpelled ==
  ASSUME NEW base \in Nat, base > 1, NEW num \in Nat, NEW len \in Nat,
         Fits(num, base, len)
  PROVE  Number(Spelled(num, base, len), base) = num
<1> DEFINE s == Spelled(num, base, len)
           N == Numbers(s, base)
           L == Left(num, base)
<1>1. s \in Seq(Nat) /\ Len(s) = len
      BY SpelledIsDigits, DigitsAreSeq
<1>2. \A i \in 1..len : s[i] = L[len - i] % base
      BY DEF Spelled
<1>3. L \in [Nat -> Nat] /\ L[0] = num /\ \A i \in Nat : L[i + 1] = L[i] \div base
      BY LeftDef
<1>4. N[0] = 0 /\ \A i \in 1..len : N[i] = base * N[i - 1] + s[i]
  <2> HIDE DEF s
  <2> QED BY <1>1, NumbersDef
<1>5. L[len] = 0 BY DEF Fits
<1>6. Number(s, base) = N[len]
  <2> HIDE DEF s
  <2> QED BY <1>1 DEF Number
<1> HIDE DEF s, N, L
<1> DEFINE A == {i \in Nat : i <= len => N[i] = L[len - i]}
<1>7. 0 \in A BY <1>4, <1>5
<1>8. ASSUME NEW i \in A PROVE i + 1 \in A
  <2> SUFFICES ASSUME i + 1 <= len PROVE N[i + 1] = L[len - (i + 1)] OBVIOUS
  <2> DEFINE k == len - (i + 1)
  <2>1. i \in Nat /\ k \in Nat /\ len - i = k + 1 /\ i + 1 \in 1..len /\ (i + 1) - 1 = i
        OBVIOUS
  <2>2. N[i] = L[k + 1] BY <2>1
  <2> HIDE DEF k
  <2>3. L[k] \in Nat /\ L[k + 1] = L[k] \div base BY <1>3, <2>1
  <2>4. N[i + 1] = base * (L[k] \div base) + (L[k] % base)
    <3>1. N[i + 1] = base * N[i] + s[i + 1] BY <1>4, <2>1
    <3>2. s[i + 1] = L[k] % base BY <1>2, <2>1 DEF k
    <3> QED BY <2>2, <2>3, <3>1, <3>2
  <2>5. N[i + 1] = L[k] BY <2>3, <2>4, DivMod
  <2> QED BY <2>5 DEF k
<1>9. A = Nat
  <2>1. A \in SUBSET Nat OBVIOUS
  <2> HIDE DEF A
  <2> QED BY <1>7, <1>8, <2>1, Induction
<1>10. N[len] = L[len - len] /\ len - len = 0 BY <1>9
<1> QED BY <1>3, <1>6, <1>10 DEF s

\* Digits are spelled as they were read, and leave nothing.
LEMMA SpelledOfNumber ==
  ASSUME NEW base \in Nat, base > 1, NEW len \in Nat, NEW s \in Digits(base, len)
  PROVE  /\ Number(s, base) \in Nat
         /\ Fits(Number(s, base), base, len)
         /\ Spelled(Number(s, base), base, len) = s
<1> DEFINE num == Number(s, base)
           N == Numbers(s, base)
           L == Left(num, base)
<1>1. s \in Seq(Nat) /\ Len(s) = len BY DigitsAreSeq
<1>2. /\ N \in [0..len -> Nat] /\ N[0] = 0
      /\ \A i \in 1..len : N[i] = base * N[i - 1] + s[i]
      BY <1>1, NumbersDef
<1>3. num = N[len] /\ num \in Nat BY <1>1, <1>2 DEF Number
<1>4. L \in [Nat -> Nat] /\ L[0] = num /\ \A i \in Nat : L[i + 1] = L[i] \div base
  <2> HIDE DEF num
  <2> QED BY <1>3, LeftDef
<1> HIDE DEF num, N, L
<1>5. \A i \in 1..len : N[i] \div base = N[i - 1] /\ N[i] % base = s[i]
  <2> SUFFICES ASSUME NEW i \in 1..len
               PROVE  N[i] \div base = N[i - 1] /\ N[i] % base = s[i]
      OBVIOUS
  <2>1. N[i - 1] \in Nat /\ s[i] \in 0..(base - 1) BY <1>2 DEF Digits
  <2>2. N[i] = base * N[i - 1] + s[i] BY <1>2
  <2> DEFINE q == N[i - 1]
             r == s[i]
  <2> HIDE DEF q, r
  <2>3. (base * q + r) \div base = q /\ (base * q + r) % base = r BY <2>1, MulAdd DEF q, r
  <2> QED BY <2>2, <2>3 DEF q, r
<1> DEFINE A == {i \in Nat : i <= len => L[i] = N[len - i]}
<1>6. 0 \in A BY <1>3, <1>4
<1>7. ASSUME NEW i \in A PROVE i + 1 \in A
  <2> SUFFICES ASSUME i + 1 <= len PROVE L[i + 1] = N[len - (i + 1)] OBVIOUS
  <2>1. i \in Nat /\ len - i \in 1..len /\ (len - i) - 1 = len - (i + 1) OBVIOUS
  <2>2. L[i] = N[len - i] BY <2>1
  <2>3. L[i + 1] = L[i] \div base BY <1>4, <2>1
  <2> QED BY <1>5, <2>1, <2>2, <2>3
<1>8. A = Nat
  <2>1. A \in SUBSET Nat OBVIOUS
  <2> HIDE DEF A
  <2> QED BY <1>6, <1>7, <2>1, Induction
<1>9. L[len] = 0
  <2>1. len - len = 0 /\ L[len] = N[len - len] BY <1>8
  <2> QED BY <1>2, <2>1
<1>10. \A i \in 1..len : L[len - i] % base = s[i]
  <2> SUFFICES ASSUME NEW i \in 1..len PROVE L[len - i] % base = s[i] OBVIOUS
  <2>1. len - i \in Nat /\ len - i <= len /\ len - (len - i) = i OBVIOUS
  <2>2. L[len - i] = N[len - (len - i)] BY <1>8, <2>1
  <2> QED BY <1>5, <2>1, <2>2
<1>11. Spelled(num, base, len) = s
  <2>1. Spelled(num, base, len) = [i \in 1..len |-> L[len - i] % base] BY DEF Spelled, L
  <2> QED BY <1>10, <2>1 DEF Digits
<1> QED BY <1>3, <1>9, <1>11 DEF num, L, Fits

-----------------------------------------------------------------------------
(* The widths are enough for every draw.                                    *)

\* A step of decodeBase62 keeps the order of two numbers.
LEMMA MulAddMonotone ==
  ASSUME NEW base \in Nat, NEW x \in Nat, NEW y \in Nat, x <= y,
         NEW c \in Nat, NEW d \in Nat, c <= d
  PROVE  base * x + c <= base * y + d
OBVIOUS

\* So does a step of encodeBase62.
LEMMA DivMonotone ==
  ASSUME NEW base \in Nat, base > 1, NEW x \in Nat, NEW y \in Nat, x <= y
  PROVE  x \div base <= y \div base
OBVIOUS

\* Larger digits spell a larger number.
LEMMA NumberMonotone ==
  ASSUME NEW base \in Nat, NEW len \in Nat,
         NEW s \in Digits(base, len), NEW t \in Digits(base, len),
         \A i \in 1..len : s[i] <= t[i]
  PROVE  Number(s, base) <= Number(t, base)
<1> DEFINE M == Numbers(s, base)
           N == Numbers(t, base)
<1>1. s \in Seq(Nat) /\ Len(s) = len /\ t \in Seq(Nat) /\ Len(t) = len BY DigitsAreSeq
<1>2. /\ M \in [0..len -> Nat] /\ M[0] = 0
      /\ \A i \in 1..len : M[i] = base * M[i - 1] + s[i]
      BY <1>1, NumbersDef
<1>3. /\ N \in [0..len -> Nat] /\ N[0] = 0
      /\ \A i \in 1..len : N[i] = base * N[i - 1] + t[i]
      BY <1>1, NumbersDef
<1>4. Number(s, base) = M[len] /\ Number(t, base) = N[len] BY <1>1 DEF Number
<1> HIDE DEF M, N
<1> DEFINE A == {i \in Nat : i <= len => M[i] <= N[i]}
<1>5. 0 \in A BY <1>2, <1>3
<1>6. ASSUME NEW i \in A PROVE i + 1 \in A
  <2> SUFFICES ASSUME i + 1 <= len PROVE M[i + 1] <= N[i + 1] OBVIOUS
  <2>1. i \in Nat /\ i \in 0..len /\ i + 1 \in 1..len /\ (i + 1) - 1 = i OBVIOUS
  <2>2. M[i] \in Nat /\ N[i] \in Nat /\ M[i] <= N[i] BY <1>2, <1>3, <2>1
  <2>3. s[i + 1] \in Nat /\ t[i + 1] \in Nat /\ s[i + 1] <= t[i + 1] BY <2>1 DEF Digits
  <2>4. M[i + 1] = base * M[i] + s[i + 1] /\ N[i + 1] = base * N[i] + t[i + 1]
        BY <1>2, <1>3, <2>1
  <2> QED BY <2>2, <2>3, <2>4, MulAddMonotone
<1>7. A = Nat
  <2>1. A \in SUBSET Nat OBVIOUS
  <2> HIDE DEF A
  <2> QED BY <1>5, <1>6, <2>1, Induction
<1> QED BY <1>4, <1>7

\* A smaller number has nothing left when a larger one has not.
LEMMA FitsMonotone ==
  ASSUME NEW base \in Nat, base > 1, NEW len \in Nat, NEW m \in Nat, NEW n \in Nat, m <= n,
         Fits(n, base, len)
  PROVE  Fits(m, base, len)
<1> DEFINE K == Left(m, base)
           L == Left(n, base)
<1>1. K \in [Nat -> Nat] /\ K[0] = m /\ \A i \in Nat : K[i + 1] = K[i] \div base BY LeftDef
<1>2. L \in [Nat -> Nat] /\ L[0] = n /\ \A i \in Nat : L[i + 1] = L[i] \div base BY LeftDef
<1>3. L[len] = 0 BY DEF Fits
<1> HIDE DEF K, L
<1> DEFINE A == {i \in Nat : K[i] <= L[i]}
<1>4. 0 \in A BY <1>1, <1>2
<1>5. ASSUME NEW i \in A PROVE i + 1 \in A
  <2>1. i \in Nat /\ K[i] <= L[i] /\ K[i] \in Nat /\ L[i] \in Nat BY <1>1, <1>2
  <2>2. K[i] \div base <= L[i] \div base BY <2>1, DivMonotone
  <2>3. K[i + 1] <= L[i + 1] BY <1>1, <1>2, <2>1, <2>2
  <2> QED BY <2>1, <2>3
<1>6. A = Nat
  <2>1. A \in SUBSET Nat OBVIOUS
  <2> HIDE DEF A
  <2> QED BY <1>4, <1>5, <2>1, Induction
<1>7. K[len] <= 0 /\ K[len] \in Nat BY <1>1, <1>3, <1>6
<1>8. K[len] = 0 BY <1>7
<1> QED BY <1>8 DEF Fits, K

\* encodeBase62 never reaches its panic: a width that holds the largest number of size
\* bytes holds every draw of them.
THEOREM EncodeNeverPanics ==
  ASSUME NEW size \in Nat, NEW maxLen \in Nat, Wide(size, maxLen), NEW src \in Digits(256, size)
  PROVE  Fits(Number(src, 256), Base, maxLen)
<1> DEFINE top == [i \in 1..size |-> 255]
<1>1. top \in Digits(256, size) /\ \A i \in 1..size : src[i] <= top[i]
  <2>1. Digits(256, size) = [1..size -> 0..255] BY DEF Digits
  <2>2. \A i \in 1..size : src[i] \in 0..255 BY <2>1
  <2>3. \A v \in 0..255 : v <= 255 OBVIOUS
  <2>4. top \in [1..size -> 0..255] /\ \A i \in 1..size : top[i] = 255 OBVIOUS
  <2> HIDE DEF top
  <2>5. \A i \in 1..size : src[i] <= 255 BY <2>2, <2>3, Zenon
  <2>6. ASSUME NEW i \in 1..size PROVE src[i] <= top[i]
    <3>1. top[i] = 255 BY <2>4
    <3>2. src[i] <= 255 BY <2>5
    <3> QED BY <3>1, <3>2
  <2> QED BY <2>1, <2>4, <2>6
<1>2. Fits(Number(top, 256), Base, maxLen) BY DEF Wide
<1> HIDE DEF top
<1>3. Number(src, 256) <= Number(top, 256) BY <1>1, NumberMonotone
<1>4. Number(src, 256) \in Nat /\ Number(top, 256) \in Nat BY <1>1, SpelledOfNumber
<1> QED BY <1>2, <1>3, <1>4, FitsMonotone DEF Base

\* decodeBase62 returns the bytes of exactly the string that encodeBase62 makes of them:
\* a fixed width loses no leading zero, and no other string of that width stands for
\* the same bytes.
THEOREM Base62RoundTrip ==
  ASSUME NEW size \in Nat, NEW maxLen \in Nat, Wide(size, maxLen),
         NEW b \in Digits(256, size), NEW s \in Seq(Chars), Len(s) = maxLen
  PROVE  decodeBase62(s, size) = {b} <=> s = encodeBase62(b, maxLen)
<1> DEFINE num == Number(b, 256)
<1>1. num \in Nat /\ Fits(num, 256, size) /\ Spelled(num, 256, size) = b
      BY SpelledOfNumber
<1>2. Fits(num, Base, maxLen) BY EncodeNeverPanics
<1> HIDE DEF num
<1>3. s \in [1..maxLen -> Chars] BY LenProperties
<1>4. ASSUME s = encodeBase62(b, maxLen) PROVE decodeBase62(s, size) = {b}
  <2>1. s = Spelled(num, Base, maxLen) BY <1>4 DEF encodeBase62, num
  <2>2. Number(s, Base) = num BY <1>1, <1>2, <2>1, NumberOfSpelled DEF Base
  <2>3. \A i \in 1..Len(s) : s[i] < Base
    <3>1. s \in Digits(Base, maxLen) BY <1>1, <2>1, SpelledIsDigits DEF Base
    <3>2. \A i \in 1..maxLen : s[i] \in 0..61 BY <3>1 DEF Digits, Base
    <3>3. \A v \in 0..61 : v < Base BY DEF Base
    <3> QED BY <3>2, <3>3
  <2> QED BY <1>1, <2>2, <2>3 DEF decodeBase62
<1>5. ASSUME decodeBase62(s, size) = {b} PROVE s = encodeBase62(b, maxLen)
  <2> DEFINE m == Number(s, Base)
  <2>1. Fits(m, 256, size) /\ (\A i \in 1..Len(s) : s[i] < Base) /\ Spelled(m, 256, size) = b
    <3> HIDE DEF m
    <3>1. decodeBase62(s, size) = {Spelled(n, 256, size) :
             n \in {n \in {m} : Fits(n, 256, size) /\ \A i \in 1..Len(s) : s[i] < Base}}
          BY DEF decodeBase62, m
    <3>2. b \in decodeBase62(s, size) BY <1>5
    <3> QED BY <3>1, <3>2
  <2>2. s \in Digits(Base, maxLen)
    <3> HIDE DEF m
    <3>1. Digits(Base, maxLen) = [1..maxLen -> 0..61] BY DEF Digits, Base
    <3>2. \A v \in Chars : v < Base => v \in 0..61 BY DEF Chars, Dollar, Base
    <3>3. \A i \in 1..maxLen : s[i] \in 0..61 BY <1>3, <2>1, <3>2
    <3> QED BY <1>3, <3>1, <3>3
  <2>3. m \in Nat /\ Spelled(m, Base, maxLen) = s BY <2>2, SpelledOfNumber DEF Base
  <2>4. Number(Spelled(m, 256, size), 256) = m
    <3> HIDE DEF m
    <3> QED BY <2>1, <2>3, NumberOfSpelled
  <2> HIDE DEF m
  <2>5. num = m BY <2>1, <2>4 DEF num
  <2> QED BY <2>3, <2>5 DEF encodeBase62, num
<1> QED BY <1>4, <1>5

-----------------------------------------------------------------------------
(* The widths of the code are wide.                                         *)

\* A number that growing prefixes of bytes spell grows by a factor of 256 ...
LEMMA NumbersBelow ==
  ASSUME NEW size \in Nat, NEW src \in Digits(256, size),
         NEW i \in 0..(size - 1), NEW c \in Nat, Numbers(src, 256)[i] < c
  PROVE  Numbers(src, 256)[i + 1] < 256 * c
<1> DEFINE N == Numbers(src, 256)
<1>1. src \in Seq(Nat) /\ Len(src) = size BY DigitsAreSeq
<1>2. /\ N \in [0..size -> Nat]
      /\ \A j \in 1..size : N[j] = 256 * N[j - 1] + src[j]
      BY <1>1, NumbersDef
<1> HIDE DEF N
<1>3. i + 1 \in 1..size /\ (i + 1) - 1 = i /\ i \in 0..size OBVIOUS
<1>4. N[i + 1] = 256 * N[i] + src[i + 1] /\ N[i] \in Nat BY <1>2, <1>3
<1>5. src[i + 1] \in 0..255
  <2>1. src \in [1..size -> 0..255] BY DEF Digits
  <2> QED BY <1>3, <2>1
<1>6. \A v \in 0..255, n \in Nat : n < c => 256 * n + v < 256 * c OBVIOUS
<1>7. N[i] < c BY DEF N
<1> QED BY <1>4, <1>5, <1>6, <1>7 DEF N

\* ... and after four of them by 256^4.
LEMMA FourBytes ==
  ASSUME NEW size \in Nat, NEW src \in Digits(256, size),
         NEW i \in 0..size, i + 4 <= size, NEW c \in Nat, Numbers(src, 256)[i] < c
  PROVE  Numbers(src, 256)[i + 4] < 4294967296 * c
<1> DEFINE N == Numbers(src, 256)
<1>1. \A j \in 0..(size - 1), k \in Nat : N[j] < k => N[j + 1] < 256 * k BY NumbersBelow
<1>2. N[i] < c OBVIOUS
<1> HIDE DEF N
<1>3. N[i + 1] < 256 * c BY <1>1, <1>2
<1>4. N[i + 2] < 65536 * c
  <2>1. i + 1 \in 0..(size - 1) /\ (i + 1) + 1 = i + 2 /\ 256 * c \in Nat /\ 256 * (256 * c) = 65536 * c
        OBVIOUS
  <2>2. N[(i + 1) + 1] < 256 * (256 * c) BY <1>1, <1>3, <2>1
  <2> QED BY <2>1, <2>2
<1>5. N[i + 3] < 16777216 * c
  <2>1. /\ i + 2 \in 0..(size - 1) /\ (i + 2) + 1 = i + 3 /\ 65536 * c \in Nat
        /\ 256 * (65536 * c) = 16777216 * c
        OBVIOUS
  <2>2. N[(i + 2) + 1] < 256 * (65536 * c) BY <1>1, <1>4, <2>1
  <2> QED BY <2>1, <2>2
<1>6. N[i + 4] < 4294967296 * c
  <2>1. /\ i + 3 \in 0..(size - 1) /\ (i + 3) + 1 = i + 4 /\ 16777216 * c \in Nat
        /\ 256 * (16777216 * c) = 4294967296 * c
        OBVIOUS
  <2>2. N[(i + 3) + 1] < 256 * (16777216 * c) BY <1>1, <1>5, <2>1
  <2> QED BY <2>1, <2>2
<1> QED BY <1>6 DEF N

\* The loop of encodeBase62, for its own base.
LEMMA LeftOfBase ==
  ASSUME NEW num \in Nat
  PROVE  /\ Left(num, Base) \in [Nat -> Nat]
         /\ Left(num, Base)[0] = num
         /\ \A i \in Nat : Left(num, Base)[i + 1] = Left(num, Base)[i] \div 62
<1>1. Base \in Nat /\ Base > 1 BY DEF Base
<1>2. /\ Left(num, Base) \in [Nat -> Nat] /\ Left(num, Base)[0] = num
      /\ \A i \in Nat : Left(num, Base)[i + 1] = Left(num, Base)[i] \div Base
      BY <1>1, LeftDef
<1>3. Base = 62 BY DEF Base
<1> QED BY <1>2, <1>3, Zenon

\* What is left of a number shrinks by a factor of 62 with every digit ...
LEMMA LeftBelow ==
  ASSUME NEW num \in Nat, NEW i \in Nat, NEW c \in Nat, Left(num, Base)[i] < 62 * c
  PROVE  Left(num, Base)[i + 1] < c
<1> DEFINE L == Left(num, Base)
<1>1. L \in [Nat -> Nat] /\ \A j \in Nat : L[j + 1] = L[j] \div 62 BY LeftOfBase
<1>2. L[i] < 62 * c OBVIOUS
<1> HIDE DEF L
<1>3. \A n \in Nat : n < 62 * c => n \div 62 < c OBVIOUS
<1> QED BY <1>1, <1>2, <1>3 DEF L

\* ... and after four of them by 62^4.
LEMMA FourDigits ==
  ASSUME NEW num \in Nat, NEW i \in Nat, NEW c \in Nat, Left(num, Base)[i] < 14776336 * c
  PROVE  Left(num, Base)[i + 4] < c
<1> DEFINE L == Left(num, Base)
<1>1. \A j, k \in Nat : L[j] < 62 * k => L[j + 1] < k BY LeftBelow
<1>2. L[i] < 14776336 * c OBVIOUS
<1> HIDE DEF L
<1>3. L[i + 1] < 238328 * c
  <2>1. 238328 * c \in Nat /\ 62 * (238328 * c) = 14776336 * c OBVIOUS
  <2> QED BY <1>1, <1>2, <2>1
<1>4. L[i + 2] < 3844 * c
  <2>1. /\ 3844 * c \in Nat /\ 62 * (3844 * c) = 238328 * c
        /\ i + 1 \in Nat /\ (i + 1) + 1 = i + 2
        OBVIOUS
  <2>2. L[(i + 1) + 1] < 3844 * c BY <1>1, <1>3, <2>1
  <2> QED BY <2>1, <2>2
<1>5. L[i + 3] < 62 * c
  <2>1. /\ 62 * c \in Nat /\ 62 * (62 * c) = 3844 * c
        /\ i + 2 \in Nat /\ (i + 2) + 1 = i + 3
        OBVIOUS
  <2>2. L[(i + 2) + 1] < 62 * c BY <1>1, <1>4, <2>1
  <2> QED BY <2>1, <2>2
<1>6. L[i + 4] < c
  <2>1. i + 3 \in Nat /\ (i + 3) + 1 = i + 4 OBVIOUS
  <2>2. L[(i + 3) + 1] < c BY <1>1, <1>5, <2>1
  <2> QED BY <2>1, <2>2
<1> QED BY <1>6 DEF L

\* idBytesLen and idEncodedLen: 17 digits hold 12 bytes.
LEMMA IdWidth == Wide(12, 17)
<1> DEFINE top == [i \in 1..12 |-> 255]
           N == Numbers(top, 256)
           num == Number(top, 256)
           L == Left(num, Base)
<1>1. top \in Digits(256, 12)
  <2>1. 255 \in 0..(256 - 1) OBVIOUS
  <2> QED BY <2>1 DEF Digits
<1>2. num = N[12] /\ num \in Nat /\ N[0] = 0
  <2>1. 12 \in Nat OBVIOUS
  <2>2. top \in Seq(Nat) /\ Len(top) = 12 BY <1>1, <2>1, DigitsAreSeq
  <2> HIDE DEF top
  <2>3. Number(top, 256) \in Nat BY <1>1, <2>1, SpelledOfNumber
  <2>4. N[0] = 0 BY <2>2, NumbersDef
  <2> QED BY <2>2, <2>3, <2>4 DEF Number
<1>3. \A i \in 0..12, c \in Nat : i + 4 <= 12 /\ N[i] < c => N[i + 4] < 4294967296 * c
  <2> HIDE DEF top
  <2> QED BY <1>1, FourBytes, SMT
<1>4. /\ \A i, c \in Nat : L[i] < 14776336 * c => L[i + 4] < c
      /\ \A i, c \in Nat : L[i] < 62 * c => L[i + 1] < c
  <2> HIDE DEF num
  <2>1. \A i, c \in Nat : L[i] < 14776336 * c => L[i + 4] < c BY <1>2, FourDigits, SMT
  <2>2. \A i, c \in Nat : L[i] < 62 * c => L[i + 1] < c BY <1>2, LeftBelow, SMT
  <2> QED BY <2>1, <2>2, SMT
<1>5. L[0] = num /\ L[17] \in Nat
  <2> HIDE DEF num
  <2>1. 17 \in Nat OBVIOUS
  <2>2. L \in [Nat -> Nat] /\ L[0] = num BY <1>2, LeftOfBase
  <2> HIDE DEF L
  <2> QED BY <2>1, <2>2
<1> HIDE DEF top, N, num, L
<1>6. N[4] < 4294967296
      BY <1>3, <1>2, SMT
<1>7. N[8] < 18446744073709551616
      BY <1>3, <1>6, SMT
<1>8. N[12] < 79228162514264337593543950336
      BY <1>3, <1>7, SMT
<1>9. L[0] < 2955688905823059073916326510592
      BY <1>2, <1>5, <1>8, SMT
<1>10. L[4] < 200028539268669788905472
      BY <1>4, <1>9, SMT
<1>11. L[8] < 13537086546263552
      BY <1>4, <1>10, SMT
<1>12. L[12] < 916132832
      BY <1>4, <1>11, SMT
<1>13. L[16] < 62
      BY <1>4, <1>12, SMT
<1>14. L[17] < 1
      BY <1>4, <1>13, SMT
<1>15. L[17] = 0 BY <1>5, <1>14, SMT
<1> QED BY <1>15 DEF Wide, Fits, L, num, top

\* secretBytesLen and secretEncodedLen: 43 digits hold 32 bytes, with two percent to
\* spare.  The bounds are the powers of 256 and of 62.
LEMMA SecretWidth == Wide(32, 43)
<1> DEFINE top == [i \in 1..32 |-> 255]
           N == Numbers(top, 256)
           num == Number(top, 256)
           L == Left(num, Base)
<1>1. top \in Digits(256, 32)
  <2>1. 255 \in 0..(256 - 1) OBVIOUS
  <2> QED BY <2>1 DEF Digits
<1>2. num = N[32] /\ num \in Nat /\ N[0] = 0
  <2>1. 32 \in Nat OBVIOUS
  <2>2. top \in Seq(Nat) /\ Len(top) = 32 BY <1>1, <2>1, DigitsAreSeq
  <2> HIDE DEF top
  <2>3. Number(top, 256) \in Nat BY <1>1, <2>1, SpelledOfNumber
  <2>4. N[0] = 0 BY <2>2, NumbersDef
  <2> QED BY <2>2, <2>3, <2>4 DEF Number
<1>3. \A i \in 0..32, c \in Nat : i + 4 <= 32 /\ N[i] < c => N[i + 4] < 4294967296 * c
  <2> HIDE DEF top
  <2> QED BY <1>1, FourBytes, SMT
<1>4. /\ \A i, c \in Nat : L[i] < 14776336 * c => L[i + 4] < c
      /\ \A i, c \in Nat : L[i] < 62 * c => L[i + 1] < c
  <2> HIDE DEF num
  <2>1. \A i, c \in Nat : L[i] < 14776336 * c => L[i + 4] < c BY <1>2, FourDigits, SMT
  <2>2. \A i, c \in Nat : L[i] < 62 * c => L[i + 1] < c BY <1>2, LeftBelow, SMT
  <2> QED BY <2>1, <2>2, SMT
<1>5. L[0] = num /\ L[43] \in Nat
  <2> HIDE DEF num
  <2>1. 43 \in Nat OBVIOUS
  <2>2. L \in [Nat -> Nat] /\ L[0] = num BY <1>2, LeftOfBase
  <2> HIDE DEF L
  <2> QED BY <2>1, <2>2
<1> HIDE DEF top, N, num, L
<1>6. N[4] < 4294967296
      BY <1>3, <1>2, SMT
<1>7. N[8] < 18446744073709551616
      BY <1>3, <1>6, SMT
<1>8. N[12] < 79228162514264337593543950336
      BY <1>3, <1>7, SMT
<1>9. N[16] < 340282366920938463463374607431768211456
      BY <1>3, <1>8, SMT
<1>10. N[20] < 1461501637330902918203684832716283019655932542976
      BY <1>3, <1>9, SMT
<1>11. N[24] < 6277101735386680763835789423207666416102355444464034512896
      BY <1>3, <1>10, SMT
<1>12. N[28] < 26959946667150639794667015087019630673637144422540572481103610249216
      BY <1>3, <1>11, SMT
<1>13. N[32] < 115792089237316195423570985008687907853269984665640564039457584007913129639936
      BY <1>3, <1>12, SMT
<1>14. L[0] < 118261299920216034323567158324881157722618355000741423528102151243191317168128
      BY <1>2, <1>5, <1>13, SMT
<1>15. L[4] < 8003425200957533337328493228962928138790181476703116627024598739714048
      BY <1>4, <1>14, SMT
<1>16. L[8] < 541638008296341754635824011376225346986572413939634062667808768
      BY <1>4, <1>15, SMT
<1>17. L[12] < 36655772330592763634761960703670067260691176347075084288
      BY <1>4, <1>16, SMT
<1>18. L[16] < 2480707824361381849652170924082266893544595652608
      BY <1>4, <1>17, SMT
<1>19. L[20] < 167883826163764944817996215305490271305728
      BY <1>4, <1>18, SMT
<1>20. L[24] < 11361668153983839080134359106715648
      BY <1>4, <1>19, SMT
<1>21. L[28] < 768909704948766668552634368
      BY <1>4, <1>20, SMT
<1>22. L[32] < 52036560683837093888
      BY <1>4, <1>21, SMT
<1>23. L[36] < 3521614606208
      BY <1>4, <1>22, SMT
<1>24. L[40] < 238328
      BY <1>4, <1>23, SMT
<1>25. L[41] < 3844
      BY <1>4, <1>24, SMT
<1>26. L[42] < 62
      BY <1>4, <1>25, SMT
<1>27. L[43] < 1
      BY <1>4, <1>26, SMT
<1>28. L[43] = 0 BY <1>5, <1>27, SMT
<1> QED BY <1>28 DEF Wide, Fits, L, num, top

\* WidthAssumption holds of the constants of apikeys.go: for no bytes that Generate can
\* draw does encodeBase62 panic, though 43 digits hold 32 bytes only just.
THEOREM CodeWidthsSuffice == Wide(12, 17) /\ Wide(32, 43)
BY IdWidth, SecretWidth

-----------------------------------------------------------------------------
(* Where the parts of a raw key are.                                        *)

\* strings.IndexByte finds the first one.
LEMMA IndexByteIsFirst ==
  ASSUME NEW s, Len(s) \in Nat, NEW c
  PROVE  \/ IndexByte(s, c) = 0 /\ \A i \in 1..Len(s) : s[i] # c
         \/ /\ IndexByte(s, c) \in 1..Len(s) /\ s[IndexByte(s, c)] = c
            /\ \A i \in 1..(IndexByte(s, c) - 1) : s[i] # c
<1> DEFINE I == {i \in 1..Len(s) : s[i] = c}
<1>1. IndexByte(s, c) = IF I # {} THEN CHOOSE x \in I : \A y \in I : x <= y ELSE 0
      BY DEF IndexByte, SelectInSeq, Min
<1>2. CASE I = {} BY <1>1, <1>2
<1>3. CASE I # {}
  <2>1. I \in SUBSET Nat OBVIOUS
  <2>2. \E x \in I : \A y \in I : x <= y
    <3> HIDE DEF I
    <3> QED BY <1>3, <2>1, Least
  <2>3. IndexByte(s, c) \in I /\ \A y \in I : IndexByte(s, c) <= y
    <3> HIDE DEF I
    <3> QED BY <1>1, <1>3, <2>2
  <2> DEFINE k == IndexByte(s, c)
  <2>4. k \in 1..Len(s) /\ s[k] = c BY <2>3
  <2>5. \A y \in I : k <= y BY <2>3
  <2> HIDE DEF k
  <2>6. ASSUME NEW i \in 1..(k - 1) PROVE s[i] # c
    <3>1. i \in 1..Len(s) /\ ~(k <= i) BY <2>4
    <3> QED BY <2>5, <3>1
  <2> QED BY <2>4, <2>6 DEF k
<1> QED BY <1>2, <1>3

\* A raw key with the end of its environment at e and the dot at d.
Layout(raw, e, d) ==
  /\ raw[1] = keyPrefix[1] /\ raw[2] = keyPrefix[2] /\ raw[3] = keyPrefix[3]
  /\ e \in 5..Len(raw) /\ raw[e] = Underscore
  /\ \A i \in 4..(e - 1) : raw[i] # Underscore
  /\ d = e + 1 + idEncodedLen /\ Len(raw) = d + secretEncodedLen /\ raw[d] = Dot
  /\ \A i \in (e + 1)..(d - 1) : raw[i] # Dot

IdAt(raw, e) == [i \in 1..idEncodedLen |-> raw[e + i]]
SecretAt(raw, d) == [i \in 1..secretEncodedLen |-> raw[d + i]]

\* The lengths are natural numbers.
LEMMA Lengths ==
  /\ idBytesLen \in Nat /\ secretBytesLen \in Nat
  /\ idEncodedLen \in Nat \ {0} /\ secretEncodedLen \in Nat \ {0}
BY WidthAssumption

\* A key has one layout: the end of the environment is its first '_'.
LEMMA LayoutUnique ==
  ASSUME NEW raw, Len(raw) \in Nat, NEW e, NEW d, NEW f, NEW g,
         Layout(raw, e, d), Layout(raw, f, g)
  PROVE  e = f /\ d = g
<1>1. e \in Nat /\ f \in Nat BY DEF Layout
<1>2. ~(e < f) BY <1>1 DEF Layout
<1>3. ~(f < e) BY <1>1 DEF Layout
<1>4. e = f BY <1>1, <1>2, <1>3
<1> QED BY <1>4 DEF Layout

\* What is left of a string after its first k characters.
LEMMA Rest ==
  ASSUME NEW s \in Seq(Chars), NEW k \in 0..Len(s)
  PROVE  /\ SubSeq(s, k + 1, Len(s)) \in Seq(Chars)
         /\ Len(SubSeq(s, k + 1, Len(s))) = Len(s) - k
         /\ \A i \in 1..(Len(s) - k) : SubSeq(s, k + 1, Len(s))[i] = s[k + i]
<1>1. Len(s) \in Nat /\ \A i \in 1..Len(s) : s[i] \in Chars BY LenProperties
<1>2. k + 1 \in Int /\ Len(s) \in Int /\ \A i \in (k + 1)..Len(s) : s[i] \in Chars BY <1>1
<1>3. /\ SubSeq(s, k + 1, Len(s)) \in Seq(Chars)
      /\ Len(SubSeq(s, k + 1, Len(s))) = IF k + 1 <= Len(s) THEN Len(s) - (k + 1) + 1 ELSE 0
      /\ \A i \in 1..(Len(s) - (k + 1) + 1) : SubSeq(s, k + 1, Len(s))[i] = s[(k + 1) + i - 1]
      BY <1>2, SubSeqProperties
<1>4. /\ Len(s) - (k + 1) + 1 = Len(s) - k
      /\ k + 1 <= Len(s) \/ Len(s) - k = 0
      /\ \A i \in 1..(Len(s) - k) : (k + 1) + i - 1 = k + i
      BY <1>1
<1> DEFINE r == SubSeq(s, k + 1, Len(s))
<1> HIDE DEF r
<1> QED BY <1>3, <1>4 DEF r

\* The first k characters of a string.
LEMMA First ==
  ASSUME NEW s \in Seq(Chars), NEW k \in 0..Len(s)
  PROVE  /\ SubSeq(s, 1, k) \in Seq(Chars)
         /\ Len(SubSeq(s, 1, k)) = k
         /\ \A i \in 1..k : SubSeq(s, 1, k)[i] = s[i]
<1>1. Len(s) \in Nat /\ \A i \in 1..Len(s) : s[i] \in Chars BY LenProperties
<1>2. 1 \in Int /\ k \in Int /\ \A i \in 1..k : s[i] \in Chars BY <1>1
<1>3. /\ SubSeq(s, 1, k) \in Seq(Chars)
      /\ Len(SubSeq(s, 1, k)) = IF 1 <= k THEN k - 1 + 1 ELSE 0
      /\ \A i \in 1..(k - 1 + 1) : SubSeq(s, 1, k)[i] = s[1 + i - 1]
      BY <1>2, SubSeqProperties
<1>4. k - 1 + 1 = k /\ (1 <= k \/ k = 0) /\ \A i \in 1..k : 1 + i - 1 = i BY <1>1
<1> DEFINE r == SubSeq(s, 1, k)
<1> HIDE DEF r
<1> QED BY <1>3, <1>4 DEF r

\* The prefix "wc_" as a string.
LEMMA PrefixIsSeq == keyPrefix \in Seq(Chars) /\ Len(keyPrefix) = 3
<1>1. 58 \in Chars /\ 38 \in Chars /\ Underscore \in Chars
      BY DEF Chars, Dollar, Underscore, Base
<1> QED BY <1>1 DEF keyPrefix

\* strings.HasPrefix compares three characters.
LEMMA PrefixIs ==
  ASSUME NEW raw \in Seq(Chars)
  PROVE  IsPrefix(keyPrefix, raw) <=> Len(raw) >= 3 /\ \A i \in 1..3 : raw[i] = keyPrefix[i]
<1>1. Len(raw) \in Nat BY LenProperties
<1>2. CASE ~(Len(raw) >= 3) BY <1>1, <1>2, PrefixIsSeq DEF IsPrefix
<1>3. CASE Len(raw) >= 3
  <2> DEFINE a == SubSeq(keyPrefix, 1, 3)
             b == SubSeq(raw, 1, 3)
  <2>1. a \in Seq(Chars) /\ Len(a) = 3 /\ \A i \in 1..3 : a[i] = keyPrefix[i]
        BY PrefixIsSeq, First
  <2>2. b \in Seq(Chars) /\ Len(b) = 3 /\ \A i \in 1..3 : b[i] = raw[i]
    <3>1. 3 \in 0..Len(raw) BY <1>1, <1>3
    <3> QED BY <3>1, First
  <2>3. IsPrefix(keyPrefix, raw) <=> a = b BY <1>3, <1>1, PrefixIsSeq DEF IsPrefix
  <2> HIDE DEF a, b
  <2>4. a = b <=> \A i \in 1..3 : a[i] = b[i]
    <3>1. ASSUME \A i \in 1..3 : a[i] = b[i] PROVE a = b
          BY <2>1, <2>2, <3>1, SeqEqual
    <3> QED BY <3>1
  <2> QED BY <1>3, <2>1, <2>2, <2>3, <2>4
<1> QED BY <1>2, <1>3

\* split finds the parts of a key at its layout, and refuses what has none.
LEMMA SplitLayout ==
  ASSUME NEW raw \in Seq(Chars), NEW p
  PROVE  p \in split(raw) <=>
           \E e, d : Layout(raw, e, d) /\ p = [id |-> IdAt(raw, e), secret |-> SecretAt(raw, d)]
<1> DEFINE trimmed == SubSeq(raw, Len(keyPrefix) + 1, Len(raw))
           envSep == IndexByte(trimmed, Underscore)
           remainder == SubSeq(trimmed, envSep + 1, Len(trimmed))
           dot == IndexByte(remainder, Dot)
           parts == [id |-> SubSeq(remainder, 1, dot - 1),
                     secret |-> SubSeq(remainder, dot + 1, Len(remainder))]
<1>1. p \in split(raw) <=>
        /\ p = parts /\ IsPrefix(keyPrefix, raw) /\ envSep > 1 /\ dot > 1
        /\ Len(p.id) = idEncodedLen /\ Len(p.secret) = secretEncodedLen
  <2> HIDE DEF envSep, dot, parts, remainder
  <2>1. split(raw) = {q \in {parts} : /\ IsPrefix(keyPrefix, raw) /\ envSep > 1 /\ dot > 1
                                      /\ Len(q.id) = idEncodedLen
                                      /\ Len(q.secret) = secretEncodedLen}
        BY DEF split, parts, remainder, dot, envSep
  <2> QED BY <2>1
<1>2. Len(raw) \in Nat BY LenProperties
<1> HIDE DEF trimmed, envSep, remainder, dot, parts
<1>3. ASSUME Len(raw) >= 3
      PROVE  /\ trimmed \in Seq(Chars) /\ Len(trimmed) = Len(raw) - 3
             /\ \A i \in 1..(Len(raw) - 3) : trimmed[i] = raw[3 + i]
  <2>1. 3 \in 0..Len(raw) BY <1>2, <1>3
  <2> QED BY <2>1, PrefixIsSeq, Rest DEF trimmed
<1>4. ASSUME Len(raw) >= 3, envSep \in 1..Len(trimmed)
      PROVE  /\ remainder \in Seq(Chars) /\ Len(remainder) = Len(raw) - 3 - envSep
             /\ \A i \in 1..(Len(raw) - 3 - envSep) : remainder[i] = raw[3 + envSep + i]
  <2>1. /\ trimmed \in Seq(Chars) /\ Len(trimmed) = Len(raw) - 3
        /\ \A i \in 1..(Len(raw) - 3) : trimmed[i] = raw[3 + i]
        BY <1>3, <1>4
  <2>2. envSep \in 0..Len(trimmed) BY <1>4
  <2>3. /\ remainder \in Seq(Chars) /\ Len(remainder) = Len(trimmed) - envSep
        /\ \A i \in 1..(Len(trimmed) - envSep) : remainder[i] = trimmed[envSep + i]
        BY <2>1, <2>2, Rest DEF remainder
  <2>4. ASSUME NEW i \in 1..(Len(raw) - 3 - envSep) PROVE remainder[i] = raw[3 + envSep + i]
    <3>1. envSep + i \in 1..(Len(raw) - 3) /\ 3 + (envSep + i) = 3 + envSep + i
          BY <1>2, <1>4, <2>1
    <3> QED BY <2>1, <2>3, <3>1
  <2> QED BY <2>1, <2>3, <2>4
<1>5. ASSUME Len(raw) >= 3, envSep \in 1..Len(trimmed), dot \in 1..Len(remainder),
             dot - 1 = idEncodedLen, Len(remainder) - dot = secretEncodedLen
      PROVE  /\ parts.id = IdAt(raw, 3 + envSep)
             /\ parts.secret = SecretAt(raw, 3 + envSep + dot)
             /\ Len(parts.id) = idEncodedLen /\ Len(parts.secret) = secretEncodedLen
  <2>1. /\ remainder \in Seq(Chars) /\ Len(remainder) = Len(raw) - 3 - envSep
        /\ \A i \in 1..(Len(raw) - 3 - envSep) : remainder[i] = raw[3 + envSep + i]
        BY <1>4, <1>5
  <2>2. dot - 1 \in 0..Len(remainder) /\ dot \in 0..Len(remainder) BY <1>5, <2>1, <1>2
  <2> DEFINE a == SubSeq(remainder, 1, dot - 1)
             b == SubSeq(remainder, dot + 1, Len(remainder))
  <2>3. a \in Seq(Chars) /\ Len(a) = idEncodedLen /\ \A i \in 1..idEncodedLen : a[i] = remainder[i]
        BY <1>5, <2>1, <2>2, First
  <2>4. /\ b \in Seq(Chars) /\ Len(b) = secretEncodedLen
        /\ \A i \in 1..secretEncodedLen : b[i] = remainder[dot + i]
        BY <1>5, <2>1, <2>2, Rest
  <2> HIDE DEF a, b
  <2>5. a = IdAt(raw, 3 + envSep)
    <3>1. ASSUME NEW i \in 1..idEncodedLen PROVE a[i] = raw[3 + envSep + i]
      <4>1. i \in 1..(Len(raw) - 3 - envSep) BY <1>2, <1>5, <2>1
      <4> QED BY <2>1, <2>3, <4>1
    <3>2. a = [i \in 1..idEncodedLen |-> a[i]] BY <2>3, LenProperties
    <3> QED BY <3>1, <3>2 DEF IdAt
  <2>6. b = SecretAt(raw, 3 + envSep + dot)
    <3>1. ASSUME NEW i \in 1..secretEncodedLen PROVE b[i] = raw[3 + envSep + dot + i]
      <4>1. dot + i \in 1..(Len(raw) - 3 - envSep) /\ 3 + envSep + (dot + i) = 3 + envSep + dot + i
            BY <1>2, <1>5, <2>1, Lengths
      <4> QED BY <2>1, <2>4, <4>1
    <3>2. b = [i \in 1..secretEncodedLen |-> b[i]] BY <2>4, LenProperties
    <3> QED BY <3>1, <3>2 DEF SecretAt
  <2> QED BY <2>3, <2>4, <2>5, <2>6 DEF parts, a, b
<1>6. ASSUME p \in split(raw)
      PROVE  \E e, d : Layout(raw, e, d) /\ p = [id |-> IdAt(raw, e), secret |-> SecretAt(raw, d)]
  <2>1. Len(raw) >= 3 /\ \A i \in 1..3 : raw[i] = keyPrefix[i] BY <1>1, <1>6, PrefixIs
  <2>2. /\ trimmed \in Seq(Chars) /\ Len(trimmed) = Len(raw) - 3
        /\ \A i \in 1..(Len(raw) - 3) : trimmed[i] = raw[3 + i]
        BY <1>3, <2>1
  <2>3. /\ envSep \in 1..Len(trimmed) /\ trimmed[envSep] = Underscore
        /\ \A i \in 1..(envSep - 1) : trimmed[i] # Underscore
    <3>1. Len(trimmed) \in Nat BY <2>2, LenProperties
    <3> QED BY <1>1, <1>6, <3>1, IndexByteIsFirst DEF envSep
  <2>4. /\ remainder \in Seq(Chars) /\ Len(remainder) = Len(raw) - 3 - envSep
        /\ \A i \in 1..(Len(raw) - 3 - envSep) : remainder[i] = raw[3 + envSep + i]
        BY <1>4, <2>1, <2>3
  <2>5. /\ dot \in 1..Len(remainder) /\ remainder[dot] = Dot
        /\ \A i \in 1..(dot - 1) : remainder[i] # Dot
    <3>1. Len(remainder) \in Nat BY <2>4, LenProperties
    <3> QED BY <1>1, <1>6, <3>1, IndexByteIsFirst DEF dot
  <2>6. dot - 1 = idEncodedLen /\ Len(remainder) - dot = secretEncodedLen
    <3>1. dot - 1 \in 0..Len(remainder) /\ dot \in 0..Len(remainder) BY <2>4, <2>5, <1>2
    <3>2. Len(SubSeq(remainder, 1, dot - 1)) = dot - 1 BY <2>4, <3>1, First
    <3>3. Len(SubSeq(remainder, dot + 1, Len(remainder))) = Len(remainder) - dot
          BY <2>4, <3>1, Rest
    <3>4. /\ parts.id = SubSeq(remainder, 1, dot - 1)
          /\ parts.secret = SubSeq(remainder, dot + 1, Len(remainder))
          BY DEF parts
    <3>5. Len(parts.id) = idEncodedLen /\ Len(parts.secret) = secretEncodedLen BY <1>1, <1>6
    <3> QED BY <3>2, <3>3, <3>4, <3>5
  <2> DEFINE e == 3 + envSep
             d == 3 + envSep + dot
  <2>7. Layout(raw, e, d)
    <3>1. e \in 5..Len(raw) /\ d \in e..Len(raw) /\ Len(raw) = d + secretEncodedLen
          BY <1>1, <1>2, <1>6, <2>2, <2>3, <2>4, <2>5, <2>6
    <3>2. d = e + 1 + idEncodedLen BY <2>2, <2>3, <2>4, <2>5, <2>6, <1>2
    <3>3. raw[e] = Underscore BY <2>2, <2>3
    <3>4. raw[d] = Dot BY <2>4, <2>5
    <3>5. ASSUME NEW i \in 4..(e - 1) PROVE raw[i] # Underscore
      <4>1. i - 3 \in 1..(envSep - 1) /\ i - 3 \in 1..(Len(raw) - 3) /\ 3 + (i - 3) = i
            BY <1>2, <2>2, <2>3
      <4> QED BY <2>2, <2>3, <4>1
    <3>6. ASSUME NEW i \in (e + 1)..(d - 1) PROVE raw[i] # Dot
      <4>0. envSep \in Nat /\ dot \in Nat /\ dot <= Len(raw) - 3 - envSep /\ i \in Nat
            BY <1>2, <2>2, <2>3, <2>4, <2>5
      <4>1. /\ i - e \in 1..(dot - 1) /\ i - e \in 1..(Len(raw) - 3 - envSep)
            /\ 3 + envSep + (i - e) = i
            BY <1>2, <4>0
      <4> QED BY <2>4, <2>5, <4>1
    <3>7. raw[1] = keyPrefix[1] /\ raw[2] = keyPrefix[2] /\ raw[3] = keyPrefix[3] BY <2>1
    <3> HIDE DEF e, d
    <3> QED BY <3>1, <3>2, <3>3, <3>4, <3>5, <3>6, <3>7 DEF Layout
  <2>8. p = [id |-> IdAt(raw, e), secret |-> SecretAt(raw, d)]
    <3>1. parts.id = IdAt(raw, e) /\ parts.secret = SecretAt(raw, d)
          BY <1>5, <2>1, <2>3, <2>5, <2>6
    <3>2. parts = [id |-> parts.id, secret |-> parts.secret] BY DEF parts
    <3> QED BY <1>1, <1>6, <3>1, <3>2
  <2> QED BY <2>7, <2>8
<1>7. ASSUME NEW e, NEW d, Layout(raw, e, d),
             p = [id |-> IdAt(raw, e), secret |-> SecretAt(raw, d)]
      PROVE  p \in split(raw)
  <2>1. /\ e \in Nat /\ d \in Nat /\ Len(raw) >= 3 /\ 5 <= e /\ e < d /\ d < Len(raw)
        /\ d = e + 1 + idEncodedLen /\ Len(raw) = d + secretEncodedLen
        BY <1>2, <1>7, Lengths DEF Layout
  <2>2. IsPrefix(keyPrefix, raw)
    <3>1. \A i \in 1..3 : i = 1 \/ i = 2 \/ i = 3 OBVIOUS
    <3>2. \A i \in 1..3 : raw[i] = keyPrefix[i] BY <1>7, <3>1 DEF Layout
    <3> QED BY <2>1, <3>2, PrefixIs
  <2>3. /\ trimmed \in Seq(Chars) /\ Len(trimmed) = Len(raw) - 3
        /\ \A i \in 1..(Len(raw) - 3) : trimmed[i] = raw[3 + i]
        BY <1>3, <2>1
  <2>4. envSep = e - 3
    <3>1. e - 3 \in 1..Len(trimmed) /\ trimmed[e - 3] = Underscore
      <4>1. e - 3 \in 1..(Len(raw) - 3) /\ 3 + (e - 3) = e BY <1>2, <2>1
      <4>2. raw[e] = Underscore BY <1>7 DEF Layout
      <4> QED BY <2>3, <4>1, <4>2
    <3>2. ASSUME NEW i \in 1..((e - 3) - 1) PROVE trimmed[i] # Underscore
      <4>1. i \in 1..(Len(raw) - 3) /\ 3 + i \in 4..(e - 1) BY <1>2, <2>1
      <4>2. raw[3 + i] # Underscore BY <1>7, <4>1 DEF Layout
      <4> QED BY <2>3, <4>1, <4>2
    <3>3. \/ envSep = 0 /\ \A i \in 1..Len(trimmed) : trimmed[i] # Underscore
          \/ /\ envSep \in 1..Len(trimmed) /\ trimmed[envSep] = Underscore
             /\ \A i \in 1..(envSep - 1) : trimmed[i] # Underscore
      <4>1. Len(trimmed) \in Nat BY <2>3, LenProperties
      <4> QED BY <4>1, IndexByteIsFirst DEF envSep
    <3>4. envSep \in 1..Len(trimmed) BY <3>1, <3>3
    <3>5. ~(envSep < e - 3) BY <2>1, <3>2, <3>3, <3>4
    <3>6. ~(e - 3 < envSep) BY <2>1, <3>1, <3>3, <3>4
    <3> QED BY <2>1, <3>4, <3>5, <3>6
  <2>5. envSep \in 1..Len(trimmed) /\ envSep > 1 BY <1>2, <2>1, <2>3, <2>4
  <2>6. /\ remainder \in Seq(Chars) /\ Len(remainder) = Len(raw) - e
        /\ \A i \in 1..(Len(raw) - e) : remainder[i] = raw[e + i]
    <3>1. /\ remainder \in Seq(Chars) /\ Len(remainder) = Len(raw) - 3 - envSep
          /\ \A i \in 1..(Len(raw) - 3 - envSep) : remainder[i] = raw[3 + envSep + i]
          BY <1>4, <2>1, <2>5
    <3>2. Len(raw) - 3 - envSep = Len(raw) - e /\ 3 + envSep = e BY <1>2, <2>1, <2>4
    <3> QED BY <3>1, <3>2
  <2>7. dot = d - e
    <3>1. d - e \in 1..Len(remainder) /\ remainder[d - e] = Dot
      <4>1. d - e \in 1..(Len(raw) - e) /\ e + (d - e) = d BY <1>2, <2>1
      <4>2. raw[d] = Dot BY <1>7 DEF Layout
      <4> QED BY <2>6, <4>1, <4>2
    <3>2. ASSUME NEW i \in 1..((d - e) - 1) PROVE remainder[i] # Dot
      <4>1. i \in 1..(Len(raw) - e) /\ e + i \in (e + 1)..(d - 1) BY <1>2, <2>1
      <4>2. raw[e + i] # Dot BY <1>7, <4>1 DEF Layout
      <4> QED BY <2>6, <4>1, <4>2
    <3>3. \/ dot = 0 /\ \A i \in 1..Len(remainder) : remainder[i] # Dot
          \/ /\ dot \in 1..Len(remainder) /\ remainder[dot] = Dot
             /\ \A i \in 1..(dot - 1) : remainder[i] # Dot
      <4>1. Len(remainder) \in Nat BY <2>6, LenProperties
      <4> QED BY <4>1, IndexByteIsFirst DEF dot
    <3>4. dot \in 1..Len(remainder) BY <3>1, <3>3
    <3>5. ~(dot < d - e) BY <2>1, <3>2, <3>3, <3>4
    <3>6. ~(d - e < dot) BY <2>1, <3>1, <3>3, <3>4
    <3> QED BY <2>1, <3>4, <3>5, <3>6
  <2>8. /\ dot \in 1..Len(remainder) /\ dot > 1 /\ dot - 1 = idEncodedLen
        /\ Len(remainder) - dot = secretEncodedLen
        BY <1>2, <2>1, <2>6, <2>7, Lengths
  <2>9. 3 + envSep = e /\ 3 + envSep + dot = d BY <2>1, <2>4, <2>7
  <2>10. /\ parts.id = IdAt(raw, e) /\ parts.secret = SecretAt(raw, d)
         /\ Len(parts.id) = idEncodedLen /\ Len(parts.secret) = secretEncodedLen
         BY <1>5, <2>1, <2>5, <2>8, <2>9
  <2>11. p = parts
    <3>1. parts = [id |-> parts.id, secret |-> parts.secret] BY DEF parts
    <3> QED BY <1>7, <2>10, <3>1
  <2> QED BY <1>1, <2>2, <2>5, <2>8, <2>10, <2>11
<1> QED BY <1>6, <1>7

\* r is a with b appended.
Joined(r, a, b) ==
  /\ r \in Seq(Chars) /\ Len(r) = Len(a) + Len(b)
  /\ \A i \in 1..Len(a) : r[i] = a[i]
  /\ \A i \in 1..Len(b) : r[Len(a) + i] = b[i]

\* The operator \o appends.
LEMMA Join ==
  ASSUME NEW a \in Seq(Chars), NEW b \in Seq(Chars)
  PROVE  Joined(a \o b, a, b)
<1> DEFINE r == a \o b
<1>1. /\ r \in Seq(Chars) /\ Len(r) = Len(a) + Len(b)
      /\ \A i \in 1..Len(a) + Len(b) : r[i] = IF i <= Len(a) THEN a[i] ELSE b[i - Len(a)]
      BY ConcatProperties
<1>2. Len(a) \in Nat /\ Len(b) \in Nat BY LenProperties
<1> HIDE DEF r
<1>3. ASSUME NEW i \in 1..Len(a) PROVE r[i] = a[i]
  <2>1. i \in 1..Len(a) + Len(b) /\ i <= Len(a) BY <1>2
  <2> QED BY <1>1, <2>1
<1>4. ASSUME NEW i \in 1..Len(b) PROVE r[Len(a) + i] = b[i]
  <2>1. /\ Len(a) + i \in 1..Len(a) + Len(b) /\ ~(Len(a) + i <= Len(a))
        /\ (Len(a) + i) - Len(a) = i
        BY <1>2
  <2> QED BY <1>1, <2>1
<1> QED BY <1>1, <1>3, <1>4 DEF Joined, r

\* The characters of a raw key, part by part.
Made(r, env, id, secret, e, d) ==
  /\ e \in Nat /\ d \in Nat
  /\ r \in Seq(Chars) /\ Len(r) = d + secretEncodedLen
  /\ \A i \in 1..3 : r[i] = keyPrefix[i]
  /\ \A i \in 1..Len(env) : r[3 + i] = env[i]
  /\ r[e] = Underscore /\ r[d] = Dot
  /\ \A i \in 1..idEncodedLen : r[e + i] = id[i]
  /\ \A i \in 1..secretEncodedLen : r[d + i] = secret[i]

\* Raw puts them there.
LEMMA RawAt ==
  ASSUME NEW env \in Seq(Chars),
         NEW id \in Seq(Chars), Len(id) = idEncodedLen,
         NEW secret \in Seq(Chars), Len(secret) = secretEncodedLen,
         NEW e, e = 4 + Len(env), NEW d, d = e + 1 + idEncodedLen
  PROVE  Made(Raw(env, id, secret), env, id, secret, e, d)
<1>1. Len(env) \in Nat BY LenProperties
<1>2. /\ <<Underscore>> \in Seq(Chars) /\ Len(<<Underscore>>) = 1
      /\ <<Dot>> \in Seq(Chars) /\ Len(<<Dot>>) = 1
      /\ <<Underscore>>[1] = Underscore /\ <<Dot>>[1] = Dot
  <2>1. Underscore \in Chars /\ Dot \in Chars BY DEF Chars, Dollar, Underscore, Dot, Base
  <2> QED BY <2>1
<1> DEFINE u == <<Underscore>>
           t == <<Dot>>
           r1 == keyPrefix \o env
           r2 == r1 \o u
           r3 == r2 \o id
           r4 == r3 \o t
           r5 == r4 \o secret
<1>3. r5 = Raw(env, id, secret) BY DEF Raw
<1>3a. /\ u \in Seq(Chars) /\ Len(u) = 1 /\ u[1] = Underscore
       /\ t \in Seq(Chars) /\ Len(t) = 1 /\ t[1] = Dot
       BY <1>2
<1> HIDE DEF u, t
<1>4. Joined(r1, keyPrefix, env) BY PrefixIsSeq, Join
<1> HIDE DEF r1
<1>5. Joined(r2, r1, u) BY <1>3a, <1>4, Join DEF Joined
<1> HIDE DEF r2
<1>6. Joined(r3, r2, id) BY <1>5, Join DEF Joined
<1> HIDE DEF r3
<1>7. Joined(r4, r3, t) BY <1>3a, <1>6, Join DEF Joined
<1> HIDE DEF r4
<1>8. Joined(r5, r4, secret) BY <1>7, Join DEF Joined
<1> HIDE DEF r5
<1>9. /\ e \in Nat /\ d \in Nat /\ idEncodedLen \in Nat /\ secretEncodedLen \in Nat
      /\ Len(r1) = e - 1 /\ Len(r2) = e /\ Len(r3) = d - 1 /\ Len(r4) = d
      /\ Len(r5) = d + secretEncodedLen
  <2>1. Len(r1) = 3 + Len(env) BY <1>4, PrefixIsSeq DEF Joined
  <2>2. Len(r2) = Len(r1) + 1 BY <1>3a, <1>5 DEF Joined
  <2>3. Len(r3) = Len(r2) + idEncodedLen BY <1>6 DEF Joined
  <2>4. Len(r4) = Len(r3) + 1 BY <1>3a, <1>7 DEF Joined
  <2>5. Len(r5) = Len(r4) + secretEncodedLen BY <1>8 DEF Joined
  <2> QED BY <1>1, <2>1, <2>2, <2>3, <2>4, <2>5, Lengths
<1>10. /\ \A i \in 1..3 : r1[i] = keyPrefix[i]
       /\ \A i \in 1..Len(env) : r1[3 + i] = env[i]
       BY <1>4, PrefixIsSeq DEF Joined
<1>11. r2[e] = Underscore /\ \A i \in 1..(e - 1) : r2[i] = r1[i]
  <2>1. 1 \in 1..1 /\ (e - 1) + 1 = e BY <1>9
  <2> QED BY <1>3a, <1>5, <1>9, <2>1 DEF Joined
<1>12. /\ \A i \in 1..idEncodedLen : r3[e + i] = id[i]
       /\ \A i \in 1..e : r3[i] = r2[i]
       BY <1>6, <1>9 DEF Joined
<1>13. r4[d] = Dot /\ \A i \in 1..(d - 1) : r4[i] = r3[i]
  <2>1. 1 \in 1..1 /\ (d - 1) + 1 = d BY <1>9
  <2> QED BY <1>3a, <1>7, <1>9, <2>1 DEF Joined
<1>14. /\ \A i \in 1..secretEncodedLen : r5[d + i] = secret[i]
       /\ \A i \in 1..d : r5[i] = r4[i]
       BY <1>8, <1>9 DEF Joined
<1>15. \A i \in 1..e : r5[i] = r2[i] BY <1>9, <1>12, <1>13, <1>14
<1>16. \A i \in 1..(e - 1) : r5[i] = r1[i] BY <1>9, <1>11, <1>15
<1>17. \A i \in 1..3 : r5[i] = keyPrefix[i] BY <1>1, <1>9, <1>10, <1>16
<1>18. \A i \in 1..Len(env) : r5[3 + i] = env[i]
  <2> SUFFICES ASSUME NEW i \in 1..Len(env) PROVE r5[3 + i] = env[i] OBVIOUS
  <2>1. 3 + i \in 1..(e - 1) BY <1>1, <1>9
  <2> QED BY <1>10, <1>16, <2>1
<1>19. r5[e] = Underscore BY <1>9, <1>11, <1>15, <1>1
<1>20. \A i \in 1..idEncodedLen : r5[e + i] = id[i]
  <2> SUFFICES ASSUME NEW i \in 1..idEncodedLen PROVE r5[e + i] = id[i] OBVIOUS
  <2>1. e + i \in 1..(d - 1) /\ e + i \in 1..d BY <1>9
  <2> QED BY <1>12, <1>13, <1>14, <2>1
<1>21. r5[d] = Dot BY <1>9, <1>13, <1>14, <1>1
<1>22. r5 \in Seq(Chars) BY <1>8 DEF Joined
<1> QED BY <1>3, <1>9, <1>14, <1>17, <1>18, <1>19, <1>20, <1>21, <1>22 DEF Made

\* The raw keys with an id and a secret are those with the two at their layout: the dot
\* between them is the first one, since an id is of digits.
LEMMA RawLayout ==
  ASSUME NEW raw \in Seq(Chars), NEW id \in Digits(Base, idEncodedLen),
         NEW secret \in Seq(Chars), Len(secret) = secretEncodedLen
  PROVE  IsRaw(raw, id, secret) <=>
           \E e, d : Layout(raw, e, d) /\ id = IdAt(raw, e) /\ secret = SecretAt(raw, d)
<1>1. Len(raw) \in Nat /\ idEncodedLen \in Nat /\ secretEncodedLen \in Nat
      BY LenProperties, Lengths
<1>2. id \in Seq(Chars) /\ Len(id) = idEncodedLen /\ \A i \in 1..idEncodedLen : id[i] # Dot
  <2>1. id \in [1..idEncodedLen -> 0..61] BY DEF Digits, Base
  <2>2. \A v \in 0..61 : v \in Chars /\ v # Dot BY DEF Chars, Dollar, Dot, Base
  <2>3. id \in [1..idEncodedLen -> Chars] BY <2>1, <2>2
  <2>4. id \in Seq(Chars) BY <1>1, <2>3, SeqDef
  <2>5. Len(id) = idEncodedLen BY <1>1, DigitsAreSeq DEF Base
  <2> QED BY <2>1, <2>2, <2>4, <2>5
<1>3. ASSUME NEW n \in 3..Len(raw)
      PROVE  /\ SubSeq(raw, 4, n) \in Seq(Chars) /\ Len(SubSeq(raw, 4, n)) = n - 3
             /\ \A i \in 1..(n - 3) : SubSeq(raw, 4, n)[i] = raw[3 + i]
  <2>1. 4 \in Int /\ n \in Int /\ \A i \in 4..n : raw[i] \in Chars BY <1>1, LenProperties
  <2>2. /\ SubSeq(raw, 4, n) \in Seq(Chars)
        /\ Len(SubSeq(raw, 4, n)) = IF 4 <= n THEN n - 4 + 1 ELSE 0
        /\ \A i \in 1..(n - 4 + 1) : SubSeq(raw, 4, n)[i] = raw[4 + i - 1]
        BY <2>1, SubSeqProperties
  <2>3. /\ n - 4 + 1 = n - 3 /\ (4 <= n \/ n - 3 = 0)
        /\ \A i \in 1..(n - 3) : 4 + i - 1 = 3 + i
        BY <1>1
  <2> DEFINE r == SubSeq(raw, 4, n)
  <2> HIDE DEF r
  <2> QED BY <2>2, <2>3 DEF r
<1>4. IsRaw(raw, id, secret) <=>
        \E n \in 4..Len(raw) : /\ \A i \in 1..Len(SubSeq(raw, 4, n)) : SubSeq(raw, 4, n)[i] # Underscore
                               /\ raw = Raw(SubSeq(raw, 4, n), id, secret)
  <2>1. Len(keyPrefix) + 1 = 4 BY PrefixIsSeq
  <2> QED BY <2>1 DEF IsRaw
<1>5. ASSUME IsRaw(raw, id, secret)
      PROVE  \E e, d : Layout(raw, e, d) /\ id = IdAt(raw, e) /\ secret = SecretAt(raw, d)
  <2>1. PICK n \in 4..Len(raw) :
               /\ \A i \in 1..Len(SubSeq(raw, 4, n)) : SubSeq(raw, 4, n)[i] # Underscore
               /\ raw = Raw(SubSeq(raw, 4, n), id, secret)
        BY <1>4, <1>5
  <2> DEFINE env == SubSeq(raw, 4, n)
             e == n + 1
             d == e + 1 + idEncodedLen
  <2>2. env \in Seq(Chars) /\ Len(env) = n - 3 /\ \A i \in 1..(n - 3) : env[i] = raw[3 + i]
        BY <1>1, <1>3
  <2>3. (\A i \in 1..(n - 3) : env[i] # Underscore) /\ raw = Raw(env, id, secret)
        BY <2>1, <2>2
  <2>4. e = 4 + Len(env) /\ d = e + 1 + idEncodedLen /\ n \in Nat BY <1>1, <2>2
  <2> HIDE DEF env, e, d
  <2>5. /\ e \in Nat /\ d \in Nat /\ Len(raw) = d + secretEncodedLen
        /\ \A i \in 1..3 : raw[i] = keyPrefix[i]
        /\ raw[e] = Underscore /\ raw[d] = Dot
        /\ \A i \in 1..idEncodedLen : raw[e + i] = id[i]
        /\ \A i \in 1..secretEncodedLen : raw[d + i] = secret[i]
    <3>1. Made(raw, env, id, secret, e, d) BY <1>2, <2>2, <2>3, <2>4, RawAt
    <3> QED BY <3>1 DEF Made
  <2>6. Layout(raw, e, d)
    <3>0. e >= 5 BY <2>4 DEF e
    <3>1. e \in 5..Len(raw) BY <1>1, <2>4, <2>5, <3>0
    <3>2. ASSUME NEW i \in 4..(e - 1) PROVE raw[i] # Underscore
      <4>1. i - 3 \in 1..(n - 3) /\ 3 + (i - 3) = i BY <2>4 DEF e
      <4> QED BY <2>2, <2>3, <4>1
    <3>3. ASSUME NEW i \in (e + 1)..(d - 1) PROVE raw[i] # Dot
      <4>1. i - e \in 1..idEncodedLen /\ e + (i - e) = i BY <1>1, <2>4, <2>5
      <4> QED BY <1>2, <2>5, <4>1
    <3> QED BY <2>4, <2>5, <3>1, <3>2, <3>3 DEF Layout
  <2>7. id = IdAt(raw, e) /\ secret = SecretAt(raw, d)
    <3>1. id = [i \in 1..idEncodedLen |-> id[i]] BY <1>2, LenProperties
    <3>2. secret = [i \in 1..secretEncodedLen |-> secret[i]] BY LenProperties
    <3> QED BY <2>5, <3>1, <3>2 DEF IdAt, SecretAt
  <2> QED BY <2>6, <2>7
<1>6. ASSUME NEW e, NEW d, Layout(raw, e, d), id = IdAt(raw, e), secret = SecretAt(raw, d)
      PROVE  IsRaw(raw, id, secret)
  <2> DEFINE env == SubSeq(raw, 4, e - 1)
             r == Raw(env, id, secret)
  <2>1. /\ e \in Nat /\ d \in Nat /\ e - 1 \in 4..Len(raw) /\ e - 1 \in 3..Len(raw)
        /\ d = e + 1 + idEncodedLen /\ Len(raw) = d + secretEncodedLen
        BY <1>1, <1>6 DEF Layout
  <2>2. env \in Seq(Chars) /\ Len(env) = e - 4 /\ \A i \in 1..(e - 4) : env[i] = raw[3 + i]
    <3>1. (e - 1) - 3 = e - 4 BY <2>1
    <3> QED BY <1>3, <2>1, <3>1
  <2>3. \A i \in 1..Len(env) : env[i] # Underscore
    <3> SUFFICES ASSUME NEW i \in 1..(e - 4) PROVE env[i] # Underscore BY <2>2
    <3>1. 3 + i \in 4..(e - 1) BY <2>1
    <3> QED BY <1>6, <2>2, <3>1 DEF Layout
  <2> HIDE DEF env
  <2>4. /\ r \in Seq(Chars) /\ Len(r) = d + secretEncodedLen
        /\ \A i \in 1..3 : r[i] = keyPrefix[i]
        /\ \A i \in 1..Len(env) : r[3 + i] = env[i]
        /\ r[e] = Underscore /\ r[d] = Dot
        /\ \A i \in 1..idEncodedLen : r[e + i] = id[i]
        /\ \A i \in 1..secretEncodedLen : r[d + i] = secret[i]
    <3>1. e = 4 + Len(env) BY <2>1, <2>2
    <3>2. Made(r, env, id, secret, e, d) BY <1>2, <2>1, <2>2, <3>1, RawAt
    <3> HIDE DEF r
    <3> QED BY <3>2 DEF Made
  <2> HIDE DEF r
  <2>5. ASSUME NEW i \in 1..Len(raw) PROVE raw[i] = r[i]
    <3>1. CASE i \in 1..3
      <4>1. i = 1 \/ i = 2 \/ i = 3 BY <3>1
      <4> QED BY <1>6, <2>4, <3>1, <4>1 DEF Layout
    <3>2. CASE i \in 4..(e - 1)
      <4>1. i - 3 \in 1..(e - 4) /\ 3 + (i - 3) = i BY <2>1, <3>2
      <4> QED BY <2>2, <2>4, <4>1
    <3>3. CASE i = e BY <1>6, <2>4, <3>3 DEF Layout
    <3>4. CASE i \in (e + 1)..(d - 1)
      <4>1. i - e \in 1..idEncodedLen /\ e + (i - e) = i BY <1>1, <2>1, <3>4
      <4>2. id[i - e] = raw[e + (i - e)] BY <1>6, <4>1 DEF IdAt
      <4> QED BY <2>4, <4>1, <4>2
    <3>5. CASE i = d BY <1>6, <2>4, <3>5 DEF Layout
    <3>6. CASE i \in (d + 1)..Len(raw)
      <4>1. i - d \in 1..secretEncodedLen /\ d + (i - d) = i BY <1>1, <2>1, <3>6
      <4>2. secret[i - d] = raw[d + (i - d)] BY <1>6, <4>1 DEF SecretAt
      <4> QED BY <2>4, <4>1, <4>2
    <3>7. i \in 1..3 \/ i \in 4..(e - 1) \/ i = e \/ i \in (e + 1)..(d - 1) \/ i = d
            \/ i \in (d + 1)..Len(raw)
          BY <1>1, <2>1
    <3> QED BY <3>1, <3>2, <3>3, <3>4, <3>5, <3>6, <3>7
  <2>6. raw = r BY <2>1, <2>4, <2>5, SeqEqual
  <2> QED BY <1>4, <2>1, <2>3, <2>6 DEF env, r
<1> QED BY <1>5, <1>6

\* Base 62 at a fixed width is a string of that width, of digits.
LEMMA EncodedIsDigits ==
  ASSUME NEW size \in Nat, NEW maxLen \in Nat, NEW src \in Digits(256, size)
  PROVE  /\ encodeBase62(src, maxLen) \in Digits(Base, maxLen)
         /\ encodeBase62(src, maxLen) \in Seq(Chars) /\ Len(encodeBase62(src, maxLen)) = maxLen
<1> DEFINE s == encodeBase62(src, maxLen)
<1>1. Number(src, 256) \in Nat BY SpelledOfNumber
<1>2. s \in Digits(Base, maxLen) BY <1>1, SpelledIsDigits DEF encodeBase62, Base
<1> HIDE DEF s
<1>3. s \in [1..maxLen -> Chars]
  <2>1. s \in [1..maxLen -> 0..61] BY <1>2 DEF Digits, Base
  <2>2. \A v \in 0..61 : v \in Chars BY DEF Chars, Dollar, Base
  <2> QED BY <2>1, <2>2
<1>4. s \in Seq(Chars) BY <1>3, SeqDef
<1>5. Len(s) = maxLen BY <1>2, DigitsAreSeq DEF Base
<1> QED BY <1>2, <1>4, <1>5 DEF s

\* Parse reads an id and the hash of a secret out of exactly the raw keys that have that
\* id and that secret, of any environment: a part is cut where it was joined, no bytes
\* are lost and no second spelling of them is read.
THEOREM ParseReadsRawKeys ==
  ASSUME NEW raw \in Seq(Chars), NEW id \in Digits(Base, idEncodedLen),
         NEW b \in Digits(256, secretBytesLen)
  PROVE  Parse(raw) = {[ID |-> id, SecretHash |-> Sum256(b)]}
           <=> IsRaw(raw, id, encodeBase62(b, secretEncodedLen))
<1> DEFINE enc == encodeBase62(b, secretEncodedLen)
           key == [ID |-> id, SecretHash |-> Sum256(b)]
<1>1. enc \in Seq(Chars) /\ Len(enc) = secretEncodedLen BY Lengths, EncodedIsDigits
<1>2. Len(raw) \in Nat BY LenProperties
<1>3. Wide(secretBytesLen, secretEncodedLen) BY WidthAssumption
<1> HIDE DEF enc
<1>4. \A k : k \in Parse(raw) <=>
        \E p \in split(raw) : \E c \in decodeBase62(p.secret, secretBytesLen) :
          k = [ID |-> p.id, SecretHash |-> Sum256(c)]
      BY DEF Parse
<1>5. ASSUME IsRaw(raw, id, enc) PROVE Parse(raw) = {key}
  <2>1. PICK e, d : Layout(raw, e, d) /\ id = IdAt(raw, e) /\ enc = SecretAt(raw, d)
        BY <1>1, <1>5, RawLayout
  <2> DEFINE q == [id |-> id, secret |-> enc]
  <2>2. q \in split(raw) BY <2>1, SplitLayout
  <2>3. ASSUME NEW p \in split(raw) PROVE p = q
    <3>1. PICK f, g : Layout(raw, f, g) /\ p = [id |-> IdAt(raw, f), secret |-> SecretAt(raw, g)]
          BY SplitLayout
    <3>2. e = f /\ d = g BY <1>2, <2>1, <3>1, LayoutUnique
    <3> QED BY <2>1, <3>1, <3>2
  <2>4. decodeBase62(enc, secretBytesLen) = {b}
        BY <1>1, <1>3, Lengths, Base62RoundTrip DEF enc
  <2>5. q.id = id /\ q.secret = enc OBVIOUS
  <2> HIDE DEF q, key
  <2>6. key \in Parse(raw) BY <1>4, <2>2, <2>4, <2>5 DEF key
  <2>7. ASSUME NEW k \in Parse(raw) PROVE k = key BY <1>4, <2>3, <2>4, <2>5, <2>7 DEF key
  <2> QED BY <2>6, <2>7
<1>6. ASSUME Parse(raw) = {key} PROVE IsRaw(raw, id, enc)
  <2>1. key \in Parse(raw) BY <1>6
  <2>2. PICK p \in split(raw) : \E c \in decodeBase62(p.secret, secretBytesLen) :
               key = [ID |-> p.id, SecretHash |-> Sum256(c)]
    <3> HIDE DEF key
    <3> QED BY <1>4, <2>1
  <2>3. PICK c \in decodeBase62(p.secret, secretBytesLen) :
               key = [ID |-> p.id, SecretHash |-> Sum256(c)]
        BY <2>2
  <2>4. id = p.id /\ b = c
    <3>1. id = p.id /\ Sum256(b) = Sum256(c) BY <2>3
    <3> QED BY <3>1 DEF Sum256
  <2>5. PICK e, d : Layout(raw, e, d) /\ p = [id |-> IdAt(raw, e), secret |-> SecretAt(raw, d)]
        BY SplitLayout
  <2>6. p.secret \in Seq(Chars) /\ Len(p.secret) = secretEncodedLen
    <3>1. ASSUME NEW i \in 1..secretEncodedLen PROVE raw[d + i] \in Chars
      <4>1. d + i \in 1..Len(raw) BY <1>2, <2>5, Lengths DEF Layout
      <4> QED BY <4>1, ElementOfSeq
    <3>2. p.secret \in [1..secretEncodedLen -> Chars] BY <2>5, <3>1 DEF SecretAt
    <3>3. p.secret \in Seq(Chars) BY <3>2, Lengths, SeqDef
    <3>4. DOMAIN p.secret = 1..secretEncodedLen /\ DOMAIN p.secret = 1..Len(p.secret)
            /\ Len(p.secret) \in Nat
          BY <3>2, <3>3, LenProperties
    <3> QED BY <3>3, <3>4, Lengths
  <2>7. decodeBase62(p.secret, secretBytesLen) = {b}
    <3>1. b \in decodeBase62(p.secret, secretBytesLen) BY <2>3, <2>4
    <3>2. \A x, y \in decodeBase62(p.secret, secretBytesLen) : x = y BY DEF decodeBase62
    <3> QED BY <3>1, <3>2
  <2>8. p.secret = enc BY <1>3, <2>6, <2>7, Lengths, Base62RoundTrip DEF enc
  <2>9. id = IdAt(raw, e) /\ enc = SecretAt(raw, d) BY <2>4, <2>5, <2>8
  <2> QED BY <1>1, <2>5, <2>9, RawLayout
<1> QED BY <1>5, <1>6 DEF enc
=============================================================================
