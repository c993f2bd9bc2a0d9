-------------------------- MODULE AdmissionProofs --------------------------
(***************************************************************************)
(* Proofs about Admission, for any goroutines, keys, calls, rates, bursts  *)
(* and bounds: AdmissionInv is inductive and the properties follow.        *)
(***************************************************************************)
EXTENDS Admission, FiniteSetTheorems, TLAPS

-----------------------------------------------------------------------------
(* Versions.                                                                *)

\* versionLess is the order of releases.
LEMMA LessIsOlder ==
  ASSUME NEW a \in Versions, NEW b \in Versions
  PROVE  versionLess(a, b) <=> Older(a, b)
<1>1. \A i \in 1..3 : i = 1 \/ i = 2 \/ i = 3 OBVIOUS
<1>2. /\ \A j \in 1..(1 - 1) : FALSE
      /\ \A j \in 1..(2 - 1) : j = 1
      /\ \A j \in 1..(3 - 1) : j = 1 \/ j = 2
      OBVIOUS
<1>3. /\ a[1] \in Nat /\ a[2] \in Nat /\ a[3] \in Nat
      /\ b[1] \in Nat /\ b[2] \in Nat /\ b[3] \in Nat
      BY DEF Versions
<1>4. ASSUME versionLess(a, b) PROVE Older(a, b)
      BY <1>1, <1>3, <1>4 DEF versionLess, Older
<1>5. ASSUME Older(a, b) PROVE versionLess(a, b)
  <2>1. CASE a[1] < b[1] BY <2>1, <1>2 DEF versionLess
  <2>2. CASE a[1] = b[1] /\ a[2] < b[2] BY <2>2, <1>2 DEF versionLess
  <2>3. CASE a[1] = b[1] /\ a[2] = b[2] /\ a[3] < b[3] BY <2>3, <1>2 DEF versionLess
  <2> QED BY <1>5, <2>1, <2>2, <2>3 DEF Older
<1> QED BY <1>4, <1>5

\* What extractClientVersion returns without an error is a version.
LEMMA ExtractType ==
  ASSUME NEW h \in Seq(Int), ~Malformed(h)
  PROVE  extractClientVersion(h) \in Versions
<1>1. CASE h = <<>> BY <1>1 DEF extractClientVersion, Versions
<1>2. CASE h # <<>>
      BY <1>2 DEF extractClientVersion, Versions, Malformed, parses
<1> QED BY <1>1, <1>2

\* One below a floor is older than one that is not.
LEMMA FloorSeparates ==
  ASSUME NEW a \in Versions, NEW b \in Versions, NEW f \in Versions,
         versionLess(a, f), ~versionLess(b, f)
  PROVE  Older(a, b)
<1>1. Older(a, f) /\ ~Older(b, f) BY LessIsOlder
<1>2. \A v \in Versions : v[1] \in Nat /\ v[2] \in Nat /\ v[3] \in Nat BY DEF Versions
<1> QED BY <1>1, <1>2 DEF Older

\* versionLess is a strict total order of all versions, whatever components they differ
\* in: a floor splits them into those below it and those at it or above.
THEOREM VersionsAreOrdered ==
  ASSUME NEW a \in Versions, NEW b \in Versions, NEW c \in Versions
  PROVE  /\ ~versionLess(a, a)
         /\ versionLess(a, b) /\ versionLess(b, c) => versionLess(a, c)
         /\ versionLess(a, b) \/ a = b \/ versionLess(b, a)
<1>1. \A v \in Versions : v[1] \in Nat /\ v[2] \in Nat /\ v[3] \in Nat BY DEF Versions
<1>2. ~versionLess(a, a) BY <1>1, LessIsOlder DEF Older
<1>3. versionLess(a, b) /\ versionLess(b, c) => versionLess(a, c)
  <2>1. Older(a, b) /\ Older(b, c) => Older(a, c) BY <1>1 DEF Older
  <2> QED BY <2>1, LessIsOlder
<1>4. Older(a, b) \/ a = b \/ Older(b, a)
  <2>1. a[1] = b[1] /\ a[2] = b[2] /\ a[3] = b[3] => a = b
    <3>1. \A i \in 1..3 : i = 1 \/ i = 2 \/ i = 3 OBVIOUS
    <3> QED BY <3>1 DEF Versions
  <2> QED BY <1>1, <2>1 DEF Older
<1> QED BY <1>2, <1>3, <1>4, LessIsOlder

-----------------------------------------------------------------------------
(* Buckets.                                                                 *)

\* One more tick gives one more Rate.
LEMMA OneMoreTick ==
  ASSUME NEW r \in Nat, NEW a \in Nat
  PROVE  r * a \in Nat /\ r * (a + 1) = r * a + r
BY SMT

\* Bursts and rates are numbers.
LEMMA Parameters ==
  ASSUME NEW k \in AllKeys
  PROVE  Burst(k) \in Nat /\ Rate(k) \in Nat
BY AdmissionAssumption DEF Burst, Rate

\* Limiters hold numbers, and were last used by now.
LEMMA BucketType ==
  ASSUME TypeOK, Limiters, NEW l \in 1..Len(buckets)
  PROVE  /\ buckets[l].tokens \in Nat /\ buckets[l].last \in Nat
         /\ now \in Nat /\ now - buckets[l].last \in Nat
<1> DEFINE Bucket == [tokens : Nat, last : Nat]
<1>1. buckets \in Seq(Bucket) BY DEF TypeOK
<1>2. buckets[l] \in Bucket
  <2> HIDE DEF Bucket
  <2> QED BY <1>1
<1>3. now \in Nat BY AdmissionAssumption DEF TypeOK, Times
<1>4. buckets[l].last <= now BY DEF Limiters
<1> QED BY <1>2, <1>3, <1>4

\* A bucket holds between nothing and a burst.
LEMMA TokensType ==
  ASSUME TypeOK, Limiters, NEW k \in AllKeys, NEW l \in 1..Len(buckets)
  PROVE  Tokens(l, k) \in Nat /\ Tokens(l, k) <= Burst(k)
<1>1. buckets[l].tokens \in Nat /\ now - buckets[l].last \in Nat BY BucketType
<1>2. Rate(k) * (now - buckets[l].last) \in Nat BY <1>1, OneMoreTick, Parameters
<1> QED BY <1>1, <1>2, Parameters DEF Tokens

\* So is what is due to a key, and it is at most a burst.
LEMMA DueType ==
  ASSUME TypeOK, Limiters, NEW k \in AllKeys
  PROVE  Due(k) \in Nat /\ Due(k) <= Burst(k)
<1>1. CASE limiters[k] = 0 BY <1>1, Parameters DEF Due
<1>2. CASE limiters[k] # 0
  <2>1. limiters[k] \in 1..Len(buckets) BY <1>2 DEF TypeOK
  <2> QED BY <1>2, <2>1, TokensType DEF Due
<1> QED BY <1>1, <1>2

\* A tick gives every key its Rate, unless that would be more than a burst.
LEMMA DueAfterTick ==
  ASSUME TypeOK, Limiters, now' = now + 1, UNCHANGED <<limiters, buckets>>, NEW k \in AllKeys
  PROVE  /\ Due(k)' <= Burst(k)
         /\ \/ Due(k)' = Due(k) + Rate(k)
            \/ Due(k)' = Burst(k) /\ Due(k) + Rate(k) >= Burst(k)
<1>1. Burst(k) \in Nat /\ Rate(k) \in Nat /\ Burst(k)' = Burst(k) /\ Rate(k)' = Rate(k)
      BY Parameters DEF Burst, Rate
<1>2. CASE limiters[k] = 0 BY <1>1, <1>2 DEF Due
<1>3. CASE limiters[k] # 0
  <2> DEFINE b == buckets[limiters[k]]
  <2>1. b.tokens \in Nat /\ b.last \in Nat /\ now \in Nat /\ now - b.last \in Nat
    <3>1. limiters[k] \in 1..Len(buckets) BY <1>3 DEF TypeOK
    <3> QED BY <3>1, BucketType
  <2>2. /\ Rate(k) * (now - b.last) \in Nat
        /\ Rate(k) * ((now - b.last) + 1) = Rate(k) * (now - b.last) + Rate(k)
        BY <1>1, <2>1, OneMoreTick
  <2>3. (now + 1) - b.last = (now - b.last) + 1 BY <2>1
  <2>4. Due(k) = IF b.tokens + Rate(k) * (now - b.last) > Burst(k)
                   THEN Burst(k) ELSE b.tokens + Rate(k) * (now - b.last)
        BY <1>3 DEF Due, Tokens
  <2>5. Due(k)' = IF b.tokens + Rate(k) * ((now + 1) - b.last) > Burst(k)
                    THEN Burst(k) ELSE b.tokens + Rate(k) * ((now + 1) - b.last)
        BY <1>1, <1>3 DEF Due, Tokens
  <2> HIDE DEF b
  <2> QED BY <1>1, <2>1, <2>2, <2>3, <2>4, <2>5
<1> QED BY <1>2, <1>3

\* Who keeps what is due, what was granted and the time keeps Spending.
LEMMA SpendingKept ==
  ASSUME Spending, UNCHANGED <<now, grants, before>>, \A k \in AllKeys : Due(k)' = Due(k)
  PROVE  Spending'
<1>1. \A k \in AllKeys : Burst(k)' = Burst(k) /\ Rate(k)' = Rate(k) BY DEF Burst, Rate
<1> QED BY <1>1 DEF Spending

\* A step that touches no limiter keeps what is said of them.
LEMMA LimitsKept ==
  ASSUME Limiters, Spending, UNCHANGED limits
  PROVE  Limiters' /\ Spending'
<1>1. Limiters' BY DEF Limiters, limits
<1>2. \A k \in AllKeys : Due(k)' = Due(k) BY DEF Due, Tokens, Burst, Rate, limits
<1> QED BY <1>1, <1>2, SpendingKept DEF limits

\* A tick: what a key gains is no more than a window that began earlier gains.
LEMMA TickSpending ==
  ASSUME TypeOK, Limiters, Spending, Tick
  PROVE  Spending'
<1> SUFFICES ASSUME NEW k \in AllKeys
             PROVE  /\ \A t \in 0..now' : grants'[k] - before'[k][t] + Due(k)'
                                           <= Burst(k) + Rate(k) * (now' - t)
                    /\ \E t \in 0..now' : grants'[k] - before'[k][t] + Due(k)'
                                           >= Burst(k) + Rate(k) * (now' - t)
  <2>1. \A k \in AllKeys : Burst(k)' = Burst(k) /\ Rate(k)' = Rate(k) BY DEF Burst, Rate
  <2> QED BY <2>1 DEF Spending
<1> DEFINE B == Burst(k)
           R == Rate(k)
           G == grants[k]
           F(t) == before[k][t]
           D == Due(k)
           E == Due(k)'
<1>1. now \in Nat /\ now + 1 \in Times /\ now' = now + 1 /\ grants'[k] = G
      BY AdmissionAssumption DEF Tick, TypeOK, Times
<1>2. /\ \A t \in 0..now : F(t) \in Nat /\ before'[k][t] = F(t)
      /\ before'[k][now + 1] = G /\ G \in Nat
  <2>1. before[k] \in [Times -> Nat] /\ G \in Nat BY DEF TypeOK
  <2>2. before'[k] = [before[k] EXCEPT ![now + 1] = G] BY DEF Tick
  <2>3. \A t \in 0..now : t \in Times /\ t # now + 1
        BY <1>1, AdmissionAssumption DEF Times
  <2> QED BY <1>1, <2>1, <2>2, <2>3
<1>3. B \in Nat /\ R \in Nat /\ D \in Nat /\ D <= B BY Parameters, DueType
<1>4. E <= B /\ (E = D + R \/ (E = B /\ D + R >= B))
  <2>1. now' = now + 1 /\ UNCHANGED <<limiters, buckets>> BY DEF Tick
  <2> QED BY <2>1, DueAfterTick
<1>5. \A t \in 0..now : /\ R * (now - t) \in Nat /\ now - t \in Nat
                        /\ R * ((now + 1) - t) = R * (now - t) + R
  <2> SUFFICES ASSUME NEW t \in 0..now
               PROVE  /\ R * (now - t) \in Nat /\ now - t \in Nat
                      /\ R * ((now + 1) - t) = R * (now - t) + R
      OBVIOUS
  <2>1. now - t \in Nat /\ (now + 1) - t = (now - t) + 1 BY <1>1
  <2> HIDE DEF R
  <2> QED BY <1>3, <2>1, OneMoreTick
<1>6. /\ \A t \in 0..now : G - F(t) + D <= B + R * (now - t)
      /\ \E t \in 0..now : G - F(t) + D >= B + R * (now - t)
      BY DEF Spending
<1>7. R * ((now + 1) - (now + 1)) = 0 BY <1>1, <1>3
<1>8. 0..(now + 1) = (0..now) \cup {now + 1} BY <1>1
<1> HIDE DEF B, R, G, F, D, E
<1>9. \A t \in 0..(now + 1) : G - before'[k][t] + E <= B + R * ((now + 1) - t)
  <2>1. ASSUME NEW t \in 0..now PROVE G - before'[k][t] + E <= B + R * ((now + 1) - t)
    <3>1. /\ R * ((now + 1) - t) = R * (now - t) + R /\ R * (now - t) \in Nat
          /\ before'[k][t] = F(t) /\ F(t) \in Nat
          /\ G - F(t) + D <= B + R * (now - t)
          BY <1>2, <1>5, <1>6
    <3>2. E \in Nat /\ E <= D + R BY <1>3, <1>4
    <3> DEFINE X == R * (now - t)
    <3>3. G - F(t) + E <= B + (X + R)
      <4>1. X \in Nat /\ F(t) \in Nat /\ G - F(t) + D <= B + X BY <3>1
      <4> HIDE DEF X
      <4> QED BY <1>2, <1>3, <3>2, <4>1
    <3> QED BY <3>1, <3>3
  <2>2. G - before'[k][now + 1] + E <= B + R * ((now + 1) - (now + 1))
        BY <1>2, <1>3, <1>4, <1>7
  <2> QED BY <1>8, <2>1, <2>2
<1>10. \E t \in 0..(now + 1) : G - before'[k][t] + E >= B + R * ((now + 1) - t)
  <2>1. CASE E = B
    <3>1. G - before'[k][now + 1] + E >= B + R * ((now + 1) - (now + 1))
          BY <1>2, <1>3, <1>7, <2>1
    <3> QED BY <1>8, <3>1
  <2>2. CASE E = D + R
    <3>1. PICK t \in 0..now : G - F(t) + D >= B + R * (now - t) BY <1>6
    <3>2. /\ R * ((now + 1) - t) = R * (now - t) + R /\ R * (now - t) \in Nat
          /\ before'[k][t] = F(t) /\ F(t) \in Nat
          BY <1>2, <1>5
    <3>3. G - before'[k][t] + E >= B + R * ((now + 1) - t)
          BY <1>2, <1>3, <2>2, <3>1, <3>2
    <3> QED BY <1>8, <3>3
  <2> QED BY <1>4, <2>1, <2>2
<1> QED BY <1>1, <1>9, <1>10 DEF B, R, G, E

\* What a call carries.
LEMMA CallType ==
  ASSUME TypeOK, NEW p \in Procs
  PROVE  /\ call[p].header \in Seq(Int)
         /\ call[p].key # None => call[p].key \in AllKeys
<1> DEFINE C == [header : Seq(Int), key : AllKeys \cup {None}]
<1>1. NoCall \in C BY DEF NoCall
<1>2. Requests \subseteq C BY AdmissionAssumption
<1>3. call[p] \in C BY <1>1, <1>2 DEF TypeOK
<1> QED BY <1>3

\* A key that is allowed through had a token, and has one less; no other key's
\* limiter is touched.
LEMMA DueAfterAllow ==
  ASSUME TypeOK, Positions, Limiters, NEW p \in Procs, Allow(p),
         NEW k \in AllKeys, k = call[p].key
  PROVE  /\ Limiters'
         /\ Due(k) > 0 /\ Due(k)' = Due(k) - 1
         /\ \A m \in AllKeys : m # k => Due(m)' = Due(m)
         /\ buckets' \in Seq([tokens : Nat, last : Nat]) /\ Len(buckets') = Len(buckets)
<1>1. PICK l \in 1..Len(buckets) : l = held[p] /\ l = limiters[k] /\ l # 0
      BY DEF Allow, Positions, TypeOK
<1>2. l \in 1..Len(buckets) OBVIOUS
<1> DEFINE b == [tokens |-> Tokens(l, k) - 1, last |-> now]
<1>3. Tokens(l, k) \in Nat /\ Tokens(l, k) <= Burst(k) /\ Tokens(l, k) > 0
      BY <1>1, <1>2, TokensType DEF Allow, LimiterKey
<1>4. buckets' = [buckets EXCEPT ![l] = b] /\ now' = now /\ limiters' = limiters
      BY <1>1 DEF Allow, LimiterKey
<1>5. now \in Nat BY AdmissionAssumption DEF TypeOK, Times
<1>6. b \in [tokens : Nat, last : Nat] BY <1>3, <1>5
<1> DEFINE Bucket == [tokens : Nat, last : Nat]
<1>7. buckets \in Seq(Bucket) /\ b \in Bucket BY <1>6 DEF TypeOK
<1>8. /\ buckets' \in Seq(Bucket) /\ Len(buckets') = Len(buckets)
      /\ buckets'[l] = b /\ \A j \in 1..Len(buckets) : j # l => buckets'[j] = buckets[j]
  <2> HIDE DEF Bucket, b
  <2> QED BY <1>2, <1>4, <1>7
<1>9. Limiters'
  <2>1. \A j \in 1..Len(buckets) : buckets'[j].last <= now BY <1>5, <1>8 DEF Limiters
  <2>2. Len(buckets') = Len(buckets) BY <1>8
  <2> HIDE DEF b, Bucket
  <2> QED BY <1>4, <2>1, <2>2 DEF Limiters
<1>10. Due(k) = Tokens(l, k) BY <1>1 DEF Due
<1>11. Due(k)' = Tokens(l, k) - 1
  <2>1. Burst(k)' = Burst(k) /\ Rate(k)' = Rate(k) /\ Burst(k) \in Nat /\ Rate(k) \in Nat
        BY <1>1, Parameters DEF Burst, Rate
  <2>2. buckets'[l].tokens = Tokens(l, k) - 1 /\ buckets'[l].last = now BY <1>8
  <2>3. Rate(k) * (now - now) = 0 BY <2>1, <1>5
  <2>4. limiters'[k] = l BY <1>1, <1>4
  <2>5. Tokens(l, k)' = IF buckets'[l].tokens + Rate(k)' * (now' - buckets'[l].last) > Burst(k)'
                          THEN Burst(k)' ELSE buckets'[l].tokens + Rate(k)' * (now' - buckets'[l].last)
        BY DEF Tokens
  <2> QED BY <1>1, <1>3, <1>4, <2>1, <2>2, <2>3, <2>4, <2>5 DEF Due, Tokens
<1>12. ASSUME NEW m \in AllKeys, m # k PROVE Due(m)' = Due(m)
  <2>1. CASE limiters[m] = 0 BY <1>4, <2>1 DEF Due, Burst
  <2>2. CASE limiters[m] # 0
    <3>1. limiters[m] # l /\ limiters[m] \in 1..Len(buckets)
          BY <1>1, <1>12, <2>2 DEF Limiters, TypeOK
    <3>2. buckets'[limiters[m]] = buckets[limiters[m]] BY <1>8, <3>1
    <3> QED BY <1>4, <2>2, <3>2 DEF Due, Tokens, Burst, Rate
  <2> QED BY <2>1, <2>2
<1> QED BY <1>1, <1>3, <1>8, <1>9, <1>10, <1>11, <1>12

\* What was due is spent: the sum stays.
LEMMA AllowSpending ==
  ASSUME TypeOK, Positions, Limiters, Spending, NEW p \in Procs, Allow(p)
  PROVE  Spending'
<1>0. PICK c \in AllKeys : c = call[p].key BY CallType DEF Allow, Positions
<1>1. /\ Due(c)' = Due(c) - 1
      /\ \A m \in AllKeys : m # c => Due(m)' = Due(m)
      BY <1>0, DueAfterAllow
<1>2. now' = now /\ before' = before /\ grants' = [grants EXCEPT ![c] = @ + 1]
      BY <1>0 DEF Allow
<1>3. \A m \in AllKeys : Due(m) \in Nat /\ grants[m] \in Nat BY DueType DEF TypeOK
<1>4. \A k \in AllKeys : Burst(k)' = Burst(k) /\ Rate(k)' = Rate(k) BY DEF Burst, Rate
<1>5. \A k \in AllKeys, t \in 0..now : before[k][t] \in Nat
      BY AdmissionAssumption DEF TypeOK, Times
<1>6. \A k \in AllKeys, t \in 0..now :
        grants'[k] - before'[k][t] + Due(k)' = grants[k] - before[k][t] + Due(k)
  <2> SUFFICES ASSUME NEW k \in AllKeys, NEW t \in 0..now
               PROVE  grants'[k] - before[k][t] + Due(k)' = grants[k] - before[k][t] + Due(k)
      BY <1>2
  <2>1. CASE k = c
    <3>1. grants'[k] = grants[k] + 1 BY <1>1, <1>2, <2>1 DEF TypeOK
    <3>2. Due(k)' = Due(k) - 1 BY <1>1, <2>1
    <3> QED BY <1>3, <1>5, <3>1, <3>2
  <2>2. CASE k # c
    <3>1. grants'[k] = grants[k] BY <1>1, <1>2, <2>2 DEF TypeOK
    <3>2. Due(k)' = Due(k) BY <1>1, <2>2
    <3> QED BY <3>1, <3>2
  <2> QED BY <2>1, <2>2
<1> QED BY <1>2, <1>4, <1>6 DEF Spending

\* A new limiter is full, which is what was due without it.
LEMMA StoreDue ==
  ASSUME TypeOK, Positions, Limiters, Spending, NEW p \in Procs, LoadOrStore(p)
  PROVE  /\ Limiters' /\ Spending'
         /\ buckets' \in Seq([tokens : Nat, last : Nat]) /\ Len(buckets') \in Nat
         /\ limiters' \in [AllKeys -> 0..Len(buckets')] /\ Len(buckets) <= Len(buckets')
         /\ call[p].key \in AllKeys /\ limiters'[call[p].key] # 0
         /\ \A m \in AllKeys : limiters[m] # 0 => limiters'[m] = limiters[m]
<1>1. PICK k \in AllKeys : k = call[p].key BY CallType DEF LoadOrStore, LimiterKey
<1> DEFINE Bucket == [tokens : Nat, last : Nat]
<1>2. CASE limiters[k] # 0
  <2>1. UNCHANGED limits BY <1>1, <1>2 DEF LoadOrStore, LimiterKey, limits
  <2>2. Limiters' /\ Spending' BY <2>1, LimitsKept
  <2>3. buckets' = buckets /\ limiters' = limiters /\ Len(buckets) \in Nat
        BY <2>1 DEF limits, TypeOK
  <2> QED BY <1>1, <1>2, <2>2, <2>3 DEF TypeOK
<1>3. CASE limiters[k] = 0
  <2>0. PICK n \in Nat : n = Len(buckets) BY DEF TypeOK
  <2> DEFINE b == FullBucket(k)
  <2>1. /\ buckets' = Append(buckets, b) /\ limiters' = [limiters EXCEPT ![k] = n + 1]
        /\ now' = now /\ grants' = grants /\ before' = before
        BY <1>1, <1>3, <2>0 DEF LoadOrStore, LimiterKey
  <2>2. b \in Bucket /\ b.last = now /\ b.tokens = Burst(k) /\ now \in Nat
    <3>1. now \in Nat BY AdmissionAssumption DEF TypeOK, Times
    <3>2. Burst(k) \in Nat BY Parameters
    <3> QED BY <3>1, <3>2 DEF FullBucket
  <2>3. /\ buckets' \in Seq(Bucket) /\ Len(buckets') = n + 1 /\ n \in Nat
        /\ buckets'[n + 1] = b /\ \A j \in 1..n : buckets'[j] = buckets[j]
    <3>1. buckets \in Seq(Bucket) BY DEF TypeOK
    <3> HIDE DEF Bucket, b
    <3> QED BY <2>0, <2>1, <2>2, <3>1
  <2>4. limiters \in [AllKeys -> 0..n] BY <2>0 DEF TypeOK
  <2>5. limiters' \in [AllKeys -> 0..(n + 1)] /\ limiters'[k] = n + 1
        /\ \A m \in AllKeys : m # k => limiters'[m] = limiters[m]
        BY <1>1, <2>1, <2>3, <2>4
  <2>6. Limiters'
    <3>1. \A i, m \in AllKeys : limiters'[i] # 0 /\ limiters'[i] = limiters'[m] => i = m
          BY <2>3, <2>4, <2>5 DEF Limiters
    <3>2. \A j \in 1..(n + 1) : buckets'[j].last <= now
      <4>1. \A j \in 1..n : buckets[j].last <= now BY <2>0 DEF Limiters
      <4>2. \A j \in 1..(n + 1) : j \in 1..n \/ j = n + 1 BY <2>3
      <4> HIDE DEF b
      <4> QED BY <2>2, <2>3, <4>1, <4>2
    <3> QED BY <2>1, <2>3, <3>1, <3>2 DEF Limiters
  <2>7. \A m \in AllKeys : Due(m)' = Due(m)
    <3> SUFFICES ASSUME NEW m \in AllKeys PROVE Due(m)' = Due(m) OBVIOUS
    <3>0. Burst(m)' = Burst(m) /\ Rate(m)' = Rate(m) /\ Burst(m) \in Nat /\ Rate(m) \in Nat
          BY Parameters DEF Burst, Rate
    <3>1. CASE m = k
      <4>1. Due(m) = Burst(m) BY <1>3, <3>1 DEF Due
      <4>2. limiters'[m] = n + 1 /\ n + 1 # 0 BY <2>3, <2>5, <3>1
      <4>3. buckets'[n + 1].tokens = Burst(m) /\ buckets'[n + 1].last = now
            BY <2>2, <2>3, <3>1
      <4>4. Rate(m) * (now - now) = 0 BY <2>2, <3>0
      <4> HIDE DEF b
      <4>5. now' = now /\ now \in Nat BY <2>1, <2>2
      <4>6. Due(m)' = IF buckets'[n + 1].tokens + Rate(m) * (now - buckets'[n + 1].last) > Burst(m)
                        THEN Burst(m)
                        ELSE buckets'[n + 1].tokens + Rate(m) * (now - buckets'[n + 1].last)
            BY <3>0, <4>2, <4>5 DEF Due, Tokens
      <4> QED BY <3>0, <4>1, <4>3, <4>4, <4>5, <4>6
    <3>2. CASE m # k
      <4>1. limiters'[m] = limiters[m] BY <2>5, <3>2
      <4>2. CASE limiters[m] = 0 BY <3>0, <4>1, <4>2 DEF Due
      <4>3. CASE limiters[m] # 0
        <5>1. buckets'[limiters[m]] = buckets[limiters[m]] BY <2>3, <2>4, <4>3
        <5>2. now' = now BY <2>1
        <5> QED BY <3>0, <4>1, <4>3, <5>1, <5>2 DEF Due, Tokens
      <4> QED BY <4>2, <4>3
    <3> QED BY <3>1, <3>2
  <2>8. Spending' BY <2>1, <2>7, SpendingKept
  <2> QED BY <1>1, <1>3, <2>0, <2>3, <2>5, <2>6, <2>8
<1> QED BY <1>2, <1>3

-----------------------------------------------------------------------------
(* Calls on their way.                                                      *)

\* The metrics are the first interceptor and the version gate the second.
LEMMA ChainOrder ==
  /\ Len(Chain) = 2 /\ DOMAIN Chain = 1..2
  /\ \A i \in 1..2 : Chain[i] = "metrics" <=> i = 1
  /\ \A i \in 1..2 : Chain[i] = "version" <=> i = 2
BY DEF Chain

\* Where a call is when it enters or leaves each interceptor.
LEMMA InterceptorAt ==
  ASSUME NEW p \in Procs
  PROVE  /\ Enters(p, "metrics") => pc[p] = "in" /\ pos[p] = 1
         /\ Enters(p, "version") => pc[p] = "in" /\ pos[p] = 2
         /\ Leaves(p, "metrics") => pc[p] = "out" /\ pos[p] = 1
         /\ Leaves(p, "version") => pc[p] = "out" /\ pos[p] = 2
<1>1. DOMAIN Chain = 1..2 BY ChainOrder
<1> HIDE DEF Chain
<1> QED BY <1>1, ChainOrder DEF Enters, Leaves

\* The steps that concern neither the counters nor the limiters, and where they
\* take a call.
LEMMA Moves ==
  ASSUME TypeOK, NEW p \in Procs,
         PassVersion(p) \/ RejectVersion(p) \/ Unauthenticated(p) \/ Refuse(p)
         \/ Lookup(p) \/ LeaveVersion(p)
  PROVE  /\ UNCHANGED <<limits, metrics, call>>
         /\ held' = held \/ held' = [held EXCEPT ![p] = 0]
         /\ \/ /\ pc[p] = "in" /\ pos[p] = 2 /\ checkClientVersion(call[p].header)
               /\ pc' = pc /\ pos' = [pos EXCEPT ![p] = 3]
            \/ /\ pc[p] = "in" /\ pos[p] = 2
               /\ pc' = [pc EXCEPT ![p] = "out"] /\ pos' = [pos EXCEPT ![p] = 1]
            \/ /\ Admitted(p)
               /\ pc' = [pc EXCEPT ![p] = "out"] /\ pos' = [pos EXCEPT ![p] = 2]
            \/ /\ pc[p] = "out" /\ pos[p] = 2
               /\ pc' = pc /\ pos' = [pos EXCEPT ![p] = 1]
<1>0. Len(Chain) = 2 BY ChainOrder
<1> HIDE DEF Chain
<1>1. CASE PassVersion(p)
  <2>1. pc[p] = "in" /\ pos[p] = 2 BY <1>1, InterceptorAt DEF PassVersion
  <2> QED BY <1>1, <2>1 DEF PassVersion
<1>2. CASE RejectVersion(p)
  <2>1. pc[p] = "in" /\ pos[p] = 2 BY <1>2, InterceptorAt DEF RejectVersion
  <2> QED BY <1>2, <2>1 DEF RejectVersion
<1>3. CASE Unauthenticated(p) BY <1>0, <1>3 DEF Unauthenticated, Returns, Admitted
<1>4. CASE Refuse(p) BY <1>0, <1>4 DEF Refuse, Returns, Admitted
<1>5. CASE Lookup(p) BY <1>0, <1>5 DEF Lookup, Returns, Admitted
<1>6. CASE LeaveVersion(p)
  <2>1. pc[p] = "out" /\ pos[p] = 2 BY <1>6, InterceptorAt DEF LeaveVersion
  <2> QED BY <1>6, <2>1 DEF LeaveVersion
<1> QED BY <1>1, <1>2, <1>3, <1>4, <1>5, <1>6

\* They keep the invariant: a call stays inside the metrics.
LEMMA MovesInv ==
  ASSUME AdmissionInv, NEW p \in Procs,
         PassVersion(p) \/ RejectVersion(p) \/ Unauthenticated(p) \/ Refuse(p)
         \/ Lookup(p) \/ LeaveVersion(p)
  PROVE  AdmissionInv'
<1>1. TypeOK /\ Positions /\ Limiters /\ Spending /\ Counters BY DEF AdmissionInv
<1>2. Limiters' /\ Spending' BY <1>1, Moves, LimitsKept
<1>3. TypeOK'
  <2>1. Len(Chain) = 2 /\ Len(Chain') = 2 BY ChainOrder DEF Chain
  <2>2. Len(buckets) \in Nat BY <1>1 DEF TypeOK
  <2>3. /\ held' = held \/ held' = [held EXCEPT ![p] = 0]
        /\ \E x \in {"in", "limit", "lookup", "out"}, i \in 1..3 :
             (pc' = pc \/ pc' = [pc EXCEPT ![p] = x]) /\ pos' = [pos EXCEPT ![p] = i]
        /\ UNCHANGED <<limits, metrics, call>>
        BY <1>1, Moves
  <2> HIDE DEF Chain
  <2> QED BY <1>1, <2>1, <2>2, <2>3 DEF TypeOK, limits, metrics
<1>4. /\ pc' \in [Procs -> {"idle", "in", "limit", "lookup", "out"}]
      /\ \A q \in Procs : q # p => /\ pc'[q] = pc[q] /\ pos'[q] = pos[q]
                                   /\ call'[q] = call[q] /\ held'[q] = held[q]
      /\ \/ pc[p] = "in" /\ pos[p] = 2 /\ checkClientVersion(call[p].header)
            /\ pc'[p] = "in" /\ pos'[p] = 3
         \/ pc[p] = "in" /\ pos[p] = 2 /\ pc'[p] = "out" /\ pos'[p] = 1
         \/ Admitted(p) /\ pc'[p] = "out" /\ pos'[p] = 2
         \/ pc[p] = "out" /\ pos[p] = 2 /\ pc'[p] = "out" /\ pos'[p] = 1
  <2>1. /\ pc' \in [Procs -> {"idle", "in", "limit", "lookup", "out"}] /\ pc \in [Procs -> {"idle", "in", "limit", "lookup", "out"}]
        /\ DOMAIN pos = Procs /\ pos = [q \in Procs |-> pos[q]]
        /\ DOMAIN held = Procs /\ held = [q \in Procs |-> held[q]]
        BY <1>1, <1>3 DEF TypeOK
  <2>2. call' = call BY <1>1, Moves
  <2>3. \A q \in Procs : q # p => pc'[q] = pc[q] /\ pos'[q] = pos[q] /\ held'[q] = held[q]
        BY <1>1, <2>1, Moves
  <2>4. \/ pc[p] = "in" /\ pos[p] = 2 /\ checkClientVersion(call[p].header)
            /\ pc'[p] = "in" /\ pos'[p] = 3
        \/ pc[p] = "in" /\ pos[p] = 2 /\ pc'[p] = "out" /\ pos'[p] = 1
        \/ Admitted(p) /\ pc'[p] = "out" /\ pos'[p] = 2
        \/ pc[p] = "out" /\ pos[p] = 2 /\ pc'[p] = "out" /\ pos'[p] = 1
        BY <1>1, <2>1, Moves
  <2> QED BY <2>1, <2>2, <2>3, <2>4
<1>5. Len(Chain) = 2 /\ UNCHANGED <<limits, metrics, call>> BY <1>1, ChainOrder, Moves
<1>6. Positions'
  <2> HIDE DEF Chain
  <2>1. ASSUME NEW q \in Procs, q # p
        PROVE  /\ pc'[q] = "in" => pos'[q] \in 1..3
               /\ pc'[q] = "out" => pos'[q] \in 0..2
               /\ Admitted(q)' \/ (pc'[q] = "out" /\ pos'[q] = 2) => checkClientVersion(call[q].header)
               /\ pc'[q] \in {"limit", "lookup"} => call'[q].key # None
               /\ pc'[q] = "limit" => held'[q] # 0 /\ held'[q] = limiters'[call'[q].key]
        BY <1>1, <1>4, <1>5, <2>1 DEF Positions, Admitted, InHandler, limits
  <2>2. /\ pc'[p] = "in" => pos'[p] \in 1..3
        /\ pc'[p] = "out" => pos'[p] \in 0..2
        /\ Admitted(p)' \/ (pc'[p] = "out" /\ pos'[p] = 2) => checkClientVersion(call[p].header)
        /\ pc'[p] \notin {"limit", "lookup"}
        BY <1>1, <1>4, <1>5 DEF Positions, Admitted, InHandler
  <2>3. \A q \in Procs : call'[q] = call[q]
                         /\ checkClientVersion(call[q].header)' = checkClientVersion(call[q].header)
        BY <1>5
  <2> QED BY <2>1, <2>2, <2>3 DEF Positions
<1>7. Counters'
  <2> HIDE DEF Chain
  <2>1. \A q \in Procs : (q \in Inside' <=> q \in Inside) /\ (q \in Left' <=> q \in Left)
    <3>1. \A q \in Procs : q # p => (q \in Inside' <=> q \in Inside) /\ (q \in Left' <=> q \in Left)
          BY <1>4, <1>5 DEF Inside, Left, Admitted, InHandler
    <3>2. p \in Inside /\ p \notin Left
          BY <1>1, <1>4, <1>5 DEF Inside, Left, Admitted, InHandler
    <3>3. p \in Inside' /\ p \notin Left'
          BY <1>4, <1>5 DEF Inside, Left, Admitted, InHandler
    <3> QED BY <3>1, <3>2, <3>3
  <2>2. Inside \subseteq Procs /\ Inside' \subseteq Procs /\ Left \subseteq Procs /\ Left' \subseteq Procs
        BY DEF Inside, Left
  <2>3. Inside' = Inside /\ Left' = Left BY <2>1, <2>2
  <2> QED BY <1>1, <1>5, <2>3 DEF Counters, metrics
<1> QED BY <1>2, <1>3, <1>6, <1>7 DEF AdmissionInv

\* A step of one call leaves the others where they are counted.
LEMMA OthersCounted ==
  ASSUME NEW p \in Procs, \A q \in Procs : q # p => pc'[q] = pc[q] /\ pos'[q] = pos[q]
  PROVE  /\ Inside' \ {p} = Inside \ {p}
         /\ Left' \ {p} = Left \ {p}
<1>1. Len(Chain) = 2 BY ChainOrder
<1> HIDE DEF Chain
<1> QED BY <1>1 DEF Inside, Left, Admitted, InHandler

\* The calls that are counted can be counted.
LEMMA SetsFinite ==
  /\ IsFiniteSet(Inside) /\ IsFiniteSet(Left)
  /\ Cardinality(Inside) \in Nat /\ Cardinality(Left) \in Nat
<1>1. Inside \subseteq Procs /\ Left \subseteq Procs BY DEF Inside, Left
<1>2. IsFiniteSet(Inside) /\ IsFiniteSet(Left) BY <1>1, AdmissionAssumption, FS_Subset
<1> QED BY <1>2, FS_CardinalityType

\* One more in a finite set.
LEMMA Joins ==
  ASSUME NEW S, NEW T, NEW x, IsFiniteSet(S), x \notin S, x \in T, T \ {x} = S \ {x}
  PROVE  Cardinality(T) = Cardinality(S) + 1
<1>1. T = S \cup {x} OBVIOUS
<1> QED BY <1>1, FS_AddElement

\* One less in a finite set.
LEMMA Quits ==
  ASSUME NEW S, NEW T, NEW x, IsFiniteSet(S), x \in S, x \notin T, T \ {x} = S \ {x}
  PROVE  Cardinality(T) = Cardinality(S) - 1
<1>1. T = S \ {x} OBVIOUS
<1> QED BY <1>1, FS_RemoveElement

\* A step of one call keeps what the others rely on, if no key's limiter is
\* replaced.
LEMMA OthersPlaced ==
  ASSUME TypeOK, Positions, NEW p \in Procs,
         \A q \in Procs : q # p => /\ pc'[q] = pc[q] /\ pos'[q] = pos[q]
                                   /\ call'[q] = call[q] /\ held'[q] = held[q],
         \A k \in AllKeys : limiters[k] # 0 => limiters'[k] = limiters[k],
         pc'[p] = "in" => pos'[p] \in 1..3,
         pc'[p] = "out" => pos'[p] \in 0..2,
         Admitted(p)' \/ (pc'[p] = "out" /\ pos'[p] = 2) => checkClientVersion(call'[p].header),
         pc'[p] \in {"limit", "lookup"} => call'[p].key # None,
         pc'[p] = "limit" => held'[p] # 0 /\ held'[p] = limiters'[call'[p].key]
  PROVE  Positions'
<1>1. Len(Chain) = 2 BY ChainOrder
<1> HIDE DEF Chain
<1>2. ASSUME NEW q \in Procs, q # p
      PROVE  /\ pc'[q] = "in" => pos'[q] \in 1..3
             /\ pc'[q] = "out" => pos'[q] \in 0..2
             /\ Admitted(q)' \/ (pc'[q] = "out" /\ pos'[q] = 2) => checkClientVersion(call'[q].header)
             /\ pc'[q] \in {"limit", "lookup"} => call'[q].key # None
             /\ pc'[q] = "limit" => held'[q] # 0 /\ held'[q] = limiters'[call'[q].key]
  <2>1. pc'[q] = pc[q] /\ pos'[q] = pos[q] /\ call'[q] = call[q] /\ held'[q] = held[q]
        BY <1>2
  <2>2. Admitted(q)' = Admitted(q) BY <1>1, <2>1 DEF Admitted, InHandler
  <2>3. pc[q] = "limit" => held[q] # 0 /\ held[q] = limiters[call[q].key] /\ call[q].key \in AllKeys
        BY CallType DEF Positions
  <2> QED BY <2>1, <2>2, <2>3 DEF Positions
<1> QED BY <1>2 DEF Positions

\* The metrics count a call when it enters and when it leaves, and the limiters do
\* not concern them.
LEMMA CountedInv ==
  ASSUME AdmissionInv, NEW p \in Procs,
         CountStarted(p) \/ CountHandled(p) \/ Answer(p) \/ \E r \in Requests : Arrive(p, r)
  PROVE  AdmissionInv'
<1>0. TypeOK /\ Positions /\ Limiters /\ Spending /\ Counters BY DEF AdmissionInv
<1>1. Limiters' /\ Spending'
  <2>1. UNCHANGED limits BY DEF CountStarted, CountHandled, Answer, Arrive
  <2> QED BY <1>0, <2>1, LimitsKept
<1>2. Len(Chain) = 2 /\ Len(Chain') = 2 BY ChainOrder DEF Chain
<1> HIDE DEF Chain
<1>3. /\ IsFiniteSet(Inside) /\ IsFiniteSet(Left)
      /\ Cardinality(Inside) \in Nat /\ Cardinality(Left) \in Nat
      BY SetsFinite
<1>4. CASE CountStarted(p)
  <2>1. pc[p] = "in" /\ pos[p] = 1 BY <1>4, InterceptorAt DEF CountStarted
  <2>2. /\ started' = started + 1 /\ pos' = [pos EXCEPT ![p] = 2]
        /\ UNCHANGED <<limits, handled, answered, pc, call, held>>
        BY <1>4, <2>1 DEF CountStarted
  <2>3. TypeOK' BY <1>0, <1>2, <2>2 DEF TypeOK, limits
  <2>4. pc'[p] = "in" /\ pos'[p] = 2 BY <1>0, <2>1, <2>2 DEF TypeOK
  <2>5. \A q \in Procs : q # p => /\ pc'[q] = pc[q] /\ pos'[q] = pos[q]
                                  /\ call'[q] = call[q] /\ held'[q] = held[q]
        BY <1>0, <2>2 DEF TypeOK
  <2>6. limiters' = limiters BY <2>2 DEF limits
  <2>7. ~Admitted(p)' BY <1>2, <2>4 DEF Admitted, InHandler
  <2>8. Positions' BY <1>0, <2>4, <2>5, <2>6, <2>7, OthersPlaced
  <2>9. p \notin Inside /\ p \notin Left BY <1>2, <2>1 DEF Inside, Left, Admitted, InHandler
  <2>10. p \in Inside' /\ p \notin Left' BY <2>4 DEF Inside, Left
  <2>11. Inside' \ {p} = Inside \ {p} /\ Left' \ {p} = Left \ {p} BY <2>5, OthersCounted
  <2>12. Cardinality(Inside') = Cardinality(Inside) + 1
         BY <1>3, <2>9, <2>10, <2>11, Joins
  <2>13. Left' = Left BY <2>9, <2>10, <2>11
  <2>14. Counters'
    <3>1. handled \in Nat /\ answered \in Nat BY <1>0 DEF TypeOK
    <3> QED BY <1>0, <1>3, <2>2, <2>12, <2>13, <3>1 DEF Counters
  <2> QED BY <1>1, <2>3, <2>8, <2>14 DEF AdmissionInv
<1>5. CASE CountHandled(p)
  <2>1. pc[p] = "out" /\ pos[p] = 1 BY <1>5, InterceptorAt DEF CountHandled
  <2>2. /\ handled' = handled + 1 /\ pos' = [pos EXCEPT ![p] = 0]
        /\ UNCHANGED <<limits, started, answered, pc, call, held>>
        BY <1>5, <2>1 DEF CountHandled
  <2>3. TypeOK' BY <1>0, <1>2, <2>2 DEF TypeOK, limits
  <2>4. pc'[p] = "out" /\ pos'[p] = 0 BY <1>0, <2>1, <2>2 DEF TypeOK
  <2>5. \A q \in Procs : q # p => /\ pc'[q] = pc[q] /\ pos'[q] = pos[q]
                                  /\ call'[q] = call[q] /\ held'[q] = held[q]
        BY <1>0, <2>2 DEF TypeOK
  <2>6. limiters' = limiters BY <2>2 DEF limits
  <2>7. ~Admitted(p)' BY <1>2, <2>4 DEF Admitted, InHandler
  <2>8. Positions' BY <1>0, <2>4, <2>5, <2>6, <2>7, OthersPlaced
  <2>9. p \in Inside /\ p \notin Left BY <2>1 DEF Inside, Left
  <2>10. p \notin Inside' /\ p \in Left'
         BY <1>2, <2>4 DEF Inside, Left, Admitted, InHandler
  <2>11. Inside' \ {p} = Inside \ {p} /\ Left' \ {p} = Left \ {p} BY <2>5, OthersCounted
  <2>12. Cardinality(Inside') = Cardinality(Inside) - 1
         BY <1>3, <2>9, <2>10, <2>11, Quits
  <2>13. Cardinality(Left') = Cardinality(Left) + 1
         BY <1>3, <2>9, <2>10, <2>11, Joins
  <2>14. Counters'
    <3>1. handled \in Nat /\ answered \in Nat BY <1>0 DEF TypeOK
    <3> QED BY <1>0, <1>3, <2>2, <2>12, <2>13, <3>1 DEF Counters
  <2> QED BY <1>1, <2>3, <2>8, <2>14 DEF AdmissionInv
<1>6. CASE Answer(p)
  <2>1. /\ pc[p] = "out" /\ pos[p] = 0
        /\ answered' = answered + 1 /\ pc' = [pc EXCEPT ![p] = "idle"]
        /\ call' = [call EXCEPT ![p] = NoCall]
        /\ UNCHANGED <<limits, started, handled, pos, held>>
        BY <1>6 DEF Answer
  <2>2. TypeOK' BY <1>0, <1>2, <2>1 DEF TypeOK, limits, NoCall
  <2>3. pc'[p] = "idle" BY <1>0, <2>1 DEF TypeOK
  <2>4. \A q \in Procs : q # p => /\ pc'[q] = pc[q] /\ pos'[q] = pos[q]
                                  /\ call'[q] = call[q] /\ held'[q] = held[q]
        BY <1>0, <2>1 DEF TypeOK
  <2>5. limiters' = limiters BY <2>1 DEF limits
  <2>6. ~Admitted(p)' BY <2>3 DEF Admitted, InHandler
  <2>7. Positions' BY <1>0, <2>3, <2>4, <2>5, <2>6, OthersPlaced
  <2>8. p \notin Inside /\ p \in Left
        BY <1>2, <2>1 DEF Inside, Left, Admitted, InHandler
  <2>9. p \notin Inside' /\ p \notin Left'
        BY <2>3 DEF Inside, Left, Admitted, InHandler
  <2>10. Inside' \ {p} = Inside \ {p} /\ Left' \ {p} = Left \ {p} BY <2>4, OthersCounted
  <2>11. Cardinality(Left') = Cardinality(Left) - 1
         BY <1>3, <2>8, <2>9, <2>10, Quits
  <2>12. Inside' = Inside BY <2>8, <2>9, <2>10
  <2>13. Counters'
    <3>1. handled \in Nat /\ answered \in Nat BY <1>0 DEF TypeOK
    <3> QED BY <1>0, <1>3, <2>1, <2>11, <2>12, <3>1 DEF Counters
  <2> QED BY <1>1, <2>2, <2>7, <2>13 DEF AdmissionInv
<1>7. ASSUME NEW r \in Requests, Arrive(p, r) PROVE AdmissionInv'
  <2>1. /\ pc[p] = "idle" /\ pc' = [pc EXCEPT ![p] = "in"]
        /\ pos' = [pos EXCEPT ![p] = 1] /\ call' = [call EXCEPT ![p] = r]
        /\ UNCHANGED <<limits, metrics, held>>
        BY <1>7 DEF Arrive
  <2>2. TypeOK' BY <1>0, <1>2, <2>1 DEF TypeOK, limits, metrics
  <2>3. pc'[p] = "in" /\ pos'[p] = 1 BY <1>0, <2>1 DEF TypeOK
  <2>4. \A q \in Procs : q # p => /\ pc'[q] = pc[q] /\ pos'[q] = pos[q]
                                  /\ call'[q] = call[q] /\ held'[q] = held[q]
        BY <1>0, <2>1 DEF TypeOK
  <2>5. limiters' = limiters BY <2>1 DEF limits
  <2>6. ~Admitted(p)' BY <1>2, <2>3 DEF Admitted, InHandler
  <2>7. Positions' BY <1>0, <2>3, <2>4, <2>5, <2>6, OthersPlaced
  <2>8. p \notin Inside /\ p \notin Left /\ p \notin Inside' /\ p \notin Left'
        BY <1>2, <2>1, <2>3 DEF Inside, Left, Admitted, InHandler
  <2>9. Inside' \ {p} = Inside \ {p} /\ Left' \ {p} = Left \ {p} BY <2>4, OthersCounted
  <2>10. Inside' = Inside /\ Left' = Left BY <2>8, <2>9
  <2>11. Counters' BY <1>0, <2>1, <2>10 DEF Counters, metrics
  <2> QED BY <1>1, <2>2, <2>7, <2>11 DEF AdmissionInv
<1> QED BY <1>4, <1>5, <1>6, <1>7

\* The limiter a call gets is its key's, whoever stored it.
LEMMA StoreInv ==
  ASSUME AdmissionInv, NEW p \in Procs, LoadOrStore(p)
  PROVE  AdmissionInv'
<1>0. TypeOK /\ Positions /\ Limiters /\ Spending /\ Counters BY DEF AdmissionInv
<1>1. /\ Limiters' /\ Spending'
      /\ buckets' \in Seq([tokens : Nat, last : Nat]) /\ Len(buckets') \in Nat
      /\ limiters' \in [AllKeys -> 0..Len(buckets')] /\ Len(buckets) <= Len(buckets')
      /\ call[p].key \in AllKeys /\ limiters'[call[p].key] # 0
      /\ \A m \in AllKeys : limiters[m] # 0 => limiters'[m] = limiters[m]
      BY <1>0, StoreDue
<1>2. Len(Chain) = 2 /\ Len(Chain') = 2 BY ChainOrder DEF Chain
<1> HIDE DEF Chain
<1>3. /\ InHandler(p) /\ held' = [held EXCEPT ![p] = limiters'[call[p].key]]
      /\ pc' = [pc EXCEPT ![p] = "limit"]
      /\ UNCHANGED <<now, grants, before, metrics, pos, call>>
      BY DEF LoadOrStore, LimiterKey
<1>4. TypeOK'
  <2>1. Len(buckets) \in Nat /\ held \in [Procs -> 0..Len(buckets)] BY <1>0 DEF TypeOK
  <2>2. limiters'[call[p].key] \in 0..Len(buckets') BY <1>1
  <2>3. held' \in [Procs -> 0..Len(buckets')] BY <1>1, <1>3, <2>1, <2>2
  <2> QED BY <1>0, <1>1, <1>2, <1>3, <2>3 DEF TypeOK, metrics
<1>5. pc'[p] = "limit" /\ held'[p] = limiters'[call'[p].key] /\ call'[p] = call[p]
      BY <1>0, <1>3 DEF TypeOK
<1>6. \A q \in Procs : q # p => /\ pc'[q] = pc[q] /\ pos'[q] = pos[q]
                                /\ call'[q] = call[q] /\ held'[q] = held[q]
      BY <1>0, <1>3 DEF TypeOK
<1>7. checkClientVersion(call[p].header) /\ call[p].key # None
      BY <1>0, <1>1, <1>3, AdmissionAssumption DEF Positions, Admitted
<1>8. Positions' BY <1>0, <1>1, <1>5, <1>6, <1>7, OthersPlaced
<1>9. p \in Inside /\ p \notin Left /\ p \in Inside' /\ p \notin Left'
      BY <1>3, <1>5 DEF Inside, Left, Admitted, InHandler
<1>10. Inside' \ {p} = Inside \ {p} /\ Left' \ {p} = Left \ {p} BY <1>6, OthersCounted
<1>11. Inside' = Inside /\ Left' = Left BY <1>9, <1>10
<1>12. Counters' BY <1>0, <1>3, <1>11 DEF Counters, metrics
<1> QED BY <1>1, <1>4, <1>8, <1>12 DEF AdmissionInv

\* Taking a token keeps the invariant.
LEMMA AllowInv ==
  ASSUME AdmissionInv, NEW p \in Procs, Allow(p)
  PROVE  AdmissionInv'
<1>0. TypeOK /\ Positions /\ Limiters /\ Spending /\ Counters BY DEF AdmissionInv
<1>1. Spending' BY <1>0, AllowSpending
<1>2. call[p].key \in AllKeys BY <1>0, CallType DEF Allow, Positions
<1>3. /\ Limiters' /\ buckets' \in Seq([tokens : Nat, last : Nat])
      /\ Len(buckets') = Len(buckets)
      BY <1>0, <1>2, DueAfterAllow
<1>4. Len(Chain) = 2 /\ Len(Chain') = 2 BY ChainOrder DEF Chain
<1> HIDE DEF Chain
<1>5. /\ pc[p] = "limit" /\ pc' = [pc EXCEPT ![p] = "lookup"]
      /\ grants' = [grants EXCEPT ![call[p].key] = @ + 1]
      /\ UNCHANGED <<now, limiters, before, metrics, pos, call, held>>
      BY DEF Allow
<1>6. TypeOK'
  <2>1. grants' \in [AllKeys -> Nat] BY <1>0, <1>2, <1>5 DEF TypeOK
  <2> QED BY <1>0, <1>3, <1>4, <1>5, <2>1 DEF TypeOK, metrics
<1>7. pc'[p] = "lookup" /\ call' = call BY <1>0, <1>5 DEF TypeOK
<1>8. \A q \in Procs : q # p => /\ pc'[q] = pc[q] /\ pos'[q] = pos[q]
                                /\ call'[q] = call[q] /\ held'[q] = held[q]
      BY <1>0, <1>5 DEF TypeOK
<1>9. checkClientVersion(call[p].header) /\ call[p].key # None
      BY <1>0, <1>5 DEF Positions, Admitted
<1>10. Positions'
  <2>1. \A k \in AllKeys : limiters[k] # 0 => limiters'[k] = limiters[k] BY <1>5
  <2> QED BY <1>0, <1>7, <1>8, <1>9, <2>1, OthersPlaced
<1>11. p \in Inside /\ p \notin Left /\ p \in Inside' /\ p \notin Left'
       BY <1>5, <1>7 DEF Inside, Left, Admitted
<1>12. Inside' \ {p} = Inside \ {p} /\ Left' \ {p} = Left \ {p} BY <1>8, OthersCounted
<1>13. Inside' = Inside /\ Left' = Left BY <1>11, <1>12
<1>14. Counters' BY <1>0, <1>5, <1>13 DEF Counters, metrics
<1> QED BY <1>1, <1>3, <1>6, <1>10, <1>14 DEF AdmissionInv

\* So does the clock.
LEMMA TickInv ==
  ASSUME AdmissionInv, Tick
  PROVE  AdmissionInv'
<1>0. TypeOK /\ Positions /\ Limiters /\ Spending /\ Counters BY DEF AdmissionInv
<1>1. Spending' BY <1>0, TickSpending
<1>2. /\ now \in Nat /\ now' = now + 1 /\ now' \in Times
      /\ before' = [k \in AllKeys |-> [before[k] EXCEPT ![now + 1] = grants[k]]]
      /\ UNCHANGED <<limiters, buckets, grants, metrics, pc, pos, call, held>>
      BY <1>0, AdmissionAssumption DEF Tick, TypeOK, Times
<1>3. TypeOK'
  <2>1. before' \in [AllKeys -> [Times -> Nat]] BY <1>0, <1>2 DEF TypeOK
  <2>2. Chain' = Chain BY DEF Chain
  <2> HIDE DEF Chain
  <2> QED BY <1>0, <1>2, <2>1, <2>2 DEF TypeOK, metrics
<1>4. Limiters'
  <2>1. \A l \in 1..Len(buckets) : buckets[l].last \in Nat /\ buckets[l].last <= now
        BY <1>0, BucketType DEF Limiters
  <2> QED BY <1>0, <1>2, <2>1 DEF Limiters
<1>5. Positions' /\ Counters'
  <2>1. Chain' = Chain BY DEF Chain
  <2> HIDE DEF Chain
  <2> QED BY <1>0, <1>2, <2>1 DEF Positions, Counters, Inside, Left, Admitted, InHandler, metrics
<1> QED BY <1>1, <1>3, <1>4, <1>5 DEF AdmissionInv

\* AdmissionInv holds initially.
LEMMA AdmissionInit == ASSUME Init PROVE AdmissionInv
<1>1. TypeOK
  <2>1. Len(Chain) = 2 BY ChainOrder
  <2>2. Len(buckets) = 1 /\ buckets \in Seq([tokens : Nat, last : Nat])
        BY AdmissionAssumption DEF Init
  <2> HIDE DEF Chain
  <2> QED BY <2>1, <2>2, AdmissionAssumption DEF Init, TypeOK, Times, NoCall
<1>2. Positions BY DEF Init, Positions, Admitted, InHandler
<1>3. Limiters BY DEF Init, Limiters
<1>4. Spending
  <2> SUFFICES ASSUME NEW k \in AllKeys
               PROVE  /\ \A t \in 0..now : grants[k] - before[k][t] + Due(k)
                                            <= Burst(k) + Rate(k) * (now - t)
                      /\ \E t \in 0..now : grants[k] - before[k][t] + Due(k)
                                            >= Burst(k) + Rate(k) * (now - t)
      BY DEF Spending
  <2>1. Burst(k) \in Nat /\ Rate(k) \in Nat BY Parameters
  <2>2. Rate(k) * (0 - 0) = 0 BY <2>1
  <2>3. Due(k) = Burst(k)
    <3>1. CASE k # Registration BY <3>1 DEF Init, Due
    <3>2. CASE k = Registration
      <4>1. /\ limiters[k] = 1 /\ buckets[1].tokens = RegistrationBurst
            /\ buckets[1].last = 0 /\ now = 0 /\ Burst(k) = RegistrationBurst
            BY <3>2 DEF Init, Burst
      <4> QED BY <2>1, <2>2, <4>1 DEF Due, Tokens
    <3> QED BY <3>1, <3>2
  <2>4. now = 0 /\ grants[k] = 0 /\ before[k][0] = 0 /\ 0 \in Times
        BY AdmissionAssumption DEF Init, Times
  <2>5. \A t \in 0..0 : t = 0 OBVIOUS
  <2>6. grants[k] - before[k][0] + Due(k) = Burst(k) + Rate(k) * (0 - 0)
        BY <2>1, <2>2, <2>3, <2>4
  <2>7. grants[k] - before[k][0] + Due(k) \in Nat BY <2>1, <2>3, <2>4
  <2> QED BY <2>4, <2>5, <2>6, <2>7
<1>5. Counters
  <2>1. Inside = {} /\ Left = {} BY DEF Init, Inside, Left, Admitted, InHandler
  <2> QED BY <2>1, FS_EmptySet DEF Init, Counters
<1> QED BY <1>1, <1>2, <1>3, <1>4, <1>5 DEF AdmissionInv

-----------------------------------------------------------------------------
(* The theorems.                                                            *)

\* Every step keeps it.
LEMMA AdmissionNext == ASSUME AdmissionInv, [Next]_vars PROVE AdmissionInv'
<1>1. CASE UNCHANGED vars
  <2>0. TypeOK /\ Positions /\ Limiters /\ Spending /\ Counters BY DEF AdmissionInv
  <2>1. Limiters' /\ Spending' BY <1>1, <2>0, LimitsKept DEF vars, limits
  <2>2. Chain' = Chain BY DEF Chain
  <2> HIDE DEF Chain
  <2>3. TypeOK' BY <1>1, <2>0, <2>2 DEF vars, TypeOK
  <2>4. Positions' /\ Counters'
        BY <1>1, <2>0, <2>2 DEF vars, Positions, Counters, Inside, Left, Admitted, InHandler
  <2> QED BY <2>1, <2>3, <2>4 DEF AdmissionInv
<1>2. CASE Tick BY <1>2, TickInv
<1>3. ASSUME NEW p \in Procs, Step(p) PROVE AdmissionInv'
      BY <1>3, MovesInv, CountedInv, StoreInv, AllowInv DEF Step
<1> QED BY <1>1, <1>2, <1>3 DEF Next

\* AdmissionInv, which ties what is due to each key to its limiter and the counters
\* to the calls on the server, always holds.
THEOREM AdmissionInvariant == Spec => []AdmissionInv
BY AdmissionInit, AdmissionNext, PTL DEF Spec

\* No key gets more through the limiter, in any window, than a burst and its rate.
THEOREM GrantsAreBounded == Spec => []GrantsBounded
<1>1. ASSUME AdmissionInv PROVE GrantsBounded
  <2> SUFFICES ASSUME NEW k \in AllKeys, NEW t \in 0..now
               PROVE  grants[k] - before[k][t] <= Burst(k) + Rate(k) * (now - t)
      BY DEF GrantsBounded
  <2>1. TypeOK /\ Limiters /\ Spending BY <1>1 DEF AdmissionInv
  <2>2. Due(k) \in Nat BY <2>1, DueType
  <2>3. grants[k] - before[k][t] + Due(k) <= Burst(k) + Rate(k) * (now - t)
        BY <2>1 DEF Spending
  <2>4. now \in Nat /\ t \in Times BY <2>1, AdmissionAssumption DEF TypeOK, Times
  <2>5. grants[k] \in Nat /\ before[k][t] \in Nat BY <2>1, <2>4 DEF TypeOK
  <2>6. Burst(k) \in Nat /\ Rate(k) * (now - t) \in Nat
    <3>1. now - t \in Nat BY <2>4
    <3> QED BY <3>1, Parameters, OneMoreTick
  <2> QED BY <2>2, <2>3, <2>5, <2>6
<1> QED BY <1>1, AdmissionInvariant, PTL

\* No key is refused before it has spent what is due to it.
THEOREM RefusalsAreDue == Spec => RefusedOnlyWhenSpent
<1>1. ASSUME AdmissionInv, NEW p \in Procs, Refuse(p), NEW k, k = call[p].key
      PROVE  \E t \in 0..now : grants[k] - before[k][t] >= Burst(k) + Rate(k) * (now - t)
  <2>1. TypeOK /\ Positions /\ Limiters /\ Spending BY <1>1 DEF AdmissionInv
  <2>2. k \in AllKeys /\ held[p] = limiters[k] /\ limiters[k] # 0
        BY <1>1, <2>1, CallType DEF Refuse, Positions
  <2>3. Due(k) = 0 BY <1>1, <2>2 DEF Refuse, Due, LimiterKey
  <2>4. PICK t \in 0..now : grants[k] - before[k][t] + Due(k) >= Burst(k) + Rate(k) * (now - t)
        BY <2>1, <2>2 DEF Spending
  <2>5. now \in Nat /\ t \in Times BY <2>1, AdmissionAssumption DEF TypeOK, Times
  <2>6. grants[k] \in Nat /\ before[k][t] \in Nat BY <2>1, <2>2, <2>5 DEF TypeOK
  <2> QED BY <2>3, <2>4, <2>6
<1>2. AdmissionInv /\ [Next]_vars
        => [\A p \in Procs : Refuse(p) =>
              LET k == call[p].key
              IN  \E t \in 0..now : grants[k] - before[k][t] >= Burst(k) + Rate(k) * (now - t)]_vars
      BY <1>1
<1> QED BY <1>2, AdmissionInvariant, PTL DEF Spec, RefusedOnlyWhenSpent

\* The metrics count every call, the rejected ones included.
THEOREM CallsAlwaysCounted == Spec => []CallsAreCounted
<1>1. ASSUME AdmissionInv PROVE CallsAreCounted
  <2>1. TypeOK /\ Counters BY <1>1 DEF AdmissionInv
  <2>2. started \in Nat /\ handled \in Nat /\ answered \in Nat BY <2>1 DEF TypeOK
  <2>3. /\ IsFiniteSet(Inside)
        /\ Cardinality(Inside) \in Nat /\ Cardinality(Left) \in Nat BY SetsFinite
  <2> DEFINE A == {p \in Procs : Admitted(p)}
  <2>4. A \subseteq Inside BY DEF Inside
  <2>5. Inside \subseteq Active BY DEF Inside, Active, Admitted, InHandler
  <2>6. IsFiniteSet(Active) BY AdmissionAssumption, FS_Subset DEF Active
  <2>7. Cardinality(A) <= Cardinality(Inside) /\ Cardinality(A) \in Nat
        BY <2>3, <2>4, FS_Subset, FS_CardinalityType
  <2>8. Cardinality(Inside) <= Cardinality(Active) /\ Cardinality(Active) \in Nat
        BY <2>5, <2>6, FS_Subset, FS_CardinalityType
  <2>9. started - handled = Cardinality(Inside) /\ answered <= handled
        BY <2>1, <2>2, <2>3 DEF Counters
  <2> QED BY <2>7, <2>8, <2>9 DEF CallsAreCounted
<1> QED BY <1>1, AdmissionInvariant, PTL

\* The version gate and the test for load shedding respect the order of releases.
THEOREM GateRespectsOrder == Spec => []GateKeepsOrder
<1>1. ASSUME AdmissionInv PROVE GateKeepsOrder
  <2> SUFFICES ASSUME NEW p \in Procs, NEW q \in Procs, Admitted(p)
               PROVE  /\ Rejected(q) => Older(VersionOf(q), VersionOf(p))
                      /\ Admitted(q) /\ clientIsShedSafe(call[p].header)
                           /\ ~clientIsShedSafe(call[q].header)
                           => Older(VersionOf(q), VersionOf(p))
      BY DEF GateKeepsOrder
  <2>1. TypeOK /\ Positions BY <1>1 DEF AdmissionInv
  <2>2. call[p].header \in Seq(Int) /\ call[q].header \in Seq(Int) BY <2>1, CallType
  <2>3. /\ ~Malformed(call[p].header)
        /\ ~versionLess(VersionOf(p), MinClientVersion)
        BY <2>1 DEF Positions, checkClientVersion, VersionOf
  <2>4. VersionOf(p) \in Versions BY <2>2, <2>3, ExtractType DEF VersionOf
  <2>5. ~Malformed(call[q].header) => VersionOf(q) \in Versions
        BY <2>2, ExtractType DEF VersionOf
  <2>6. ASSUME Rejected(q) PROVE Older(VersionOf(q), VersionOf(p))
    <3>1. ~Malformed(call[q].header) /\ versionLess(VersionOf(q), MinClientVersion)
          BY <2>6 DEF Rejected, checkClientVersion, VersionOf
    <3> QED BY <2>3, <2>4, <2>5, <3>1, FloorSeparates, VersionAssumption
  <2>7. ASSUME Admitted(q), clientIsShedSafe(call[p].header), ~clientIsShedSafe(call[q].header)
        PROVE  Older(VersionOf(q), VersionOf(p))
    <3>1. ~Malformed(call[q].header)
          BY <2>1, <2>7 DEF Positions, checkClientVersion
    <3>2. /\ versionLess(VersionOf(q), minShedClientVersion)
          /\ ~versionLess(VersionOf(p), minShedClientVersion)
          BY <2>7, <3>1 DEF clientIsShedSafe, VersionOf
    <3> QED BY <2>4, <2>5, <3>1, <3>2, FloorSeparates, VersionAssumption
  <2> QED BY <2>6, <2>7
<1> QED BY <1>1, AdmissionInvariant, PTL
=============================================================================
