---------------------------- MODULE MCBootstrap ----------------------------
(* Values for ApiAccess: draws at the edges of base 62 at a fixed width, and *)
(* for each of them the header that carries it and those that nearly do.     *)
EXTENDS ApiAccess

MCKeys ==
  {[id |-> <<0>>, secret |-> <<0, 61>>],
   [id |-> <<62>>, secret |-> <<255, 255>>],
   [id |-> <<255>>, secret |-> <<0, 0>>]}

\* "standalone"
MCEnv == <<54, 55, 36, 49, 39, 36, 47, 50, 49, 40>>

Secret(k) == encodeBase62(k.secret, secretEncodedLen)

\* The key as it was generated, and with another environment.
Genuine(k) ==
  {<<"bearer", generated[k].Encoded>>,
   <<"bearer", Raw(<<39, 40, 57>>, generated[k].ID, Secret(k))>>}

\* Not the key: another key's secret, any one character changed, a character dropped
\* or added, more than the bytes can hold, no environment, another scheme, more parts.
Forged(k) ==
  LET encoded == generated[k].Encoded
      id == generated[k].ID
      secret == Secret(k)
      raws == {Raw(apiKeyEnv, id, Secret(j)) : j \in Keys \ {k}}
          \cup {Raw(apiKeyEnv, [id EXCEPT ![i] = c], secret)
                  : i \in 1..idEncodedLen, c \in Chars}
          \cup {Raw(apiKeyEnv, id, [secret EXCEPT ![i] = c])
                  : i \in 1..secretEncodedLen, c \in Chars}
          \cup {Raw(apiKeyEnv, id, [i \in 1..secretEncodedLen |-> Base - 1]),
                Raw(apiKeyEnv, id, <<0>> \o secret),
                Raw(apiKeyEnv, <<0>> \o id, secret),
                Raw(<<>>, id, secret)}
          \cup {RemoveAt(encoded, i)
                  : i \in {1} \cup Len(keyPrefix \o apiKeyEnv) + 1..Len(encoded)}
  IN  {<<"bearer", r>> : r \in raws \ {encoded}}
        \cup {<<"basic", encoded>>, <<encoded>>, <<"bearer", encoded, <<>>>>}

MCHeaders == UNION {Genuine(k) \cup Forged(k) : k \in Keys}

\* The samples are what they are meant to be.
ASSUME HeaderSamples ==
  \A k \in Keys : /\ \A h \in Genuine(k) : Carries(h, k)
                  /\ \A h \in Forged(k) : ~Carries(h, k)

Symmetry == Permutations(Hubs) \cup Permutations(Values)
=============================================================================
