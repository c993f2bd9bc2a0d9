--------------------------- MODULE RegistryProofs ---------------------------
(***************************************************************************)
(* Proofs about Registry, for any groups, tokens and node numbers: what    *)
(* the sessions rely on when they authenticate a call once and serve it    *)
(* for a long time.                                                        *)
(***************************************************************************)
EXTENDS Registry, TLAPS

\* A step of the registry keeps types and Credentials, and takes no credential
\* away: numbers are not given out twice.
LEMMA RegistryStep ==
  ASSUME RegistryTypeOK, Credentials, RegistryNext
  PROVE  /\ RegistryTypeOK' /\ Credentials'
         /\ \A g \in Groups, n \in NodeNumbers :
              issued[g][n] # None => issued'[g][n] = issued[g][n]
<1> USE RegistryAssumption DEF RegistryTypeOK, Credentials
<1>1. ASSUME NEW g \in Groups, CreateGroup(g) \/ DeleteGroup(g)
      PROVE  /\ RegistryTypeOK' /\ Credentials' /\ issued' = issued
      BY <1>1 DEF CreateGroup, DeleteGroup
<1>2. ASSUME NEW t \in Tokens, NEW g \in Groups, MintToken(t, g)
      PROVE  /\ RegistryTypeOK' /\ Credentials' /\ issued' = issued
      BY <1>2 DEF MintToken
<1>3. ASSUME NEW g \in Groups, NEW S \in SUBSET NodeNumbers, Remove(g, S)
      PROVE  /\ RegistryTypeOK' /\ Credentials' /\ issued' = issued
      BY <1>3 DEF Remove
<1>4. ASSUME NEW t \in Tokens, NEW n \in NodeNumbers, Register(t, n)
      PROVE  /\ RegistryTypeOK' /\ Credentials'
             /\ \A h \in Groups, m \in NodeNumbers :
                  issued[h][m] # None => issued'[h][m] = issued[h][m]
  <2> DEFINE g == owner[t]
  <2>1. /\ g \in Groups /\ nodes[g][n] = "none" /\ issued[g][n] = None
        /\ nodes' = [nodes EXCEPT ![g][n] = "live"]
        /\ issued' = [issued EXCEPT ![g][n] = t]
        /\ UNCHANGED <<group, owner>>
        /\ \A h \in Groups, m \in NodeNumbers : issued[h][m] # t
        BY <1>4 DEF Register, Spent
  <2>2. RegistryTypeOK' BY <2>1
  <2>3. \A h \in Groups, m \in NodeNumbers :
          /\ h = g /\ m = n => issued'[h][m] = t /\ nodes'[h][m] = "live"
          /\ h # g \/ m # n => issued'[h][m] = issued[h][m] /\ nodes'[h][m] = nodes[h][m]
        BY <2>1
  <2> QED BY <2>1, <2>2, <2>3
<1> QED BY <1>1, <1>2, <1>3, <1>4 DEF RegistryNext

\* A node is there if and only if it was given a credential, and no credential is
\* given to two nodes, or to a node of a group other than its token's.
THEOREM CredentialsAreUnique == RegistrySpec => [](RegistryTypeOK /\ Credentials)
<1>1. RegistryInit => RegistryTypeOK /\ Credentials
      BY DEF RegistryInit, RegistryTypeOK, Credentials
<1>2. RegistryTypeOK /\ Credentials /\ UNCHANGED registry => (RegistryTypeOK /\ Credentials)'
      BY DEF RegistryTypeOK, Credentials, registry
<1> QED BY <1>1, <1>2, RegistryStep, PTL DEF RegistrySpec

\* Who a number was given to is settled for good: deleting the node, resetting or
\* deleting its group does not free the number for another credential.
CredentialsStay ==
  [][\A g \in Groups, n \in NodeNumbers :
       issued[g][n] # None => issued'[g][n] = issued[g][n]]_registry

\* A number once registered stays that registration's.
THEOREM CredentialsAreKept == RegistrySpec => CredentialsStay
<1>1. RegistryTypeOK /\ Credentials /\ [RegistryNext]_registry
        => [\A g \in Groups, n \in NodeNumbers :
              issued[g][n] # None => issued'[g][n] = issued[g][n]]_registry
      BY RegistryStep
<1> QED BY <1>1, CredentialsAreUnique, PTL DEF RegistrySpec, CredentialsStay
=============================================================================
