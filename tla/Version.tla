------------------------------ MODULE Version ------------------------------
(***************************************************************************)
(* Client versions (connect/hub/version.go) and what the hub decides by    *)
(* them.  The version header is the sequence of its components, with the   *)
(* pre-release suffix cut off; a component that is no number, or too large *)
(* for an int, is -1; a call without the header has the empty sequence,    *)
(* which strings.Split never returns.                                      *)
(***************************************************************************)
EXTENDS Integers, Sequences

CONSTANTS
  MinClientVersion,     \* the floor
  minShedClientVersion  \* the first release that copes with load shedding

Versions == [1..3 -> Nat]

ASSUME VersionAssumption ==
  MinClientVersion \in Versions /\ minShedClientVersion \in Versions

\* Mutant: some component is smaller, wherever it stands.
versionLessSomewhere(a, b) == \E i \in 1..3 : a[i] < b[i]

\* The first component that differs decides.
versionLess(a, b) ==
  \E i \in 1..3 : a[i] < b[i] /\ \A j \in 1..(i - 1) : a[j] = b[j]

parses(parts) == Len(parts) = 3 /\ \A i \in 1..3 : parts[i] >= 0

\* extractClientVersion returns an error ...
Malformed(header) == header # <<>> /\ ~parses(header)

\* ... or a version; without a header it is an old client.
extractClientVersion(header) ==
  IF header = <<>> THEN [i \in 1..3 |-> 0] ELSE [i \in 1..3 |-> header[i]]

\* The call may go on to its handler.
checkClientVersion(header) ==
  ~Malformed(header) /\ ~versionLess(extractClientVersion(header), MinClientVersion)

clientIsShedSafe(header) ==
  ~Malformed(header) /\ ~versionLess(extractClientVersion(header), minShedClientVersion)
=============================================================================
