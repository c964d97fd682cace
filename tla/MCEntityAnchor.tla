--------------------------- MODULE MCEntityAnchor ---------------------------
(* Instances of EntityAnchor for TLC.                                      *)
EXTENDS EntityAnchor, TLC

\* The one request is the first identity's.
MCSubject == [q \in Requests |-> CHOOSE i \in Identities : TRUE]

\* All JTIs have one safe key, each link ID its own.
MCSafeRecordKey ==
    [x \in LinkIDs \cup JTIs |-> IF x = Genesis THEN "g" ELSE "a"]

\* Calls are interchangeable, and so are JTIs.
Symmetry == Permutations(Calls) \cup Permutations(JTIs)
=============================================================================
