------------------------------ MODULE MCFleet ------------------------------
(* Small instances of Fleet for TLC.                                         *)
EXTENDS FleetClaims, TLC

CONSTANTS a1, a2, db, k1, k2, d1, d2, d3, s1, s2, p1

OneApp      == {a1}
TwoApps     == {a1, a2}
AppAndDb    == {a1, db}
OneProject  == [c \in Containers |-> p1]
CreatedAt   == [c \in Containers |-> IF c = a2 THEN 2 ELSE 1]
NeverBuilt  == {"None", "Failed"}
OnlyBuilt   == {"Built"}
AnyResult   == {"None", "Built", "Failed"}

ClientsAndIds == Permutations(Clients) \union Permutations(Ids)
=============================================================================
