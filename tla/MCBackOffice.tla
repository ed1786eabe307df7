---------------------------- MODULE MCBackOffice ----------------------------
(***************************************************************************)
(* A small shop: one zone with one rate of the store and one of the        *)
(* affiliate, a second zone the store may create, one pickup point.        *)
(***************************************************************************)
EXTENDS BackOffice, TLC

CONSTANTS z1, z2, za, p1, r1, k1, blue, oficial, plain

mcPrograms == {[enabled |-> TRUE, pointValue |-> 2, spendPerPoint |-> 5,
                pointsPerStep |-> 1, minimum |-> 1, percent |-> 50],
               [enabled |-> TRUE, pointValue |-> 3, spendPerPoint |-> 5,
                pointsPerStep |-> 1, minimum |-> 1, percent |-> 100]}

mcInitialValues ==
    [loyalty |-> CHOOSE p \in mcPrograms : p.percent = 50,
     exchange |-> blue,
     transfer |-> [enabled |-> TRUE, complete |-> TRUE],
     newsSettings |-> plain, news |-> plain,
     supplier |-> [text |-> plain, active |-> TRUE],
     settings |-> 1000,
     affiliate |-> [text |-> plain, active |-> TRUE, override |-> NoOverride]]

Zone(owner, price) ==
    [active |-> TRUE, owner |-> owner, provinces |-> {p1},
     rates |-> [r \in {r1} |-> [price |-> price, active |-> TRUE]]]

mcInitialZones == [z \in Zones |-> CASE z = z1 -> Zone("STORE", 1)
                                    [] z = za -> Zone("AFFILIATE", 2)
                                    [] OTHER -> NoZone]
mcInitialPickups == [k \in Points |-> [active |-> TRUE, owner |-> "STORE"]]

AdminSymmetry == Permutations(Admins)
=============================================================================
