---------------------------- MODULE MCLoadBalancer ----------------------------
(* LoadBalancer on small lists. *)
EXTENDS LoadBalancer

MCHome == [region |-> "r1", zone |-> "z1"]
Server(version, weight, region, zone) ==
    [version |-> version, weight |-> weight, region |-> region, zone |-> zone]

\* All in the zone of the process, with weights whose gcd is not 1.
SameZone == << Server("default", 2, "r1", "z1"), Server("gray", 6, "r1", "z1") >>
\* One in the zone, one in the region only, one elsewhere.
Spread == << Server("default", 1, "r2", "z1"), Server("default", 1, "r1", "z1"),
             Server("gray", 1, "r1", "z2") >>
\* None in the zone, two in the region.
RegionOnly == << Server("gray", 1, "r1", "z2"), Server("default", 1, "r1", "z3"),
                 Server("gray", 1, "r2", "z1") >>
MCLists == {SameZone, Spread, RegionOnly}
===============================================================================
