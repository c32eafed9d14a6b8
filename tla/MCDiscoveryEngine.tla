--------------------------- MODULE MCDiscoveryEngine ---------------------------
(* Instances of DiscoveryEngine for TLC. *)
EXTENDS DiscoveryEngine, TLC

CONSTANTS mdns, ssdp, bogus, c1, c2, ip1, ip2

\* Both protocols in order, a list with a name nobody registered, and the empty
\* list the periodic job asks for.
MCRequests == {<<mdns, ssdp>>, <<bogus, ssdp>>, <<>>}

IpSymmetry == Permutations(Ips)
=============================================================================
