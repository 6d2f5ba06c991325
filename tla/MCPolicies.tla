----------------------------- MODULE MCPolicies -----------------------------
(* Small instances of Policies for TLC.                                    *)
EXTENDS Policies

MCHosts == <<"near", "six">>
MCAsns == <<"as1", "as2">>
MCRegions == <<"home">>

\* Widths of 2 and 3 bits: "near" lies in the network, "six" does not.
MCAddressOf ==
    [near |-> [v6 |-> FALSE, bits |-> 2], six |-> [v6 |-> TRUE, bits |-> 5],
     net |-> [v6 |-> FALSE, bits |-> 2, prefix |-> 1]]

MCCategoryOf == [generic_tools |-> "generic_tools", tools |-> "generic_tools"]

MCLengthOf == [near |-> 7, six |-> 12, as1 |-> 5, as2 |-> 6, home |-> 2]

Plain ==
    [ip |-> "near", asn |-> "as1", country |-> "abroad", exploit |-> FALSE,
     agent |-> <<"other">>, method |-> "GET", status |-> 200, referer |-> FALSE,
     uri |-> [allowed |-> FALSE, malicious |-> FALSE, path |-> {}]]

\* A request that is bad in itself, and one that only a policy forbids.
MCRequests == {[Plain EXCEPT !.exploit = TRUE], [Plain EXCEPT !.ip = "six"]}

NoPolicy ==
    [whitelist |-> {}, categories |-> {}, blocked_asns |-> {}, restricted_asns |-> {},
     allowed_regions |-> {}, max_rule_chars |-> 56]

\* 119 holds the regional clause, both ASNs and the IPv4 address; 57 both ASNs and the
\* address, and is one character less than the regional clause; 56 is one less again.
MCConfigs ==
    {NoPolicy,
     [NoPolicy EXCEPT !.categories = {"tools"}, !.restricted_asns = {"as1"},
                      !.allowed_regions = {"home"}, !.max_rule_chars = 119],
     [NoPolicy EXCEPT !.whitelist = {"near", "net"}, !.blocked_asns = {"as1"},
                      !.restricted_asns = {"as1"}, !.max_rule_chars = 57]}

\* The administrator whitelists a network and nothing else.
MCNetwork == {[NoPolicy EXCEPT !.whitelist = {"net"}]}
=============================================================================
