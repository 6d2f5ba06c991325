---------------------------- MODULE MCDetection ----------------------------
(* Small instances of Detection for TLC.                                   *)
EXTENDS Detection

MCPipe ==
    [whitelisted_ips |-> {"friend"}, banned_ips |-> {"foe"}, blocked_asns |-> {"blocked"},
     restricted_asns |-> {"restricted"}, allowed_regions |-> {"home"},
     blocked_categories |-> {"security_testing", "generic_tools", "empty"}]

Plain ==
    [ip |-> "client", asn |-> "none", country |-> "home", exploit |-> FALSE,
     agent |-> <<"other">>, method |-> "GET", status |-> 404, referer |-> FALSE,
     uri |-> [allowed |-> FALSE, malicious |-> FALSE, path |-> {}]]

\* Every path of two marks, with every method and status.
PathCases ==
    {[Plain EXCEPT !.method = m, !.status = s, !.uri.path = path] :
        m \in Methods, s \in Statuses, path \in Paths}

Agents == {<<>>, <<"other">>, <<"search">>, <<"generic_tools">>, <<"search", "security_testing">>,
           <<"other", "security_testing">>, <<"generic_tools", "search">>}

\* Every mix of what comes before the path.
ContentCases ==
    {[Plain EXCEPT !.exploit = x, !.agent = a, !.method = m, !.status = s, !.referer = f,
                   !.uri = [allowed |-> u, malicious |-> n, path |-> path]] :
        x, f, u, n \in BOOLEAN, a \in Agents, m \in {"GET", "POST", "TRACE"}, s \in {200, 404},
        path \in {{}, {".env"}, {"traversal"}, {"actuator"}}}

ClientCases ==
    {[Plain EXCEPT !.ip = ip, !.asn = asn, !.country = c, !.agent = a] :
        ip \in {"client", "friend", "foe", Private}, asn \in {"none", "blocked", "restricted"},
        c \in {"home", "abroad"}, a \in Agents}

MCRequestFamilies == {PathCases, ContentCases, ClientCases}
=============================================================================
