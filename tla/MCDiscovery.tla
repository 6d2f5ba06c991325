---------------------------- MODULE MCDiscovery ----------------------------
(* Small instances of Discovery for TLC.                                   *)
EXTENDS Discovery, TLC

MCStatusOf == ("200" :> 200) @@ ("404" :> 404)

JsonBody ==
    [json |-> [ip |-> "remote_addr", http_x_forwarded_for |-> "http_x_forwarded_for",
               request |-> "request", status |-> "status", ua |-> "http_user_agent"]]

\* The formats that sites define as "main": the one of nginx's own file, one for
\* Cloudflare, one with the parts of the request, one with adjacent variables,
\* one of the same variables in another order, one with braces, and JSON.
MainBodies ==
    {[segments |-> line] : line \in {
     Front(Combined) \o <<Lit(QuoteThenQuote), Var("http_x_forwarded_for"), Lit(<<"\"">>)>>,
     CloudflareProxy,
     <<Var("remote_addr"), Lit(<<" ", "-", " ">>), Var("remote_user"), Lit(<<" ", "[">>), Var("time_local"),
       Lit(<<"]", " ">>), Var("request_method"), Lit(Space), Var("request_uri"), Lit(Space), Var("status"),
       Lit(Space), Var("body_bytes_sent"), Lit(<<" ", "\"">>), Var("http_user_agent"), Lit(<<"\"">>)>>,
     <<Var("host"), Lit(<<" ", "\"">>), Var("http_x_forwarded_for"), Lit(<<"\"", " ">>), Var("status"),
       Var("request_time"), Lit(<<" ", "\"">>), Var("request"), Lit(<<"\"">>)>>,
     <<Var("server_name"), Lit(Space)>> \o Combined,
     <<Var("remote_addr"), Lit(<<" ", "{">>), Var("status"), Lit(<<"}">>)>>}}
    \cup {JsonBody}

Format(body) == [kind |-> "log_format", name |-> "main", body |-> body]
Include(files) == [kind |-> "include", files |-> files]
Access(path, format) == [kind |-> "access_log", path |-> path, format |-> format]
Error(path) == [kind |-> "error_log", path |-> path]

\* nginx.conf, a site, a link to it in another directory, and a file that both
\* include; the format is declared before or after its use.
Files(body) ==
    [root : {<<Format(body), Include(<<"site", "link">>), Access("a", "main")>>,
             <<Access("a", "main"), Error("e"), Include(<<"common", "site">>)>>,
             <<Access("b", "combined"), Access("off", "combined"), Include(<<"link">>)>>},
     site : {<<Access("a", "other"), Access("b", "main"), Include(<<"root", "common">>)>>,
             <<Include(<<"common", "link">>), Error("e"), Access("b", "unknown")>>, Unreadable},
     common : {<<Access("b", "main"), Include(<<"site">>)>>, <<Error("b")>>, <<Format(body)>>}]

\* A configuration that nginx accepts: formats that are used are defined once.
Formats(files) ==
    {<<p, i>> \in {"root", "site", "common"} \X (1 .. 3) :
        i \in DOMAIN files[p] /\ files[p][i].kind = "log_format"}

Links == [root |-> "root", site |-> "site", link |-> "site", common |-> "common"]

OnDisk(path, name, first, bodies) == [path |-> path, name |-> name, first |-> first, bodies |-> bodies]

\* A declared log, and others: of JSON, of errors, compressed, and one that nobody writes to.
Disks ==
    {<<>>,
     <<OnDisk("a", "log", "plain", {}), OnDisk("c", "log", "json", {JsonBody}),
       OnDisk("d", "log", "error", {}), OnDisk("e", "error log", "error", {}),
       OnDisk("z", "compressed", "plain", {}), OnDisk("f", "log", "plain", {})>>}

MCHosts ==
    {[files |-> [p \in DOMAIN Links |-> f[Links[p]]], links |-> Links, disk |-> disk,
      process |-> c[1], unit |-> c[2], usual |-> c[3]] :
        f \in UNION {{g \in Files(body) : Cardinality(Formats(g)) <= 1} : body \in MainBodies},
        disk \in Disks,
        c \in {<<"root", "site", <<"common">>>>, <<NoConf, "root", <<"common">>>>,
               <<NoConf, NoConf, <<"gone", "root">>>>, <<"gone", "root", <<"root">>>>}}

\* A user name and a user agent that hold what literals hold, but for quotes, which
\* nginx escapes, and for the bracket and space that end the time: a format that
\* quotes nothing after it cannot tell them apart.
MCValues ==
    {[remote_addr |-> a, remote_user |-> u, time_local |-> <<"now">>, request |-> r,
      status |-> s, body_bytes_sent |-> <<"1">>, http_referer |-> <<"-">>, http_user_agent |-> ua,
      http_cf_connecting_ip |-> cf, http_x_forwarded_for |-> x, host |-> <<"host">>,
      request_method |-> <<"PUT">>, request_uri |-> <<"/x">>, request_time |-> <<" ", "2">>,
      server_name |-> <<"server">>] :
        a \in {<<"peer">>}, u \in {<<"-">>, <<"u", " ", "[">>},
        r \in {<<"GET", " ", "/p", " ", "HTTP">>, <<"-">>}, s \in {<<"404">>, <<"garbled">>},
        ua \in {<<"agent", " ", "-", " ", "[">>}, cf \in {<<"-">>, <<"client", ",", " ", "peer">>},
        x \in {<<"-">>, <<"inner", ",", " ", "client">>}}

\* A format that is classified by its names has the variables in the known order.
InOrder(kind, body) ==
    kind.kind \in {"json", "custom"} \/ IsPrefix(Front(Compile(kind)), body.segments)

\* But for the format with the variables in another order, every line is legible.
ASSUME LinesAreLegible ==
    \A body \in MainBodies \cup {[segments |-> Combined]}, v \in MCValues :
        InOrder(Classify(body), body) => Legible(Classify(body), body, v)
=============================================================================
