----------------------------- MODULE LogFormats -----------------------------
(***************************************************************************)
(* The lines of nginx's access log: how nginx writes them, which of the    *)
(* known formats a log_format is taken for (src/src/discovery/nginx.rs),   *)
(* and how a line is read (src/src/parser/nginx.rs).                       *)
(*                                                                         *)
(* A text is a sequence of words, where a space, a quote, a bracket, a     *)
(* dash and a comma are words of their own; an address is one word.  A     *)
(* format is [segments |-> ...], each a variable of nginx or a literal     *)
(* text, or [json |-> ...], which maps keys to variables; a JSON line maps *)
(* keys to texts.                                                          *)
(***************************************************************************)
EXTENDS Integers, Sequences, FiniteSets, SequencesExt

CONSTANTS
    PublicIps, PrivateIps, \* the addresses that occur
    StatusOf               \* the numbers that words stand for

Addresses == PublicIps \cup PrivateIps

Var(name) == [var |-> name]
Lit(text) == [lit |-> text]
IsJson(body) == "json" \in DOMAIN body
IsVar(segment) == "var" \in DOMAIN segment

Space == <<" ">>
QuoteThenQuote == <<"\"", " ", "\"">>

\* What follows the address in the known formats.
AfterAddress ==
    <<Lit(<<" ", "-", " ">>), Var("remote_user"), Lit(<<" ", "[">>), Var("time_local"),
      Lit(<<"]", " ", "\"">>), Var("request"), Lit(<<"\"", " ">>), Var("status"), Lit(Space),
      Var("body_bytes_sent"), Lit(<<" ", "\"">>), Var("http_referer"), Lit(QuoteThenQuote),
      Var("http_user_agent"), Lit(<<"\"">>)>>

Combined == <<Var("remote_addr")>> \o AfterAddress
CloudflareProxy == <<Var("http_cf_connecting_ip")>> \o AfterAddress

-----------------------------------------------------------------------------
(* Which format it is.                                                     *)

\* str::contains looks for the name of a variable anywhere in a longer one.
Mentions(body, name) ==
    LET longer == IF name = "request" THEN {"request", "request_method", "request_uri", "request_time"}
                  ELSE {name}
    IN \E s \in ToSet(body.segments) : IsVar(s) /\ s.var \in longer

Of(body, names) == \A n \in names : Mentions(body, n)

\* classify_format_body: by the names alone, not by their order.
Classify(body) ==
    IF IsJson(body) THEN [kind |-> "json"]
    ELSE IF Mentions(body, "host") \/ Mentions(body, "request_method") \/ Mentions(body, "request_uri")
    THEN [kind |-> "custom", body |-> body]
    ELSE IF Of(body, {"http_cf_connecting_ip", "remote_user", "request", "status"})
    THEN [kind |-> "cloudflare"]
    ELSE IF Of(body, {"remote_addr", "remote_user", "request", "status", "body_bytes_sent"})
    THEN [kind |-> "combined"]
    ELSE [kind |-> "custom", body |-> body]

\* to_compiled
Compile(kind) ==
    CASE kind.kind = "combined" -> Combined
      [] kind.kind = "cloudflare" -> CloudflareProxy
      [] kind.kind = "custom" -> kind.body.segments

-----------------------------------------------------------------------------
(* Writing and reading a line.                                             *)

\* What nginx writes: a quote within a value is escaped.
Written(body, values) ==
    IF IsJson(body) THEN [key \in DOMAIN body.json |-> values[body.json[key]]]
    ELSE LET s == body.segments
         IN FlattenSeq([i \in DOMAIN s |-> IF IsVar(s[i]) THEN values[s[i].var] ELSE s[i].lit])

Trim(text) ==
    LET words == {i \in DOMAIN text : text[i] # " "}
    IN IF words = {} THEN <<>> ELSE SubSeq(text, Min(words), Max(words))

Rest(line, from) == SubSeq(line, from, Len(line))

StartsWith(line, from, lit) ==
    from + Len(lit) - 1 <= Len(line) /\ SubSeq(line, from, from + Len(lit) - 1) = lit

Places(line, from, lit) == {p \in from .. Len(line) : StartsWith(line, p, lit)}

\* Mutant of AtLiteral: the last place where the literal occurs.
AtLastLiteral(line, read, lit) ==
    LET places == Places(line, read.at, lit) IN
    IF read.var = "none"
    THEN IF StartsWith(line, read.at, lit)
         THEN {[read EXCEPT !.at = @ + Len(lit)]} ELSE {}
    ELSE {[at |-> Max(places) + Len(lit), var |-> "none",
           fields |-> [read.fields EXCEPT ![read.var] = SubSeq(line, read.at, Max(places) - 1)]] :
            p \in places}

\* A literal ends the variable before it at its first occurrence, and must be
\* there.  The readings that are left: one, or none when the line does not fit.
AtLiteral(line, read, lit) ==
    LET places == Places(line, read.at, lit) IN
    IF read.var = "none"
    THEN IF StartsWith(line, read.at, lit)
         THEN {[read EXCEPT !.at = @ + Len(lit)]} ELSE {}
    ELSE {[at |-> Min(places) + Len(lit), var |-> "none",
           fields |-> [read.fields EXCEPT ![read.var] = SubSeq(line, read.at, Min(places) - 1)]] :
            p \in places}

\* A variable right behind another one ends it at the next space.
AtVariable(line, read, name) ==
    IF read.var = "none" THEN {[read EXCEPT !.var = name]}
    ELSE LET end == Min(Places(line, read.at, Space) \cup {Len(line) + 1})
         IN {[at |-> end, var |-> name,
              fields |-> [read.fields EXCEPT ![read.var] = SubSeq(line, read.at, end - 1)]]}

Names == {"remote_addr", "remote_user", "time_local", "request", "status", "body_bytes_sent",
          "http_referer", "http_user_agent", "http_cf_connecting_ip", "http_x_forwarded_for",
          "host", "request_method", "request_uri", "request_time", "server_name"}

\* A field the format does not have.
Missing == <<"missing">>

\* One segment of the format, for each of the readings.
AtSegment(readings, segment, line) ==
    UNION {IF IsVar(segment) THEN AtVariable(line, r, segment.var)
                             ELSE AtLiteral(line, r, segment.lit) : r \in readings}

\* The reading of a line before its first segment.
FirstReading == [at |-> 1, var |-> "none", fields |-> [n \in Names |-> Missing]]

\* The readings after the last segment.
Readings(segments, line) ==
    FoldLeft(LAMBDA readings, segment : AtSegment(readings, segment, line), {FirstReading}, segments)

\* The fields of a reading at the end of its line: what is left is the last variable.
AtEnd(r, line) == IF r.var = "none" THEN r.fields ELSE [r.fields EXCEPT ![r.var] = Rest(line, r.at)]

\* parse_delimited_line, up to the fields.
Fields(segments, line) == {AtEnd(r, line) : r \in Readings(segments, line)}

\* The first of the keys that a JSON line has.
FirstKey(line, keys) ==
    LET there == {i \in DOMAIN keys : keys[i] \in DOMAIN line}
    IN IF there = {} THEN Missing ELSE line[keys[Min(there)]]

\* The keys by which parse_json_log_line knows a field.
KeysOf(n) ==
    CASE n = "remote_addr" -> <<"client", "client_ip", "remote_addr", "ip">>
      [] n = "request_method" -> <<"method", "request_method">>
      [] n = "request_uri" -> <<"uri", "path", "request_uri">>
      [] n = "http_referer" -> <<"referer", "http_referer">>
      [] n = "http_user_agent" -> <<"ua", "user_agent", "http_user_agent">>
      [] n = "host" -> <<"host", "http_host">>
      [] OTHER -> <<n>>

\* parse_json_log_line, up to the fields.
JsonFields(line) == [n \in Names |-> FirstKey(line, KeysOf(n))]

\* The items of a text between commas, trimmed.
Items(text) ==
    LET commas == {0, Len(text) + 1} \cup {i \in DOMAIN text : text[i] = ","}
        Next(i) == Min({j \in commas : j > i})
    IN [k \in 1 .. Cardinality(commas) - 1 |->
            LET begin == CHOOSE i \in commas : Cardinality({j \in commas : j < i}) = k - 1
            IN Trim(SubSeq(text, begin + 1, Next(begin) - 1))]

\* The address a text stands for, if it is one.
AddressIn(text) == {a \in Addresses : text = <<a>>}

\* parse_xff_ip: the first public address, or else the peer's, or else the first.
ForwardedFor(text, peer) ==
    LET items == Items(text)
        Among(set) == {i \in DOMAIN items : \E a \in set : items[i] = <<a>>}
    IN IF Among(PublicIps) # {} THEN AddressIn(items[Min(Among(PublicIps))])
       ELSE IF AddressIn(Trim(peer)) # {} THEN AddressIn(Trim(peer))
       ELSE IF Among(PrivateIps) # {} THEN AddressIn(items[Min(Among(PrivateIps))])
       ELSE {}

\* resolve_client_ip: at most one address.
ClientIp(fields) ==
    LET cf == fields["http_cf_connecting_ip"]
        xff == fields["http_x_forwarded_for"]
    IN IF AddressIn(Items(cf)[1]) # {} THEN AddressIn(Items(cf)[1])
       ELSE IF xff # Missing THEN ForwardedFor(xff, fields["remote_addr"])
       ELSE AddressIn(Trim(fields["remote_addr"]))

Words(text) == SelectSeq(text, LAMBDA w : w # " ")

\* extract_request_parts
Method(fields) ==
    IF fields["request_method"] # Missing THEN Trim(fields["request_method"])
    ELSE IF fields["request"] # Missing /\ Words(fields["request"]) # <<>>
    THEN <<Words(fields["request"])[1]>>
    ELSE <<"GET">>

Path(fields) ==
    IF fields["request_uri"] # Missing THEN Trim(fields["request_uri"])
    ELSE IF fields["request"] # Missing /\ Len(Words(fields["request"])) >= 2
    THEN <<Words(fields["request"])[2]>>
    ELSE <<"/">>

\* A status that cannot be read counts as 200.
StatusIn(text) ==
    IF \E w \in DOMAIN StatusOf : Trim(text) = <<w>>
    THEN StatusOf[CHOOSE w \in DOMAIN StatusOf : Trim(text) = <<w>>] ELSE 200

TextOf(field) == IF field = Missing THEN <<>> ELSE field

\* The entry of the fields, if they name a client.
Entry(fields) ==
    {[client_ip |-> ip, method |-> Method(fields), path |-> Path(fields),
      status |-> StatusIn(fields["status"]), referer |-> TextOf(fields["http_referer"]),
      user_agent |-> TextOf(fields["http_user_agent"])] : ip \in ClientIp(fields)}

\* parse_line: the entry, or none.
ParseLine(kind, line) ==
    IF kind.kind = "json" THEN Entry(JsonFields(line))
    ELSE UNION {Entry(fields) : fields \in Fields(Compile(kind), line)}
=============================================================================
