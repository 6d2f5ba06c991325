------------------------------ MODULE Discovery ------------------------------
(***************************************************************************)
(* Finding nginx's logs (src/src/discovery/nginx.rs and crawler.rs): the   *)
(* active configuration file, the files it includes, the formats and the   *)
(* access logs they declare, and the logs on the disk that none of them    *)
(* names.  The lines of a log found are then read by the format it was     *)
(* found with.                                                             *)
(*                                                                         *)
(* A file is the sequence of its directives; a pattern in an include       *)
(* stands for the files it matches, in order.                              *)
(***************************************************************************)
EXTENDS LogFormats

CONSTANTS
    Hosts,  \* what there is on a host: files, links, configuration sources, logs
    Values  \* the values of nginx's variables in a request

VARIABLES
    host,      \* the host
    phase,     \* "crawl", "sweep" for the logs on the disk, "done"
    queue,     \* the files to read
    visited,   \* the files read, by their canonical paths
    formats,   \* the formats by name
    raw,       \* the access_log directives
    errorLogs, \* the error logs
    logs,      \* the access logs found
    opened,    \* history: the canonical paths of the files read, in order
    entry      \* the latest line read

\* A file is a sequence of directives, an include names files by what its pattern
\* matches, a link has the contents of its file, and the sweep walks over the
\* files on the disk one by one.
ASSUME HostsAssumption ==
    \A h \in Hosts :
        /\ h.disk \in Seq(ToSet(h.disk))
        /\ \A p \in DOMAIN h.files :
            /\ h.files[p] \in Seq(ToSet(h.files[p]))
            /\ \A d \in ToSet(h.files[p]) : d.kind = "include" => d.files \in Seq(DOMAIN h.files)
            /\ \A q \in DOMAIN h.files : h.links[p] = h.links[q] => h.files[p] = h.files[q]

\* A log_format that nginx accepts: variables that it knows, and texts, none of them
\* empty, between them.
IsFormat(body) ==
    IF IsJson(body) THEN \A key \in DOMAIN body.json : body.json[key] \in Names
    ELSE /\ body.segments \in Seq(ToSet(body.segments))
         /\ \A s \in ToSet(body.segments) :
                IF IsVar(s) THEN s.var \in Names ELSE s.lit \in Seq(ToSet(s.lit)) \ {<<>>}

\* What the files of a host declare, and what wrote the logs on its disk, are formats.
\* nginx refuses a definition of its own format, "combined".
ASSUME FormatsAssumption ==
    \A h \in Hosts :
        /\ \A p \in DOMAIN h.files : \A d \in ToSet(h.files[p]) :
            d.kind = "log_format" => IsFormat(d.body) /\ d.name # "combined"
        /\ \A file \in ToSet(h.disk) : \A body \in file.bodies : IsFormat(body)

\* The lexer takes a semicolon for the end of a directive and a hash for a comment, in
\* quotes as well; texts with these are left out.
ASSUME TextsAssumption ==
    \A h \in Hosts : \A p \in DOMAIN h.files : \A d \in ToSet(h.files[p]) :
        d.kind = "log_format" /\ ~ IsJson(d.body) =>
            \A s \in ToSet(d.body.segments) : ~ IsVar(s) => ToSet(s.lit) \cap {";", "#"} = {}

\* A request gives every variable a text.
ASSUME ValuesAssumption == \A v \in Values, n \in Names : v[n] \in Seq(ToSet(v[n]))

vars == <<host, phase, queue, visited, formats, raw, errorLogs, logs, opened, entry>>

NoEntry == [read |-> {}]
NoConf == "none"
Unreadable == <<[kind |-> "unreadable"]>>

\* find_active_nginx_conf: the command line of a running nginx, the unit file,
\* and then the usual places.
ActiveConf(h) ==
    LET existing == {i \in DOMAIN h.usual : h.usual[i] \in DOMAIN h.files}
    IN IF h.process # NoConf THEN h.process
       ELSE IF h.unit # NoConf THEN h.unit
       ELSE IF existing # {} THEN h.usual[CHOOSE i \in existing : \A j \in existing : i <= j]
       ELSE h.usual[1]

Init ==
    /\ host \in Hosts
    /\ phase = "crawl"
    /\ queue = IF ActiveConf(host) \in DOMAIN host.files THEN <<ActiveConf(host)>> ELSE <<>>
    /\ visited = {}
    /\ formats = [name \in {"combined"} |-> [segments |-> Combined]]
    /\ raw = <<>>
    /\ errorLogs = <<>>
    /\ logs = <<>>
    /\ opened = <<>>
    /\ entry = NoEntry

\* determine_format_kind
FormatKind(name, known) ==
    IF name \in DOMAIN known THEN Classify(known[name])
    ELSE IF name = "main" THEN Classify(known["combined"])
    ELSE [kind |-> "combined"]

\* The lexer starts a new directive at a brace, in quotes as well: a log_format with one
\* in its text, as every JSON format has, never becomes a directive.
HasBrace(body) ==
    IF IsJson(body) THEN TRUE
    ELSE \E s \in ToSet(body.segments) : ~ IsVar(s) /\ ToSet(s.lit) \cap {"{", "}"} # {}

\* Mutant of Processed: a format that is not known yet counts as combined.
ProcessedAtOnce(found, d) ==
    CASE d.kind = "log_format" /\ ~ HasBrace(d.body) ->
            [found EXCEPT !.formats = [n \in DOMAIN @ \cup {d.name} |-> IF n = d.name THEN d.body ELSE @[n]]]
      [] d.kind = "include" -> [found EXCEPT !.queue = @ \o d.files]
      [] d.kind = "access_log" /\ d.path # "off" ->
            [found EXCEPT !.raw = Append(@, [path |-> d.path,
                format |-> IF d.format \in DOMAIN found.formats THEN d.format ELSE "combined"])]
      [] d.kind = "error_log" /\ d.path \notin ToSet(found.errorLogs) ->
            [found EXCEPT !.errorLogs = Append(@, d.path)]
      [] OTHER -> found

\* extract_directives and process_directive, on what the crawl has collected:
\* log_format, include, access_log and error_log; a target that is no file is left out.
Processed(found, d) ==
    CASE d.kind = "log_format" /\ ~ HasBrace(d.body) ->
            [found EXCEPT !.formats = [n \in DOMAIN @ \cup {d.name} |-> IF n = d.name THEN d.body ELSE @[n]]]
      [] d.kind = "include" -> [found EXCEPT !.queue = @ \o d.files]
      [] d.kind = "access_log" /\ d.path # "off" ->
            [found EXCEPT !.raw = Append(@, [path |-> d.path, format |-> d.format])]
      [] d.kind = "error_log" /\ d.path \notin ToSet(found.errorLogs) ->
            [found EXCEPT !.errorLogs = Append(@, d.path)]
      [] OTHER -> found

\* Mutant of Canonical: a link is a file of its own.
ByName(path) == path

\* fs::canonicalize
Canonical(path) == host.links[path]

\* Mutant of ReadFile: a file that was read is left in the queue.
ReadFileKeepsDoubles ==
    /\ phase = "crawl"
    /\ queue # <<>>
    /\ LET path == Head(queue)
           again == Canonical(path) \in visited
           directives == IF again \/ host.files[path] = Unreadable THEN <<>> ELSE host.files[path]
           found == FoldLeft(Processed,
                             [queue |-> Tail(queue), formats |-> formats, raw |-> raw, errorLogs |-> errorLogs],
                             directives)
       IN /\ visited' = visited \cup {Canonical(path)}
          /\ queue' = IF again THEN queue ELSE found.queue
          /\ formats' = found.formats
          /\ raw' = found.raw
          /\ errorLogs' = found.errorLogs
          /\ opened' = IF again THEN opened ELSE Append(opened, host.links[path])
    /\ UNCHANGED <<host, phase, logs, entry>>

\* One round of the crawl: a file that was read under any name is not read again.
ReadFile ==
    /\ phase = "crawl"
    /\ queue # <<>>
    /\ LET path == Head(queue)
           again == Canonical(path) \in visited
           directives == IF again \/ host.files[path] = Unreadable THEN <<>> ELSE host.files[path]
           found == FoldLeft(Processed,
                             [queue |-> Tail(queue), formats |-> formats, raw |-> raw, errorLogs |-> errorLogs],
                             directives)
       IN /\ visited' = visited \cup {Canonical(path)}
          /\ queue' = found.queue
          /\ formats' = found.formats
          /\ raw' = found.raw
          /\ errorLogs' = found.errorLogs
          /\ opened' = IF again THEN opened ELSE Append(opened, host.links[path])
    /\ UNCHANGED <<host, phase, logs, entry>>

\* Mutant of Resolved: every directive makes a log of its own.
ResolvedWithDoubles(found, directive) ==
    Append(found, [path |-> directive.path, kind |-> FormatKind(directive.format, formats)])

\* resolve_access_logs: the first directive of a path counts.
Resolved(found, directive) ==
    IF directive.path \in {l.path : l \in ToSet(found)} THEN found
    ELSE Append(found, [path |-> directive.path, kind |-> FormatKind(directive.format, formats)])

\* The crawl is over, and every format is known.
Resolve ==
    /\ phase = "crawl"
    /\ queue = <<>>
    /\ logs' = FoldLeft(Resolved, <<>>, raw)
    /\ phase' = "sweep"
    /\ UNCHANGED <<host, queue, visited, formats, raw, errorLogs, opened, entry>>

\* sniff_log_format: by the first line, or as main or combined.
Sniffed(file) ==
    IF file.first = "json" THEN [kind |-> "json"]
    ELSE IF "main" \in DOMAIN formats THEN Classify(formats["main"])
    ELSE Classify(formats["combined"])

IsErrorLog(file) == file.name = "error log" \/ (file.name = "log" /\ file.first = "error")

\* classify_orphan_file: a file on the disk is an error log, an access log, or
\* neither (compressed, rotated).
Classified(found, file) ==
    IF IsErrorLog(file)
    THEN IF file.path \in ToSet(found.errorLogs) THEN found
         ELSE [found EXCEPT !.errorLogs = Append(@, file.path)]
    ELSE IF file.name = "log" /\ file.path \notin {l.path : l \in ToSet(found.logs)}
    THEN [found EXCEPT !.logs = Append(@, [path |-> file.path, kind |-> Sniffed(file)])]
    ELSE found

\* discover_orphan_logs
SweepDisk ==
    /\ phase = "sweep"
    /\ LET found == FoldLeft(Classified, [errorLogs |-> errorLogs, logs |-> logs], host.disk)
       IN errorLogs' = found.errorLogs /\ logs' = found.logs
    /\ phase' = "done"
    /\ UNCHANGED <<host, queue, visited, formats, raw, opened, entry>>

-----------------------------------------------------------------------------
(* What nginx makes of the configuration, stated without the crawl.        *)

DirectivesOf(paths) ==
    UNION {ToSet(host.files[p]) : p \in {q \in paths : host.files[q] # Unreadable}}

IncludedBy(paths) == UNION {ToSet(d.files) : d \in {e \in DirectivesOf(paths) : e.kind = "include"}}

\* The files that nginx reads: the least set that holds the active configuration
\* and everything that its files include.
Included ==
    LET closed == {paths \in SUBSET DOMAIN host.files :
                    /\ {ActiveConf(host)} \cap DOMAIN host.files \subseteq paths
                    /\ IncludedBy(paths) \subseteq paths}
    IN {p \in DOMAIN host.files : \A paths \in closed : p \in paths}

\* The body of a format, if nginx knows it: "combined" is its own, and it refuses
\* two definitions of one name, and names that have none.
Bodies(name) ==
    {d.body : d \in {e \in DirectivesOf(Included) : e.kind = "log_format" /\ e.name = name}}
        \cup (IF name = "combined" THEN {[segments |-> Combined]} ELSE {})

AccessLogs == {d \in DirectivesOf(Included) : d.kind = "access_log" /\ d.path # "off"}

\* The formats that the lines of a log are written by: the declared ones, and for a log
\* on the disk those of whoever wrote it.
BodiesAt(path) ==
    (UNION {Bodies(d.format) : d \in {e \in AccessLogs : e.path = path}})
        \cup (UNION {file.bodies : file \in {f \in ToSet(host.disk) : f.path = path}})

\* A line of a log that was found, as nginx writes it.  A log is read by one kind: lines
\* of another format that it is written by are left out, and so are all lines of a log
\* whose format the lexer lost.
ReadLine ==
    /\ phase = "done"
    /\ entry = NoEntry
    /\ \E i \in DOMAIN logs : \E body \in BodiesAt(logs[i].path), v \in Values :
        /\ Classify(body) = logs[i].kind
        /\ entry' = [read |-> ParseLine(logs[i].kind, Written(body, v)),
                     kind |-> logs[i].kind, body |-> body, values |-> v]
    /\ UNCHANGED <<host, phase, queue, visited, formats, raw, errorLogs, logs, opened>>

Next == ReadFile \/ Resolve \/ SweepDisk \/ ReadLine

Spec == Init /\ [][Next]_vars

FairSpec == Spec /\ WF_vars(ReadFile \/ Resolve \/ SweepDisk)

-----------------------------------------------------------------------------
(* Properties.                                                             *)

\* The queue holds files, what was read is what was opened, there is always the
\* format that others fall back to, and every log has a kind that the reader knows.
TypeOK ==
    /\ host \in Hosts /\ phase \in {"crawl", "sweep", "done"}
    /\ queue \in Seq(DOMAIN host.files)
    /\ raw \in Seq(ToSet(raw)) /\ errorLogs \in Seq(ToSet(errorLogs)) /\ logs \in Seq(ToSet(logs))
    /\ visited = ToSet(opened) /\ visited \subseteq {host.links[p] : p \in DOMAIN host.files}
    /\ "combined" \in DOMAIN formats
    /\ \A i \in DOMAIN logs : logs[i].kind.kind \in {"combined", "cloudflare", "json", "custom"}

\* Includes may form cycles and meet again, through links too: no file is read
\* twice, so that no log is declared twice and the crawl comes to an end.
FilesAreReadOnce == \A i, j \in DOMAIN opened : opened[i] = opened[j] => i = j

\* One watcher for one log: the list that the registry reconciles with names no
\* path twice, whatever is declared, included or found on the disk twice.
NoLogTwice == \A i, j \in DOMAIN logs : logs[i].path = logs[j].path => i = j

\* The kind that a log gets for its declared format: its own, or that of an unknown one
\* if there is a brace in it.
KindOf(body) == IF HasBrace(body) THEN [kind |-> "combined"] ELSE Classify(body)

\* Every log that nginx writes, by whichever file declares it, is found, with the
\* kind of a format nginx writes it in, even if the format is declared in a file
\* that is read later, and with that of an unknown format only if the text of its own
\* has a brace; so is every other log on the disk, and nothing else.
EveryLogIsFound ==
    phase = "done" =>
        LET found == ToSet(logs) IN
        /\ \A d \in AccessLogs : \E l \in found :
            /\ l.path = d.path
            /\ LET used == {Bodies(e.format) : e \in {x \in AccessLogs : x.path = d.path}}
               IN {} \in used \/ \E body \in UNION used : l.kind = KindOf(body)
        /\ \A i \in DOMAIN host.disk :
            host.disk[i].name = "log" /\ ~IsErrorLog(host.disk[i])
                => \E l \in found : l.path = host.disk[i].path
        /\ {l.path : l \in found} \subseteq
                {d.path : d \in AccessLogs} \cup {host.disk[i].path : i \in DOMAIN host.disk}

\* The variables that an entry is made of.
EntryVars == {"http_cf_connecting_ip", "http_x_forwarded_for", "remote_addr", "request_method",
              "request_uri", "request", "status", "http_referer", "http_user_agent"}

\* The fields that the kind takes from a line of nginx.
Logged(kind, body, values) ==
    LET names == IF kind.kind = "json" THEN {body.json[key] : key \in DOMAIN body.json}
                 ELSE {s.var : s \in {t \in ToSet(Compile(kind)) : IsVar(t)}}
    IN [n \in Names |-> IF n \in names THEN values[n] ELSE Missing]

\* A line begins with a text.
Begins(line, text) == Len(text) <= Len(line) /\ SubSeq(line, 1, Len(text)) = text

\* The place of the k-th segment in a line.
PlaceOf(segments, k, values) == Len(Written([segments |-> SubSeq(segments, 1, k - 1)], values)) + 1

\* What the reader takes for the end of the variable that is the i-th segment.
EndOf(segments, i) == IF IsVar(segments[i + 1]) THEN Space ELSE segments[i + 1].lit

\* The segment where it goes on then: a text has been read, a space has not.
Behind(i, segments) == IF IsVar(segments[i + 1]) THEN i + 1 ELSE i + 2

\* A variable that the entry does without, like the one that follows its end: if the
\* one is cut too short, the other begins too early.
Dispensable(i, segments) ==
    /\ segments[i].var \notin EntryVars
    /\ Behind(i, segments) \in DOMAIN segments =>
            LET next == segments[Behind(i, segments)] IN IsVar(next) /\ next.var \notin EntryVars

\* What it takes for a reader that splits by literals to tell the values of a line apart,
\* but for those of the variables that are lost: the end of every variable is there, and
\* where a text like it occurs before, the reader has gone on behind it already, because
\* it has found the end of another variable.
Distinct(line, segments, values, lost) ==
    LET variables == {i \in 1 .. Len(segments) - 1 : IsVar(segments[i])}
    IN \A i \in variables :
        LET end == EndOf(segments, i)
            place == PlaceOf(segments, i + 1, values)
        IN /\ StartsWith(line, place, end)
           /\ IF i \in lost THEN Dispensable(i, segments)
              ELSE \A p \in 1 .. place - 1 : StartsWith(line, p, end) =>
                        \E j \in variables \ lost :
                            j < i /\ p < PlaceOf(segments, Behind(j, segments), values)

\* A line that can be read back: it is, but for what follows it, a line of the format
\* that its kind stands for, and its values can be told apart, but for some that are
\* not in the entry; or the keys of a JSON line are the reader's.
Legible(kind, body, values) ==
    IF kind.kind = "json"
    THEN \A key \in DOMAIN body.json, n \in Names : key \in ToSet(KeysOf(n)) <=> body.json[key] = n
    ELSE LET s == Compile(kind)
             line == Written(body, values)
             text == Written([segments |-> s], values)
         IN /\ Begins(line, text)
            /\ text = line \/ ~IsVar(s[Len(s)])
            /\ \E lost \in SUBSET {i \in DOMAIN s : IsVar(s[i]) /\ s[i].var \notin EntryVars} :
                    Distinct(line, s, values, lost)

\* A line of nginx's own format, or of the one for Cloudflare, as nginx writes it: it
\* escapes the quotes of a value, a status is a number, and the address does not hold
\* what comes next.
Ordinary(kind, body, values) ==
    LET s == Compile(kind)
        address == values[s[1].var]
    IN /\ kind.kind \in {"combined", "cloudflare"}
       /\ Begins(Written(body, values), Written([segments |-> s], values))
       /\ \A n \in Names : "\"" \notin ToSet(values[n])
       /\ " " \notin ToSet(values["status"])
       /\ \A p \in DOMAIN address : ~StartsWith(address \o s[2].lit, p, s[2].lit)

\* What is read is what nginx wrote.
ReadBack == entry.read = Entry(Logged(entry.kind, entry.body, entry.values))

\* Whatever a request holds, its line is read back as nginx wrote it: the client, the
\* request, its status, referer and user agent, although the reader splits by literals
\* that may occur in the values.  This is so in any format for a line that is legible,
\* and in the two that nginx and Cloudflare's users begin with for every request.
LinesAreReadBack ==
    /\ entry # NoEntry /\ Legible(entry.kind, entry.body, entry.values) => ReadBack
    /\ entry # NoEntry /\ Ordinary(entry.kind, entry.body, entry.values) => ReadBack

\* The daemon waits for the discovery at its start and at every rescan: whatever
\* the files include, it ends.
DiscoveryEnds == <>(phase = "done")
=============================================================================
