--------------------------- MODULE ThreatPipeline ---------------------------
(***************************************************************************)
(* The order of the checks in the threat pipeline                          *)
(* (src/src/intelligence/pipeline.rs).  `pipe` is the snapshot the         *)
(* pipeline was built with; a request carries what a parsed log line and   *)
(* the geo database say:                                                   *)
(*   ip, asn, country   the client                                         *)
(*   exploit, agent     is the user agent an exploit, and the patterns of  *)
(*                      the classifier it holds, from left to right        *)
(*   method, status, referer (is it harmful)                               *)
(*   uri                does an allowed-endpoint pattern match it, does it *)
(*                      hold a control byte, and its normalised path       *)
(* Whether a strike reaches its threshold (`reached`) is StrikeTracker's   *)
(* business.                                                               *)
(***************************************************************************)
EXTENDS ThreatRules

ScannerMethods == {"TRACE"}  \* also PROPFIND, DEBUG, SEARCH and TRACK
ToolCategories == {"generic_tools", "empty"}

Allow == [kind |-> "allow"]
DropBanned == [kind |-> "drop banned"]
Ban(reason, permanent) == [kind |-> "ban", reason |-> reason, permanent |-> permanent]

Private == "private"

\* The strikes the pipeline records of itself; the rules ask for the others.
ToolStrike == [kind |-> "tool", threshold |-> 10, window |-> 10]
SshStrike == [kind |-> "isolated", category |-> "common", threshold |-> 5, window |-> 300]

\* classify: the pattern that begins first decides.
Classify(agent) ==
    IF agent = <<>> THEN "empty"
    ELSE IF \A i \in DOMAIN agent : agent[i] = "other" THEN "browser_or_unknown"
    ELSE agent[CHOOSE i \in DOMAIN agent :
                    agent[i] # "other" /\ \A j \in 1 .. i - 1 : agent[j] = "other"]

\* The checks of the client's address that come before all others.
KnownClient(pipe, ip) == ip = Private \/ ip \in pipe.whitelisted_ips

AsnBlocked(pipe, r) == r.asn \in pipe.blocked_asns
RegionRestricted(pipe, r) == r.asn \in pipe.restricted_asns /\ r.country \notin pipe.allowed_regions

\* evaluate_threat_decision
ThreatAction(decision, reached) ==
    IF decision.kind = "instant" \/ (decision.kind \in {"shared", "isolated"} /\ reached)
    THEN Ban("probe", FALSE)
    ELSE Allow

EvaluateProbe(r, reached) ==
    IF r.uri.allowed THEN Allow
    ELSE IF r.uri.malicious THEN Ban("malicious uri", FALSE)
    ELSE ThreatAction(InspectThreat(r.method, r.uri.path, r.status), reached)

\* Mutant of EvaluateToolRequest: a tool is judged by its errors only.
ToolErrorsOnly(r, reached) ==
    IF r.uri.malicious THEN Ban("malicious uri", FALSE)
    ELSE IF ~ r.uri.allowed /\ r.status \in 400 .. 599
            /\ InspectThreat(r.method, r.uri.path, r.status) # Pass
    THEN Ban("tool probe", FALSE)
    ELSE IF r.status \in 400 .. 599 /\ reached THEN Ban("tool error burst", FALSE)
    ELSE Allow

\* A tool is banned for any probe, and strikes for any error.
EvaluateToolRequest(r, reached) ==
    IF r.uri.malicious THEN Ban("malicious uri", FALSE)
    ELSE IF ~ r.uri.allowed /\ InspectThreat(r.method, r.uri.path, r.status) # Pass
    THEN Ban("tool probe", FALSE)
    ELSE IF r.status \in 400 .. 599 /\ reached THEN Ban("tool error burst", FALSE)
    ELSE Allow

\* What comes after the checks of the client: its user agent, the method, the
\* referer and the path.
EvaluateContent(pipe, r, reached) ==
    LET category == Classify(r.agent) IN
    IF r.exploit THEN Ban("header exploit", TRUE)
    ELSE IF category \in pipe.blocked_categories \cap ToolCategories
    THEN EvaluateToolRequest(r, reached)
    ELSE IF category \in pipe.blocked_categories THEN Ban("bot category", FALSE)
    ELSE IF r.method \in ScannerMethods THEN Ban("scanner method", FALSE)
    ELSE IF r.referer THEN Ban("harmful referer", TRUE)
    ELSE EvaluateProbe(r, reached)

EvaluateRequest(pipe, r, reached) ==
    IF KnownClient(pipe, r.ip) THEN Allow
    ELSE IF r.ip \in pipe.banned_ips THEN DropBanned
    ELSE IF AsnBlocked(pipe, r) THEN Ban("blocked asn", FALSE)
    ELSE IF RegionRestricted(pipe, r) THEN Ban("restricted region", FALSE)
    ELSE EvaluateContent(pipe, r, reached)

\* evaluate_ssh_event: a line of sshd's log is nothing, a probe, or a failed
\* login, which strikes.
EvaluateSshEvent(pipe, event, reached) ==
    IF event.kind = "ignore" \/ KnownClient(pipe, event.ip) THEN Allow
    ELSE IF event.ip \in pipe.banned_ips THEN DropBanned
    ELSE IF event.kind = "probe" THEN Ban("ssh probe", FALSE)
    ELSE IF reached THEN Ban("ssh failures", FALSE)
    ELSE Allow
=============================================================================
