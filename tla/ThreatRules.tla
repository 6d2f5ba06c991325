---------------------------- MODULE ThreatRules ----------------------------
(***************************************************************************)
(* The probe rules (src/src/intelligence/probes.rs).  A normalised path is *)
(* the set of its marks: a mark stands for the substrings, prefixes or     *)
(* endings that one condition of the code looks for together.  A rule is a *)
(* record; the rules of a stage are tried in order and the first that      *)
(* applies decides.                                                        *)
(***************************************************************************)
EXTENDS Naturals, Sequences, FiniteSets

Methods == {"GET", "QUERY", "POST"}
Statuses == {200, 204, 208, 301, 304, 400, 401, 403, 404, 405, 444, 500}

Safe == {"GET", "QUERY"}     \* GET also stands for HEAD
GetOrHead == {"GET"}

Not(statuses) == Statuses \ statuses
NotOk == Not({200})
NotFound == Not({200, 301})  \* 301 also stands for 302
NoSuccess == Not({200, 204, 301})  \* 200 to 207, 301, 302
WpError == {400, 403, 404, 405, 444}

-----------------------------------------------------------------------------
(* Marks.                                                                  *)

\* Where a path ends; it ends once.
ShellEndings == {"bin/sh"}
WebshellEndings == {"wp-webshell.php"}
PureExploits == {"traversal", "null byte", "mstshash", "@fs/proc", "php rce", "_ignition"}
SensitiveEndings == {"dotfile"}
VcsMarks == {".git", ".svn", ".hg"}
IdeMarks == {"ide"}
KeyEndings == {"id_rsa"}
CloudStrikeEndings == {"tfstate"}
CredentialEndings == {"credentials.json"}
GcpKeyEndings == {"gcp-key.json"}
CloudDirs == {".aws"}
WpCoreEndings == {"wp-core.php"}
WpInstantMarks == {"wp-config"}
BackupEndings == {".sql"}
SystemFiles == {"etc/passwd"}
ConfigEndings == {".bak"}
CloudSecrets == {"kubernetes secrets"}

\* A path with one of these contains "/.".
DotMarks ==
    VcsMarks \cup IdeMarks \cup CloudDirs \cup SensitiveEndings
    \cup {".ds_store", ".ssh", ".config", ".env", ".wp-config", ".well-known", "other dotfile"}

Endings ==
    ShellEndings \cup WebshellEndings \cup SensitiveEndings \cup KeyEndings
    \cup CloudStrikeEndings \cup CredentialEndings \cup GcpKeyEndings \cup WpCoreEndings
    \cup BackupEndings \cup ConfigEndings
    \cup {".ds_store", ".flaskenv", "wlwmanifest", ".py", ".php~", ".php"}

Marks ==
    DotMarks \cup Endings \cup PureExploits \cup WpInstantMarks \cup SystemFiles
    \cup CloudSecrets
    \cup {"wp-l0gin", "wp-file-manager", "wp-json", "woocommerce_stripe", "wp-login",
          "wp-admin", "actuator/env", "actuator", "telescope", "webmail", "proc/1",
          "nbproject", "cgi-bin", "phpinfo", "phpmyadmin", "<?php"}

\* The marks a path has together with these.
Implied(path) ==
    path \cup (IF path \cap (WebshellEndings \cup WpCoreEndings) # {} THEN {".php"} ELSE {})
         \cup (IF "actuator/env" \in path THEN {"actuator"} ELSE {})

\* The paths with at most two marks, besides the implied ones, and one ending.
Paths ==
    {Implied(path) : path \in {p \in {{m, n} : m, n \in Marks} :
                                   Cardinality(p \cap Endings) <= 1}}

-----------------------------------------------------------------------------
(* Decisions and rules.                                                    *)

Pass == [kind |-> "pass"]
Instant(cat) == [kind |-> "instant", category |-> cat]
Shared(cat, n, secs) == [kind |-> "shared", category |-> cat, threshold |-> n, window |-> secs]
Isolated(cat, n, secs) == [kind |-> "isolated", category |-> cat, threshold |-> n, window |-> secs]

\* One of `marks`, with one of `statuses`: `soft` for the gentle methods and
\* `hard` for the others.
Rule(marks, statuses, gentle, soft, hard) ==
    [marks |-> marks, statuses |-> statuses, gentle |-> gentle, soft |-> soft, hard |-> hard]

Always(marks, statuses, decision) == Rule(marks, statuses, Methods, decision, decision)
Bans(marks, statuses, cat) == Always(marks, statuses, Instant(cat))

ShellExploit ==
    << Rule(ShellEndings, NotOk, Safe, Shared("common", 3, 10), Instant("common")),
       Rule(ShellEndings, {200}, Safe, Pass, Instant("common")) >>

Stage1 ==
    << Bans({"traversal", "null byte"}, Statuses, "common") >>
    \o ShellExploit
    \o << Bans({"mstshash"}, NotOk, "common"),
          Bans({"@fs/proc"}, NotOk, "common"),
          Bans({"php rce"}, Statuses, "php"),
          Bans({"_ignition"}, Statuses, "laravel"),
          Bans(WebshellEndings, Statuses, "wordpress") >>

DotfilesVcs ==
    << Rule({".git"}, NotFound, Safe, Shared("vcs", 3, 10), Instant("vcs")),
       Bans({".svn"}, Statuses, "vcs"),
       Bans({".hg"}, NoSuccess, "vcs"),
       Rule({".ds_store"}, NotOk, GetOrHead, Isolated("vcs", 3, 10), Instant("vcs")),
       Bans(SensitiveEndings, Statuses, "vcs") >>

SshKeys == << Rule(KeyEndings, NotOk, GetOrHead, Shared("ssh", 2, 10), Instant("ssh")) >>

DotfilesSsh == SshKeys \o << Bans({".ssh"}, NoSuccess, "ssh") >>

DotfilesIde == << Bans(IdeMarks, NotOk, "ide") >>

CloudKeys ==
    << Rule(CloudStrikeEndings, NotOk, GetOrHead, Shared("cloud", 2, 10), Instant("cloud")),
       Always(CredentialEndings, NotOk, Shared("cloud", 2, 10)),
       Bans(GcpKeyEndings, NotOk, "cloud") >>

DotfilesCloud ==
    CloudKeys
    \o << Bans(CloudDirs, NoSuccess, "cloud"),
          Rule({".config"}, NoSuccess, GetOrHead, Shared("cloud", 3, 10), Instant("cloud")) >>

DotfilesCommon ==
    << Rule({".env", ".flaskenv"}, NotOk, Safe, Shared("common", 3, 10), Instant("common")),
       Bans({".wp-config"}, {400, 403, 404, 444}, "wordpress") >>

Dotfiles == DotfilesVcs \o DotfilesSsh \o DotfilesIde \o DotfilesCloud \o DotfilesCommon

WordpressExploits ==
    << Bans({"wp-l0gin"}, NotOk, "wordpress"),
       Bans({"wp-file-manager"}, NotOk, "wordpress"),
       Bans({"wp-json"}, {444}, "wordpress"),
       Bans({"woocommerce_stripe"}, Not({200, 301, 400, 401, 403, 500}), "wordpress"),
       Bans(WpInstantMarks \cup WpCoreEndings, WpError, "wordpress") >>

WordpressStrikes ==
    << Always({"wp-login"}, {404, 405, 444}, Shared("wordpress", 4, 10)),
       Always({"wlwmanifest"}, NotOk, Shared("wordpress", 2, 10)),
       Rule({"wp-admin"}, WpError, Safe,
            Isolated("wordpress", 7, 10), Isolated("wordpress", 5, 10)) >>

Actuator ==
    << Bans({"actuator/env"}, NotOk, "actuator"),
       Always({"actuator"}, NotOk, Shared("actuator", 3, 10)) >>

\* Mutant of LaravelAndWebmail: the webmail window is minutes.
WebmailInMinutes ==
    << Always({"telescope"}, NotFound, Shared("laravel", 2, 10)),
       Always({"webmail"}, NotFound, Shared("webmail", 3, 900)) >>

LaravelAndWebmail ==
    << Always({"telescope"}, NotFound, Shared("laravel", 2, 10)),
       Always({"webmail"}, NotFound, Shared("webmail", 3, 15)) >>

Backups == << Always(BackupEndings, NotOk, Isolated("backups", 5, 10)) >>

CommonErrors ==
    << Rule(SystemFiles, NotOk, Safe, Shared("common", 3, 10), Instant("common")),
       Bans({"proc/1"}, NotOk, "common"),
       Rule(ConfigEndings, NotOk, Safe, Shared("common", 3, 10), Instant("common")),
       Rule({".py"}, NotOk, Safe, Isolated("common", 3, 10), Instant("common")),
       Bans({"nbproject"}, NotOk, "ide"),
       Bans(CloudSecrets, NotOk, "cloud") >>

PhpAdmin ==
    << Always({"phpmyadmin"}, NotFound, Shared("php", 3, 15)),
       Rule({"<?php"}, Not({200, 400, 403}), Safe, Shared("php", 3, 10), Instant("php")),
       Always({".php"}, NotFound, Isolated("php", 15, 10)) >>

Php ==
    << Rule({"cgi-bin"}, NotOk, GetOrHead, Shared("php", 3, 10), Instant("php")),
       Bans({"phpinfo"}, NotOk, "php"),
       Bans({".php~"}, NotOk, "php") >>
    \o PhpAdmin

Stage4 ==
    WordpressExploits \o WordpressStrikes \o Actuator \o LaravelAndWebmail \o Backups
    \o SshKeys \o CloudKeys \o CommonErrors \o Php

\* Mutant of RulesFor: a path with "/." is looked at by the dotfile rules only.
DotfilesAreLast(path, status) ==
    Stage1
    \o (IF path \cap DotMarks # {} THEN Dotfiles
        ELSE IF status \in {200, 304} THEN <<>> ELSE Stage4)

\* The stages that look at a path, in order: a success passes before stage 4.
RulesFor(path, status) ==
    Stage1
    \o (IF path \cap DotMarks # {} THEN Dotfiles ELSE <<>>)
    \o (IF status \in {200, 304} THEN <<>> ELSE Stage4)

Applies(rule, path, status) == path \cap rule.marks # {} /\ status \in rule.statuses

\* The first of the rules that applies decides.
FirstMatch(rules, method, path, status) ==
    LET matching == {i \in DOMAIN rules : Applies(rules[i], path, status)}
        first == CHOOSE i \in matching : \A j \in matching : i <= j
    IN  CASE matching = {} -> Pass
          [] matching # {} /\ method \in rules[first].gentle -> rules[first].soft
          [] matching # {} /\ method \notin rules[first].gentle -> rules[first].hard

InspectThreat(method, path, status) ==
    IF ".well-known" \in path /\ status \in 200 .. 399
    THEN Pass
    ELSE FirstMatch(RulesFor(path, status), method, path, status)
=============================================================================
