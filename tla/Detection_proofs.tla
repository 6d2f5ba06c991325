-------------------------- MODULE Detection_proofs --------------------------
(***************************************************************************)
(* Proofs about Detection: what the rules decide, for every path and every *)
(* status, and what the parser of sshd's log charges peers with, for any   *)
(* number of processes and peers and any limit.                            *)
(***************************************************************************)
EXTENDS Detection, Lemmas, FiniteSetTheorems

-----------------------------------------------------------------------------
(* What the rules are.                                                     *)

Categories ==
    {"common", "php", "laravel", "wordpress", "vcs", "ssh", "ide", "cloud", "actuator",
     "webmail", "backups"}

Threats ==
    [kind : {"instant"}, category : Categories]
        \cup [kind : {"shared", "isolated"}, category : Categories,
              threshold : 1 .. 255, window : 0 .. 600]

\* Rules that let no request pass and whose strikes fit the tracker.
StrictRules ==
    [marks : SUBSET Marks, statuses : SUBSET Statuses, gentle : SUBSET Methods,
     soft : Threats, hard : Threats]

\* The one rule that does: the path to a shell, asked for gently and served.
ShellRule == Rule(ShellEndings, {200}, Safe, Pass, Instant("common"))

AllRules == StrictRules \cup {ShellRule}

LEMMA RuleTypes ==
    ASSUME NEW marks \in SUBSET Marks, NEW statuses \in SUBSET Statuses,
           NEW gentle \in SUBSET Methods, NEW soft \in Threats, NEW hard \in Threats
    PROVE  Rule(marks, statuses, gentle, soft, hard) \in AllRules
BY DEF Rule, StrictRules, AllRules

LEMMA StatusTypes ==
    /\ Statuses \in SUBSET Statuses /\ NotOk \in SUBSET Statuses
    /\ NotFound \in SUBSET Statuses /\ NoSuccess \in SUBSET Statuses
    /\ WpError \in SUBSET Statuses
    /\ \A statuses : Not(statuses) \in SUBSET Statuses
    /\ Methods \in SUBSET Methods /\ Safe \in SUBSET Methods /\ GetOrHead \in SUBSET Methods
<1>1. WpError \in SUBSET Statuses
  BY DEF WpError, Statuses
<1>2. \A statuses : Not(statuses) \in SUBSET Statuses
  BY DEF Not
<1>3. Safe \in SUBSET Methods /\ GetOrHead \in SUBSET Methods
  BY DEF Safe, GetOrHead, Methods
<1> QED
  BY <1>1, <1>2, <1>3 DEF NotOk, NotFound, NoSuccess

LEMMA AlwaysTypes ==
    ASSUME NEW marks \in SUBSET Marks, NEW statuses \in SUBSET Statuses,
           NEW decision \in Threats
    PROVE  Always(marks, statuses, decision) \in AllRules
BY RuleTypes, StatusTypes DEF Always

LEMMA BansTypes ==
    ASSUME NEW marks \in SUBSET Marks, NEW statuses \in SUBSET Statuses, NEW cat \in Categories
    PROVE  Bans(marks, statuses, cat) \in AllRules
<1>1. Instant(cat) \in Threats
  BY DEF Instant, Threats
<1> QED
  BY <1>1, AlwaysTypes DEF Bans

\* Lists of rules.
LEMMA ListTypes ==
    /\ \A a \in AllRules : <<a>> \in Seq(AllRules)
    /\ \A a, b \in AllRules : <<a, b>> \in Seq(AllRules)
    /\ \A a, b, c \in AllRules : <<a, b, c>> \in Seq(AllRules)
    /\ \A a, b, c, d, e \in AllRules : <<a, b, c, d, e>> \in Seq(AllRules)
    /\ \A a, b, c, d, e, f \in AllRules : <<a, b, c, d, e, f>> \in Seq(AllRules)
    /\ \A s, t \in Seq(AllRules) : s \o t \in Seq(AllRules)
OBVIOUS

LEMMA CategoryTypes ==
    /\ "common" \in Categories /\ "php" \in Categories /\ "laravel" \in Categories
    /\ "wordpress" \in Categories /\ "vcs" \in Categories /\ "ssh" \in Categories
    /\ "ide" \in Categories /\ "cloud" \in Categories /\ "actuator" \in Categories
    /\ "webmail" \in Categories /\ "backups" \in Categories
BY DEF Categories

LEMMA MarkTypes ==
    /\ \A mark \in Marks : {mark} \in SUBSET Marks
    /\ {"traversal", "null byte"} \in SUBSET Marks /\ {".env", ".flaskenv"} \in SUBSET Marks
    /\ ShellEndings \in SUBSET Marks /\ WebshellEndings \in SUBSET Marks
    /\ SensitiveEndings \in SUBSET Marks /\ KeyEndings \in SUBSET Marks
    /\ IdeMarks \in SUBSET Marks /\ CloudStrikeEndings \in SUBSET Marks
    /\ CredentialEndings \in SUBSET Marks /\ GcpKeyEndings \in SUBSET Marks
    /\ CloudDirs \in SUBSET Marks /\ WpInstantMarks \cup WpCoreEndings \in SUBSET Marks
    /\ BackupEndings \in SUBSET Marks /\ SystemFiles \in SUBSET Marks
    /\ ConfigEndings \in SUBSET Marks /\ CloudSecrets \in SUBSET Marks
BY DEF Marks, Endings, DotMarks, PureExploits

LEMMA DecisionTypes ==
    \A cat \in Categories :
        /\ Instant(cat) \in Threats
        /\ Shared(cat, 2, 10) \in Threats /\ Shared(cat, 3, 10) \in Threats
        /\ Shared(cat, 4, 10) \in Threats /\ Shared(cat, 3, 15) \in Threats
        /\ Isolated(cat, 3, 10) \in Threats /\ Isolated(cat, 5, 10) \in Threats
        /\ Isolated(cat, 7, 10) \in Threats /\ Isolated(cat, 15, 10) \in Threats
<1> SUFFICES ASSUME NEW cat \in Categories
             PROVE  /\ Instant(cat) \in Threats
                    /\ \A n \in {2, 3, 4, 5, 7, 15}, secs \in {10, 15} :
                            Shared(cat, n, secs) \in Threats /\ Isolated(cat, n, secs) \in Threats
  OBVIOUS
<1> QED
  BY DEF Instant, Shared, Isolated, Threats

LEMMA Stage1Types == Stage1 \in Seq(AllRules)
<1>1. Bans({"traversal", "null byte"}, Statuses, "common") \in AllRules
  BY MarkTypes, StatusTypes, CategoryTypes, BansTypes
<1>2. ShellExploit \in Seq(AllRules)
  <2>2. Rule(ShellEndings, NotOk, Safe, Shared("common", 3, 10), Instant("common")) \in AllRules
    BY MarkTypes, StatusTypes, CategoryTypes, DecisionTypes, RuleTypes
  <2>3. Rule(ShellEndings, {200}, Safe, Pass, Instant("common")) \in AllRules
    BY DEF AllRules, ShellRule
  <2> QED
    BY <2>2, <2>3, ListTypes DEF ShellExploit
<1>3. /\ Bans({"mstshash"}, NotOk, "common") \in AllRules
      /\ Bans({"@fs/proc"}, NotOk, "common") \in AllRules
      /\ Bans({"php rce"}, Statuses, "php") \in AllRules
      /\ Bans({"_ignition"}, Statuses, "laravel") \in AllRules
      /\ Bans(WebshellEndings, Statuses, "wordpress") \in AllRules
  <2>1. {"mstshash"} \in SUBSET Marks /\ {"@fs/proc"} \in SUBSET Marks
        /\ {"php rce"} \in SUBSET Marks /\ {"_ignition"} \in SUBSET Marks
    BY DEF Marks, PureExploits
  <2> QED
    BY <2>1, MarkTypes, StatusTypes, CategoryTypes, BansTypes
<1> QED
  BY <1>1, <1>2, <1>3, ListTypes DEF Stage1

LEMMA DotfilesVcsTypes == DotfilesVcs \in Seq(AllRules)
<1>1. /\ {".git"} \in SUBSET Marks /\ {".svn"} \in SUBSET Marks
      /\ {".hg"} \in SUBSET Marks /\ {".ds_store"} \in SUBSET Marks
  BY DEF Marks, DotMarks, VcsMarks, Endings, PureExploits
<1>2. /\ Bans({".svn"}, Statuses, "vcs") \in AllRules
      /\ Bans({".hg"}, NoSuccess, "vcs") \in AllRules
      /\ Bans(SensitiveEndings, Statuses, "vcs") \in AllRules
  BY <1>1, MarkTypes, StatusTypes, CategoryTypes, BansTypes
<1>3. /\ Rule({".git"}, NotFound, Safe, Shared("vcs", 3, 10), Instant("vcs")) \in AllRules
      /\ Rule({".ds_store"}, NotOk, GetOrHead, Isolated("vcs", 3, 10), Instant("vcs")) \in AllRules
  BY <1>1, MarkTypes, StatusTypes, CategoryTypes, DecisionTypes, RuleTypes
<1> QED
  BY <1>1, <1>2, <1>3, ListTypes DEF DotfilesVcs

LEMMA SshKeysTypes == SshKeys \in Seq(AllRules)
<1>1. Rule(KeyEndings, NotOk, GetOrHead, Shared("ssh", 2, 10), Instant("ssh")) \in AllRules
  BY MarkTypes, StatusTypes, CategoryTypes, DecisionTypes, RuleTypes
<1> QED
  BY <1>1, ListTypes DEF SshKeys

LEMMA DotfilesSshTypes == DotfilesSsh \in Seq(AllRules)
<1>1. {".ssh"} \in SUBSET Marks
  BY DEF Marks, DotMarks, VcsMarks, Endings, PureExploits
<1>2. Bans({".ssh"}, NoSuccess, "ssh") \in AllRules
  BY <1>1, MarkTypes, StatusTypes, CategoryTypes, BansTypes
<1> QED
  BY <1>1, <1>2, SshKeysTypes, ListTypes DEF DotfilesSsh

LEMMA DotfilesIdeTypes == DotfilesIde \in Seq(AllRules)
<1>1. Bans(IdeMarks, NotOk, "ide") \in AllRules
  BY MarkTypes, StatusTypes, CategoryTypes, BansTypes
<1> QED
  BY <1>1, ListTypes DEF DotfilesIde

LEMMA CloudKeysTypes == CloudKeys \in Seq(AllRules)
<1>1. Bans(GcpKeyEndings, NotOk, "cloud") \in AllRules
  BY MarkTypes, StatusTypes, CategoryTypes, BansTypes
<1>2. Always(CredentialEndings, NotOk, Shared("cloud", 2, 10)) \in AllRules
  BY MarkTypes, StatusTypes, CategoryTypes, DecisionTypes, AlwaysTypes
<1>3. Rule(CloudStrikeEndings, NotOk, GetOrHead, Shared("cloud", 2, 10), Instant("cloud")) \in AllRules
  BY MarkTypes, StatusTypes, CategoryTypes, DecisionTypes, RuleTypes
<1> QED
  BY <1>1, <1>2, <1>3, ListTypes DEF CloudKeys

LEMMA DotfilesCloudTypes == DotfilesCloud \in Seq(AllRules)
<1>1. {".config"} \in SUBSET Marks
  BY DEF Marks, DotMarks, VcsMarks, Endings, PureExploits
<1>2. Bans(CloudDirs, NoSuccess, "cloud") \in AllRules
  BY <1>1, MarkTypes, StatusTypes, CategoryTypes, BansTypes
<1>3. Rule({".config"}, NoSuccess, GetOrHead, Shared("cloud", 3, 10), Instant("cloud")) \in AllRules
  BY <1>1, MarkTypes, StatusTypes, CategoryTypes, DecisionTypes, RuleTypes
<1> QED
  BY <1>1, <1>2, <1>3, CloudKeysTypes, ListTypes DEF DotfilesCloud

LEMMA DotfilesCommonTypes == DotfilesCommon \in Seq(AllRules)
<1>1. {".wp-config"} \in SUBSET Marks
  BY DEF Marks, DotMarks, VcsMarks, Endings, PureExploits
<1>2. Bans({".wp-config"}, {400, 403, 404, 444}, "wordpress") \in AllRules
  <2> DEFINE errors == {400, 403, 404, 444}
  <2>1. errors \in SUBSET Statuses
    BY DEF Statuses
  <2> HIDE DEF errors
  <2>2. Bans({".wp-config"}, errors, "wordpress") \in AllRules
    BY <1>1, <2>1, CategoryTypes, BansTypes
  <2> QED
    BY <2>2 DEF errors
<1>3. Rule({".env", ".flaskenv"}, NotOk, Safe, Shared("common", 3, 10), Instant("common")) \in AllRules
  BY <1>1, MarkTypes, StatusTypes, CategoryTypes, DecisionTypes, RuleTypes
<1> QED
  BY <1>1, <1>2, <1>3, ListTypes DEF DotfilesCommon

LEMMA WordpressExploitsTypes == WordpressExploits \in Seq(AllRules)
<1>1. /\ {"wp-l0gin"} \in SUBSET Marks /\ {"wp-file-manager"} \in SUBSET Marks
      /\ {"wp-json"} \in SUBSET Marks /\ {"woocommerce_stripe"} \in SUBSET Marks
  BY DEF Marks, DotMarks, VcsMarks, Endings, PureExploits
<1>2. /\ Bans({"wp-l0gin"}, NotOk, "wordpress") \in AllRules
      /\ Bans({"wp-file-manager"}, NotOk, "wordpress") \in AllRules
      /\ Bans(WpInstantMarks \cup WpCoreEndings, WpError, "wordpress") \in AllRules
  BY <1>1, MarkTypes, StatusTypes, CategoryTypes, BansTypes
<1>3. /\ Bans({"wp-json"}, {444}, "wordpress") \in AllRules
      /\ Bans({"woocommerce_stripe"}, Not({200, 301, 400, 401, 403, 500}), "wordpress") \in AllRules
  <2> DEFINE dropped == {444}
             unusual == Not({200, 301, 400, 401, 403, 500})
  <2>1. dropped \in SUBSET Statuses /\ unusual \in SUBSET Statuses
    BY DEF Statuses, Not
  <2> HIDE DEF dropped, unusual
  <2>2. /\ Bans({"wp-json"}, dropped, "wordpress") \in AllRules
        /\ Bans({"woocommerce_stripe"}, unusual, "wordpress") \in AllRules
    BY <1>1, <2>1, CategoryTypes, BansTypes
  <2> QED
    BY <2>2 DEF dropped, unusual
<1> QED
  BY <1>2, <1>3, ListTypes DEF WordpressExploits

LEMMA WordpressStrikesTypes == WordpressStrikes \in Seq(AllRules)
<1>1. /\ {"wp-login"} \in SUBSET Marks /\ {"wlwmanifest"} \in SUBSET Marks
      /\ {"wp-admin"} \in SUBSET Marks
  BY DEF Marks, DotMarks, VcsMarks, Endings, PureExploits
<1>2. Always({"wp-login"}, {404, 405, 444}, Shared("wordpress", 4, 10)) \in AllRules
  <2> DEFINE errors == {404, 405, 444}
  <2>1. errors \in SUBSET Statuses
    BY DEF Statuses
  <2> HIDE DEF errors
  <2>2. Always({"wp-login"}, errors, Shared("wordpress", 4, 10)) \in AllRules
    BY <1>1, <2>1, CategoryTypes, DecisionTypes, AlwaysTypes
  <2> QED
    BY <2>2 DEF errors
<1>3. Always({"wlwmanifest"}, NotOk, Shared("wordpress", 2, 10)) \in AllRules
  BY <1>1, MarkTypes, StatusTypes, CategoryTypes, DecisionTypes, AlwaysTypes
<1>4. Rule({"wp-admin"}, WpError, Safe, Isolated("wordpress", 7, 10), Isolated("wordpress", 5, 10)) \in AllRules
  BY <1>1, MarkTypes, StatusTypes, CategoryTypes, DecisionTypes, RuleTypes
<1> QED
  BY <1>2, <1>3, <1>4, ListTypes DEF WordpressStrikes

LEMMA ActuatorTypes == Actuator \in Seq(AllRules)
<1>1. {"actuator/env"} \in SUBSET Marks /\ {"actuator"} \in SUBSET Marks
  BY DEF Marks, DotMarks, VcsMarks, Endings, PureExploits
<1>2. Bans({"actuator/env"}, NotOk, "actuator") \in AllRules
  BY <1>1, MarkTypes, StatusTypes, CategoryTypes, BansTypes
<1>3. Always({"actuator"}, NotOk, Shared("actuator", 3, 10)) \in AllRules
  BY <1>1, MarkTypes, StatusTypes, CategoryTypes, DecisionTypes, AlwaysTypes
<1> QED
  BY <1>1, <1>2, <1>3, ListTypes DEF Actuator

LEMMA LaravelAndWebmailTypes == LaravelAndWebmail \in Seq(AllRules)
<1>1. {"telescope"} \in SUBSET Marks /\ {"webmail"} \in SUBSET Marks
  BY DEF Marks, DotMarks, VcsMarks, Endings, PureExploits
<1>2. /\ Always({"telescope"}, NotFound, Shared("laravel", 2, 10)) \in AllRules
      /\ Always({"webmail"}, NotFound, Shared("webmail", 3, 15)) \in AllRules
  BY <1>1, MarkTypes, StatusTypes, CategoryTypes, DecisionTypes, AlwaysTypes
<1> QED
  BY <1>1, <1>2, ListTypes DEF LaravelAndWebmail

LEMMA BackupsTypes == Backups \in Seq(AllRules)
<1>1. Always(BackupEndings, NotOk, Isolated("backups", 5, 10)) \in AllRules
  BY MarkTypes, StatusTypes, CategoryTypes, DecisionTypes, AlwaysTypes
<1> QED
  BY <1>1, ListTypes DEF Backups

LEMMA CommonErrorsTypes == CommonErrors \in Seq(AllRules)
<1>1. /\ {"proc/1"} \in SUBSET Marks /\ {".py"} \in SUBSET Marks
      /\ {"nbproject"} \in SUBSET Marks
  BY DEF Marks, DotMarks, VcsMarks, Endings, PureExploits
<1>2. /\ Bans({"proc/1"}, NotOk, "common") \in AllRules
      /\ Bans({"nbproject"}, NotOk, "ide") \in AllRules
      /\ Bans(CloudSecrets, NotOk, "cloud") \in AllRules
  BY <1>1, MarkTypes, StatusTypes, CategoryTypes, BansTypes
<1>3. /\ Rule(SystemFiles, NotOk, Safe, Shared("common", 3, 10), Instant("common")) \in AllRules
      /\ Rule(ConfigEndings, NotOk, Safe, Shared("common", 3, 10), Instant("common")) \in AllRules
      /\ Rule({".py"}, NotOk, Safe, Isolated("common", 3, 10), Instant("common")) \in AllRules
  BY <1>1, MarkTypes, StatusTypes, CategoryTypes, DecisionTypes, RuleTypes
<1> QED
  BY <1>1, <1>2, <1>3, ListTypes DEF CommonErrors

LEMMA PhpAdminTypes == PhpAdmin \in Seq(AllRules)
<1>1. /\ {"phpmyadmin"} \in SUBSET Marks /\ {"<?php"} \in SUBSET Marks
      /\ {".php"} \in SUBSET Marks
  BY DEF Marks, DotMarks, VcsMarks, Endings, PureExploits
<1>2. /\ Always({"phpmyadmin"}, NotFound, Shared("php", 3, 15)) \in AllRules
      /\ Always({".php"}, NotFound, Isolated("php", 15, 10)) \in AllRules
  BY <1>1, MarkTypes, StatusTypes, CategoryTypes, DecisionTypes, AlwaysTypes
<1>3. Rule({"<?php"}, Not({200, 400, 403}), Safe, Shared("php", 3, 10), Instant("php")) \in AllRules
  <2> DEFINE errors == Not({200, 400, 403})
  <2>1. errors \in SUBSET Statuses
    BY DEF Not
  <2> HIDE DEF errors
  <2>2. Rule({"<?php"}, errors, Safe, Shared("php", 3, 10), Instant("php")) \in AllRules
    BY <1>1, <2>1, StatusTypes, CategoryTypes, DecisionTypes, RuleTypes
  <2> QED
    BY <2>2 DEF errors
<1> QED
  BY <1>1, <1>2, <1>3, ListTypes DEF PhpAdmin

LEMMA PhpTypes == Php \in Seq(AllRules)
<1>1. /\ {"cgi-bin"} \in SUBSET Marks /\ {"phpinfo"} \in SUBSET Marks
      /\ {".php~"} \in SUBSET Marks
  BY DEF Marks, DotMarks, VcsMarks, Endings, PureExploits
<1>2. /\ Bans({"phpinfo"}, NotOk, "php") \in AllRules
      /\ Bans({".php~"}, NotOk, "php") \in AllRules
  BY <1>1, MarkTypes, StatusTypes, CategoryTypes, BansTypes
<1>3. Rule({"cgi-bin"}, NotOk, GetOrHead, Shared("php", 3, 10), Instant("php")) \in AllRules
  BY <1>1, MarkTypes, StatusTypes, CategoryTypes, DecisionTypes, RuleTypes
<1> QED
  BY <1>1, <1>2, <1>3, PhpAdminTypes, ListTypes DEF Php

LEMMA DotfilesTypes == Dotfiles \in Seq(AllRules)
BY DotfilesVcsTypes, DotfilesSshTypes, DotfilesIdeTypes, DotfilesCloudTypes,
   DotfilesCommonTypes, ListTypes DEF Dotfiles

LEMMA Stage4Types == Stage4 \in Seq(AllRules)
BY WordpressExploitsTypes, WordpressStrikesTypes, ActuatorTypes, LaravelAndWebmailTypes,
   BackupsTypes, SshKeysTypes, CloudKeysTypes, CommonErrorsTypes, PhpTypes, ListTypes
   DEF Stage4

LEMMA RulesForTypes ==
    ASSUME NEW path, NEW status
    PROVE  RulesFor(path, status) \in Seq(AllRules)
<1>1. << >> \in Seq(AllRules)
  OBVIOUS
<1> QED
  BY <1>1, Stage1Types, DotfilesTypes, Stage4Types, ListTypes DEF RulesFor

\* A mark more, and the path is looked at by more rules, not by fewer.
LEMMA RulesForGrows ==
    ASSUME NEW path, NEW less \in SUBSET path, NEW status
    PROVE  Elements(RulesFor(less, status)) \subseteq Elements(RulesFor(path, status))
<1> DEFINE none == << >>
           dots(p) == IF p \cap DotMarks # {} THEN Dotfiles ELSE none
           last == IF status \in {200, 304} THEN none ELSE Stage4
<1>1. none \in Seq(AllRules) /\ Elements(none) = {}
  BY DEF Elements
<1>2. \A p : RulesFor(p, status) = (Stage1 \o dots(p)) \o last
  BY DEF RulesFor
<1>3. Elements(dots(less)) \subseteq Elements(dots(path))
  <2> HIDE DEF none
  <2> QED
    BY <1>1
<1>4. \A p : dots(p) \in Seq(AllRules)
  BY <1>1, DotfilesTypes
<1>5. last \in Seq(AllRules)
  BY <1>1, Stage4Types
<1> HIDE DEF dots, last
<1>6. \A p : Elements(RulesFor(p, status))
             = (Elements(Stage1) \cup Elements(dots(p))) \cup Elements(last)
  <2> TAKE p
  <2>1. Stage1 \o dots(p) \in Seq(AllRules)
    BY <1>4, Stage1Types, ListTypes
  <2>2. Elements((Stage1 \o dots(p)) \o last) = Elements(Stage1 \o dots(p)) \cup Elements(last)
    <3> DEFINE first == Stage1 \o dots(p)
    <3>1. first \in Seq(AllRules)
      BY <2>1
    <3> HIDE DEF first
    <3>2. Elements(first \o last) = Elements(first) \cup Elements(last)
      BY <1>5, <3>1, ElementsOfConcat, Zenon
    <3> QED
      BY <3>2 DEF first
  <2>3. Elements(Stage1 \o dots(p)) = Elements(Stage1) \cup Elements(dots(p))
    BY <1>4, Stage1Types, ElementsOfConcat, Zenon
  <2> QED
    BY <1>2, <2>2, <2>3
<1> QED
  BY <1>3, <1>6

\* The first rule that applies decides, and if none does the request passes.
LEMMA FirstMatchDecides ==
    ASSUME NEW rules \in Seq(AllRules), NEW method, NEW path, NEW status
    PROVE  \/ /\ \A rule \in Elements(rules) : ~Applies(rule, path, status)
              /\ FirstMatch(rules, method, path, status) = Pass
           \/ \E rule \in Elements(rules) :
                /\ Applies(rule, path, status)
                /\ FirstMatch(rules, method, path, status)
                    = IF method \in rule.gentle THEN rule.soft ELSE rule.hard
<1> DEFINE matching == {i \in DOMAIN rules : Applies(rules[i], path, status)}
           first == CHOOSE i \in matching : \A j \in matching : i <= j
           decision == FirstMatch(rules, method, path, status)
<1>1. decision = CASE matching = {} -> Pass
                   [] matching # {} /\ method \in rules[first].gentle -> rules[first].soft
                   [] matching # {} /\ method \notin rules[first].gentle -> rules[first].hard
  BY DEF FirstMatch
<1>2. CASE matching = {}
  <2>1. decision = Pass
    BY <1>1, <1>2
  <2> QED
    BY <1>2, <2>1 DEF Elements
<1>3. CASE matching # {}
  <2>1. matching \in SUBSET Nat
    <3>1. DOMAIN rules \in SUBSET Nat
      OBVIOUS
    <3> QED
      BY <3>1
  <2>2. first \in matching
    <3>1. \E i \in matching : \A j \in matching : i <= j
      <4> HIDE DEF matching
      <4> QED
        BY <1>3, <2>1, LeastNatural
    <3> QED
      BY <3>1, Zenon
  <2> HIDE DEF first
  <2>3. rules[first] \in Elements(rules) /\ Applies(rules[first], path, status)
    BY <2>2 DEF Elements
  <2> HIDE DEF matching
  <2>4. decision = IF method \in rules[first].gentle THEN rules[first].soft ELSE rules[first].hard
    BY <1>1, <1>3
  <2> QED
    BY <2>3, <2>4
<1> QED
  BY <1>2, <1>3

LEMMA ElementsAreRules ==
    ASSUME NEW rules \in Seq(AllRules)
    PROVE  Elements(rules) \in SUBSET AllRules
BY DEF Elements

-----------------------------------------------------------------------------
(* What the rules decide.                                                  *)

\* What inspect_threat decides is one of the decisions, or to let the request pass,
\* and that is never what a strict rule says.
LEMMA InspectTypes ==
    ASSUME NEW method, NEW path, NEW status
    PROVE  InspectThreat(method, path, status) \in Threats \cup {Pass}
<1> DEFINE rules == RulesFor(path, status)
           decision == FirstMatch(rules, method, path, status)
<1>1. rules \in Seq(AllRules)
  BY RulesForTypes
<1>2. decision \in Threats \cup {Pass}
  <2> HIDE DEF rules
  <2>1. CASE decision = Pass
    BY <2>1
  <2>2. CASE \E rule \in Elements(rules) :
                decision = IF method \in rule.gentle THEN rule.soft ELSE rule.hard
    <3>1. PICK rule \in AllRules :
                decision = IF method \in rule.gentle THEN rule.soft ELSE rule.hard
      BY <1>1, <2>2, ElementsAreRules
    <3>2. rule.soft \in Threats \cup {Pass} /\ rule.hard \in Threats \cup {Pass}
      <4>1. CASE rule \in StrictRules
        BY <4>1 DEF StrictRules
      <4>2. CASE rule = ShellRule
        <5>1. rule.soft = Pass /\ rule.hard = Instant("common")
          BY <4>2 DEF ShellRule, Rule
        <5> QED
          BY <5>1, CategoryTypes, DecisionTypes
      <4> QED
        BY <3>1, <4>1, <4>2 DEF AllRules
    <3> HIDE DEF decision
    <3> QED
      BY <3>1, <3>2
  <2> QED
    BY <1>1, <2>1, <2>2, FirstMatchDecides
<1> QED
  BY <1>2 DEF InspectThreat

\* A strike has a threshold and a window that the tracker can hold.
Fits(decision) ==
    decision.kind \in {"shared", "isolated"}
        => decision.threshold \in 1 .. 255 /\ decision.window <= 600

\* Every strike that inspect_threat asks for fits the tracker.
LEMMA DecisionFits ==
    ASSUME NEW method, NEW path, NEW status
    PROVE  Fits(InspectThreat(method, path, status))
<1> DEFINE decision == InspectThreat(method, path, status)
<1>1. decision \in Threats \cup {Pass}
  BY InspectTypes
<1> HIDE DEF decision
<1>2. Fits(decision)
  BY <1>1 DEF Fits, Threats, Pass
<1> QED
  BY <1>2 DEF decision

LEMMA StrikesFit == RulesFitTheTracker
<1> DEFINE r == request.request
           decision == InspectThreat(r.method, r.uri.path, r.status)
           fits(strike) == strike.kind \in {"shared", "isolated", "tool"}
                             => strike.threshold \in 1 .. 255 /\ strike.window <= 600
<1>1. Fits(decision)
  BY DecisionFits, Zenon
<1>2. decision \in Threats \cup {Pass}
  BY InspectTypes, Zenon
<1> HIDE DEF r, decision
<1>3. fits(decision)
  BY <1>1, <1>2 DEF Fits, Threats, Pass
<1>4. fits(ToolStrike) /\ fits(SshStrike)
  BY DEF ToolStrike, SshStrike
<1>5. \A strike \in {decision, ToolStrike, SshStrike} : fits(strike)
  BY <1>3, <1>4
<1> QED
  BY <1>5, Zenon DEF RulesFitTheTracker, r, decision

LEMMA ThreatsDoNotPass == Pass \notin Threats
BY DEF Threats, Pass

\* A request that a rule of its path looks at does not pass, unless the rule is the
\* one of a served shell.
LEMMA MatchedIsNotPassed ==
    ASSUME NEW method, NEW path, NEW status, NEW match \in Elements(RulesFor(path, status)),
           Applies(match, path, status),
           ~ (path \cap ShellEndings # {} /\ status = 200 /\ method \in Safe)
    PROVE  FirstMatch(RulesFor(path, status), method, path, status) # Pass
<1> DEFINE rules == RulesFor(path, status)
           decision == FirstMatch(rules, method, path, status)
<1>1. rules \in Seq(AllRules) /\ match \in Elements(rules)
  BY RulesForTypes
<1> HIDE DEF rules
<1>2. \E rule \in Elements(rules) :
            /\ Applies(rule, path, status)
            /\ decision = IF method \in rule.gentle THEN rule.soft ELSE rule.hard
  BY <1>1, FirstMatchDecides
<1> HIDE DEF decision
<1>3. PICK rule \in AllRules :
            /\ Applies(rule, path, status)
            /\ decision = IF method \in rule.gentle THEN rule.soft ELSE rule.hard
  BY <1>1, <1>2, ElementsAreRules
<1>4. decision # Pass
  <2>1. CASE rule \in StrictRules
    <3>1. rule.soft \in Threats /\ rule.hard \in Threats
      BY <2>1 DEF StrictRules
    <3> QED
      BY <1>3, <3>1, ThreatsDoNotPass
  <2>2. CASE rule = ShellRule
    <3>1. /\ rule.marks = ShellEndings /\ rule.statuses = {200} /\ rule.gentle = Safe
          /\ rule.hard = Instant("common")
      BY <2>2 DEF ShellRule, Rule
    <3>2. method \notin rule.gentle
      BY <1>3, <3>1 DEF Applies
    <3>3. rule.hard \in Threats
      BY <3>1, CategoryTypes, DecisionTypes
    <3> QED
      BY <1>3, <3>2, <3>3, ThreatsDoNotPass
  <2> QED
    BY <1>3, <2>1, <2>2 DEF AllRules
<1> QED
  BY <1>4 DEF decision, rules

\* No other mark of a path hides one that the rules act on.
LEMMA MarksAreNotHidden ==
    ASSUME NEW method, NEW path, NEW status, NEW mark \in path, path = Implied(path),
           ~ (".well-known" \in path /\ status \in 200 .. 399),
           ~ (path \cap ShellEndings # {} /\ status = 200 /\ method \in Safe),
           InspectThreat(method, Implied({mark}), status) # Pass
    PROVE  InspectThreat(method, path, status) # Pass
<1> DEFINE one == Implied({mark})
<1>1. one \in SUBSET path
  BY DEF Implied
<1>2. FirstMatch(RulesFor(one, status), method, one, status) # Pass
  BY DEF InspectThreat
<1> HIDE DEF one
<1>3. PICK rule \in Elements(RulesFor(one, status)) : Applies(rule, one, status)
  BY <1>2, RulesForTypes, FirstMatchDecides
<1>4. rule \in Elements(RulesFor(path, status)) /\ Applies(rule, path, status)
  <2>1. rule \in Elements(RulesFor(path, status))
    BY <1>1, <1>3, RulesForGrows
  <2>2. Applies(rule, path, status)
    BY <1>1, <1>3 DEF Applies
  <2> QED
    BY <2>1, <2>2
<1>5. FirstMatch(RulesFor(path, status), method, path, status) # Pass
  BY <1>4, MatchedIsNotPassed
<1> QED
  BY <1>5 DEF InspectThreat

-----------------------------------------------------------------------------
(* The requests.                                                           *)

Judged(r, reached) ==
    [request |-> r, reached |-> reached, action |-> EvaluateRequest(Pipe, r, reached)]

\* What was judged is a request of the families, and its action is the pipeline's.
RequestInv ==
    \/ request = NoRequest
    \/ \E r \in UNION RequestFamilies, reached \in BOOLEAN : request = Judged(r, reached)

LEMMA RequestInvHolds == Spec => []RequestInv
<1>1. Init => RequestInv
  BY DEF Init, RequestInv
<1>2. RequestInv /\ [Next]_vars => RequestInv'
  <2> SUFFICES ASSUME RequestInv, [Next]_vars PROVE RequestInv'
    OBVIOUS
  <2>1. CASE JudgeRequest
    <3>1. \E r \in UNION RequestFamilies, reached \in BOOLEAN : request' = Judged(r, reached)
      BY <2>1 DEF JudgeRequest, Judged
    <3> QED
      BY <3>1 DEF RequestInv, Judged
  <2>2. CASE UNCHANGED request
    BY <2>2 DEF RequestInv, Judged
  <2>3. JudgeRequest \/ UNCHANGED request
    BY DEF Next, vars, WebStrike, Lapse, SpawnSshWatcher, Connect, Leave, JournalEnds, Line, MarkerLine,
           BannerLine, FailedLine, AcceptedLine, LostLine
  <2> QED
    BY <2>1, <2>2, <2>3
<1> QED
  BY <1>1, <1>2, PTL DEF Spec

\* What the properties of requests say holds whenever RequestInv does.
LEMMA JudgedRequests ==
    ASSUME RequestInv, request # NoRequest
    PROVE  /\ IsRequest(request.request)
           /\ request.action = EvaluateRequest(Pipe, request.request, request.reached)
<1>1. PICK r \in UNION RequestFamilies, reached \in BOOLEAN : request = Judged(r, reached)
  BY DEF RequestInv
<1>2. /\ request.request = r /\ request.reached = reached
      /\ request.action = EvaluateRequest(Pipe, r, reached)
  BY <1>1 DEF Judged
<1>3. IsRequest(r)
  BY RequestsAssumption
<1> QED
  BY <1>2, <1>3

LEMMA ClassifyOne ==
    /\ Classify(<<"other">>) = "browser_or_unknown"
    /\ Classify(<<"generic_tools">>) = "generic_tools"
<1>1. Classify(<<"other">>) = "browser_or_unknown"
  BY DEF Classify
<1>2. Classify(<<"generic_tools">>) = "generic_tools"
  <2> DEFINE agent == <<"generic_tools">>
             first == CHOOSE i \in DOMAIN agent :
                        agent[i] # "other" /\ \A j \in 1 .. i - 1 : agent[j] = "other"
  <2>1. DOMAIN agent = {1} /\ agent[1] = "generic_tools" /\ agent # << >>
    OBVIOUS
  <2> HIDE DEF agent
  <2>2. first = 1
    BY <2>1
  <2>3. Classify(agent) = agent[first]
    BY <2>1 DEF Classify
  <2> QED
    BY <2>1, <2>2, <2>3 DEF agent
<1> QED
  BY <1>1, <1>2

\* The same request with another user agent.
WithAgent(r, agent) ==
    [ip |-> r.ip, asn |-> r.asn, country |-> r.country, exploit |-> r.exploit,
     agent |-> agent, method |-> r.method, status |-> r.status, referer |-> r.referer,
     uri |-> r.uri]

LEMMA OtherAgent ==
    ASSUME NEW r, IsRequest(r), NEW agent
    PROVE  [r EXCEPT !.agent = agent] = WithAgent(r, agent)
BY DEF IsRequest, WithAgent

\* A browser that is banned for what it asks for is banned as a tool.
LEMMA ToolsAreNotMilder ==
    ASSUME NEW r, NEW reached, r.method \notin ScannerMethods, ~ r.referer,
           "browser_or_unknown" \notin Pipe.blocked_categories,
           EvaluateRequest(Pipe, WithAgent(r, <<"other">>), reached).kind = "ban"
    PROVE  EvaluateRequest(Pipe, WithAgent(r, <<"generic_tools">>), reached).kind = "ban"
<1> DEFINE browser == WithAgent(r, <<"other">>)
           tool == WithAgent(r, <<"generic_tools">>)
           seen == InspectThreat(r.method, r.uri.path, r.status)
<1>1. /\ Classify(browser.agent) = "browser_or_unknown"
      /\ Classify(tool.agent) = "generic_tools"
  BY ClassifyOne DEF WithAgent
<1>2. /\ browser.ip = r.ip /\ browser.asn = r.asn /\ browser.country = r.country
      /\ browser.exploit = r.exploit /\ browser.method = r.method /\ browser.status = r.status
      /\ browser.referer = r.referer /\ browser.uri = r.uri
      /\ tool.ip = r.ip /\ tool.asn = r.asn /\ tool.country = r.country
      /\ tool.exploit = r.exploit /\ tool.method = r.method /\ tool.status = r.status
      /\ tool.referer = r.referer /\ tool.uri = r.uri
  BY DEF WithAgent
<1> HIDE DEF browser, tool
<1>3. ASSUME EvaluateProbe(browser, reached).kind = "ban"
      PROVE  /\ EvaluateProbe(tool, reached).kind = "ban"
             /\ EvaluateToolRequest(tool, reached).kind = "ban"
  <2>1. EvaluateProbe(tool, reached) = EvaluateProbe(browser, reached)
    BY <1>2 DEF EvaluateProbe
  <2>2. r.uri.malicious \/ (~ r.uri.allowed /\ seen # Pass)
    BY <1>2, <1>3 DEF EvaluateProbe, ThreatAction, Allow, Ban, Pass
  <2>3. EvaluateToolRequest(tool, reached).kind = "ban"
    BY <1>2, <2>2 DEF EvaluateToolRequest, Ban
  <2> QED
    BY <1>3, <2>1, <2>3
<1>4. ASSUME EvaluateContent(Pipe, browser, reached).kind = "ban"
      PROVE  EvaluateContent(Pipe, tool, reached).kind = "ban"
  <2>1. CASE r.exploit
    BY <1>2, <2>1 DEF EvaluateContent, Ban
  <2>2. CASE ~ r.exploit
    <3>1. EvaluateContent(Pipe, browser, reached) = EvaluateProbe(browser, reached)
      BY <1>1, <1>2, <2>2 DEF EvaluateContent
    <3>2. /\ EvaluateProbe(tool, reached).kind = "ban"
          /\ EvaluateToolRequest(tool, reached).kind = "ban"
      BY <1>3, <1>4, <3>1
    <3> QED
      BY <1>1, <1>2, <2>2, <3>2 DEF EvaluateContent, Ban
  <2> QED
    BY <2>1, <2>2
<1>5. EvaluateRequest(Pipe, browser, reached).kind = "ban"
  BY DEF browser
<1> QED
  BY <1>2, <1>4, <1>5 DEF EvaluateRequest, AsnBlocked, RegionRestricted, Ban, Allow, DropBanned,
     tool

\* inspect_threat tries its rules in order and some of them let a request pass, but
\* none of them hides a mark that alone is banned or struck, for every path, method
\* and status.
THEOREM NothingHidesAThreat == Spec => []NoRuleHidesAThreat
<1>1. RequestInv => NoRuleHidesAThreat
  <2> SUFFICES ASSUME RequestInv, request # NoRequest
               PROVE  NoRuleHidesAThreat
    BY DEF NoRuleHidesAThreat
  <2> DEFINE r == request.request
  <2>1. r.uri.path = Implied(r.uri.path)
    BY JudgedRequests DEF IsRequest
  <2>2. ASSUME NEW mark \in r.uri.path,
               ~ (".well-known" \in r.uri.path /\ r.status \in 200 .. 399),
               ~ (r.uri.path \cap ShellEndings # {} /\ r.status = 200 /\ r.method \in Safe),
               InspectThreat(r.method, Implied({mark}), r.status) # Pass
        PROVE  InspectThreat(r.method, r.uri.path, r.status) # Pass
    <3> HIDE DEF r
    <3> QED
      BY <2>1, <2>2, MarksAreNotHidden
  <2> QED
    BY <2>2 DEF NoRuleHidesAThreat
<1> QED
  BY <1>1, RequestInvHolds, PTL

\* What a browser is banned for a tool is banned for too, whatever the snapshot the
\* pipeline was built with, but for the checks that path does not make.
THEOREM ToolsAreJudgedAsStrictly == Spec => []ToolsAreNotJudgedMilder
<1>1. RequestInv => ToolsAreNotJudgedMilder
  <2> SUFFICES ASSUME RequestInv, request # NoRequest
               PROVE  ToolsAreNotJudgedMilder
    BY DEF ToolsAreNotJudgedMilder
  <2> DEFINE r == request.request
  <2>1. IsRequest(r)
    BY JudgedRequests
  <2>2. /\ [r EXCEPT !.agent = <<"generic_tools">>] = WithAgent(r, <<"generic_tools">>)
        /\ [r EXCEPT !.agent = <<"other">>] = WithAgent(r, <<"other">>)
    <3> HIDE DEF r
    <3> QED
      BY <2>1, OtherAgent
  <2>3. r.method \notin ScannerMethods /\ ~ r.referer
        /\ "browser_or_unknown" \notin Pipe.blocked_categories
        /\ EvaluateRequest(Pipe, WithAgent(r, <<"other">>), request.reached).kind = "ban"
        => EvaluateRequest(Pipe, WithAgent(r, <<"generic_tools">>), request.reached).kind = "ban"
    <3> HIDE DEF r
    <3> QED
      BY ToolsAreNotMilder
  <2> QED
    BY <2>2, <2>3 DEF ToolsAreNotJudgedMilder
<1> QED
  BY <1>1, RequestInvHolds, PTL

\* Every strike, of a rule, of a tool's error or of a failed login, fits the tracker's
\* byte and its sweep.
THEOREM EveryStrikeFits == Spec => []RulesFitTheTracker
BY StrikesFit, PTL

-----------------------------------------------------------------------------
(* sshd's log: types.                                                      *)

Events == {NoEvent} \cup [kind : {"probe", "auth failure"}, ip : Ips, pid : Pids]

\* The types of what the parser and the watcher keep; the table is finite.
SshTypes ==
    /\ source \in {"none", "journal", "file", "ended"}
    /\ connections \in [Pids -> {Idle} \cup Connections]
    /\ connected \in 0 .. MaxConnections
    /\ pending \in SUBSET Pids /\ IsFiniteSet(pending) /\ Cardinality(pending) <= MaxPending
    /\ orphans \in SUBSET Pids /\ banned \in SUBSET Ips
    /\ strikes \in [Ips -> StrikePools] /\ failures \in [Ips -> Nat]
    /\ event \in Events

\* insert_pending keeps the table within its limit.
LEMMA InsertTypes ==
    ASSUME SshTypes, NEW p \in Pids, NEW table \in Insert(p)
    PROVE  /\ table \in SUBSET Pids /\ IsFiniteSet(table) /\ Cardinality(table) <= MaxPending
           /\ table \subseteq pending \cup {p}
<1> USE DetectionAssumption
<1>1. pending \in SUBSET Pids /\ IsFiniteSet(pending) /\ Cardinality(pending) <= MaxPending
      /\ Cardinality(pending) \in Nat
  BY FS_CardinalityType DEF SshTypes
<1>2. CASE p \in pending
  <2>1. table = pending
    BY <1>2 DEF Insert
  <2> QED
    BY <1>1, <2>1
<1>3. CASE p \notin pending /\ Cardinality(pending) >= MaxPending
  <2>1. PICK old \in pending : table = (pending \ {old}) \cup {p}
    BY <1>3 DEF Insert
  <2>2. /\ IsFiniteSet(pending \ {old})
        /\ Cardinality(pending \ {old}) = Cardinality(pending) - 1
    BY <1>1, FS_RemoveElement
  <2>3. p \notin pending \ {old}
    BY <1>3
  <2>4. IsFiniteSet(table) /\ Cardinality(table) = Cardinality(pending \ {old}) + 1
    BY <2>1, <2>2, <2>3, FS_AddElement
  <2> QED
    BY <1>1, <2>1, <2>2, <2>4
<1>4. CASE p \notin pending /\ ~ (Cardinality(pending) >= MaxPending)
  <2>1. table = pending \cup {p}
    BY <1>4 DEF Insert
  <2>2. IsFiniteSet(table) /\ Cardinality(table) = Cardinality(pending) + 1
    BY <1>1, <1>4, <2>1, FS_AddElement
  <2> QED
    BY <1>1, <1>4, <2>1, <2>2
<1> QED
  BY <1>2, <1>3, <1>4

\* Peers that the pipeline does not judge by their lines.
Spared(ip) == KnownClient(Pipe, ip) \/ ip \in Pipe.banned_ips

\* The numbers of a strike of failed logins.
LEMMA SshNumbers ==
    /\ SshStrike.threshold = 5 /\ SshStrike.category = "common"
    /\ MaxCount \in Nat /\ 5 <= MaxCount /\ MaxPending \in Nat \ {0}
BY DetectionAssumption DEF SshStrike

\* One strike more, saturating.
OneMore(count) == IF count < MaxCount THEN count + 1 ELSE MaxCount

\* A strike more leaves a pool with a count, of its category.
LEMMA StruckTypes ==
    ASSUME NEW pool \in StrikePools, NEW category \in {"common", "other"},
           NEW by \in {"ssh", "web"}, NEW n, n = 1 \/ n = OneMore(pool.count)
    PROVE  /\ [category |-> category, last |-> by, count |-> n] \in StrikePools
           /\ n \in Nat /\ n >= 1
<1>1. pool.count \in 0 .. MaxCount
  BY DEF StrikePools
<1>2. n \in 1 .. MaxCount
  BY <1>1, SshNumbers DEF OneMore
<1> QED
  BY <1>2, SshNumbers DEF StrikePools

\* The pool after a failed login goes on with one that is near and its own.
LEMMA SshPoolTypes ==
    ASSUME NEW ip \in Ips, strikes[ip] \in StrikePools
    PROVE  /\ SshPool(ip) \in StrikePools
           /\ SshPool(ip).category = "common" /\ SshPool(ip).last = "ssh"
           /\ SshPool(ip).count \in Nat /\ SshPool(ip).count >= 1
           /\ strikes[ip].last # "none" /\ strikes[ip].category = "common"
                => SshPool(ip).count = OneMore(strikes[ip].count)
<1> DEFINE pool == strikes[ip]
           goesOn == pool.last # "none" /\ pool.category = "common"
           n == IF goesOn THEN OneMore(pool.count) ELSE 1
<1>1. SshPool(ip) = [category |-> "common", last |-> "ssh", count |-> n]
  BY SshNumbers DEF SshPool, Struck, OneMore
<1>2. (n = 1 \/ n = OneMore(pool.count)) /\ (goesOn => n = OneMore(pool.count))
  OBVIOUS
<1> HIDE DEF n
<1>3. /\ [category |-> "common", last |-> "ssh", count |-> n] \in StrikePools
      /\ n \in Nat /\ n >= 1
  BY <1>2, StruckTypes
<1> QED
  BY <1>1, <1>2, <1>3

\* One line more: bans are only added; a probe is banned, a failure counted, and
\* banned when it is one too many.
LEMMA JudgeEffect ==
    ASSUME SshTypes, NEW e \in Events, Judge(e)
    PROVE  /\ event' = e
           /\ strikes' \in [Ips -> StrikePools] /\ banned' \in SUBSET Ips /\ banned \subseteq banned'
           /\ \A ip \in Ips :
                \/ strikes'[ip] = strikes[ip]
                \/ /\ e.kind = "auth failure" /\ e.ip = ip /\ ~ Spared(ip)
                   /\ strikes'[ip] = SshPool(ip)
                   /\ SshPool(ip).count >= 5 => ip \in banned'
           /\ e.kind = "probe" /\ ~ Spared(e.ip) => e.ip \in banned'
           /\ e.kind = "auth failure" /\ ~ Spared(e.ip)
                => /\ strikes'[e.ip] = SshPool(e.ip)
                   /\ SshPool(e.ip).count >= 5 => e.ip \in banned'
<1> DEFINE known == e.kind = "ignore" \/ KnownClient(Pipe, e.ip) \/ e.ip \in Pipe.banned_ips
           counts == ~ known /\ e.kind = "auth failure"
           reached == counts /\ SshPool(e.ip).count >= 5
           action == EvaluateSshEvent(Pipe, e, reached)
<1>1. /\ event' = e
      /\ strikes' = IF ~ counts THEN strikes ELSE [strikes EXCEPT ![e.ip] = SshPool(e.ip)]
      /\ banned' = IF action.kind = "ban" THEN banned \cup {e.ip} ELSE banned
  BY SshNumbers DEF Judge
<1>2. strikes \in [Ips -> StrikePools] /\ banned \in SUBSET Ips
  BY DEF SshTypes
<1>3. CASE e = NoEvent
  <2>1. known /\ ~ counts
    BY <1>3 DEF NoEvent
  <2>2. action.kind = "allow"
    BY <1>3 DEF EvaluateSshEvent, NoEvent, Allow
  <2>3. e.kind = "ignore"
    BY <1>3 DEF NoEvent
  <2>4. strikes' = strikes /\ banned' = banned
    BY <1>1, <2>1, <2>2
  <2> QED
    BY <1>1, <1>2, <2>3, <2>4
<1>4. CASE e \in [kind : {"probe", "auth failure"}, ip : Ips, pid : Pids]
  <2>1. e.kind \in {"probe", "auth failure"} /\ e.ip \in Ips
    BY <1>4
  <2>2. CASE Spared(e.ip)
    <3>1. known /\ ~ counts
      BY <2>2 DEF Spared
    <3>2. action.kind # "ban"
      BY <2>2 DEF Spared, EvaluateSshEvent, Allow, DropBanned
    <3>3. strikes' = strikes /\ banned' = banned
      BY <1>1, <3>1, <3>2
    <3> QED
      BY <1>1, <1>2, <2>2, <3>3
  <2>3. CASE ~ Spared(e.ip) /\ e.kind = "probe"
    <3>1. ~ counts
      BY <2>3
    <3>2. action.kind = "ban"
      BY <2>3 DEF Spared, EvaluateSshEvent, Ban
    <3>3. strikes' = strikes /\ banned' = banned \cup {e.ip}
      BY <1>1, <3>1, <3>2
    <3> QED
      BY <1>1, <1>2, <2>1, <2>3, <3>3
  <2>4. CASE ~ Spared(e.ip) /\ e.kind = "auth failure"
    <3>1. counts
      BY <2>4 DEF Spared
    <3>2. reached => action.kind = "ban"
      BY <2>4 DEF Spared, EvaluateSshEvent, Ban
    <3>3. /\ strikes' = [strikes EXCEPT ![e.ip] = SshPool(e.ip)]
          /\ SshPool(e.ip).count >= 5 => e.ip \in banned'
      BY <1>1, <3>1, <3>2
    <3>4. banned' \in SUBSET Ips /\ banned \subseteq banned'
      BY <1>1, <1>2, <2>1
    <3>5. event' = e
      BY <1>1
    <3> HIDE DEF known, counts, reached, action
    <3>6. SshPool(e.ip) \in StrikePools
      BY <1>2, <2>1, SshPoolTypes
    <3>7. /\ strikes' \in [Ips -> StrikePools] /\ strikes'[e.ip] = SshPool(e.ip)
          /\ \A ip \in Ips : ip # e.ip => strikes'[ip] = strikes[ip]
      <4> DEFINE peer == e.ip
                 pool == SshPool(e.ip)
      <4>1. peer \in Ips /\ pool \in StrikePools /\ strikes' = [strikes EXCEPT ![peer] = pool]
        BY <2>1, <3>3, <3>6
      <4> HIDE DEF peer, pool
      <4>2. /\ strikes' \in [Ips -> StrikePools] /\ strikes'[peer] = pool
            /\ \A ip \in Ips : ip # peer => strikes'[ip] = strikes[ip]
        BY <1>2, <4>1
      <4> QED
        BY <4>2 DEF peer, pool
    <3>8. \A ip \in Ips :
            \/ strikes'[ip] = strikes[ip]
            \/ /\ e.kind = "auth failure" /\ e.ip = ip /\ ~ Spared(ip)
               /\ strikes'[ip] = SshPool(ip)
               /\ SshPool(ip).count >= 5 => ip \in banned'
      BY <2>4, <3>3, <3>7
    <3> QED
      BY <2>4, <3>3, <3>4, <3>5, <3>7, <3>8
  <2> QED
    BY <2>1, <2>2, <2>3, <2>4
<1> QED
  BY <1>3, <1>4 DEF Events

-----------------------------------------------------------------------------
(* sshd's log: the inductive invariant.                                    *)

\* A pending process has sent its marker and nothing after it, or has left.
PendingAreProbes ==
    \A p \in pending :
        \/ connections[p].kind = "probe" /\ connections[p].line = "marker"
        \/ p \in orphans

\* The pool goes on with the failures of the streak, and has at least as many strikes;
\* of every peer that is judged and not banned they are below the threshold.
StreakIsCounted(ip) ==
    /\ failures[ip] < 5
    /\ failures[ip] > 0 => /\ strikes[ip].category = "common" /\ strikes[ip].last # "none"
                          /\ failures[ip] <= strikes[ip].count

FailuresAreCounted ==
    \A ip \in Ips : Spared(ip) \/ ip \in banned \/ StreakIsCounted(ip)

SshInv == SshTypes /\ PendingAreProbes /\ ReadProbesAreBanned /\ FailuresAreCounted

LEMMA InitSshInv == Init => SshInv
<1> SUFFICES ASSUME Init PROVE SshInv
  OBVIOUS
<1> USE DetectionAssumption
<1>1. SshTypes
  <2> NoStrikes \in StrikePools
    BY SshNumbers DEF NoStrikes, StrikePools
  <2>1. pending \in SUBSET Pids /\ IsFiniteSet(pending) /\ Cardinality(pending) <= MaxPending
    BY FS_EmptySet DEF Init
  <2> QED
    BY <2>1 DEF Init, SshTypes, Events
<1>2. PendingAreProbes
  BY DEF Init, PendingAreProbes
<1>3. ReadProbesAreBanned
  BY DEF Init, ReadProbesAreBanned, Idle
<1>4. FailuresAreCounted
  BY DEF Init, FailuresAreCounted, StreakIsCounted
<1> QED
  BY <1>1, <1>2, <1>3, <1>4 DEF SshInv

\* One failure more keeps the pool of a streak going.
LEMMA StreakGrows ==
    ASSUME SshTypes, NEW ip \in Ips, StreakIsCounted(ip)
    PROVE  /\ failures[ip] \in Nat /\ SshPool(ip).count \in Nat
           /\ SshPool(ip).category = "common" /\ SshPool(ip).last # "none"
           /\ failures[ip] + 1 <= SshPool(ip).count
<1> DEFINE pool == strikes[ip]
           struck == SshPool(ip)
<1>1. failures[ip] \in Nat /\ pool \in StrikePools
  BY DEF SshTypes
<1>2. /\ failures[ip] < 5
      /\ failures[ip] > 0
            => pool.category = "common" /\ pool.last # "none" /\ failures[ip] <= pool.count
  BY DEF StreakIsCounted
<1>3. /\ struck.category = "common" /\ struck.last = "ssh"
      /\ struck.count \in Nat /\ struck.count >= 1
      /\ pool.last # "none" /\ pool.category = "common" => struck.count = OneMore(pool.count)
  BY <1>1, SshPoolTypes
<1>4. pool.count \in Nat
  BY <1>1, SshNumbers DEF StrikePools
<1>5. failures[ip] + 1 <= struck.count
  <2> DEFINE n == failures[ip]
             old == pool.count
             new == struck.count
  <2>1. /\ n \in Nat /\ old \in Nat /\ new \in Nat /\ n < 5 /\ new >= 1
        /\ n > 0 => n <= old /\ new = OneMore(old)
    BY <1>1, <1>2, <1>3, <1>4
  <2> HIDE DEF n, old, new
  <2>2. n + 1 <= new
    BY <2>1, SshNumbers DEF OneMore
  <2> QED
    BY <2>2 DEF n, new
<1> QED
  BY <1>1, <1>3, <1>5

\* A request strikes the peer, or time passes: the streak goes on with its pool, or ends.
LEMMA PoolSteps ==
    ASSUME SshInv, NEW ip \in Ips,
           (\E category \in {"common", "other"} : WebStrike(ip, category)) \/ Lapse(ip)
    PROVE  SshInv'
<1>1. strikes \in [Ips -> StrikePools] /\ failures \in [Ips -> Nat]
  BY DEF SshInv, SshTypes
<1>2. UNCHANGED <<source, connections, connected, pending, event, banned, orphans>>
  BY DEF WebStrike, Lapse
<1>3. \E pool \in StrikePools, n \in Nat :
        /\ strikes' = [strikes EXCEPT ![ip] = pool] /\ failures' = [failures EXCEPT ![ip] = n]
        /\ \/ n = 0
           \/ /\ n = failures[ip] /\ pool.category = strikes[ip].category
              /\ pool.last # "none" /\ pool.count >= strikes[ip].count
  <2>1. ASSUME NEW category \in {"common", "other"}, WebStrike(ip, category)
        PROVE  \E pool \in StrikePools, n \in Nat :
                /\ strikes' = [strikes EXCEPT ![ip] = pool]
                /\ failures' = [failures EXCEPT ![ip] = n]
                /\ \/ n = 0
                   \/ /\ n = failures[ip] /\ pool.category = strikes[ip].category
                      /\ pool.last # "none" /\ pool.count >= strikes[ip].count
    <3>1. PICK near \in BOOLEAN :
            /\ strikes' = [strikes EXCEPT ![ip] = Struck(strikes[ip], category, near, "web")]
            /\ failures' = IF near /\ strikes[ip].category = category THEN failures
                           ELSE [failures EXCEPT ![ip] = 0]
      BY <2>1 DEF WebStrike
    <3> DEFINE old == strikes[ip]
               n == IF ~ near \/ old.category # category THEN 1 ELSE OneMore(old.count)
               pool == [category |-> category, last |-> "web", count |-> n]
    <3>2. old \in StrikePools
      BY <1>1
    <3>3. old.count \in 0 .. MaxCount
      BY <3>2 DEF StrikePools
    <3>4. (n = 1 \/ n = OneMore(old.count)) /\ (near /\ old.category = category => n = OneMore(old.count))
      OBVIOUS
    <3>5. strikes' = [strikes EXCEPT ![ip] = pool]
      BY <3>1 DEF Struck, OneMore
    <3> HIDE DEF n, old
    <3>6. pool \in StrikePools
      BY <3>2, <3>4, StruckTypes
    <3>7. CASE near /\ old.category = category
      <4>1. failures' = [failures EXCEPT ![ip] = failures[ip]] /\ failures[ip] \in Nat
        BY <1>1, <3>1, <3>7 DEF old
      <4>2. pool.count >= old.count
        BY <3>3, <3>4, <3>7, SshNumbers DEF OneMore
      <4> QED
        BY <3>5, <3>7, <3>6, <4>1, <4>2 DEF old
    <3>8. CASE ~ (near /\ old.category = category)
      <4>1. failures' = [failures EXCEPT ![ip] = 0]
        BY <3>1, <3>8 DEF old
      <4> QED
        BY <3>5, <3>6, <4>1
    <3> QED
      BY <3>7, <3>8
  <2>2. ASSUME Lapse(ip)
        PROVE  \E pool \in StrikePools :
                /\ strikes' = [strikes EXCEPT ![ip] = pool]
                /\ failures' = [failures EXCEPT ![ip] = 0]
    <3>1. PICK last \in {"none", "web"} : strikes' = [strikes EXCEPT ![ip].last = last]
      BY <1>1, <2>2 DEF Lapse, StrikePools
    <3>2. [strikes[ip] EXCEPT !.last = last] \in StrikePools
      BY <1>1 DEF StrikePools
    <3> QED
      BY <2>2, <3>1, <3>2 DEF Lapse
  <2> QED
    BY <2>1, <2>2
<1>4. PICK pool \in StrikePools, n \in Nat :
        /\ strikes' = [strikes EXCEPT ![ip] = pool] /\ failures' = [failures EXCEPT ![ip] = n]
        /\ \/ n = 0
           \/ /\ n = failures[ip] /\ pool.category = strikes[ip].category
              /\ pool.last # "none" /\ pool.count >= strikes[ip].count
  BY <1>3
<1>5. strikes' \in [Ips -> StrikePools] /\ failures' \in [Ips -> Nat]
  BY <1>1, <1>4
<1>6. SshTypes'
  BY <1>2, <1>5 DEF SshInv, SshTypes
<1>7. PendingAreProbes' /\ ReadProbesAreBanned'
  BY <1>2 DEF SshInv, PendingAreProbes, ReadProbesAreBanned
<1>8. FailuresAreCounted'
  <2> SUFFICES ASSUME NEW other \in Ips, ~ Spared(other), other \notin banned
               PROVE  StreakIsCounted(other)'
    BY <1>2 DEF FailuresAreCounted, Spared
  <2>1. StreakIsCounted(other)
    BY DEF SshInv, FailuresAreCounted
  <2>2. CASE other # ip
    <3>1. strikes'[other] = strikes[other] /\ failures'[other] = failures[other]
      BY <1>1, <1>4, <2>2
    <3> QED
      BY <2>1, <3>1 DEF StreakIsCounted
  <2>3. CASE other = ip
    <3>1. strikes'[ip] = pool /\ failures'[ip] = n
      BY <1>1, <1>4
    <3>2. pool.count \in Nat /\ strikes[ip].count \in Nat
      BY <1>1, SshNumbers DEF StrikePools
    <3> QED
      BY <1>4, <2>1, <2>3, <3>1, <3>2 DEF StreakIsCounted
  <2> QED
    BY <2>2, <2>3
<1> QED
  BY <1>6, <1>7, <1>8 DEF SshInv

\* Steps that no line tells of: a process is started, leaves or loses a line.
LEMMA QuietSteps ==
    ASSUME SshInv, NEW p \in Pids, NEW c \in {Idle} \cup Connections,
           connections' = [connections EXCEPT ![p] = c],
           ~ (c.kind = "probe" /\ c.line = "banner"),
           p \in pending => p \in orphans',
           orphans \subseteq orphans', orphans' \in SUBSET Pids,
           connected' \in 0 .. MaxConnections,
           UNCHANGED <<source, pending, strikes, event, banned, failures>>
    PROVE  SshInv'
<1>1. connections \in [Pids -> {Idle} \cup Connections]
  BY DEF SshInv, SshTypes
<1>2. \A q \in Pids : connections'[q] = IF q = p THEN c ELSE connections[q]
  BY <1>1
<1>3. SshTypes'
  <2>1. connections' \in [Pids -> {Idle} \cup Connections]
    BY <1>1
  <2> QED
    BY <2>1 DEF SshInv, SshTypes
<1>4. PendingAreProbes'
  <2>1. \A q \in pending : q \in Pids
    BY DEF SshInv, SshTypes
  <2> QED
    BY <1>2, <2>1 DEF SshInv, PendingAreProbes
<1>5. ReadProbesAreBanned'
  BY <1>2 DEF SshInv, ReadProbesAreBanned
<1>6. FailuresAreCounted'
  BY DEF SshInv, FailuresAreCounted, StreakIsCounted
<1> QED
  BY <1>3, <1>4, <1>5, <1>6 DEF SshInv

\* The history of failures takes a line of the peer that is judged as e.
Remembers(e, peer) ==
    \/ failures' = failures
    \/ /\ failures' = [failures EXCEPT ![peer] = failures[peer] + 1]
       /\ e.kind \in {"probe", "auth failure"} /\ e.ip = peer

LEMMA RemembersOneFailure ==
    ASSUME failures \in [Ips -> Nat], NEW peer \in Ips, NEW e, Remembers(e, peer)
    PROVE  /\ failures' \in [Ips -> Nat]
           /\ \A ip \in Ips : ip # peer => failures'[ip] = failures[ip]
           /\ failures'[peer] # failures[peer]
                => /\ failures'[peer] = failures[peer] + 1
                   /\ e.kind \in {"probe", "auth failure"} /\ e.ip = peer
<1>1. CASE failures' = failures
  BY <1>1
<1>2. CASE /\ failures' = [failures EXCEPT ![peer] = failures[peer] + 1]
           /\ e.kind \in {"probe", "auth failure"} /\ e.ip = peer
  <2>1. failures[peer] + 1 \in Nat
    OBVIOUS
  <2>2. failures' \in [Ips -> Nat] /\ failures'[peer] = failures[peer] + 1
    BY <1>2, <2>1
  <2>3. \A ip \in Ips : ip # peer => failures'[ip] = failures[ip]
    BY <1>2
  <2> QED
    BY <1>2, <2>2, <2>3
<1> QED
  BY <1>1, <1>2 DEF Remembers

\* A line of a process that is read, and judged as e.
LEMMA ReadSteps ==
    ASSUME SshInv, NEW p \in Pids, NEW c \in Connections, NEW e \in Events,
           connections[p] \in Connections,
           connections' = [connections EXCEPT ![p] = c],
           c.ip = connections[p].ip, Judge(e),
           pending' \in SUBSET Pids, IsFiniteSet(pending'), Cardinality(pending') <= MaxPending,
           pending' \subseteq pending \cup {p},
           p \in pending' => c.kind = "probe" /\ c.line = "marker",
           orphans' = orphans \ {p},
           c.kind = "probe" /\ c.line = "banner" => e.kind = "probe" /\ e.ip = c.ip,
           Remembers(e, c.ip),
           UNCHANGED <<source, connected>>
    PROVE  SshInv'
<1> USE DetectionAssumption
<1>1. connections \in [Pids -> {Idle} \cup Connections]
  BY DEF SshInv, SshTypes
<1>2. \A q \in Pids : connections'[q] = IF q = p THEN c ELSE connections[q]
  BY <1>1
<1>3. SshTypes
  BY DEF SshInv
<1>4. /\ event' = e
      /\ strikes' \in [Ips -> StrikePools] /\ banned' \in SUBSET Ips /\ banned \subseteq banned'
      /\ \A ip \in Ips :
            \/ strikes'[ip] = strikes[ip]
            \/ /\ e.kind = "auth failure" /\ e.ip = ip /\ ~ Spared(ip)
               /\ strikes'[ip] = SshPool(ip)
               /\ SshPool(ip).count >= 5 => ip \in banned'
      /\ e.kind = "probe" /\ ~ Spared(e.ip) => e.ip \in banned'
      /\ e.kind = "auth failure" /\ ~ Spared(e.ip)
            => /\ strikes'[e.ip] = SshPool(e.ip)
               /\ SshPool(e.ip).count >= 5 => e.ip \in banned'
  BY <1>3, JudgeEffect
<1>5. c.ip \in Ips
  BY DEF Connections
<1>6. /\ failures' \in [Ips -> Nat]
      /\ \A ip \in Ips : ip # c.ip => failures'[ip] = failures[ip]
      /\ failures'[c.ip] # failures[c.ip]
            => /\ failures'[c.ip] = failures[c.ip] + 1
               /\ e.kind \in {"probe", "auth failure"} /\ e.ip = c.ip
  BY <1>3, <1>5, RemembersOneFailure DEF SshTypes
<1>7. SshTypes'
  <2>1. connections' \in [Pids -> {Idle} \cup Connections]
    BY <1>1
  <2>2. orphans' \in SUBSET Pids
    BY <1>3 DEF SshTypes
  <2> QED
    BY <1>3, <1>4, <1>6, <2>1, <2>2 DEF SshTypes
<1>8. PendingAreProbes'
  <2>1. SUFFICES ASSUME NEW q \in pending'
                 PROVE  \/ connections'[q].kind = "probe" /\ connections'[q].line = "marker"
                        \/ q \in orphans'
    BY DEF PendingAreProbes
  <2>2. CASE q = p
    BY <1>2, <2>2
  <2>3. CASE q # p
    <3>1. q \in pending /\ q \in Pids /\ connections'[q] = connections[q]
      BY <1>2, <2>3
    <3> QED
      BY <2>3, <3>1 DEF SshInv, PendingAreProbes
  <2> QED
    BY <2>2, <2>3
<1>9. ReadProbesAreBanned'
  <2> SUFFICES ASSUME NEW q \in Pids,
                      connections'[q].kind = "probe", connections'[q].line = "banner"
               PROVE  connections'[q].ip \in banned' \/ Spared(connections'[q].ip)
    BY DEF ReadProbesAreBanned, Spared
  <2>1. CASE q = p
    BY <1>2, <1>4, <2>1
  <2>2. CASE q # p
    <3>1. connections'[q] = connections[q]
      BY <1>2, <2>2
    <3> QED
      BY <1>4, <3>1 DEF SshInv, ReadProbesAreBanned, Spared
  <2> QED
    BY <2>1, <2>2
<1>10. FailuresAreCounted'
  <2> SUFFICES ASSUME NEW ip \in Ips, ~ Spared(ip), ip \notin banned'
               PROVE  StreakIsCounted(ip)'
    BY DEF FailuresAreCounted, Spared
  <2>1. StreakIsCounted(ip)
    BY <1>4 DEF SshInv, FailuresAreCounted
  <2>2. /\ failures[ip] \in Nat /\ SshPool(ip).count \in Nat
        /\ SshPool(ip).category = "common" /\ SshPool(ip).last # "none"
        /\ failures[ip] + 1 <= SshPool(ip).count
    BY <1>3, <2>1, StreakGrows
  <2>3. CASE failures'[ip] = failures[ip]
    <3>1. CASE strikes'[ip] = strikes[ip]
      BY <2>1, <2>3, <3>1 DEF StreakIsCounted
    <3>2. CASE strikes'[ip] # strikes[ip]
      <4>1. strikes'[ip] = SshPool(ip)
        BY <1>4, <3>2
      <4> QED
        BY <2>1, <2>2, <2>3, <4>1 DEF StreakIsCounted
    <3> QED
      BY <3>1, <3>2
  <2>4. CASE failures'[ip] # failures[ip]
    <3>1. ip = c.ip
      BY <1>6, <2>4
    <3>2. /\ failures'[ip] = failures[ip] + 1
          /\ e.kind \in {"probe", "auth failure"} /\ e.ip = ip
      BY <1>6, <2>4, <3>1
    <3> DEFINE pool == SshPool(ip)
    <3>3. strikes'[ip] = pool /\ ~ (pool.count >= 5)
      BY <1>4, <3>2
    <3>4. /\ failures[ip] \in Nat /\ pool.count \in Nat
          /\ pool.category = "common" /\ pool.last # "none" /\ failures[ip] + 1 <= pool.count
      BY <2>2
    <3> HIDE DEF pool
    <3>5. failures'[ip] < 5 /\ failures'[ip] <= pool.count
      <4> DEFINE n == failures[ip]
                 count == pool.count
      <4>1. n \in Nat /\ count \in Nat /\ n + 1 <= count /\ ~ (count >= 5)
        BY <3>3, <3>4
      <4> HIDE DEF n, count
      <4>2. n + 1 < 5 /\ n + 1 <= count
        BY <4>1
      <4>3. failures'[ip] = n + 1
        BY <3>2 DEF n
      <4> QED
        BY <4>2, <4>3 DEF count
    <3> QED
      BY <3>3, <3>4, <3>5 DEF StreakIsCounted
  <2> QED
    BY <2>3, <2>4
<1> QED
  BY <1>7, <1>8, <1>9, <1>10 DEF SshInv

LEMMA LineEvents ==
    ASSUME NEW p \in Pids, NEW ip \in Ips
    PROVE  /\ NoEvent \in Events
           /\ [kind |-> "probe", ip |-> ip, pid |-> p] \in Events
           /\ [kind |-> "auth failure", ip |-> ip, pid |-> p] \in Events
BY DEF Events

\* What a line with an address does to the table, and how it is judged.
LEMMA AddressLines ==
    ASSUME SshTypes, NEW p \in Pids, connections[p] \in Connections,
           NEW own \in Events, AddressLine(p, own)
    PROVE  /\ \E e \in Events :
                /\ Judge(e)
                /\ e = own \/ (e.kind = "probe" /\ e.ip = connections[p].ip)
                /\ e # own => p \in pending
           /\ pending' \in SUBSET Pids /\ IsFiniteSet(pending')
           /\ Cardinality(pending') <= MaxPending
           /\ pending' \subseteq pending /\ p \notin pending'
           /\ orphans' = orphans \ {p}
<1> USE DetectionAssumption
<1>1. pending \in SUBSET Pids /\ IsFiniteSet(pending) /\ Cardinality(pending) <= MaxPending
      /\ Cardinality(pending) \in Nat
  BY FS_CardinalityType DEF SshTypes
<1>2. orphans' = orphans \ {p}
  BY DEF AddressLine
<1>3. CASE p \in pending
  <2> DEFINE e == [kind |-> "probe", ip |-> connections[p].ip, pid |-> p]
  <2>1. pending' = pending \ {p} /\ Judge(e)
    BY <1>3 DEF AddressLine
  <2>2. e \in Events
    BY LineEvents DEF Connections
  <2>3. IsFiniteSet(pending') /\ Cardinality(pending') = Cardinality(pending) - 1
    BY <1>1, <1>3, <2>1, FS_RemoveElement
  <2>4. Cardinality(pending') <= MaxPending
    BY <1>1, <2>3
  <2>5. e.kind = "probe" /\ e.ip = connections[p].ip
    OBVIOUS
  <2> HIDE DEF e
  <2> QED
    BY <1>1, <1>2, <1>3, <2>1, <2>2, <2>3, <2>4, <2>5
<1>4. CASE p \notin pending
  <2>1. pending' = pending /\ Judge(own)
    BY <1>4 DEF AddressLine
  <2> QED
    BY <1>1, <1>2, <1>4, <2>1
<1> QED
  BY <1>3, <1>4

LEMMA MarkerLineKeepsInv ==
    ASSUME SshInv, NEW p \in Pids, connections[p] \in Connections, MarkerLine(p)
    PROVE  SshInv'
<1> DEFINE c == [connections[p] EXCEPT !.line = "marker"]
<1>1. c \in Connections /\ c.ip = connections[p].ip /\ c.kind = connections[p].kind
      /\ c.line = "marker"
  BY DEF Connections
<1>2. connections' = [connections EXCEPT ![p] = c] /\ c.kind = "probe"
  BY <1>1 DEF MarkerLine
<1>3. PICK table \in Insert(p) : pending' = table
  BY DEF MarkerLine
<1>4. /\ pending' \in SUBSET Pids /\ IsFiniteSet(pending') /\ Cardinality(pending') <= MaxPending
      /\ pending' \subseteq pending \cup {p}
  BY <1>3, InsertTypes DEF SshInv
<1>5. Judge(NoEvent) /\ NoEvent \in Events /\ orphans' = orphans \ {p}
      /\ failures' = failures /\ UNCHANGED <<source, connected>>
  BY DEF MarkerLine, Events
<1> HIDE DEF c
<1>6. Remembers(NoEvent, c.ip)
  BY <1>5 DEF Remembers
<1>7. c.line # "banner"
  BY <1>1
<1> QED
  BY <1>1, <1>2, <1>4, <1>5, <1>6, <1>7, ReadSteps

LEMMA BannerLineKeepsInv ==
    ASSUME SshInv, NEW p \in Pids, connections[p] \in Connections, BannerLine(p)
    PROVE  SshInv'
<1> DEFINE c == [connections[p] EXCEPT !.line = "banner"]
           own == [kind |-> "probe", ip |-> connections[p].ip, pid |-> p]
<1>1. c \in Connections /\ c.ip = connections[p].ip
  BY DEF Connections
<1>2. connections' = [connections EXCEPT ![p] = c]
  BY DEF BannerLine
<1>3. own \in Events /\ own.kind = "probe" /\ own.ip = c.ip
  BY <1>1, LineEvents DEF Connections
<1>4. AddressLine(p, own) /\ failures' = failures /\ UNCHANGED <<source, connected>>
  BY DEF BannerLine
<1> HIDE DEF c, own
<1>5. PICK e \in Events : Judge(e) /\ (e = own \/ (e.kind = "probe" /\ e.ip = connections[p].ip))
  BY <1>3, <1>4, AddressLines DEF SshInv
<1>6. /\ pending' \in SUBSET Pids /\ IsFiniteSet(pending') /\ Cardinality(pending') <= MaxPending
      /\ pending' \subseteq pending /\ p \notin pending' /\ orphans' = orphans \ {p}
  BY <1>3, <1>4, AddressLines DEF SshInv
<1>7. e.kind = "probe" /\ e.ip = c.ip
  BY <1>1, <1>3, <1>5
<1>8. Remembers(e, c.ip)
  BY <1>4 DEF Remembers
<1>9. pending' \subseteq pending \cup {p}
  BY <1>6
<1> QED
  BY <1>1, <1>2, <1>4, <1>5, <1>6, <1>7, <1>8, <1>9, ReadSteps

LEMMA FailedLineKeepsInv ==
    ASSUME SshInv, NEW p \in Pids, connections[p] \in Connections, FailedLine(p)
    PROVE  SshInv'
<1> DEFINE c == [connections[p] EXCEPT !.failed = connections[p].failed + 1]
           own == [kind |-> "auth failure", ip |-> connections[p].ip, pid |-> p]
<1>1. c \in Connections /\ c.ip = connections[p].ip /\ c.kind = "login"
  <2>1. connections[p].failed + 1 \in 0 .. MaxFailures
    <3> DEFINE n == connections[p].failed
    <3>1. n \in 0 .. MaxFailures
      BY DEF Connections
    <3>2. n < MaxFailures
      BY DEF FailedLine
    <3> HIDE DEF n
    <3>3. n + 1 \in 0 .. MaxFailures
      BY <3>1, <3>2, DetectionAssumption
    <3> QED
      BY <3>3 DEF n
  <2> QED
    BY <2>1 DEF FailedLine, Connections
<1>2. connections' = [connections EXCEPT ![p] = c]
  BY DEF FailedLine
<1>3. own \in Events /\ own.kind = "auth failure" /\ own.ip = c.ip
  BY <1>1, LineEvents DEF Connections
<1>4. /\ AddressLine(p, own) /\ UNCHANGED <<source, connected>>
      /\ failures' = [failures EXCEPT ![c.ip] = failures[c.ip] + 1]
  BY <1>1 DEF FailedLine
<1> HIDE DEF c, own
<1>5. PICK e \in Events : Judge(e) /\ (e = own \/ (e.kind = "probe" /\ e.ip = connections[p].ip))
  BY <1>3, <1>4, AddressLines DEF SshInv
<1>6. /\ pending' \in SUBSET Pids /\ IsFiniteSet(pending') /\ Cardinality(pending') <= MaxPending
      /\ pending' \subseteq pending /\ p \notin pending' /\ orphans' = orphans \ {p}
  BY <1>3, <1>4, AddressLines DEF SshInv
<1>7. e.kind \in {"probe", "auth failure"} /\ e.ip = c.ip
  BY <1>1, <1>3, <1>5
<1>8. Remembers(e, c.ip)
  BY <1>4, <1>7 DEF Remembers
<1>9. pending' \subseteq pending \cup {p} /\ c.kind # "probe"
  BY <1>1, <1>6
<1> QED
  BY <1>1, <1>2, <1>4, <1>5, <1>6, <1>8, <1>9, ReadSteps

LEMMA AcceptedLineKeepsInv ==
    ASSUME SshInv, NEW p \in Pids, connections[p] \in Connections, AcceptedLine(p)
    PROVE  SshInv'
<1> DEFINE c == [connections[p] EXCEPT !.line = "accepted"]
<1>1. c \in Connections /\ c.ip = connections[p].ip /\ c.kind = "login"
  BY DEF AcceptedLine, Connections
<1>2. connections' = [connections EXCEPT ![p] = c]
  BY DEF AcceptedLine
<1>3. AddressLine(p, NoEvent) /\ failures' = failures /\ UNCHANGED <<source, connected>>
  BY DEF AcceptedLine
<1>4. NoEvent \in Events
  BY DEF Events
<1> HIDE DEF c
<1>5. PICK e \in Events : Judge(e)
  BY <1>3, <1>4, AddressLines DEF SshInv
<1>6. /\ pending' \in SUBSET Pids /\ IsFiniteSet(pending') /\ Cardinality(pending') <= MaxPending
      /\ pending' \subseteq pending /\ p \notin pending' /\ orphans' = orphans \ {p}
  BY <1>3, <1>4, AddressLines DEF SshInv
<1>7. Remembers(e, c.ip)
  BY <1>3 DEF Remembers
<1>8. pending' \subseteq pending \cup {p} /\ c.kind # "probe"
  BY <1>1, <1>6
<1> QED
  BY <1>1, <1>2, <1>3, <1>5, <1>6, <1>7, <1>8, ReadSteps

LEMMA ConnectKeepsInv ==
    ASSUME SshInv, NEW p \in Pids, NEW ip \in Ips, NEW kind \in {"login", "probe"},
           Connect(p, ip, kind)
    PROVE  SshInv'
<1> DEFINE c == [kind |-> kind, ip |-> ip, line |-> "none", failed |-> 0]
<1>1. c \in Connections /\ c.line = "none"
  BY DetectionAssumption DEF Connections
<1>2. connections' = [connections EXCEPT ![p] = c]
  BY DEF Connect
<1>3. connected' \in 0 .. MaxConnections
  <2>1. connected < MaxConnections /\ connected' = connected + 1
    BY DEF Connect
  <2> QED
    BY <2>1, DetectionAssumption DEF SshInv, SshTypes
<1>4. UNCHANGED <<source, pending, strikes, event, banned, failures, orphans>>
  BY DEF Connect
<1>5. p \in pending => p \in orphans
  BY DEF Connect, SshInv, PendingAreProbes, Idle
<1>6. orphans \in SUBSET Pids
  BY DEF SshInv, SshTypes
<1> HIDE DEF c
<1> QED
  BY <1>1, <1>2, <1>3, <1>4, <1>5, <1>6, QuietSteps

\* A process that leaves, or loses a line, leaves its entry behind as an orphan.
LEMMA OrphanedTypes ==
    ASSUME SshInv, NEW p \in Pids
    PROVE  /\ Orphaned(p) \in SUBSET Pids /\ orphans \subseteq Orphaned(p)
           /\ p \in pending => p \in Orphaned(p)
BY DEF SshInv, SshTypes, PendingAreProbes, Orphaned

LEMMA LeaveKeepsInv ==
    ASSUME SshInv, NEW p \in Pids, Leave(p)
    PROVE  SshInv'
<1>1. connections' = [connections EXCEPT ![p] = Idle] /\ orphans' = Orphaned(p)
      /\ UNCHANGED <<source, connected, pending, strikes, event, banned, failures>>
  BY DEF Leave
<1>2. connected' \in 0 .. MaxConnections
  BY <1>1 DEF SshInv, SshTypes
<1>3. Idle.kind # "probe"
  BY DEF Idle
<1> QED
  BY <1>1, <1>2, <1>3, OrphanedTypes, QuietSteps

LEMMA LostLineKeepsInv ==
    ASSUME SshInv, NEW p \in Pids, connections[p] \in Connections, LostLine(p)
    PROVE  SshInv'
<1> DEFINE c == [connections[p] EXCEPT !.line = "lost"]
<1>1. c \in Connections /\ c.line = "lost"
  BY DEF Connections
<1>2. connections' = [connections EXCEPT ![p] = c] /\ orphans' = Orphaned(p)
      /\ UNCHANGED <<source, connected, pending, strikes, event, banned, failures>>
  BY DEF LostLine
<1>3. connected' \in 0 .. MaxConnections
  BY <1>2 DEF SshInv, SshTypes
<1> HIDE DEF c
<1> QED
  BY <1>1, <1>2, <1>3, OrphanedTypes, QuietSteps

LEMMA StepKeepsSshInv == SshInv /\ [Next]_vars => SshInv'
<1> SUFFICES ASSUME SshInv, [Next]_vars PROVE SshInv'
  OBVIOUS
<1>1. CASE UNCHANGED ssh
  <2>1. SshTypes'
    BY <1>1 DEF ssh, SshInv, SshTypes
  <2>2. PendingAreProbes' /\ ReadProbesAreBanned' /\ FailuresAreCounted'
    BY <1>1 DEF ssh, SshInv, PendingAreProbes, ReadProbesAreBanned, FailuresAreCounted,
                StreakIsCounted
  <2> QED
    BY <2>1, <2>2 DEF SshInv
<1>2. CASE SpawnSshWatcher \/ JournalEnds
  <2>1. source' \in {"none", "journal", "file", "ended"}
        /\ UNCHANGED <<connections, connected, pending, strikes, event, banned, failures, orphans>>
    BY <1>2 DEF SpawnSshWatcher, JournalEnds
  <2>2. SshTypes'
    BY <2>1 DEF SshInv, SshTypes
  <2>3. PendingAreProbes' /\ ReadProbesAreBanned' /\ FailuresAreCounted'
    BY <2>1 DEF SshInv, PendingAreProbes, ReadProbesAreBanned, FailuresAreCounted,
                StreakIsCounted
  <2> QED
    BY <2>2, <2>3 DEF SshInv
<1>3. ASSUME NEW p \in Pids, NEW ip \in Ips, NEW kind \in {"login", "probe"}, Connect(p, ip, kind)
      PROVE  SshInv'
  BY <1>3, ConnectKeepsInv
<1>4. ASSUME NEW p \in Pids, Leave(p) PROVE SshInv'
  BY <1>4, LeaveKeepsInv
<1>5. ASSUME NEW p \in Pids, Line(p) PROVE SshInv'
  <2>1. connections[p] \in Connections
    BY <1>5 DEF Line, SshInv, SshTypes
  <2> QED
    BY <1>5, <2>1, MarkerLineKeepsInv, BannerLineKeepsInv, FailedLineKeepsInv,
       AcceptedLineKeepsInv, LostLineKeepsInv DEF Line
<1>6. JudgeRequest => UNCHANGED ssh
  BY DEF JudgeRequest
<1>7. ASSUME NEW ip \in Ips,
             Lapse(ip) \/ \E category \in {"common", "other"} : WebStrike(ip, category)
      PROVE  SshInv'
  BY <1>7, PoolSteps
<1> QED
  BY <1>1, <1>2, <1>3, <1>4, <1>5, <1>6, <1>7 DEF Next, vars

LEMMA SshInvHolds == Spec => []SshInv
BY InitSshInv, StepKeepsSshInv, PTL DEF Spec

-----------------------------------------------------------------------------
(* sshd's log: the theorems.                                               *)

LEMMA ActionKinds ==
    ASSUME NEW r, NEW reached
    PROVE  EvaluateRequest(Pipe, r, reached).kind \in {"allow", "drop banned", "ban"}
<1> DEFINE kinds == {"allow", "drop banned", "ban"}
<1>1. /\ Allow.kind \in kinds /\ DropBanned.kind \in kinds
      /\ \A reason, permanent : Ban(reason, permanent).kind \in kinds
  BY DEF Allow, DropBanned, Ban
<1> HIDE DEF kinds
<1>2. \A decision : ThreatAction(decision, reached).kind \in kinds
  BY <1>1 DEF ThreatAction
<1>3. EvaluateProbe(r, reached).kind \in kinds
  BY <1>1, <1>2 DEF EvaluateProbe
<1>4. EvaluateToolRequest(r, reached).kind \in kinds
  BY <1>1 DEF EvaluateToolRequest
<1>5. EvaluateContent(Pipe, r, reached).kind \in kinds
  BY <1>1, <1>3, <1>4 DEF EvaluateContent
<1>6. EvaluateRequest(Pipe, r, reached).kind \in kinds
  BY <1>1, <1>5 DEF EvaluateRequest
<1> QED
  BY <1>6 DEF kinds

\* Every variable keeps its type, and the parser's table its limit, for any number
\* of processes (insert_pending).
THEOREM DetectionTypes == Spec => []TypeOK
<1>1. RequestInv /\ SshInv => TypeOK
  <2> SUFFICES ASSUME RequestInv, SshInv PROVE TypeOK
    OBVIOUS
  <2>1. request.action.kind \in {"allow", "drop banned", "ban"}
    <3>1. CASE request = NoRequest
      BY <3>1 DEF NoRequest, Allow
    <3>2. CASE request # NoRequest
      BY <3>2, JudgedRequests, ActionKinds
    <3> QED
      BY <3>1, <3>2
  <2>2. event.kind \in {"ignore", "probe", "auth failure"}
    <3>1. event = NoEvent \/ event \in [kind : {"probe", "auth failure"}, ip : Ips, pid : Pids]
      BY DEF SshInv, SshTypes, Events
    <3>2. event = NoEvent => event.kind = "ignore"
      BY DEF NoEvent
    <3> QED
      BY <3>1, <3>2
  <2> QED
    BY <2>1, <2>2 DEF TypeOK, SshInv, SshTypes
<1> QED
  BY <1>1, RequestInvHolds, SshInvHolds, PTL

\* A probe whose address line is read is banned, however full the table was.
THEOREM EveryReadProbeIsBanned == Spec => []ReadProbesAreBanned
<1>1. SshInv => ReadProbesAreBanned
  BY DEF SshInv
<1> QED
  BY <1>1, SshInvHolds, PTL

\* A peer whose streak of failed logins reaches the threshold is banned, whichever of
\* them were read as probes and whatever requests of it strike in between.
THEOREM FailuresReachTheThreshold == Spec => []FailuresAreBanned
<1>1. SshInv => FailuresAreBanned
  <2> SUFFICES ASSUME SshInv, NEW ip \in Ips, failures[ip] >= 5,
                      ip \notin banned, ~ Spared(ip)
               PROVE  FALSE
    BY SshNumbers DEF FailuresAreBanned, Spared
  <2>1. failures[ip] < 5 /\ failures[ip] \in Nat
    BY DEF SshInv, FailuresAreCounted, StreakIsCounted, SshTypes
  <2> QED
    BY <2>1
<1> QED
  BY <1>1, SshInvHolds, PTL

\* Nobody is charged with a probe for another process's line, however ids come back,
\* unless the address line of an earlier process of that id was lost.
THEOREM NobodyIsChargedForAnother == Spec => ChargeNeedsAProbe
<1>1. SshInv /\ [Next]_vars
      => [\A p \in Pids :
            event' # event /\ event'.kind = "probe" /\ event'.pid = p
                => connections[p].kind = "probe" \/ p \in orphans]_vars
  <2> SUFFICES ASSUME SshInv, Next, NEW p \in Pids,
                      event' # event, event'.kind = "probe", event'.pid = p
               PROVE  connections[p].kind = "probe" \/ p \in orphans
    BY DEF vars, ssh
  <2>1. PICK q \in Pids : Line(q)
    BY DEF Next, JudgeRequest, SpawnSshWatcher, JournalEnds, Connect, Leave,
           WebStrike, Lapse, ssh
  <2>2. CASE q \in pending /\ \E own : AddressLine(q, own)
    <3>1. event'.pid = q
      BY <2>2 DEF AddressLine, Judge
    <3> QED
      BY <2>2, <3>1 DEF SshInv, PendingAreProbes
  <2>3. CASE BannerLine(q) /\ q \notin pending
    <3>1. event'.pid = q /\ connections[q].kind = "probe"
      BY <2>3 DEF BannerLine, AddressLine, Judge
    <3> QED
      BY <3>1
  <2>4. CASE MarkerLine(q) \/ LostLine(q)
    BY <2>4 DEF MarkerLine, LostLine, Judge, NoEvent
  <2>5. CASE (FailedLine(q) \/ AcceptedLine(q)) /\ q \notin pending
    <3>1. event'.kind # "probe"
      <4>1. \/ event' = [kind |-> "auth failure", ip |-> connections[q].ip, pid |-> q]
            \/ event' = NoEvent
        BY <2>5 DEF FailedLine, AcceptedLine, AddressLine, Judge
      <4>2. CASE event' = [kind |-> "auth failure", ip |-> connections[q].ip, pid |-> q]
        <5>1. event'.kind = "auth failure"
          BY <4>2
        <5> QED
          BY <5>1
      <4>3. CASE event' = NoEvent
        BY <4>3 DEF NoEvent
      <4> QED
        BY <4>1, <4>2, <4>3
    <3> QED
      BY <3>1
  <2>6. FailedLine(q) \/ AcceptedLine(q) \/ BannerLine(q) => \E own : AddressLine(q, own)
    BY DEF FailedLine, AcceptedLine, BannerLine
  <2> QED
    BY <2>1, <2>2, <2>3, <2>4, <2>5, <2>6 DEF Line
<1> QED
  BY <1>1, SshInvHolds, PTL DEF Spec, ChargeNeedsAProbe
=============================================================================
