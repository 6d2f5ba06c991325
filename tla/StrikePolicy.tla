---------------------------- MODULE StrikePolicy ----------------------------
(***************************************************************************)
(* What the strike tracker promises the threat pipeline: an address is     *)
(* banned when the streak of its strikes in a pool is as long as the rule  *)
(* asks, where a streak goes on as long as each strike comes within the    *)
(* rule's window after the one before and has its category.  Nothing is    *)
(* forgotten and no counter has a limit here.                              *)
(***************************************************************************)
EXTENDS Naturals

CONSTANTS
    Ips,    \* the addresses
    Rules,  \* the calls the pipeline makes: [pool, cat, threshold, window]
    Times   \* the instants of the clock

VARIABLES
    streak,  \* the latest streak of each address in each pool
    verdict  \* the latest strike, and whether it means a ban

Pools == {rule.pool : rule \in Rules}

NoStreak == [length |-> 0, last |-> 0, cat |-> 0]

\* Does a strike by `rule` at time `at` belong to streak s?
Continues(s, rule, at) ==
    /\ s.length > 0
    /\ s.cat = rule.cat
    /\ at <= s.last + rule.window

Extended(s, rule, at) ==
    IF Continues(s, rule, at)
    THEN [s EXCEPT !.length = @ + 1, !.last = at]
    ELSE [length |-> 1, last |-> at, cat |-> rule.cat]

NoVerdict == [banned |-> FALSE]

Init ==
    /\ streak = [ip \in Ips |-> [pool \in Pools |-> NoStreak]]
    /\ verdict = NoVerdict

Strike(ip, rule, at) ==
    /\ streak' = [streak EXCEPT ![ip][rule.pool] = Extended(@, rule, at)]
    /\ verdict' = [ip |-> ip, rule |-> rule, at |-> at,
                   banned |-> streak'[ip][rule.pool].length >= rule.threshold]

Next == \E ip \in Ips, rule \in Rules, at \in Times : Strike(ip, rule, at)

Spec == Init /\ [][Next]_<<streak, verdict>>
=============================================================================
