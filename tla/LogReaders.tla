----------------------------- MODULE LogReaders -----------------------------
(***************************************************************************)
(* What the registry and the watchers of a log promise together: the log   *)
(* grows piece by piece, and one watcher at most is in charge of it.  It    *)
(* judges what was written, each piece once and in order.  When another    *)
(* one takes its place it was told to stop, and may judge some more before *)
(* it does; a watcher that was never in charge judges nothing.  A watcher   *)
(* that took one file for another is confused: it may repeat itself.       *)
(***************************************************************************)
EXTENDS Naturals, Sequences

CONSTANTS
    Watchers,  \* the watchers the registry may start
    Nobody,    \* is in charge when no watcher is
    Last       \* the bound of the log

VARIABLES
    written,   \* how many pieces the log has
    holder,    \* the watcher in charge
    retired,   \* the watchers that were told to stop
    confused,  \* those that took one file for another
    judged     \* what each watcher gave to the pipeline

vars == <<written, holder, retired, confused, judged>>

Init ==
    /\ written = 0
    /\ holder = Nobody
    /\ retired = {}
    /\ confused = {}
    /\ judged = [t \in Watchers |-> <<>>]

Write ==
    /\ written < Last
    /\ written' = written + 1
    /\ UNCHANGED <<holder, retired, confused, judged>>

\* A watcher that was never in charge takes over; the one before it must go.
Hire(t) ==
    /\ t \notin retired \cup {holder}
    /\ judged[t] = <<>>
    /\ holder' = t
    /\ retired' = retired \cup ({holder} \ {Nobody})
    /\ UNCHANGED <<written, confused, judged>>

Dismiss ==
    /\ holder # Nobody
    /\ holder' = Nobody
    /\ retired' = retired \cup {holder}
    /\ UNCHANGED <<written, confused, judged>>

Judge(t) ==
    /\ t \in retired \cup {holder}
    /\ judged' = [judged EXCEPT ![t] = judged'[t]]
    /\ Len(judged'[t]) > Len(judged[t])
    /\ \A k \in DOMAIN judged[t] : judged'[t][k] = judged[t][k]
    /\ \A k \in DOMAIN judged'[t] \ DOMAIN judged[t] : judged'[t][k] \in 1 .. written
    /\ t \notin confused =>
        \A i, k \in DOMAIN judged'[t] : i < k => judged'[t][i] < judged'[t][k]
    /\ UNCHANGED <<written, holder, retired, confused>>

Confuse(t) ==
    /\ t \in retired \cup {holder}
    /\ confused' = confused \cup {t}
    /\ UNCHANGED <<written, holder, retired, judged>>

Next ==
    \/ Write \/ Dismiss
    \/ \E t \in Watchers : Hire(t) \/ Judge(t) \/ Confuse(t)

Spec == Init /\ [][Next]_vars
=============================================================================
