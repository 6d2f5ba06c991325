----------------------------- MODULE EdgeMirror -----------------------------
(***************************************************************************)
(* What the Cloudflare synchronisation promises: the rule is a copy of the *)
(* store.  A copy is made list by list and then put in place, so the store *)
(* may change while it is made: it may be behind when it arrives, and torn *)
(* between two contents.  But every list in it was read after the copy     *)
(* before it was put, and whoever changes the store makes another copy     *)
(* due, which makes good what was torn.  A copy that failed is not made up *)
(* for.                                                                    *)
(***************************************************************************)
EXTENDS Naturals

CONSTANTS
    ListCount,  \* the number of lists
    Last,       \* the bound of the versions of a list
    Other       \* a version that no list has

VARIABLES
    source,  \* the version of each list of the store, a number that grows
    copy,    \* the copies at Cloudflare: none, or one
    draft,   \* the next copy: the lists read so far
    taken,   \* how many lists are read
    due,     \* will the store be read again, from the first list on?
    failed   \* was a copy, or an expiry, not made good?

vars == <<source, copy, draft, taken, due, failed>>

Lists == 1 .. ListCount
Nothing == [l \in Lists |-> Other]

Init ==
    /\ source = [l \in Lists |-> 0]
    /\ copy \in {{}, {Nothing}}
    /\ draft = Nothing
    /\ taken = 0
    /\ due = TRUE
    /\ failed = FALSE

\* A list changes, and a copy is due; or the last one does by itself, as a ban expires.
Change ==
    /\ \E l \in Lists :
          /\ source[l] < Last
          /\ source' = [source EXCEPT ![l] = @ + 1]
          /\ \/ due' = TRUE /\ failed' = failed
             \/ l = ListCount /\ due' = due /\ failed' = TRUE
    /\ UNCHANGED <<copy, draft, taken>>

\* The first list is read because a copy is due; more changes may be announced already.
Begins ==
    IF taken = 0 THEN due /\ due' \in BOOLEAN ELSE due' = due

\* The next list is read.  A copy that has them all makes good the failures before it.
Take ==
    /\ taken < ListCount
    /\ Begins
    /\ taken' = taken + 1
    /\ draft' = [draft EXCEPT ![taken'] = source[taken']]
    /\ failed' = IF taken' = ListCount THEN \E l \in Lists : draft'[l] = Other ELSE failed
    /\ UNCHANGED <<source, copy>>

\* It cannot be read: the copy is made without it.
TakeFails ==
    /\ taken < ListCount - 1
    /\ Begins
    /\ taken' = taken + 1
    /\ failed' = TRUE
    /\ UNCHANGED <<source, copy, draft>>

Clear == draft' = Nothing /\ taken' = 0

\* What was read takes the place of the copy, although the reply may be lost.
Put ==
    /\ taken = ListCount
    /\ copy' = {draft}
    /\ Clear
    /\ failed' \in {failed, TRUE}
    /\ UNCHANGED <<source, due>>

\* It does not, or it cannot be recorded.
Drop ==
    /\ Clear
    /\ failed' = TRUE
    /\ UNCHANGED <<source, copy, due>>

\* The daemon starts again, and with a copy.
Restart ==
    /\ Clear
    /\ due' = TRUE
    /\ UNCHANGED <<source, copy, failed>>

Next == Change \/ Take \/ TakeFails \/ Put \/ Drop \/ Restart

Spec == Init /\ [][Next]_vars

-----------------------------------------------------------------------------
\* The copy is that of the store, or a later one will be: the one that is being made agrees
\* with the store so far, or another is due, unless a failure was not made good.
CopyFollows ==
    \/ due \/ failed
    \/ IF taken = 0 THEN copy = {source}
                    ELSE \A l \in 1 .. taken : draft[l] = source[l]

\* A copy of an earlier version of a list never takes the place of a later one.
NeverBack ==
    \A old \in copy, new \in copy', l \in Lists :
        old[l] # Other /\ new[l] # Other => old[l] <= new[l]
=============================================================================
