----------------------------- MODULE RuleBudget -----------------------------
(***************************************************************************)
(* The expression of the rule at Cloudflare and its budget of characters   *)
(* (src/src/cloudflare/expression.rs).  The text is abstracted to what it  *)
(* names: an expression is a record of the three clauses and stands for    *)
(* its length.  An item of a clause costs its own characters, and one more *)
(* for the space before it.                                                *)
(***************************************************************************)
LOCAL INSTANCE Integers
LOCAL INSTANCE Sequences
LOCAL INSTANCE SequencesExt

CONSTANTS
    LengthOf \* the characters of an ASN, an address, or a region's code

AsnWrapper == 20 \* (ip.src.asnum in {})
IpWrapper == 14  \* (ip.src in {})
RegionWrapper == 49 \* (ip.src.asnum in {} and not ip.src.country in {})
Or == 4          \* the word between two clauses

Saturating(a, b) == IF a > b THEN a - b ELSE 0

\* The length of the items in a row.
AddLength(length, item) == length + LengthOf[item]
Joined(items) == FoldLeft(AddLength, 0, items) + Saturating(Len(items), 1)

\* One round of pack_ips, and of the loop over the ASNs: items are taken in order
\* up to the first that does not fit.
Add(row, item, budget) ==
    IF row.open /\ Joined(Append(row.items, item)) <= budget
    THEN [row EXCEPT !.items = Append(@, item)]
    ELSE [row EXCEPT !.open = FALSE]

Packed(items, budget) ==
    FoldLeft(LAMBDA row, item : Add(row, item, budget), [open |-> TRUE, items |-> <<>>], items).items

\* A region's code is put in quotes.
RegionalLength(asns, regions) == RegionWrapper + Joined(asns) + Joined(regions) + 2 * Len(regions)

\* build_regional_clause: the clause is there as a whole or not at all.
HasRegional(max, asns, regions) ==
    /\ asns # <<>> /\ regions # <<>>
    /\ RegionalLength(asns, regions) <= max

\* build_blocked_asns_clause: from the end of the list.
AsnClause(asns, budget) ==
    IF budget <= AsnWrapper THEN <<>> ELSE Reverse(Packed(Reverse(asns), budget - AsnWrapper))

\* clauses_total_len of the regional clause alone.
RegionalTotal(max, asns, regions) ==
    IF HasRegional(max, asns, regions) THEN RegionalLength(asns, regions) + Or ELSE 0

\* Mutant of Prefix: the words between the clauses are not counted.
PrefixWithoutOr(regional, asns) ==
    regional + (IF asns = <<>> THEN 0 ELSE AsnWrapper + Joined(asns))

\* prefix_static: the clauses before the addresses, each with its "or".
Prefix(regional, asns) ==
    regional + (IF asns = <<>> THEN 0 ELSE AsnWrapper + Joined(asns) + Or)

\* render_expression
Render(max, blocked, restricted, regions, ips) ==
    LET regional == RegionalTotal(max, restricted, regions)
        asns == AsnClause(blocked, Saturating(max, regional))
    IN [restricted |-> IF regional > 0 THEN restricted ELSE <<>>,
        regions |-> IF regional > 0 THEN regions ELSE <<>>,
        asns |-> asns,
        ips |-> Packed(ips, Saturating(max, Prefix(regional, asns) + IpWrapper))]

-----------------------------------------------------------------------------
(* What the rendering is for, stated without it.                           *)

\* The length of an expression's text: its clauses, and an "or" between two.
TextLength(e) ==
    LET Clause(items, length) == IF items = <<>> THEN 0 ELSE length + Or
    IN Saturating(Clause(e.regions, RegionalLength(e.restricted, e.regions))
                    + Clause(e.asns, AsnWrapper + Joined(e.asns))
                    + Clause(e.ips, IpWrapper + Joined(e.ips)), Or)

\* The expression that a budget is best spent on: the regional rule comes first,
\* then as many ASNs as possible, the last ones of the list, then as many
\* addresses as possible, the first ones of theirs.
IsFullest(e, max, blocked, restricted, regions, ips) ==
    LET Empty == [restricted |-> <<>>, regions |-> <<>>, asns |-> <<>>, ips |-> <<>>]
        Region == [Empty EXCEPT !.restricted = restricted, !.regions = regions]
        hasRegion == restricted # <<>> /\ regions # <<>> /\ TextLength(Region) <= max
        first == IF hasRegion THEN Region ELSE Empty
        WithAsns(n) == [first EXCEPT !.asns = SubSeq(blocked, Len(blocked) - n + 1, Len(blocked))]
        asns == CHOOSE n \in 0 .. Len(blocked) :
                    /\ n = 0 \/ TextLength(WithAsns(n)) <= max
                    /\ \A k \in n + 1 .. Len(blocked) : TextLength(WithAsns(k)) > max
        WithIps(n) == [WithAsns(asns) EXCEPT !.ips = SubSeq(ips, 1, n)]
        addresses == CHOOSE n \in 0 .. Len(ips) :
                    /\ n = 0 \/ TextLength(WithIps(n)) <= max
                    /\ \A k \in n + 1 .. Len(ips) : TextLength(WithIps(k)) > max
    IN e = WithIps(addresses)
=============================================================================
