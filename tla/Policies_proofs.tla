-------------------------- MODULE Policies_proofs --------------------------
(***************************************************************************)
(* Proofs about Policies: what starts, commands and edits of the file do   *)
(* to the tables, the pipeline's snapshot and the rule at Cloudflare, for  *)
(* any configurations, any items and any number of steps.                  *)
(***************************************************************************)
EXTENDS Policies, Lemmas
LOCAL INSTANCE SequencesExt
LOCAL INSTANCE FiniteSetsExt

-----------------------------------------------------------------------------
(* Items, and what is done to the tables.                                  *)

\* The table an item belongs to, and what it names there.
LEMMA ItemTypes ==
    ASSUME NEW item \in Items
    PROVE  /\ item = <<item[1], item[2]>>
           /\ \/ item[1] = "whitelist" /\ item[2] \in HostSet \cup Nets
              \/ item[1] = "categories" /\ item[2] \in Names
              \/ item[1] = "blocked_asns" /\ item[2] \in AsnSet
              \/ item[1] = "allowed_regions" /\ item[2] \in RegionSet
BY DEF Items

LEMMA CategoryItems ==
    ASSUME NEW n \in Names
    PROVE  /\ <<"categories", n>> \in Items
           /\ <<"categories", n>>[1] = "categories" /\ <<"categories", n>>[2] = n
BY DEF Items

\* Copying a configuration in: tables grow by what it holds, and a category is
\* blocked by it only if nobody decided on it.
LEMMA SyncEffect ==
    ASSUME NEW s \in Stores, NEW c \in Configs
    PROVE  /\ Sync(s, c) \in Stores
           /\ Sync(s, c).whitelist = s.whitelist \cup c.whitelist
           /\ Sync(s, c).blocked_asns = s.blocked_asns \cup c.blocked_asns
           /\ Sync(s, c).restricted_asns = s.restricted_asns \cup c.restricted_asns
           /\ Sync(s, c).allowed_regions = s.allowed_regions \cup c.allowed_regions
           /\ Sync(s, c).bans = s.bans
           /\ \A n \in Names :
                Sync(s, c).categories[n]
                    = IF s.categories[n] = "unset" /\ n \in c.categories
                      THEN "blocked" ELSE s.categories[n]
<1>1. c \in [whitelist : SUBSET (HostSet \cup Nets), categories : SUBSET Names,
             blocked_asns : SUBSET AsnSet, restricted_asns : SUBSET AsnSet,
             allowed_regions : SUBSET RegionSet, max_rule_chars : Nat]
  BY PoliciesAssumption
<1> DEFINE categories == [n \in Names |-> IF s.categories[n] = "unset" /\ n \in c.categories
                                          THEN "blocked" ELSE s.categories[n]]
<1>2. categories \in [Names -> {"unset", "blocked", "open"}]
  BY DEF Stores
<1>3. \A n \in Names : categories[n] = IF s.categories[n] = "unset" /\ n \in c.categories
                                       THEN "blocked" ELSE s.categories[n]
  OBVIOUS
<1>4. Sync(s, c) = [s EXCEPT !.whitelist = s.whitelist \cup c.whitelist,
                             !.categories = categories,
                             !.blocked_asns = s.blocked_asns \cup c.blocked_asns,
                             !.restricted_asns = s.restricted_asns \cup c.restricted_asns,
                             !.allowed_regions = s.allowed_regions \cup c.allowed_regions]
  BY Zenon DEF Sync
<1> HIDE DEF categories
<1>5. Sync(s, c) = [whitelist |-> s.whitelist \cup c.whitelist, categories |-> categories,
                    blocked_asns |-> s.blocked_asns \cup c.blocked_asns,
                    restricted_asns |-> s.restricted_asns \cup c.restricted_asns,
                    allowed_regions |-> s.allowed_regions \cup c.allowed_regions,
                    bans |-> s.bans]
  BY <1>4 DEF Stores
<1> QED
  BY <1>1, <1>2, <1>3, <1>5 DEF Stores

\* A command on an item.
LEMMA ExecuteEffect ==
    ASSUME NEW s \in Stores, NEW item \in Items, NEW add \in BOOLEAN
    PROVE  /\ Execute(s, item, add) \in Stores
           /\ IsIn(Execute(s, item, add), item) <=> add
           /\ \A other \in Items \ {item} :
                IsIn(Execute(s, item, add), other) <=> IsIn(s, other)
           /\ \A n \in Names :
                Execute(s, item, add).categories[n]
                    = IF item # <<"categories", n>> THEN s.categories[n]
                      ELSE IF add THEN "blocked" ELSE "open"
           /\ Execute(s, item, add).restricted_asns = s.restricted_asns
           /\ Execute(s, item, add).bans = s.bans
           /\ ~ Notifies(item)
                => /\ Execute(s, item, add).blocked_asns = s.blocked_asns
                   /\ Execute(s, item, add).allowed_regions = s.allowed_regions
<1> DEFINE after == Execute(s, item, add)
           word == IF add THEN "blocked" ELSE "open"
<1>1. s.categories \in [Names -> {"unset", "blocked", "open"}]
  BY DEF Stores
<1>2. CASE item[1] = "categories"
  <2>1. item[2] \in Names /\ item = <<"categories", item[2]>>
    BY <1>2, ItemTypes
  <2> DEFINE categories == [s.categories EXCEPT ![item[2]] = word]
  <2>2. /\ categories \in [Names -> {"unset", "blocked", "open"}]
        /\ \A n \in Names : categories[n] = IF n = item[2] THEN word ELSE s.categories[n]
    BY <1>1
  <2>3. after = [whitelist |-> s.whitelist, categories |-> categories,
                 blocked_asns |-> s.blocked_asns, restricted_asns |-> s.restricted_asns,
                 allowed_regions |-> s.allowed_regions, bans |-> s.bans]
    BY <1>2 DEF Execute, Stores
  <2> HIDE DEF categories, after
  <2>4. after \in Stores
    BY <2>2, <2>3 DEF Stores
  <2>5. /\ after.whitelist = s.whitelist /\ after.blocked_asns = s.blocked_asns
        /\ after.restricted_asns = s.restricted_asns
        /\ after.allowed_regions = s.allowed_regions
        /\ after.bans = s.bans /\ after.categories = categories
    BY <2>3
  <2>6. IsIn(after, item) <=> add
    BY <1>2, <2>1, <2>2, <2>5 DEF IsIn
  <2>7. \A other \in Items \ {item} : IsIn(after, other) <=> IsIn(s, other)
    <3> SUFFICES ASSUME NEW other \in Items, other # item
                 PROVE  IsIn(after, other) <=> IsIn(s, other)
      OBVIOUS
    <3>1. CASE other[1] = "categories"
      <4>1. other[2] \in Names /\ other[2] # item[2]
        BY <2>1, <3>1, ItemTypes
      <4> QED
        BY <2>2, <2>5, <3>1, <4>1 DEF IsIn
    <3>2. CASE other[1] # "categories"
      BY <2>5, <3>2, ItemTypes DEF IsIn
    <3> QED
      BY <3>1, <3>2
  <2>8. \A n \in Names : after.categories[n]
            = IF item # <<"categories", n>> THEN s.categories[n] ELSE word
    BY <2>1, <2>2, <2>5
  <2> QED
    BY <2>4, <2>5, <2>6, <2>7, <2>8 DEF after
<1>3. ASSUME NEW table \in {"whitelist", "blocked_asns", "allowed_regions"}, item[1] = table
      PROVE  /\ after \in Stores
             /\ after[table] = IF add THEN s[table] \cup {item[2]} ELSE s[table] \ {item[2]}
             /\ \A other \in {"whitelist", "blocked_asns", "allowed_regions", "restricted_asns",
                              "categories", "bans"} \ {table} : after[other] = s[other]
  <2>1. after = [s EXCEPT ![table] = IF add THEN s[table] \cup {item[2]}
                                     ELSE s[table] \ {item[2]}]
    BY <1>3 DEF Execute
  <2>2. CASE table = "whitelist"
    BY <1>3, <2>1, <2>2, ItemTypes DEF Stores
  <2>3. CASE table = "blocked_asns"
    BY <1>3, <2>1, <2>3, ItemTypes DEF Stores
  <2>4. CASE table = "allowed_regions"
    BY <1>3, <2>1, <2>4, ItemTypes DEF Stores
  <2> QED
    BY <2>2, <2>3, <2>4
<1>4. CASE item[1] \in {"whitelist", "blocked_asns", "allowed_regions"}
  <2> DEFINE table == item[1]
  <2>1. /\ after \in Stores
        /\ after[table] = IF add THEN s[table] \cup {item[2]} ELSE s[table] \ {item[2]}
        /\ \A other \in {"whitelist", "blocked_asns", "allowed_regions", "restricted_asns",
                         "categories", "bans"} \ {table} : after[other] = s[other]
    BY <1>3, <1>4
  <2>2. item = <<table, item[2]>>
    BY ItemTypes
  <2> HIDE DEF after
  <2>3. IsIn(after, item) <=> add
    BY <1>4, <2>1 DEF IsIn
  <2>4. \A other \in Items \ {item} : IsIn(after, other) <=> IsIn(s, other)
    <3> SUFFICES ASSUME NEW other \in Items, other # item
                 PROVE  IsIn(after, other) <=> IsIn(s, other)
      OBVIOUS
    <3>1. other[1] = table => other[2] # item[2]
      BY <2>2, ItemTypes
    <3>2. CASE other[1] = table
      BY <1>4, <2>1, <3>1, <3>2 DEF IsIn
    <3>3. CASE other[1] # table
      <4>1. after[other[1]] = s[other[1]]
        BY <2>1, <3>3, ItemTypes
      <4> QED
        BY <4>1 DEF IsIn
    <3> QED
      BY <3>2, <3>3
  <2>5. \A n \in Names : after.categories[n] = s.categories[n] /\ item # <<"categories", n>>
    BY <1>4, <2>1
  <2>6. ~ Notifies(item) => /\ after.blocked_asns = s.blocked_asns
                            /\ after.allowed_regions = s.allowed_regions
    BY <1>4, <2>1 DEF Notifies
  <2>7. after.restricted_asns = s.restricted_asns /\ after.bans = s.bans
    BY <1>4, <2>1
  <2> QED
    BY <2>1, <2>3, <2>4, <2>5, <2>6, <2>7 DEF after
<1> QED
  BY <1>2, <1>4, ItemTypes

-----------------------------------------------------------------------------
(* The inductive invariant.                                                *)

\* A category is open in the store exactly if an operator opened it last: only so
\* a start cannot block it again, and whatever else is configured gets blocked.
OpenedByOperators ==
    \A n \in Names : store.categories[n] = "open" <=> wanted[<<"categories", n>>] = "out"

PolicyInv ==
    /\ TypeOK
    /\ OpenedByOperators
    /\ OperatorsDecide
    /\ ConfigReachesThePipeline
    /\ EdgeFollowsPolicies

\* What SyncEffect means for items: what is in stays in, and what no configuration
\* holds is not put in.
LEMMA SyncItems ==
    ASSUME NEW s \in Stores, NEW c \in Configs, NEW item \in Items
    PROVE  /\ IsIn(s, item) => IsIn(Sync(s, c), item)
           /\ item[2] \notin c[item[1]] /\ ~ IsIn(s, item) => ~ IsIn(Sync(s, c), item)
           /\ \A n \in Names : Sync(s, c).categories[n] = "open" <=> s.categories[n] = "open"
<1>1. CASE item[1] = "categories"
  BY <1>1, SyncEffect, ItemTypes DEF IsIn
<1>2. CASE item[1] = "whitelist"
  BY <1>2, SyncEffect DEF IsIn
<1>3. CASE item[1] = "blocked_asns"
  BY <1>3, SyncEffect DEF IsIn
<1>4. CASE item[1] = "allowed_regions"
  BY <1>4, SyncEffect DEF IsIn
<1>5. \A n \in Names : Sync(s, c).categories[n] = "open" <=> s.categories[n] = "open"
  BY SyncEffect
<1> QED
  BY <1>1, <1>2, <1>3, <1>4, <1>5, ItemTypes

\* What OpenedByOperators and OperatorsDecide say of the store, of any tables.
DecidedIn(s) ==
    /\ \A n \in Names : s.categories[n] = "open" <=> wanted[<<"categories", n>>] = "out"
    /\ \A item \in Items :
        /\ wanted[item] = "in" => IsIn(s, item)
        /\ wanted[item] = "out" /\ item[1] = "categories" => ~ IsIn(s, item)
        /\ wanted[item] # "in" /\ (\A c \in Configs : item[2] \notin c[item[1]])
            => ~ IsIn(s, item)

LEMMA DecidedInStore == OpenedByOperators /\ OperatorsDecide <=> DecidedIn(store)
BY DEF OpenedByOperators, OperatorsDecide, DecidedIn

\* It survives a copy of the configuration.
LEMMA SyncDecides ==
    ASSUME NEW s \in Stores, config \in Configs, DecidedIn(s)
    PROVE  Sync(s, config) \in Stores /\ DecidedIn(Sync(s, config))
<1> DEFINE after == Sync(s, config)
<1>1. after \in Stores
  BY SyncEffect
<1>2. ASSUME NEW n \in Names
      PROVE  after.categories[n] = "open" <=> wanted[<<"categories", n>>] = "out"
  <2>1. s.categories[n] = "open" <=> wanted[<<"categories", n>>] = "out"
    BY DEF DecidedIn
  <2>2. after.categories[n] = "open" <=> s.categories[n] = "open"
    BY SyncEffect
  <2> QED
    BY <2>1, <2>2
<1>3. ASSUME NEW item \in Items
      PROVE  /\ wanted[item] = "in" => IsIn(after, item)
             /\ wanted[item] = "out" /\ item[1] = "categories" => ~ IsIn(after, item)
             /\ wanted[item] # "in" /\ (\A c \in Configs : item[2] \notin c[item[1]])
                => ~ IsIn(after, item)
  <2>1. /\ wanted[item] = "in" => IsIn(s, item)
        /\ wanted[item] # "in" /\ (\A c \in Configs : item[2] \notin c[item[1]])
            => ~ IsIn(s, item)
    BY DEF DecidedIn
  <2>2. /\ IsIn(s, item) => IsIn(after, item)
        /\ item[2] \notin config[item[1]] /\ ~ IsIn(s, item) => ~ IsIn(after, item)
    BY SyncItems
  <2>3. wanted[item] = "out" /\ item[1] = "categories" => ~ IsIn(after, item)
    <3> SUFFICES ASSUME wanted[item] = "out", item[1] = "categories"
                 PROVE  after.categories[item[2]] # "blocked"
      BY DEF IsIn
    <3>1. item = <<"categories", item[2]>> /\ item[2] \in Names
      BY ItemTypes
    <3>2. after.categories[item[2]] = "open"
      BY <1>2, <3>1
    <3> QED
      BY <3>2
  <2> HIDE DEF after
  <2> QED
    BY <2>1, <2>2, <2>3
<1> HIDE DEF after
<1>4. after \in Stores /\ DecidedIn(after)
  BY <1>1, <1>2, <1>3 DEF DecidedIn
<1> QED
  BY <1>4 DEF after

\* It survives a command, after a copy or not.
LEMMA ExecuteDecides ==
    ASSUME NEW s \in Stores, wanted \in [Items -> {"nothing", "in", "out"}],
           NEW item \in Items, NEW add \in BOOLEAN,
           DecidedIn(s), store' = Execute(s, item, add),
           wanted' = [wanted EXCEPT ![item] = IF add THEN "in" ELSE "out"]
    PROVE  /\ store' \in Stores /\ wanted' \in [Items -> {"nothing", "in", "out"}]
           /\ OpenedByOperators' /\ OperatorsDecide'
<1>1. store' \in Stores
  BY ExecuteEffect
<1>2. /\ wanted' \in [Items -> {"nothing", "in", "out"}]
      /\ \A i \in Items : wanted'[i] = IF i = item THEN IF add THEN "in" ELSE "out" ELSE wanted[i]
  OBVIOUS
<1>3. OpenedByOperators'
  <2> SUFFICES ASSUME NEW n \in Names
               PROVE  store'.categories[n] = "open" <=> wanted'[<<"categories", n>>] = "out"
    BY DEF OpenedByOperators
  <2>1. <<"categories", n>> \in Items
    BY CategoryItems
  <2>2. store'.categories[n] = IF item # <<"categories", n>> THEN s.categories[n]
                               ELSE IF add THEN "blocked" ELSE "open"
    BY ExecuteEffect
  <2>3. s.categories[n] = "open" <=> wanted[<<"categories", n>>] = "out"
    BY DEF DecidedIn
  <2> QED
    BY <1>2, <2>1, <2>2, <2>3
<1>4. OperatorsDecide'
  <2> SUFFICES ASSUME NEW i \in Items
               PROVE  /\ wanted'[i] = "in" => IsIn(store', i)
                      /\ wanted'[i] = "out" /\ i[1] = "categories" => ~ IsIn(store', i)
                      /\ wanted'[i] # "in" /\ (\A c \in Configs : i[2] \notin c[i[1]])
                            => ~ IsIn(store', i)
    BY DEF OperatorsDecide
  <2>1. CASE i = item
    <3>1. IsIn(store', item) <=> add
      BY ExecuteEffect
    <3>2. wanted'[item] = IF add THEN "in" ELSE "out"
      BY <1>2
    <3> QED
      BY <2>1, <3>1, <3>2
  <2>2. CASE i # item
    <3>1. IsIn(store', i) <=> IsIn(s, i)
      BY <2>2, ExecuteEffect
    <3>2. wanted'[i] = wanted[i]
      BY <1>2, <2>2
    <3> QED
      BY <3>1, <3>2 DEF DecidedIn
  <2> QED
    BY <2>1, <2>2
<1> QED
  BY <1>1, <1>2, <1>3, <1>4

-----------------------------------------------------------------------------
(* The loops of the renderer and of the reading of tables.                 *)

\* Max of a set of positions.
LEMMA MaxOfRange ==
    ASSUME NEW n \in Nat, NEW s \in SUBSET (1 .. n), s # {}
    PROVE  Max(s) \in s /\ \A i \in s : i <= Max(s)
<1>1. PICK m \in s : \A i \in s : i <= m
  BY GreatestOfRange
<1>2. \A i \in s : m >= i
  BY <1>1
<1>3. Max(s) \in s /\ \A i \in s : Max(s) >= i
  BY <1>2, Zenon DEF Max
<1> QED
  BY <1>3

\* The length of the items in a row, one by one.
LengthStages(h, D, base, ds) ==
    /\ h[0] = base /\ h[Len(ds)] = FoldLeft(AddLength, base, ds)
    /\ \A k \in 1 .. Len(ds) : h[k - 1] \in D /\ h[k] = AddLength(h[k - 1], ds[k])

LEMMA LengthFold ==
    ASSUME NEW E, NEW ds \in Seq(E), NEW D, NEW base \in D,
           \A found \in D, i \in 1 .. Len(ds) : AddLength(found, ds[i]) \in D
    PROVE  \E h \in [0 .. Len(ds) -> D] : LengthStages(h, D, base, ds)
<1> DEFINE n == Len(ds)
           F == [p \in D \X (1 .. n) |-> AddLength(p[1], ds[p[2]])]
           C == [s \in SUBSET (1 .. n) |-> Max(s)]
           Rounds(f) == [s \in SUBSET (DOMAIN ds) |->
                            IF s = {} THEN base ELSE AddLength(f[s \ {Max(s)}], ds[Max(s)])]
           iter == CHOOSE f : f = Rounds(f)
<1>1. n \in Nat /\ DOMAIN ds = 1 .. n
  OBVIOUS
<1>2. FoldLeft(AddLength, base, ds) = iter[1 .. n]
  BY <1>1 DEF FoldLeft, MapThenFoldSet
<1>3. F \in [D \X (1 .. n) -> D] /\ \A d \in D, k \in 1 .. n : F[<<d, k>>] = AddLength(d, ds[k])
  OBVIOUS
<1>4. TakesLast(C, n) /\ \A s \in SUBSET (1 .. n) : s # {} => C[s] = Max(s) /\ C[s] \in 1 .. n
  BY <1>1, MaxOfRange DEF TakesLast
<1> HIDE DEF F, C
<1>5. ASSUME NEW f, NEW s \in SUBSET (1 .. n), s # {}, f[s \ {C[s]}] \in D
      PROVE  AddLength(f[s \ {Max(s)}], ds[Max(s)]) = F[<<f[s \ {C[s]}], C[s]>>]
  BY <1>3, <1>4, <1>5
<1>6. iter = Rounds(iter)
  <2>1. \E g \in [SUBSET (1 .. n) -> D] : FoldsUpTo(g, n, base, F, C)
    <3> HIDE DEF n
    <3> QED
      BY <1>1, <1>3, <1>4, FoldExists
  <2>2. PICK g \in [SUBSET (1 .. n) -> D] : \A s \in SUBSET (1 .. n) :
            g[s] = IF s = {} THEN base ELSE F[<<g[s \ {C[s]}], C[s]>>]
    BY <2>1 DEF FoldsUpTo
  <2>3. ASSUME NEW s \in SUBSET (1 .. n)
        PROVE  g[s] = IF s = {} THEN base ELSE AddLength(g[s \ {Max(s)}], ds[Max(s)])
    <3>1. g[s \ {C[s]}] \in D
      BY <2>2
    <3> QED
      BY <1>5, <2>2, <3>1
  <2>4. g = Rounds(g)
    BY <1>1, <2>2, <2>3
  <2> QED
    <3> HIDE DEF Rounds
    <3> QED
      BY <2>4
<1> HIDE DEF iter
<1>7. \A s \in SUBSET (1 .. n) :
        iter[s] = IF s = {} THEN base ELSE AddLength(iter[s \ {Max(s)}], ds[Max(s)])
  BY <1>1, <1>6
<1>8. iter[{}] = base
  BY <1>7
<1>9. GoesOn(iter, n, base, D, F, C)
  BY <1>5, <1>7, <1>8 DEF GoesOn
<1>10. PICK h \in [0 .. n -> D] : AreStages(h, iter, n, base, D, F)
  <2>1. n \in Nat /\ F \in [D \X (1 .. n) -> D] /\ TakesLast(C, n)
    BY <1>1, <1>3, <1>4
  <2> HIDE DEF n
  <2> QED
    BY <1>9, <2>1, FoldStages
<1> QED
  BY <1>2, <1>3, <1>10 DEF AreStages, LengthStages

\* What pack_ips takes of the items, one by one.
RowStages(h, D, base, ds, budget) ==
    /\ h[0] = base /\ h[Len(ds)] = FoldLeft(LAMBDA row, item : Add(row, item, budget), base, ds)
    /\ \A k \in 1 .. Len(ds) : h[k - 1] \in D /\ h[k] = Add(h[k - 1], ds[k], budget)

LEMMA RowFold ==
    ASSUME NEW E, NEW ds \in Seq(E), NEW D, NEW base \in D, NEW budget,
           \A found \in D, i \in 1 .. Len(ds) : Add(found, ds[i], budget) \in D
    PROVE  \E h \in [0 .. Len(ds) -> D] : RowStages(h, D, base, ds, budget)
<1> DEFINE n == Len(ds)
           F == [p \in D \X (1 .. n) |-> Add(p[1], ds[p[2]], budget)]
           C == [s \in SUBSET (1 .. n) |-> Max(s)]
           Rounds(f) == [s \in SUBSET (DOMAIN ds) |->
                            IF s = {} THEN base ELSE Add(f[s \ {Max(s)}], ds[Max(s)], budget)]
           iter == CHOOSE f : f = Rounds(f)
<1>1. n \in Nat /\ DOMAIN ds = 1 .. n
  OBVIOUS
<1>2. FoldLeft(LAMBDA row, item : Add(row, item, budget), base, ds) = iter[1 .. n]
  BY <1>1 DEF FoldLeft, MapThenFoldSet
<1>3. F \in [D \X (1 .. n) -> D] /\ \A d \in D, k \in 1 .. n : F[<<d, k>>] = Add(d, ds[k], budget)
  OBVIOUS
<1>4. TakesLast(C, n) /\ \A s \in SUBSET (1 .. n) : s # {} => C[s] = Max(s) /\ C[s] \in 1 .. n
  BY <1>1, MaxOfRange DEF TakesLast
<1> HIDE DEF F, C
<1>5. ASSUME NEW f, NEW s \in SUBSET (1 .. n), s # {}, f[s \ {C[s]}] \in D
      PROVE  Add(f[s \ {Max(s)}], ds[Max(s)], budget) = F[<<f[s \ {C[s]}], C[s]>>]
  BY <1>3, <1>4, <1>5
<1>6. iter = Rounds(iter)
  <2>1. \E g \in [SUBSET (1 .. n) -> D] : FoldsUpTo(g, n, base, F, C)
    <3> HIDE DEF n
    <3> QED
      BY <1>1, <1>3, <1>4, FoldExists
  <2>2. PICK g \in [SUBSET (1 .. n) -> D] : \A s \in SUBSET (1 .. n) :
            g[s] = IF s = {} THEN base ELSE F[<<g[s \ {C[s]}], C[s]>>]
    BY <2>1 DEF FoldsUpTo
  <2>3. ASSUME NEW s \in SUBSET (1 .. n)
        PROVE  g[s] = IF s = {} THEN base ELSE Add(g[s \ {Max(s)}], ds[Max(s)], budget)
    <3>1. g[s \ {C[s]}] \in D
      BY <2>2
    <3> QED
      BY <1>5, <2>2, <3>1
  <2>4. g = Rounds(g)
    BY <1>1, <2>2, <2>3
  <2> QED
    <3> HIDE DEF Rounds
    <3> QED
      BY <2>4
<1> HIDE DEF iter
<1>7. \A s \in SUBSET (1 .. n) :
        iter[s] = IF s = {} THEN base ELSE Add(iter[s \ {Max(s)}], ds[Max(s)], budget)
  BY <1>1, <1>6
<1>8. iter[{}] = base
  BY <1>7
<1>9. GoesOn(iter, n, base, D, F, C)
  BY <1>5, <1>7, <1>8 DEF GoesOn
<1>10. PICK h \in [0 .. n -> D] : AreStages(h, iter, n, base, D, F)
  <2>1. n \in Nat /\ F \in [D \X (1 .. n) -> D] /\ TakesLast(C, n)
    BY <1>1, <1>3, <1>4
  <2> HIDE DEF n
  <2> QED
    BY <1>9, <2>1, FoldStages
<1> QED
  BY <1>2, <1>3, <1>10 DEF AreStages, RowStages

\* The keys of a table in order, one by one.
OrderStages(h, D, base, ds, table) ==
    /\ h[0] = base /\ h[Len(ds)] = FoldLeft(LAMBDA row, k : AddKey(row, k, table), base, ds)
    /\ \A k \in 1 .. Len(ds) : h[k - 1] \in D /\ h[k] = AddKey(h[k - 1], ds[k], table)

LEMMA OrderFold ==
    ASSUME NEW E, NEW ds \in Seq(E), NEW D, NEW base \in D, NEW table,
           \A found \in D, i \in 1 .. Len(ds) : AddKey(found, ds[i], table) \in D
    PROVE  \E h \in [0 .. Len(ds) -> D] : OrderStages(h, D, base, ds, table)
<1> DEFINE n == Len(ds)
           F == [p \in D \X (1 .. n) |-> AddKey(p[1], ds[p[2]], table)]
           C == [s \in SUBSET (1 .. n) |-> Max(s)]
           Rounds(f) == [s \in SUBSET (DOMAIN ds) |->
                            IF s = {} THEN base ELSE AddKey(f[s \ {Max(s)}], ds[Max(s)], table)]
           iter == CHOOSE f : f = Rounds(f)
<1>1. n \in Nat /\ DOMAIN ds = 1 .. n
  OBVIOUS
<1>2. FoldLeft(LAMBDA row, k : AddKey(row, k, table), base, ds) = iter[1 .. n]
  BY <1>1 DEF FoldLeft, MapThenFoldSet
<1>3. F \in [D \X (1 .. n) -> D] /\ \A d \in D, k \in 1 .. n : F[<<d, k>>] = AddKey(d, ds[k], table)
  OBVIOUS
<1>4. TakesLast(C, n) /\ \A s \in SUBSET (1 .. n) : s # {} => C[s] = Max(s) /\ C[s] \in 1 .. n
  BY <1>1, MaxOfRange DEF TakesLast
<1> HIDE DEF F, C
<1>5. ASSUME NEW f, NEW s \in SUBSET (1 .. n), s # {}, f[s \ {C[s]}] \in D
      PROVE  AddKey(f[s \ {Max(s)}], ds[Max(s)], table) = F[<<f[s \ {C[s]}], C[s]>>]
  BY <1>3, <1>4, <1>5
<1>6. iter = Rounds(iter)
  <2>1. \E g \in [SUBSET (1 .. n) -> D] : FoldsUpTo(g, n, base, F, C)
    <3> HIDE DEF n
    <3> QED
      BY <1>1, <1>3, <1>4, FoldExists
  <2>2. PICK g \in [SUBSET (1 .. n) -> D] : \A s \in SUBSET (1 .. n) :
            g[s] = IF s = {} THEN base ELSE F[<<g[s \ {C[s]}], C[s]>>]
    BY <2>1 DEF FoldsUpTo
  <2>3. ASSUME NEW s \in SUBSET (1 .. n)
        PROVE  g[s] = IF s = {} THEN base ELSE AddKey(g[s \ {Max(s)}], ds[Max(s)], table)
    <3>1. g[s \ {C[s]}] \in D
      BY <2>2
    <3> QED
      BY <1>5, <2>2, <3>1
  <2>4. g = Rounds(g)
    BY <1>1, <2>2, <2>3
  <2> QED
    <3> HIDE DEF Rounds
    <3> QED
      BY <2>4
<1> HIDE DEF iter
<1>7. \A s \in SUBSET (1 .. n) :
        iter[s] = IF s = {} THEN base ELSE AddKey(iter[s \ {Max(s)}], ds[Max(s)], table)
  BY <1>1, <1>6
<1>8. iter[{}] = base
  BY <1>7
<1>9. GoesOn(iter, n, base, D, F, C)
  BY <1>5, <1>7, <1>8 DEF GoesOn
<1>10. PICK h \in [0 .. n -> D] : AreStages(h, iter, n, base, D, F)
  <2>1. n \in Nat /\ F \in [D \X (1 .. n) -> D] /\ TakesLast(C, n)
    BY <1>1, <1>3, <1>4
  <2> HIDE DEF n
  <2> QED
    BY <1>9, <2>1, FoldStages
<1> QED
  BY <1>2, <1>3, <1>10 DEF AreStages, OrderStages


-----------------------------------------------------------------------------
(* The lengths of rows.                                                    *)

\* The length of the items without the spaces.
Total(s) == FoldLeft(AddLength, 0, s)

\* Items of E have a length.
HaveLengths(E) == \A e \in E : LengthOf[e] \in Nat

\* h adds up the lengths of the first items.
SumsOf(h, s) ==
    /\ h[0] = 0
    /\ \A k \in 1 .. Len(s) : h[k - 1] \in Nat /\ h[k] = h[k - 1] + LengthOf[s[k]]

\* The first sums exist, and the last one is what the fold computes.
LEMMA SumsExist ==
    ASSUME NEW E, NEW s \in Seq(E), HaveLengths(E)
    PROVE  \E h \in [0 .. Len(s) -> Nat] : SumsOf(h, s) /\ h[Len(s)] = Total(s)
<1>1. \A found \in Nat, i \in 1 .. Len(s) : AddLength(found, s[i]) \in Nat
  BY DEF HaveLengths, AddLength
<1>2. PICK h \in [0 .. Len(s) -> Nat] : LengthStages(h, Nat, 0, s)
  BY <1>1, LengthFold
<1> QED
  BY <1>2 DEF LengthStages, SumsOf, Total, AddLength

\* Sums are unique.
LEMMA SumsAgree ==
    ASSUME NEW E, NEW s \in Seq(E), HaveLengths(E), NEW g, SumsOf(g, s)
    PROVE  g[Len(s)] = Total(s)
<1> DEFINE n == Len(s)
<1>1. n \in Nat
  OBVIOUS
<1>2. PICK h \in [0 .. n -> Nat] : SumsOf(h, s) /\ h[n] = Total(s)
  BY SumsExist
<1> DEFINE good == {k \in 0 .. n : g[k] = h[k]}
<1>3. 0 \in good
  BY <1>1, <1>2 DEF SumsOf
<1>4. ASSUME NEW k \in 1 .. n, k - 1 \in good PROVE k \in good
  BY <1>1, <1>2, <1>4 DEF SumsOf
<1>5. n \in good
  <2> HIDE DEF n, good
  <2> QED
    BY <1>1, <1>3, <1>4, UpTo
<1> QED
  BY <1>2, <1>5

\* Sums grow.
LEMMA SumsGrow ==
    ASSUME NEW E, NEW s \in Seq(E), HaveLengths(E),
           NEW h \in [0 .. Len(s) -> Nat], SumsOf(h, s),
           NEW b \in 0 .. Len(s), NEW a \in 0 .. b
    PROVE  h[a] <= h[b]
<1> DEFINE n == Len(s)
           good == {d \in 0 .. b : a + d <= b => h[a] <= h[a + d]}
<1>1. n \in Nat /\ \A k \in 1 .. n : LengthOf[s[k]] \in Nat
  BY DEF HaveLengths
<1>2. 0 \in good
  <2>1. a + 0 = a /\ a \in 0 .. n
    BY <1>1
  <2>2. h[a] \in Nat
    BY <2>1
  <2> QED
    BY <1>1, <2>1, <2>2
<1>3. ASSUME NEW d \in 1 .. b, d - 1 \in good PROVE d \in good
  <2>1. SUFFICES ASSUME a + d <= b PROVE h[a] <= h[a + d]
    BY <1>1
  <2>2. a + (d - 1) = (a + d) - 1 /\ a + d \in 1 .. n /\ (a + d) - 1 \in 0 .. n /\ a \in 0 .. n
    BY <1>1, <2>1
  <2>3. h[a] <= h[(a + d) - 1]
    BY <1>1, <1>3, <2>1, <2>2
  <2>4. h[a + d] = h[(a + d) - 1] + LengthOf[s[a + d]]
    BY <2>2 DEF SumsOf
  <2>5. LengthOf[s[a + d]] \in Nat /\ h[(a + d) - 1] \in Nat /\ h[a] \in Nat
    BY <1>1, <2>2
  <2> QED
    BY <2>3, <2>4, <2>5
<1>4. b \in good
  <2>1. b \in Nat
    BY <1>1
  <2> HIDE DEF good
  <2> QED
    BY <1>2, <1>3, <2>1, UpTo
<1>5. b - a \in 0 .. b
  BY <1>1
<1>6. b - a \in good
  <2> DEFINE m == b - a
  <2>1. m \in Nat /\ \A d \in 1 .. m : d \in 1 .. b
    BY <1>1
  <2> HIDE DEF good, m
  <2>2. m \in good
    BY <1>2, <1>3, <2>1, UpTo
  <2> QED
    BY <2>2 DEF m
<1> QED
  BY <1>1, <1>5, <1>6

\* The total of a part of a row.
LEMMA TotalOfPart ==
    ASSUME NEW E, NEW s \in Seq(E), HaveLengths(E),
           NEW h \in [0 .. Len(s) -> Nat], SumsOf(h, s),
           NEW b \in 0 .. Len(s), NEW a \in 0 .. b
    PROVE  Total(SubSeq(s, a + 1, b)) = h[b] - h[a]
<1> DEFINE n == Len(s)
           part == SubSeq(s, a + 1, b)
           g == [i \in 0 .. b - a |-> h[a + i] - h[a]]
<1>1. n \in Nat /\ \A k \in 1 .. n : LengthOf[s[k]] \in Nat
  BY DEF HaveLengths
<1>2. part \in Seq(E) /\ Len(part) = b - a /\ \A i \in 1 .. b - a : part[i] = s[a + i]
  OBVIOUS
<1>3. b - a \in Nat /\ a + (b - a) = b /\ a + 0 = a /\ a \in 0 .. n
  BY <1>1
<1>4. ASSUME NEW i \in 0 .. b - a PROVE a + i \in 0 .. n /\ h[a + i] - h[a] \in Nat
  <2> DEFINE c == a + i
  <2>1. c \in 0 .. n /\ a \in 0 .. c
    BY <1>1
  <2>2. h[c] \in Nat /\ h[a] \in Nat
    BY <1>3, <2>1
  <2> HIDE DEF c
  <2>3. h[a] <= h[c]
    BY <2>1, SumsGrow
  <2>4. c \in 0 .. n /\ h[c] - h[a] \in Nat
    BY <2>1, <2>2, <2>3
  <2> QED
    BY <2>4 DEF c
<1> HIDE DEF part
<1>5. SumsOf(g, part)
  <2>1. g[0] = 0
    <3>1. h[a] \in Nat
      BY <1>3
    <3> QED
      BY <1>3, <3>1
  <2>2. ASSUME NEW k \in 1 .. b - a
        PROVE  g[k - 1] \in Nat /\ g[k] = g[k - 1] + LengthOf[part[k]]
    <3>1. k \in 0 .. b - a /\ k - 1 \in 0 .. b - a /\ a + k \in 1 .. n /\ a + (k - 1) = (a + k) - 1
      BY <1>1, <1>3
    <3>2. h[a + k] = h[a + (k - 1)] + LengthOf[s[a + k]]
      BY <3>1 DEF SumsOf
    <3>3. g[k] = h[a + k] - h[a] /\ g[k - 1] = h[a + (k - 1)] - h[a] /\ g[k - 1] \in Nat
      BY <1>4, <3>1
    <3>4. h[a] \in Nat /\ h[a + (k - 1)] \in Nat /\ LengthOf[s[a + k]] \in Nat
      BY <1>1, <1>3, <1>4, <3>1
    <3>5. part[k] = s[a + k]
      BY <1>2
    <3>6. h[a + k] - h[a] = (h[a + (k - 1)] - h[a]) + LengthOf[s[a + k]]
      BY ONLY <3>2, <3>4
    <3> HIDE DEF g
    <3> QED
      BY ONLY <3>3, <3>5, <3>6
  <2> QED
    BY <1>2, <2>1, <2>2 DEF SumsOf
<1>6. g[b - a] = h[b] - h[a]
  BY <1>3
<1> HIDE DEF g
<1>7. g[Len(part)] = Total(part)
  BY <1>2, <1>5, SumsAgree
<1> QED
  BY <1>2, <1>6, <1>7 DEF part

\* The total of a reversed row's first items is that of the row's last ones.
LEMMA SumsOfReverse ==
    ASSUME NEW E, NEW s \in Seq(E), HaveLengths(E),
           NEW h \in [0 .. Len(s) -> Nat], SumsOf(h, s),
           NEW k \in 0 .. Len(s)
    PROVE  Total(SubSeq(Reverse(s), 1, k)) = h[Len(s)] - h[Len(s) - k]
<1> DEFINE n == Len(s)
           r == Reverse(s)
           g == [i \in 0 .. n |-> h[n] - h[n - i]]
<1>1. n \in Nat /\ \A i \in 1 .. n : LengthOf[s[i]] \in Nat
  BY DEF HaveLengths
<1>2. r \in Seq(E) /\ Len(r) = n /\ \A i \in 1 .. n : r[i] = s[(n - i) + 1]
  BY DEF Reverse
<1> HIDE DEF r
<1>3. ASSUME NEW i \in 0 .. n PROVE n - i \in 0 .. n /\ h[n - i] \in Nat /\ h[n] - h[n - i] \in Nat
  <2> DEFINE c == n - i
  <2>1. c \in 0 .. n /\ c \in 0 .. n /\ n \in 0 .. n
    BY <1>1
  <2>2. h[c] \in Nat /\ h[n] \in Nat
    BY <2>1
  <2> HIDE DEF c
  <2>3. h[c] <= h[n]
    BY <2>1, SumsGrow
  <2>4. c \in 0 .. n /\ h[c] \in Nat /\ h[n] - h[c] \in Nat
    BY <2>1, <2>2, <2>3
  <2> QED
    BY <2>4 DEF c
<1>4. g \in [0 .. n -> Nat]
  BY <1>3
<1>5. g[0] = 0
  <2>1. 0 \in 0 .. n /\ n - 0 = n /\ h[n] \in Nat
    BY <1>1
  <2> QED
    BY <2>1
<1>6. ASSUME NEW i \in 1 .. n
      PROVE  g[i - 1] \in Nat /\ g[i] = g[i - 1] + LengthOf[r[i]]
  <2> DEFINE c == (n - i) + 1
  <2>1. i \in 0 .. n /\ i - 1 \in 0 .. n /\ c \in 1 .. n /\ n - (i - 1) = c /\ n - i = c - 1
    BY <1>1
  <2>2. g[i] = h[n] - h[c - 1] /\ g[i - 1] = h[n] - h[c]
    BY <2>1
  <2>3. c \in 0 .. n /\ c - 1 \in 0 .. n /\ n \in 0 .. n
    BY <1>1, <2>1
  <2>4. h[c - 1] \in Nat /\ h[n] \in Nat /\ h[c] \in Nat
    BY <2>3
  <2>5. LengthOf[s[c]] \in Nat
    BY <1>1, <2>1
  <2>6. h[c] = h[c - 1] + LengthOf[s[c]]
    BY <2>1 DEF SumsOf
  <2>7. r[i] = s[c]
    BY <1>2
  <2>8. g[i - 1] \in Nat
    BY <1>4, <2>1
  <2>9. g[i] = g[i - 1] + LengthOf[s[c]]
    <3> HIDE DEF g, c
    <3> QED
      BY <2>2, <2>4, <2>5, <2>6
  <2> QED
    <3> HIDE DEF g, c
    <3> QED
      BY <2>7, <2>8, <2>9
<1>7. SumsOf(g, r)
  BY <1>2, <1>5, <1>6 DEF SumsOf
<1>8. g[k] = h[n] - h[n - k] /\ g[k] \in Nat
  BY <1>4
<1> HIDE DEF g
<1>9. Total(SubSeq(r, 0 + 1, k)) = g[k] - g[0]
  <2>1. k \in 0 .. Len(r) /\ 0 \in 0 .. k /\ g \in [0 .. Len(r) -> Nat]
    BY <1>1, <1>2, <1>4
  <2> QED
    BY <1>2, <1>7, <2>1, TotalOfPart
<1> QED
  BY <1>5, <1>8, <1>9 DEF r


\* Items have a length, and it is not nothing.
HaveSizes(E) == \A e \in E : LengthOf[e] \in Nat \ {0}

\* The length of a row grows with every item.
LEMMA JoinedGrows ==
    ASSUME NEW E, NEW s \in Seq(E), HaveSizes(E), NEW k \in 0 .. Len(s), NEW j \in 0 .. k
    PROVE  /\ Joined(SubSeq(s, 1, j)) \in Nat
           /\ Joined(SubSeq(s, 1, k)) \in Nat
           /\ Joined(SubSeq(s, 1, j)) <= Joined(SubSeq(s, 1, k))
           /\ j > 0 => Joined(SubSeq(s, 1, j)) >= 1
<1> DEFINE n == Len(s)
<1>1. n \in Nat /\ \A i \in 1 .. n : LengthOf[s[i]] \in Nat \ {0}
  BY DEF HaveSizes
<1>2. HaveLengths(E)
  BY DEF HaveSizes, HaveLengths
<1>3. PICK h \in [0 .. n -> Nat] : SumsOf(h, s)
  BY <1>2, SumsExist
<1>4. ASSUME NEW i \in 0 .. n
      PROVE  /\ h[i] \in Nat
             /\ Joined(SubSeq(s, 1, i)) = h[i] + (IF i > 1 THEN i - 1 ELSE 0)
  <2>1. i \in 0 .. Len(s) /\ 0 \in 0 .. i /\ 0 + 1 = 1
    BY <1>1
  <2>2. Total(SubSeq(s, 0 + 1, i)) = h[i] - h[0]
    BY <1>2, <1>3, <2>1, TotalOfPart
  <2>3. h[0] = 0 /\ h[i] \in Nat
    BY <1>3 DEF SumsOf
  <2>4. Total(SubSeq(s, 1, i)) = h[i]
    BY <2>1, <2>2, <2>3
  <2>5. Len(SubSeq(s, 1, i)) = i
    BY <2>1
  <2> QED
    BY <2>3, <2>4, <2>5 DEF Joined, Total, Saturating
<1>5. j \in 0 .. n /\ k \in 0 .. n /\ j \in Nat /\ k \in Nat /\ j <= k
  BY <1>1
<1>6. h[j] <= h[k]
  BY <1>2, <1>3, SumsGrow
<1>7. j > 0 => h[j] >= 1
  <2> SUFFICES ASSUME j > 0 PROVE h[j] >= 1
    OBVIOUS
  <2>1. j \in 1 .. n /\ j - 1 \in 0 .. n
    BY <1>5
  <2>2. h[j] = h[j - 1] + LengthOf[s[j]]
    BY <1>3, <2>1 DEF SumsOf
  <2>3. h[j - 1] \in Nat /\ LengthOf[s[j]] \in Nat \ {0}
    BY <1>1, <1>4, <2>1
  <2> QED
    BY <2>2, <2>3
<1>8. /\ h[j] \in Nat /\ Joined(SubSeq(s, 1, j)) = h[j] + (IF j > 1 THEN j - 1 ELSE 0)
      /\ h[k] \in Nat /\ Joined(SubSeq(s, 1, k)) = h[k] + (IF k > 1 THEN k - 1 ELSE 0)
  BY <1>4, <1>5
<1> HIDE DEF n
<1> QED
  BY <1>5, <1>6, <1>7, <1>8

\* The last items of a row are as long as the first ones of the reversed row.
LEMMA JoinedOfReverse ==
    ASSUME NEW E, NEW s \in Seq(E), HaveSizes(E), NEW k \in 0 .. Len(s)
    PROVE  Joined(SubSeq(s, Len(s) - k + 1, Len(s))) = Joined(SubSeq(Reverse(s), 1, k))
<1> DEFINE n == Len(s)
           a == n - k
           first == SubSeq(Reverse(s), 1, k)
           last == SubSeq(s, a + 1, n)
<1>1. n \in Nat /\ a \in 0 .. n /\ n \in 0 .. n
  OBVIOUS
<1>2. HaveLengths(E)
  BY DEF HaveSizes, HaveLengths
<1>3. PICK h \in [0 .. n -> Nat] : SumsOf(h, s)
  BY <1>2, SumsExist
<1>4. Total(first) = h[n] - h[a]
  BY <1>2, <1>3, SumsOfReverse
<1>5. Total(last) = h[n] - h[a]
  <2> HIDE DEF a, last
  <2>1. Total(SubSeq(s, a + 1, n)) = h[n] - h[a]
    BY <1>1, <1>2, <1>3, TotalOfPart
  <2> QED
    BY <2>1 DEF last
<1>6. Len(first) = k /\ Len(last) = k
  <2>1. Reverse(s) \in Seq(E) /\ Len(Reverse(s)) = n
    BY DEF Reverse
  <2>2. Len(first) = k
    BY <1>1, <2>1
  <2>3. Len(last) = n - a
    BY <1>1
  <2> QED
    BY <1>1, <2>2, <2>3
<1> HIDE DEF first, last
<1>7. Joined(first) = Joined(last)
  BY <1>4, <1>5, <1>6 DEF Joined, Total
<1> QED
  BY <1>7 DEF first, last

\* As many of the first items as fit: not one less, not one more.
FillsUp(row, s, budget) ==
    \E m \in 0 .. Len(s) :
        /\ row = SubSeq(s, 1, m)
        /\ m = 0 \/ Joined(row) <= budget
        /\ \A k \in m + 1 .. Len(s) : Joined(SubSeq(s, 1, k)) > budget

\* pack_ips fills the budget up.
LEMMA PackedFillsUp ==
    ASSUME NEW E, NEW s \in Seq(E), HaveSizes(E), NEW budget \in Nat
    PROVE  FillsUp(Packed(s, budget), s, budget)
<1> DEFINE n == Len(s)
           D == [open : BOOLEAN, items : Seq(E)]
           none == <<>>
           base == [open |-> TRUE, items |-> none]
           J(k) == Joined(SubSeq(s, 1, k))
<1>1. n \in Nat /\ none \in Seq(E) /\ none = SubSeq(s, 1, 0)
  OBVIOUS
<1>2. ASSUME NEW i \in 0 .. n PROVE J(i) \in Nat
  <2>1. i \in 0 .. i
    BY <1>1
  <2> QED
    BY <2>1, JoinedGrows
<1>3. ASSUME NEW row \in D, NEW i \in 1 .. n PROVE Add(row, s[i], budget) \in D
  <2> DEFINE longer == Append(row.items, s[i])
  <2>1. longer \in Seq(E)
    OBVIOUS
  <2> HIDE DEF longer
  <2>2. [row EXCEPT !.items = longer] \in D /\ [row EXCEPT !.open = FALSE] \in D
    BY <2>1
  <2>3. \/ Add(row, s[i], budget) = [row EXCEPT !.items = longer]
        \/ Add(row, s[i], budget) = [row EXCEPT !.open = FALSE]
    BY DEF Add, longer
  <2> QED
    BY <2>2, <2>3
<1> HIDE DEF none
<1>4. base \in D /\ base.open = TRUE /\ base.items = none
  BY <1>1
<1> HIDE DEF base
<1>5. PICK h \in [0 .. n -> D] : RowStages(h, D, base, s, budget)
  BY <1>3, <1>4, RowFold
<1>6. h[0] = base /\ \A k \in 1 .. n : h[k - 1] \in D /\ h[k] = Add(h[k - 1], s[k], budget)
  BY <1>5 DEF RowStages
<1>7. h[n] = FoldLeft(LAMBDA row, item : Add(row, item, budget), base, s)
  BY <1>5 DEF RowStages
<1>8. Packed(s, budget) = h[n].items
  BY <1>7 DEF Packed, base, none
<1> DEFINE Is(row, k, m) ==
              /\ m \in 0 .. k
              /\ row.items = SubSeq(s, 1, m)
              /\ m = 0 \/ J(m) <= budget
              /\ row.open = TRUE => m = k
              /\ row.open = FALSE => m < k /\ J(m + 1) > budget
           good == {k \in 0 .. n : \E m \in 0 .. k : Is(h[k], k, m)}
<1>9. 0 \in good
  <2>1. Is(h[0], 0, 0)
    BY <1>1, <1>4, <1>6
  <2> HIDE DEF Is
  <2> QED
    BY <1>1, <2>1
<1>10. ASSUME NEW k \in 1 .. n, k - 1 \in good PROVE k \in good
  <2>1. k - 1 \in 0 .. n /\ k \in 0 .. n /\ h[k - 1] \in D /\ h[k] = Add(h[k - 1], s[k], budget)
    BY <1>1, <1>6
  <2>2. PICK m \in 0 .. k - 1 : Is(h[k - 1], k - 1, m)
    BY <1>10
  <2> DEFINE row == h[k - 1]
             longer == Append(row.items, s[k])
  <2>3. row \in D
    BY <2>1
  <2>4. row.open = TRUE => longer = SubSeq(s, 1, k)
    <3> SUFFICES ASSUME row.open = TRUE PROVE longer = SubSeq(s, 1, k)
      OBVIOUS
    <3>1. row.items = SubSeq(s, 1, k - 1)
      BY <2>2
    <3>2. Append(SubSeq(s, 1, k - 1), s[k]) = SubSeq(s, 1, k)
      OBVIOUS
    <3> QED
      BY <3>1, <3>2
  <2>5. CASE row.open = TRUE /\ J(k) <= budget
    <3>1. Joined(longer) <= budget
      BY <2>4, <2>5
    <3>2. h[k] = [row EXCEPT !.items = longer]
      BY <2>1, <2>5, <3>1 DEF Add
    <3>3. h[k].items = longer /\ h[k].open = TRUE
      BY <2>3, <2>5, <3>2
    <3>4. Is(h[k], k, k)
      BY <2>1, <2>4, <2>5, <3>3
    <3> HIDE DEF Is
    <3> QED
      BY <2>1, <3>4
  <2>6. CASE row.open = TRUE /\ ~(J(k) <= budget)
    <3>1. ~(Joined(longer) <= budget)
      BY <2>4, <2>6
    <3>2. h[k] = [row EXCEPT !.open = FALSE]
      BY <2>1, <2>6, <3>1 DEF Add
    <3>3. h[k].items = row.items /\ h[k].open = FALSE
      BY <2>3, <3>2
    <3>4. J(k) > budget
      BY <1>2, <2>1, <2>6
    <3>5. m = k - 1 /\ (k - 1) + 1 = k /\ k - 1 < k /\ k - 1 \in 0 .. k
      BY <2>2, <2>6
    <3>6. Is(h[k], k, k - 1)
      BY <2>2, <3>3, <3>4, <3>5
    <3> HIDE DEF Is
    <3> QED
      BY <2>1, <3>5, <3>6
  <2>7. CASE row.open = FALSE
    <3>1. h[k] = [row EXCEPT !.open = FALSE]
      BY <2>1, <2>7 DEF Add
    <3>2. h[k].items = row.items /\ h[k].open = FALSE
      BY <2>3, <3>1
    <3>3. Is(h[k], k, m) /\ m \in 0 .. k
      BY <2>2, <2>7, <3>2
    <3> HIDE DEF Is
    <3> QED
      BY <2>1, <3>3
  <2> QED
    BY <2>3, <2>5, <2>6, <2>7
<1>11. n \in good
  <2> HIDE DEF good, n
  <2> QED
    BY <1>1, <1>9, <1>10, UpTo
<1>12. PICK m \in 0 .. n : Is(h[n], n, m)
  BY <1>11
<1>13. h[n] \in D
  BY <1>1
<1>14. ASSUME NEW k \in m + 1 .. n PROVE J(k) > budget
  <2>1. m < n /\ m + 1 \in 0 .. k /\ k \in 0 .. Len(s) /\ m + 1 \in 0 .. n
    BY <1>1, <1>12
  <2>2. J(m + 1) > budget
    BY <1>12, <1>13, <2>1
  <2> DEFINE p == m + 1
  <2> HIDE DEF p
  <2>3. J(p) <= J(k) /\ J(p) \in Nat /\ J(k) \in Nat
    <3>1. p \in 0 .. k
      BY <2>1 DEF p
    <3> QED
      BY <2>1, <3>1, JoinedGrows
  <2>4. J(p) > budget
    BY <2>2 DEF p
  <2> HIDE DEF J
  <2> QED
    BY <2>3, <2>4
<1> QED
  BY <1>8, <1>12, <1>14 DEF FillsUp


\* The length of any row of items.
LEMMA JoinedIsNatural ==
    ASSUME NEW E, NEW s \in Seq(E), HaveLengths(E)
    PROVE  Joined(s) \in Nat
<1>1. PICK h \in [0 .. Len(s) -> Nat] : SumsOf(h, s) /\ h[Len(s)] = Total(s)
  BY SumsExist
<1>2. Len(s) \in Nat /\ Len(s) \in 0 .. Len(s)
  OBVIOUS
<1>3. Total(s) \in Nat
  BY <1>1, <1>2
<1> QED
  BY <1>2, <1>3 DEF Joined, Total, Saturating

LEMMA RowsOfPart ==
    ASSUME NEW A, NEW B, A \subseteq B, NEW s \in Seq(A)
    PROVE  s \in Seq(B)
OBVIOUS

\* The keys of a table, in order, are keys that are in it.
LEMMA InOrderTypes ==
    ASSUME NEW K, NEW keys \in Seq(K), NEW table
    PROVE  InOrder(keys, table) \in Seq(K \cap table)
<1> DEFINE none == <<>>
           D == Seq(K \cap table)
<1>1. none \in D
  OBVIOUS
<1>2. ASSUME NEW row \in D, NEW i \in 1 .. Len(keys)
      PROVE  AddKey(row, keys[i], table) \in D
  <2>1. CASE keys[i] \in table
    <3>1. keys[i] \in K \cap table
      BY <2>1
    <3> QED
      BY <2>1, <3>1 DEF AddKey
  <2>2. CASE keys[i] \notin table
    BY <2>2 DEF AddKey
  <2> QED
    BY <2>1, <2>2
<1> HIDE DEF none, D
<1>3. PICK h \in [0 .. Len(keys) -> D] : OrderStages(h, D, none, keys, table)
  BY <1>1, <1>2, OrderFold
<1>4. Len(keys) \in 0 .. Len(keys)
  OBVIOUS
<1> QED
  BY <1>3, <1>4 DEF OrderStages, InOrder, none, D

-----------------------------------------------------------------------------
(* The expression.                                                         *)

Expression(restricted, regions, asns, ips) ==
    [restricted |-> restricted, regions |-> regions, asns |-> asns, ips |-> ips]

LEMMA OtherIps ==
    ASSUME NEW restricted, NEW regions, NEW asns, NEW ips, NEW others
    PROVE  [Expression(restricted, regions, asns, ips) EXCEPT !.ips = others]
             = Expression(restricted, regions, asns, others)
BY DEF Expression

\* What each clause takes, with an "or".
RegionPart(restricted, regions) ==
    IF regions = <<>> THEN 0 ELSE RegionalLength(restricted, regions) + Or
AsnPart(asns) == IF asns = <<>> THEN 0 ELSE AsnWrapper + Joined(asns) + Or
IpPart(ips) == IF ips = <<>> THEN 0 ELSE IpWrapper + Joined(ips) + Or

\* The "or" after the last clause does not count.
LEMMA LengthOfExpression ==
    ASSUME NEW restricted, NEW regions, NEW asns, NEW ips
    PROVE  TextLength(Expression(restricted, regions, asns, ips))
            = Saturating(RegionPart(restricted, regions) + AsnPart(asns) + IpPart(ips), Or)
<1> DEFINE e == Expression(restricted, regions, asns, ips)
<1>1. /\ e.restricted = restricted /\ e.regions = regions
      /\ e.asns = asns /\ e.ips = ips
  BY DEF Expression
<1> HIDE DEF e
<1>2. TextLength(e) = Saturating(RegionPart(e.restricted, e.regions) + AsnPart(e.asns) + IpPart(e.ips), Or)
  BY DEF TextLength, RegionPart, AsnPart, IpPart
<1> QED
  BY <1>1, <1>2 DEF e

\* Of the numbers up to n one at most fits while no greater one does.
LEMMA OneFitsBest ==
    ASSUME NEW n \in Nat, NEW length, NEW max \in Nat, NEW m \in 0 .. n,
           m = 0 \/ length[m] <= max, \A k \in m + 1 .. n : length[k] > max,
           \A k \in 0 .. n : length[k] \in Nat,
           NEW i \in 0 .. n,
           i = 0 \/ length[i] <= max, \A k \in i + 1 .. n : length[k] > max
    PROVE  i = m
<1>1. CASE i < m
  <2>1. m \in i + 1 .. n /\ m # 0
    BY <1>1
  <2>2. length[m] > max /\ length[m] <= max /\ length[m] \in Nat
    BY <2>1
  <2> QED
    BY <2>2
<1>2. CASE m < i
  <2>1. i \in m + 1 .. n /\ i # 0
    BY <1>2
  <2>2. length[i] > max /\ length[i] <= max /\ length[i] \in Nat
    BY <2>1
  <2> QED
    BY <2>2
<1> QED
  BY <1>1, <1>2

\* The last k items of a row.
LastOf(s, k) == SubSeq(s, Len(s) - k + 1, Len(s))

\* As many of the last items as fit beside what else is there.
EndFillsUp(row, s, beside, max) ==
    \E m \in 0 .. Len(s) :
        /\ row = LastOf(s, m)
        /\ m = 0 \/ beside + Joined(row) <= max
        /\ \A k \in m + 1 .. Len(s) : beside + Joined(LastOf(s, k)) > max

\* build_blocked_asns_clause fills up its budget from the end of the list.
LEMMA AsnClauseFillsUp ==
    ASSUME NEW E, NEW s \in Seq(E), HaveSizes(E), NEW budget \in Nat
    PROVE  EndFillsUp(AsnClause(s, budget), s, AsnWrapper, budget)
<1> DEFINE n == Len(s)
           r == Reverse(s)
           J(k) == Joined(SubSeq(r, 1, k))
<1>1. n \in Nat /\ r \in Seq(E) /\ Len(r) = n /\ \A i \in 1 .. n : r[i] = s[n - i + 1]
  BY DEF Reverse
<1>2. ASSUME NEW k \in 0 .. n PROVE Joined(LastOf(s, k)) = J(k) /\ J(k) \in Nat /\ (k > 0 => J(k) >= 1)
  <2>1. Joined(LastOf(s, k)) = J(k)
    BY JoinedOfReverse DEF LastOf
  <2>2. k \in 0 .. k /\ k \in 0 .. Len(r)
    BY <1>1
  <2> HIDE DEF r
  <2>3. J(k) \in Nat /\ (k > 0 => J(k) >= 1)
    BY <1>1, <2>2, JoinedGrows
  <2> QED
    BY <2>1, <2>3
<1> HIDE DEF J
<1>3. CASE budget <= AsnWrapper
  <2>1. AsnClause(s, budget) = <<>> /\ LastOf(s, 0) = <<>>
    BY <1>1, <1>3 DEF AsnClause, LastOf
  <2>2. ASSUME NEW k \in 0 + 1 .. n PROVE AsnWrapper + Joined(LastOf(s, k)) > budget
    <3>1. k \in 0 .. n /\ k > 0
      BY <1>1
    <3>2. Joined(LastOf(s, k)) \in Nat /\ Joined(LastOf(s, k)) >= 1
      BY <1>2, <3>1
    <3> QED
      BY <1>3, <3>2 DEF AsnWrapper
  <2>3. 0 \in 0 .. n
    BY <1>1
  <2> QED
    BY <2>1, <2>2, <2>3, Zenon DEF EndFillsUp
<1>4. CASE ~(budget <= AsnWrapper)
  <2>1. budget - AsnWrapper \in Nat
    BY <1>4 DEF AsnWrapper
  <2> DEFINE rest == budget - AsnWrapper
             row == Packed(r, rest)
  <2>2. FillsUp(row, r, rest)
    <3> HIDE DEF rest, r
    <3> QED
      BY <1>1, <2>1, PackedFillsUp DEF rest
  <2>3. PICK m \in 0 .. n :
            /\ row = SubSeq(r, 1, m)
            /\ m = 0 \/ Joined(row) <= rest
            /\ \A k \in m + 1 .. n : Joined(SubSeq(r, 1, k)) > rest
    BY <1>1, <2>2 DEF FillsUp
  <2>4. AsnClause(s, budget) = Reverse(row)
    BY <1>4 DEF AsnClause
  <2>5. Reverse(row) = LastOf(s, m)
    <3> DEFINE first == SubSeq(r, 1, m)
               last == LastOf(s, m)
               back == Reverse(first)
    <3>1. first \in Seq(E) /\ Len(first) = m /\ \A i \in 1 .. m : first[i] = r[i]
      <4> HIDE DEF r
      <4> QED
        BY <1>1
    <3>2. last \in Seq(E) /\ Len(last) = m /\ \A i \in 1 .. m : last[i] = s[n - m + i]
      BY <1>1 DEF LastOf
    <3> HIDE DEF first, last
    <3>3. back \in Seq(E) /\ Len(back) = m /\ \A i \in 1 .. m : back[i] = first[m - i + 1]
      BY <3>1 DEF Reverse
    <3> HIDE DEF back, r
    <3>4. ASSUME NEW i \in 1 .. m PROVE back[i] = last[i]
      <4>1. m - i + 1 \in 1 .. m /\ m - i + 1 \in 1 .. n /\ n - (m - i + 1) + 1 = n - m + i
        BY <1>1
      <4>2. back[i] = r[m - i + 1]
        BY <3>1, <3>3, <4>1
      <4>3. r[m - i + 1] = s[n - (m - i + 1) + 1]
        BY <1>1, <4>1
      <4>4. last[i] = s[n - m + i]
        BY <3>2
      <4> QED
        BY <4>1, <4>2, <4>3, <4>4
    <3>5. back = last
      BY <3>2, <3>3, <3>4
    <3> QED
      BY <2>3, <3>5 DEF back, first, last
  <2>6. m = 0 \/ AsnWrapper + Joined(LastOf(s, m)) <= budget
    <3>1. Joined(LastOf(s, m)) = J(m) /\ J(m) \in Nat /\ Joined(row) = J(m)
      BY <1>2, <2>3 DEF J
    <3> HIDE DEF row
    <3> QED
      BY <2>3, <3>1 DEF AsnWrapper
  <2>7. ASSUME NEW k \in m + 1 .. n PROVE AsnWrapper + Joined(LastOf(s, k)) > budget
    <3>1. k \in 0 .. n
      BY <1>1
    <3>2. Joined(LastOf(s, k)) = J(k) /\ J(k) \in Nat /\ J(k) > rest
      BY <1>2, <2>3, <3>1 DEF J
    <3> QED
      BY <3>2 DEF AsnWrapper
  <2> HIDE DEF row
  <2> QED
    BY <2>4, <2>5, <2>6, <2>7 DEF EndFillsUp
<1> QED
  BY <1>3, <1>4

\* The regional clause is there if it fits alone, and takes what it should.
RegionalIsRight(max, restricted, regions) ==
    LET total == RegionalTotal(max, restricted, regions)
        has == HasRegional(max, restricted, regions)
    IN /\ total \in Nat /\ total <= max + Or
       /\ total > 0 <=> has
       /\ has <=> /\ restricted # <<>> /\ regions # <<>>
                  /\ TextLength(Expression(restricted, regions, <<>>, <<>>)) <= max
       /\ has => RegionPart(restricted, regions) = total
       /\ RegionPart(<<>>, <<>>) = 0

LEMMA RegionalFits ==
    ASSUME NEW max \in Nat, NEW R, NEW restricted \in Seq(R), HaveLengths(R),
           NEW G, NEW regions \in Seq(G), HaveLengths(G)
    PROVE  RegionalIsRight(max, restricted, regions)
<1> DEFINE none == <<>>
<1> DEFINE length == RegionalLength(restricted, regions)
           total == RegionalTotal(max, restricted, regions)
           has == HasRegional(max, restricted, regions)
           region == Expression(restricted, regions, none, none)
<1>1. length \in Nat /\ length >= 49
  <2>1. Joined(restricted) \in Nat /\ Joined(regions) \in Nat /\ Len(regions) \in Nat
    BY JoinedIsNatural
  <2> QED
    BY <2>1 DEF RegionalLength, RegionWrapper
<1>2. total = IF has THEN length + 4 ELSE 0
  BY DEF RegionalTotal, Or
<1>3. has <=> restricted # none /\ regions # none /\ length <= max
  BY DEF HasRegional
<1> HIDE DEF length, total, has, none
<1>4. total \in Nat /\ total <= max + 4 /\ (total > 0 <=> has)
  BY <1>1, <1>2, <1>3
<1>5. RegionPart(none, none) = 0 /\ AsnPart(none) = 0 /\ IpPart(none) = 0
  BY DEF RegionPart, AsnPart, IpPart, none
<1>6. regions # none => RegionPart(restricted, regions) = length + 4
  BY DEF RegionPart, Or, length, none
<1>7. regions # none => TextLength(region) = length
  <2>1. TextLength(region) = Saturating(RegionPart(restricted, regions) + AsnPart(none) + IpPart(none), Or)
    BY LengthOfExpression
  <2> HIDE DEF region
  <2> QED
    BY <1>1, <1>5, <1>6, <2>1 DEF Saturating, Or
<1>8. has <=> restricted # none /\ regions # none /\ TextLength(region) <= max
  BY <1>3, <1>7
<1>9. has => RegionPart(restricted, regions) = total
  BY <1>2, <1>3, <1>6
<1> HIDE DEF region
<1>10. total <= max + Or
  BY <1>4 DEF Or
<1> QED
  BY <1>4, <1>5, <1>8, <1>9, <1>10 DEF RegionalIsRight, total, has, region, none

\* An expression with the ASNs asns and no addresses.
LEMMA LengthWithAsns ==
    ASSUME NEW E, NEW asns \in Seq(E), HaveLengths(E), asns # <<>>, NEW none, none = <<>>,
           NEW a, NEW b, RegionPart(a, b) \in Nat
    PROVE  /\ TextLength(Expression(a, b, asns, none)) = RegionPart(a, b) + AsnWrapper + Joined(asns)
           /\ AsnPart(asns) = AsnWrapper + Joined(asns) + Or
<1>1. Joined(asns) \in Nat
  BY JoinedIsNatural
<1>2. AsnPart(asns) = AsnWrapper + Joined(asns) + Or /\ IpPart(none) = 0
  BY DEF AsnPart, IpPart
<1>3. TextLength(Expression(a, b, asns, none))
        = Saturating(RegionPart(a, b) + AsnPart(asns) + IpPart(none), Or)
  BY LengthOfExpression
<1> QED
  BY <1>1, <1>2, <1>3 DEF Saturating, Or, AsnWrapper

\* An expression with the addresses ips.
LEMMA LengthWithIps ==
    ASSUME NEW E, NEW ips \in Seq(E), HaveLengths(E), ips # <<>>,
           NEW a, NEW b, NEW c, RegionPart(a, b) \in Nat, AsnPart(c) \in Nat
    PROVE  TextLength(Expression(a, b, c, ips))
            = RegionPart(a, b) + AsnPart(c) + IpWrapper + Joined(ips)
<1>1. Joined(ips) \in Nat
  BY JoinedIsNatural
<1>2. IpPart(ips) = IpWrapper + Joined(ips) + Or
  BY DEF IpPart
<1>3. TextLength(Expression(a, b, c, ips))
        = Saturating(RegionPart(a, b) + AsnPart(c) + IpPart(ips), Or)
  BY LengthOfExpression
<1> QED
  BY <1>1, <1>2, <1>3 DEF Saturating, Or, IpWrapper


\* render_expression makes the expression that its budget is best spent on.
LEMMA RenderIsFullest ==
    ASSUME NEW max \in Nat, NEW B, NEW blocked \in Seq(B), HaveSizes(B),
           NEW R, NEW restricted \in Seq(R), HaveLengths(R),
           NEW G, NEW regions \in Seq(G), HaveLengths(G),
           NEW I, NEW ips \in Seq(I), HaveSizes(I)
    PROVE  /\ TextLength(Render(max, blocked, restricted, regions, ips)) <= max
           /\ IsFullest(Render(max, blocked, restricted, regions, ips),
                        max, blocked, restricted, regions, ips)
<1> DEFINE none == <<>>
           has == HasRegional(max, restricted, regions)
           regional == RegionalTotal(max, restricted, regions)
           a == IF has THEN restricted ELSE none
           b == IF has THEN regions ELSE none
           asns == AsnClause(blocked, Saturating(max, regional))
           prefix == Prefix(regional, asns)
           row == Packed(ips, Saturating(max, prefix + IpWrapper))
           e == Render(max, blocked, restricted, regions, ips)
           n == Len(blocked)
           p == Len(ips)
<1>1. /\ regional \in Nat /\ regional <= max + Or /\ (regional > 0 <=> has)
      /\ has <=> restricted # none /\ regions # none
                 /\ TextLength(Expression(restricted, regions, none, none)) <= max
      /\ has => RegionPart(restricted, regions) = regional
      /\ RegionPart(none, none) = 0
  <2>1. RegionalIsRight(max, restricted, regions)
    BY RegionalFits
  <2> QED
    BY <2>1 DEF RegionalIsRight
<1>2. RegionPart(a, b) = regional
  <2> HIDE DEF none, has, regional
  <2> QED
    BY <1>1
<1>3. e = Expression(a, b, asns, row)
  <2>1. (IF regional > 0 THEN restricted ELSE <<>>) = a /\ (IF regional > 0 THEN regions ELSE <<>>) = b
    <3> HIDE DEF regional, has
    <3> QED
      BY <1>1
  <2>2. e = [restricted |-> IF regional > 0 THEN restricted ELSE <<>>,
             regions |-> IF regional > 0 THEN regions ELSE <<>>,
             asns |-> asns, ips |-> row]
    BY Zenon DEF Render
  <2> HIDE DEF a, b, e, asns, row, regional
  <2> QED
    BY <2>1, <2>2, Zenon DEF Expression
<1>4. n \in Nat /\ p \in Nat /\ HaveLengths(B) /\ HaveLengths(I)
  BY DEF HaveSizes, HaveLengths
<1>5. Saturating(max, regional) \in Nat
  BY <1>1 DEF Saturating
<1>6. EndFillsUp(asns, blocked, AsnWrapper, Saturating(max, regional))
  <2> HIDE DEF regional
  <2> QED
    BY <1>5, AsnClauseFillsUp
<1> HIDE DEF has, regional, a, b, row, asns, prefix
<1>7. PICK m \in 0 .. n :
        /\ asns = LastOf(blocked, m)
        /\ m = 0 \/ AsnWrapper + Joined(asns) <= Saturating(max, regional)
        /\ \A k \in m + 1 .. n : AsnWrapper + Joined(LastOf(blocked, k)) > Saturating(max, regional)
  BY <1>6 DEF EndFillsUp
<1>8. ASSUME NEW k \in 0 .. n
      PROVE  /\ LastOf(blocked, k) \in Seq(B) /\ Joined(LastOf(blocked, k)) \in Nat
             /\ LastOf(blocked, k) = <<>> <=> k = 0
  <2>1. LastOf(blocked, k) \in Seq(B) /\ Len(LastOf(blocked, k)) = k
    BY <1>4 DEF LastOf
  <2>2. Joined(LastOf(blocked, k)) \in Nat
    BY <1>4, <2>1, JoinedIsNatural
  <2> QED
    BY <2>1, <2>2
<1>9. asns \in Seq(B) /\ Joined(asns) \in Nat /\ (asns = <<>> <=> m = 0)
  BY <1>7, <1>8
<1> DEFINE A(k) == TextLength(Expression(a, b, LastOf(blocked, k), none))
<1>10. ASSUME NEW k \in 1 .. n
       PROVE  A(k) = regional + AsnWrapper + Joined(LastOf(blocked, k))
  <2> DEFINE x == LastOf(blocked, k)
  <2>1. x \in Seq(B) /\ x # <<>>
    BY <1>4, <1>8
  <2> HIDE DEF x, none
  <2>2. none = <<>> /\ RegionPart(a, b) \in Nat
    BY <1>1, <1>2 DEF none
  <2>3. TextLength(Expression(a, b, x, none)) = RegionPart(a, b) + AsnWrapper + Joined(x)
    BY <1>4, <2>1, <2>2, LengthWithAsns
  <2> QED
    BY <1>2, <2>3 DEF x
<1>11. A(0) = Saturating(regional, Or)
  <2>1. LastOf(blocked, 0) = none
    BY <1>4, <1>8
  <2>2. AsnPart(none) = 0 /\ IpPart(none) = 0
    BY DEF AsnPart, IpPart
  <2> HIDE DEF none
  <2>3. A(0) = Saturating(RegionPart(a, b) + AsnPart(none) + IpPart(none), Or)
    BY <2>1, LengthOfExpression
  <2> QED
    BY <1>1, <1>2, <2>2, <2>3
<1> HIDE DEF A
<1>12. ASSUME NEW k \in 0 .. n PROVE A(k) \in Nat
  <2>1. CASE k = 0
    BY <1>1, <1>11, <2>1 DEF Saturating, Or
  <2>2. CASE k # 0
    <3>1. k \in 1 .. n /\ Joined(LastOf(blocked, k)) \in Nat
      BY <1>4, <1>8, <2>2
    <3> QED
      BY <1>1, <1>10, <3>1 DEF AsnWrapper
  <2> QED
    BY <2>1, <2>2
<1>13. m = 0 \/ A(m) <= max
  <2> SUFFICES ASSUME m # 0 PROVE A(m) <= max
    OBVIOUS
  <2>1. m \in 1 .. n
    BY <1>4
  <2>2. A(m) = regional + AsnWrapper + Joined(asns)
    BY <1>7, <1>10, <2>1
  <2> QED
    BY <1>1, <1>7, <1>9, <2>2 DEF Saturating, AsnWrapper
<1>14. ASSUME NEW k \in m + 1 .. n PROVE A(k) > max
  <2>1. k \in 1 .. n /\ k \in 0 .. n
    BY <1>4
  <2>2. A(k) = regional + AsnWrapper + Joined(LastOf(blocked, k)) /\ Joined(LastOf(blocked, k)) \in Nat
    BY <1>8, <1>10, <2>1
  <2> QED
    BY <1>1, <1>7, <2>2 DEF Saturating, AsnWrapper
<1>15. /\ AsnPart(asns) \in Nat /\ prefix = regional + AsnPart(asns)
       /\ prefix <= max + Or
  <2>1. CASE m = 0
    <3>1. AsnPart(asns) = 0 /\ prefix = regional + 0
      BY <1>9, <2>1 DEF AsnPart, prefix, Prefix
    <3> QED
      BY <1>1, <3>1
  <2>2. CASE m # 0
    <3>1. AsnPart(asns) = AsnWrapper + Joined(asns) + Or
      BY <1>9, <2>2 DEF AsnPart
    <3>2. prefix = regional + (AsnWrapper + Joined(asns) + Or)
      BY <1>9, <2>2 DEF prefix, Prefix
    <3>3. m \in 1 .. n
      BY <1>4, <2>2
    <3>4. regional + AsnWrapper + Joined(asns) <= max
      BY <1>7, <1>10, <1>13, <2>2, <3>3
    <3> QED
      BY <1>1, <1>9, <3>1, <3>2, <3>4 DEF AsnWrapper, Or
  <2> QED
    BY <2>1, <2>2
<1>16. Saturating(max, prefix + IpWrapper) \in Nat
  BY <1>1, <1>15 DEF Saturating, IpWrapper
<1>17. FillsUp(row, ips, Saturating(max, prefix + IpWrapper))
  BY <1>16, PackedFillsUp DEF row
<1>18. PICK q \in 0 .. p :
        /\ row = SubSeq(ips, 1, q)
        /\ q = 0 \/ Joined(row) <= Saturating(max, prefix + IpWrapper)
        /\ \A k \in q + 1 .. p : Joined(SubSeq(ips, 1, k)) > Saturating(max, prefix + IpWrapper)
  BY <1>17 DEF FillsUp
<1> DEFINE P(k) == TextLength(Expression(a, b, asns, SubSeq(ips, 1, k)))
<1>19. ASSUME NEW k \in 1 .. p
       PROVE  P(k) = prefix + IpWrapper + Joined(SubSeq(ips, 1, k)) /\ Joined(SubSeq(ips, 1, k)) \in Nat
              /\ Joined(SubSeq(ips, 1, k)) >= 1
  <2> DEFINE x == SubSeq(ips, 1, k)
  <2>1. x \in Seq(I) /\ x # <<>>
    <3>1. x \in Seq(I) /\ Len(x) = k
      BY <1>4
    <3>2. k # 0 /\ Len(<<>>) = 0
      BY <1>4
    <3> HIDE DEF x
    <3> QED
      BY <3>1, <3>2
  <2>2. Joined(x) \in Nat /\ Joined(x) >= 1
    <3>1. k \in 0 .. Len(ips) /\ k \in 0 .. k /\ k > 0
      BY <1>4
    <3> QED
      BY <3>1, JoinedGrows
  <2> HIDE DEF x
  <2>3. TextLength(Expression(a, b, asns, x)) = RegionPart(a, b) + AsnPart(asns) + IpWrapper + Joined(x)
    BY <1>1, <1>2, <1>4, <1>15, <2>1, LengthWithIps
  <2>4. TextLength(Expression(a, b, asns, x)) = prefix + IpWrapper + Joined(x)
    BY <1>2, <1>15, <2>3
  <2> QED
    BY <2>2, <2>4 DEF x
<1>20. P(0) = Saturating(prefix, Or)
  <2>1. SubSeq(ips, 1, 0) = none
    BY <1>4
  <2>2. IpPart(none) = 0
    BY DEF IpPart
  <2> HIDE DEF none
  <2>3. P(0) = TextLength(Expression(a, b, asns, none))
    BY <2>1, Zenon
  <2>4. TextLength(Expression(a, b, asns, none))
            = Saturating(RegionPart(a, b) + AsnPart(asns) + IpPart(none), Or)
    BY LengthOfExpression
  <2> QED
    BY <1>1, <1>2, <1>15, <2>2, <2>3, <2>4
<1>21. P(q) = TextLength(e)
  BY <1>3, <1>18
<1> HIDE DEF P, e
<1>22. ASSUME NEW k \in 0 .. p PROVE P(k) \in Nat
  <2>0. prefix \in Nat /\ IpWrapper \in Nat
    BY <1>1, <1>15 DEF IpWrapper
  <2>1. CASE k = 0
    <3>1. Saturating(prefix, Or) \in Nat
      BY <2>0 DEF Saturating, Or
    <3> QED
      BY <1>20, <2>1, <3>1
  <2>2. CASE k # 0
    <3>1. k \in 1 .. p
      BY <1>4, <2>2
    <3>2. /\ P(k) = prefix + IpWrapper + Joined(SubSeq(ips, 1, k))
          /\ Joined(SubSeq(ips, 1, k)) \in Nat
      BY <1>19, <3>1
    <3> QED
      BY ONLY <2>0, <3>2
  <2> QED
    BY <2>1, <2>2
<1>23. q = 0 \/ P(q) <= max
  <2> SUFFICES ASSUME q # 0 PROVE P(q) <= max
    OBVIOUS
  <2>1. q \in 1 .. p
    BY <1>4
  <2>2. P(q) = prefix + IpWrapper + Joined(row) /\ Joined(row) \in Nat /\ Joined(row) >= 1
    BY <1>18, <1>19, <2>1
  <2> QED
    BY <1>1, <1>15, <1>18, <2>2 DEF Saturating, IpWrapper
<1>24. ASSUME NEW k \in q + 1 .. p PROVE P(k) > max
  <2>1. k \in 1 .. p
    BY <1>4
  <2> DEFINE x == Joined(SubSeq(ips, 1, k))
  <2>2. P(k) = prefix + IpWrapper + x /\ x \in Nat /\ x >= 1 /\ x > Saturating(max, prefix + IpWrapper)
    BY <1>18, <1>19, <2>1
  <2> HIDE DEF x
  <2> QED
    BY <1>1, <1>15, <2>2 DEF Saturating, IpWrapper
<1>25. TextLength(e) <= max
  <2>1. CASE q = 0
    BY <1>1, <1>15, <1>20, <1>21, <2>1 DEF Saturating, Or
  <2>2. CASE q # 0
    BY <1>21, <1>23, <2>2
  <2> QED
    BY <2>1, <2>2
<1> DEFINE Empty == [restricted |-> <<>>, regions |-> <<>>, asns |-> <<>>, ips |-> <<>>]
           Region == [Empty EXCEPT !.restricted = restricted, !.regions = regions]
           hasRegion == restricted # <<>> /\ regions # <<>> /\ TextLength(Region) <= max
           first == IF hasRegion THEN Region ELSE Empty
           WithAsns(i) == [first EXCEPT !.asns = SubSeq(blocked, Len(blocked) - i + 1, Len(blocked))]
           AsnsFit(i) == /\ i = 0 \/ TextLength(WithAsns(i)) <= max
                         /\ \A k \in i + 1 .. Len(blocked) : TextLength(WithAsns(k)) > max
           most == CHOOSE i \in 0 .. Len(blocked) : AsnsFit(i)
           WithIps(i) == [WithAsns(most) EXCEPT !.ips = SubSeq(ips, 1, i)]
           IpsFit(i) == /\ i = 0 \/ TextLength(WithIps(i)) <= max
                        /\ \A k \in i + 1 .. Len(ips) : TextLength(WithIps(k)) > max
           addresses == CHOOSE i \in 0 .. Len(ips) : IpsFit(i)
<1>26. Empty = Expression(none, none, none, none)
  BY DEF Expression
<1> HIDE DEF none
<1>27. Region = Expression(restricted, regions, none, none)
  <2>1. [Empty EXCEPT !.restricted = restricted] = Expression(restricted, none, none, none)
    <3> HIDE DEF Empty
    <3> QED
      BY <1>26 DEF Expression
  <2>2. Region = [[Empty EXCEPT !.restricted = restricted] EXCEPT !.regions = regions]
    <3> HIDE DEF Empty
    <3> QED
      BY <1>26 DEF Expression
  <2> DEFINE x == [Empty EXCEPT !.restricted = restricted]
  <2>3. x = Expression(restricted, none, none, none)
    BY <2>1
  <2> HIDE DEF x
  <2>4. [x EXCEPT !.regions = regions] = Expression(restricted, regions, none, none)
    BY <2>3 DEF Expression
  <2> QED
    BY <2>2, <2>4 DEF x
<1>28. first = Expression(a, b, none, none)
  <2>1. hasRegion <=> has
    BY <1>1, <1>27 DEF none
  <2> HIDE DEF Region, Empty, hasRegion
  <2> QED
    BY <1>26, <1>27, <2>1 DEF a, b
<1>29. ASSUME NEW k PROVE WithAsns(k) = Expression(a, b, LastOf(blocked, k), none)
  <2> HIDE DEF first
  <2> DEFINE x == LastOf(blocked, k)
  <2>1. WithAsns(k) = [first EXCEPT !.asns = x]
    BY DEF LastOf
  <2> HIDE DEF x, WithAsns
  <2>2. [first EXCEPT !.asns = x] = Expression(a, b, x, none)
    BY <1>28 DEF Expression
  <2> QED
    BY <2>1, <2>2 DEF x
<1>30. ASSUME NEW k PROVE TextLength(WithAsns(k)) = A(k)
  <2> HIDE DEF WithAsns
  <2> QED
    BY <1>29 DEF A
<1> HIDE DEF first, WithAsns
<1>31. most = m
  <2> DEFINE length == [k \in 0 .. n |-> A(k)]
  <2>1. \A k \in 0 .. n : length[k] = A(k)
    OBVIOUS
  <2> HIDE DEF length
  <2>2. AsnsFit(m)
    BY <1>13, <1>14, <1>30
  <2>3. ASSUME NEW i \in 0 .. n, AsnsFit(i) PROVE i = m
    <3>1. m = 0 \/ length[m] <= max
      BY <1>13, <2>1
    <3>2. \A k \in m + 1 .. n : length[k] > max
      BY <1>4, <1>14, <2>1
    <3>3. \A k \in 0 .. n : length[k] \in Nat
      BY <1>12, <2>1
    <3>4. i = 0 \/ length[i] <= max
      BY <1>30, <2>1, <2>3
    <3>5. \A k \in i + 1 .. n : length[k] > max
      BY <1>4, <1>30, <2>1, <2>3
    <3> QED
      BY <1>4, <3>1, <3>2, <3>3, <3>4, <3>5, OneFitsBest
  <2> HIDE DEF AsnsFit
  <2> QED
    BY <2>2, <2>3
<1> HIDE DEF most
<1>32. ASSUME NEW k PROVE WithIps(k) = Expression(a, b, asns, SubSeq(ips, 1, k))
  <2>1. WithAsns(most) = Expression(a, b, asns, none)
    BY <1>7, <1>29, <1>31
  <2> DEFINE x == SubSeq(ips, 1, k)
             y == WithAsns(most)
  <2>2. WithIps(k) = [y EXCEPT !.ips = x]
    OBVIOUS
  <2>3. y = Expression(a, b, asns, none)
    BY <2>1
  <2> HIDE DEF x, y, WithIps
  <2>4. [y EXCEPT !.ips = x] = Expression(a, b, asns, x)
    <3>1. [Expression(a, b, asns, none) EXCEPT !.ips = x] = Expression(a, b, asns, x)
      BY OtherIps
    <3> QED
      BY <2>3, <3>1
  <2> QED
    BY <2>2, <2>4 DEF x
<1>33. ASSUME NEW k PROVE TextLength(WithIps(k)) = P(k)
  <2> HIDE DEF WithIps
  <2> QED
    BY <1>32 DEF P
<1> HIDE DEF WithIps
<1>34. addresses = q
  <2> DEFINE length == [k \in 0 .. p |-> P(k)]
  <2>1. \A k \in 0 .. p : length[k] = P(k)
    OBVIOUS
  <2> HIDE DEF length
  <2>2. IpsFit(q)
    BY <1>23, <1>24, <1>33
  <2>3. ASSUME NEW i \in 0 .. p, IpsFit(i) PROVE i = q
    <3>1. q = 0 \/ length[q] <= max
      BY <1>23, <2>1
    <3>2. \A k \in q + 1 .. p : length[k] > max
      BY <1>4, <1>24, <2>1
    <3>3. \A k \in 0 .. p : length[k] \in Nat
      BY <1>22, <2>1
    <3>4. i = 0 \/ length[i] <= max
      BY <1>33, <2>1, <2>3
    <3>5. \A k \in i + 1 .. p : length[k] > max
      BY <1>4, <1>33, <2>1, <2>3
    <3> QED
      BY <1>4, <3>1, <3>2, <3>3, <3>4, <3>5, OneFitsBest
  <2> HIDE DEF IpsFit
  <2> QED
    BY <2>2, <2>3
<1>35. e = WithIps(addresses)
  BY <1>3, <1>18, <1>32, <1>34
<1>36. IsFullest(e, max, blocked, restricted, regions, ips)
  BY <1>35, Zenon DEF IsFullest, WithIps, WithAsns, first, most
<1> QED
  BY <1>25, <1>36 DEF e

-----------------------------------------------------------------------------
(* What the rule names, and what the snapshot holds.                       *)

\* The rule is made of rows of what it is given.
LEMMA RenderTypes ==
    ASSUME NEW max \in Nat, NEW B, NEW blocked \in Seq(B), HaveSizes(B),
           NEW R, NEW restricted \in Seq(R), NEW G, NEW regions \in Seq(G),
           NEW I, NEW ips \in Seq(I), HaveSizes(I),
           RegionalTotal(max, restricted, regions) \in Nat
    PROVE  Render(max, blocked, restricted, regions, ips)
            \in [restricted : Seq(R), regions : Seq(G), asns : Seq(B), ips : Seq(I)]
<1> DEFINE regional == RegionalTotal(max, restricted, regions)
           left == Saturating(max, regional)
           asns == AsnClause(blocked, left)
           room == Saturating(max, Prefix(regional, asns) + IpWrapper)
           row == Packed(ips, room)
<1>1. left \in Nat
  BY DEF Saturating
<1>2. asns \in Seq(B)
  <2> HIDE DEF left
  <2>1. EndFillsUp(asns, blocked, AsnWrapper, left)
    BY <1>1, AsnClauseFillsUp
  <2>2. PICK m \in 0 .. Len(blocked) : asns = LastOf(blocked, m)
    BY <2>1 DEF EndFillsUp
  <2> HIDE DEF asns
  <2> QED
    BY <2>2 DEF LastOf
<1>3. room \in Nat
  <2> HIDE DEF asns, regional
  <2>1. Joined(asns) \in Nat
    BY <1>2, JoinedIsNatural DEF HaveSizes, HaveLengths
  <2>2. Prefix(regional, asns) \in Nat
    BY <2>1 DEF Prefix, AsnWrapper, Or, regional
  <2> QED
    BY <2>2 DEF Saturating, IpWrapper
<1>4. row \in Seq(I)
  <2> HIDE DEF room
  <2>1. FillsUp(row, ips, room)
    BY <1>3, PackedFillsUp
  <2>2. PICK m \in 0 .. Len(ips) : row = SubSeq(ips, 1, m)
    BY <2>1 DEF FillsUp
  <2> HIDE DEF row
  <2> QED
    BY <2>2
<1>5. Render(max, blocked, restricted, regions, ips)
        = [restricted |-> IF regional > 0 THEN restricted ELSE <<>>,
           regions |-> IF regional > 0 THEN regions ELSE <<>>, asns |-> asns, ips |-> row]
  BY DEF Render
<1> HIDE DEF regional, asns, row
<1> QED
  BY <1>2, <1>4, <1>5

\* Of any tables that hold what the store may hold, the bans among them of any kind.
LEMMA RuleTypes ==
    ASSUME NEW s, NEW c, c.max_rule_chars \in Nat,
           s.blocked_asns \in SUBSET AsnSet, s.restricted_asns \in SUBSET AsnSet,
           s.allowed_regions \in SUBSET RegionSet, s.bans \in SUBSET HostSet
    PROVE  RuleOf(s, c) \in Rules
<1> DEFINE max == c.max_rule_chars
           blocked == InOrder(Asns, s.blocked_asns)
           restricted == InOrder(Asns, s.restricted_asns)
           regions == InOrder(Regions, s.allowed_regions)
           ips == InOrder(Reverse(Hosts), s.bans \cap V4Hosts)
<1>1. Asns \in Seq(AsnSet) /\ Regions \in Seq(RegionSet) /\ Reverse(Hosts) \in Seq(HostSet)
  <2>1. Hosts \in Seq(HostSet) /\ Asns \in Seq(AsnSet) /\ Regions \in Seq(RegionSet)
    BY PoliciesAssumption
  <2> QED
    BY <2>1 DEF Reverse
<1>2. /\ blocked \in Seq(AsnSet \cap s.blocked_asns)
      /\ restricted \in Seq(AsnSet \cap s.restricted_asns)
      /\ regions \in Seq(RegionSet \cap s.allowed_regions)
      /\ ips \in Seq(HostSet \cap (s.bans \cap V4Hosts))
  BY <1>1, InOrderTypes
<1>3. /\ AsnSet \cap s.blocked_asns \subseteq AsnSet
      /\ AsnSet \cap s.restricted_asns \subseteq AsnSet
      /\ RegionSet \cap s.allowed_regions \subseteq RegionSet
      /\ HostSet \cap (s.bans \cap V4Hosts) \subseteq V4Hosts
  OBVIOUS
<1> HIDE DEF blocked, restricted, regions, ips
<1>4. /\ blocked \in Seq(AsnSet) /\ restricted \in Seq(AsnSet)
      /\ regions \in Seq(RegionSet) /\ ips \in Seq(V4Hosts)
  BY <1>2, <1>3, RowsOfPart
<1>5. HaveSizes(AsnSet) /\ HaveSizes(V4Hosts) /\ HaveLengths(AsnSet) /\ HaveLengths(RegionSet)
  BY PoliciesAssumption DEF HaveSizes, HaveLengths, V4Hosts
<1> HIDE DEF max
<1>6. RegionalTotal(max, restricted, regions) \in Nat
  <2>1. RegionalIsRight(max, restricted, regions)
    BY <1>4, <1>5, RegionalFits DEF max
  <2> QED
    BY <2>1 DEF RegionalIsRight
<1>7. Render(max, blocked, restricted, regions, ips) \in Rules
  BY <1>4, <1>5, <1>6, RenderTypes DEF Rules, max
<1> QED
  BY <1>7 DEF RuleOf, max, blocked, restricted, regions, ips

\* A list that could not be read holds nothing.
LEMMA WithoutTypes ==
    ASSUME NEW s \in Stores, NEW lost \in SUBSET Unreadable
    PROVE  /\ Without(s, lost).blocked_asns \in SUBSET AsnSet
           /\ Without(s, lost).restricted_asns \in SUBSET AsnSet
           /\ Without(s, lost).allowed_regions \in SUBSET RegionSet
           /\ Without(s, lost).bans = s.bans /\ s.bans \in SUBSET HostSet
           /\ lost = {} => /\ Without(s, lost).blocked_asns = s.blocked_asns
                           /\ Without(s, lost).restricted_asns = s.restricted_asns
                           /\ Without(s, lost).allowed_regions = s.allowed_regions
<1>1. "bans" \notin lost
  BY PoliciesAssumption
<1>2. DOMAIN s = {"whitelist", "categories", "blocked_asns", "restricted_asns",
                  "allowed_regions", "bans"}
  BY DEF Stores
<1>3. \A table \in {"blocked_asns", "restricted_asns", "allowed_regions", "bans"} :
        Without(s, lost)[table] = IF table \in lost THEN {} ELSE s[table]
  BY <1>2 DEF Without
<1>4. /\ s.blocked_asns \in SUBSET AsnSet /\ s.restricted_asns \in SUBSET AsnSet
      /\ s.allowed_regions \in SUBSET RegionSet /\ s.bans \in SUBSET HostSet
  BY DEF Stores
<1> QED
  BY <1>1, <1>3, <1>4

\* What the pipeline is given.
LEMMA SnapshotTypes ==
    ASSUME NEW s \in Stores
    PROVE  SnapshotOf(s) \in Snapshots
BY DEF SnapshotOf, Snapshots, Stores

-----------------------------------------------------------------------------
(* The steps.                                                              *)

\* The rule depends on the tables it shows, and on nothing else of the store.
LEMMA SameRule ==
    ASSUME NEW s, NEW t, NEW c, s.blocked_asns = t.blocked_asns,
           s.restricted_asns = t.restricted_asns, s.allowed_regions = t.allowed_regions,
           s.bans = t.bans
    PROVE  RuleOf(s, c) = RuleOf(t, c)
BY DEF RuleOf

\* Once it was taken, the snapshot and the rest of what the pipeline runs with stay.
LEMMA SamePipeline ==
    ASSUME ConfigReachesThePipeline, UNCHANGED <<loaded, snapshot>>
    PROVE  ConfigReachesThePipeline'
BY DEF ConfigReachesThePipeline

LEMMA SameItems ==
    ASSUME OperatorsDecide, OpenedByOperators, store'.categories = store.categories,
           store'.whitelist = store.whitelist, store'.blocked_asns = store.blocked_asns,
           store'.allowed_regions = store.allowed_regions, wanted' = wanted
    PROVE  OperatorsDecide' /\ OpenedByOperators'
<1>1. \A item \in Items : IsIn(store', item) <=> IsIn(store, item)
  BY ItemTypes DEF IsIn
<1>2. OperatorsDecide'
  BY <1>1 DEF OperatorsDecide
<1>3. OpenedByOperators'
  BY DEF OpenedByOperators
<1> QED
  BY <1>2, <1>3

LEMMA InitPolicyInv == Init => PolicyInv
<1> SUFFICES ASSUME Init PROVE PolicyInv
  OBVIOUS
<1>1. TypeOK
  <2>1. store \in Stores
    <3> DEFINE unset == [n \in Names |-> "unset"]
    <3>1. unset \in [Names -> {"unset", "blocked", "open"}]
      OBVIOUS
    <3>2. store = [whitelist |-> {}, categories |-> unset, blocked_asns |-> {},
                   restricted_asns |-> {}, allowed_regions |-> {}, bans |-> {}]
      BY DEF Init
    <3> HIDE DEF unset
    <3> QED
      BY <3>1, <3>2 DEF Stores
  <2>2. wanted \in [Items -> {"nothing", "in", "out"}]
    BY DEF Init
  <2>3. commands \in 0 .. MaxCommands /\ starts \in 0 .. MaxStarts /\ edits \in 0 .. MaxEdits
    BY PoliciesAssumption DEF Init
  <2>4. config \in Configs /\ loaded = NotUp /\ snapshot = NotUp
        /\ pending = FALSE /\ behind = FALSE
    BY DEF Init
  <2>5. rule \in Rules
    <3> DEFINE none == <<>>
    <3>1. rule = Render(0, none, none, none, none)
      BY DEF Init
    <3>2. none \in Seq(AsnSet) /\ none \in Seq(RegionSet) /\ none \in Seq(V4Hosts)
      OBVIOUS
    <3>3. RegionalTotal(0, none, none) \in Nat
      BY DEF RegionalTotal, HasRegional
    <3>4. HaveSizes(AsnSet) /\ HaveSizes(V4Hosts)
      BY PoliciesAssumption DEF HaveSizes, V4Hosts
    <3> HIDE DEF none
    <3>5. 0 \in Nat
      OBVIOUS
    <3> QED
      BY <3>1, <3>2, <3>3, <3>4, <3>5, RenderTypes DEF Rules
  <2> QED
    BY <2>1, <2>2, <2>3, <2>4, <2>5 DEF TypeOK
<1>2. \A item \in Items : wanted[item] = "nothing" /\ ~ IsIn(store, item)
  <2> TAKE item \in Items
  <2>1. wanted[item] = "nothing"
    BY DEF Init
  <2>2. ~ IsIn(store, item)
    BY ItemTypes DEF Init, IsIn
  <2> QED
    BY <2>1, <2>2
<1>3. OpenedByOperators
  <2> SUFFICES ASSUME NEW n \in Names
               PROVE  store.categories[n] # "open" /\ wanted[<<"categories", n>>] # "out"
    BY DEF OpenedByOperators
  <2>1. store.categories[n] = "unset"
    BY DEF Init
  <2> QED
    BY <1>2, <2>1, CategoryItems
<1>4. OperatorsDecide
  BY <1>2 DEF OperatorsDecide
<1>5. ConfigReachesThePipeline /\ EdgeFollowsPolicies
  BY DEF Init, ConfigReachesThePipeline, EdgeFollowsPolicies
<1> QED
  BY <1>1, <1>3, <1>4, <1>5 DEF PolicyInv

LEMMA EditConfigKeepsInv == PolicyInv /\ EditConfig => PolicyInv'
<1> SUFFICES ASSUME PolicyInv, EditConfig PROVE PolicyInv'
  OBVIOUS
<1>1. config' \in Configs /\ edits' \in 0 .. MaxEdits
      /\ UNCHANGED <<store, loaded, snapshot, pending, rule, behind, commands, starts, wanted>>
  BY PoliciesAssumption DEF EditConfig, PolicyInv, TypeOK
<1>2. TypeOK'
  BY <1>1 DEF PolicyInv, TypeOK
<1> QED
  BY <1>1, <1>2 DEF PolicyInv, OpenedByOperators, OperatorsDecide, ConfigReachesThePipeline,
     EdgeFollowsPolicies

LEMMA StartKeepsInv == PolicyInv /\ Start => PolicyInv'
<1> SUFFICES ASSUME PolicyInv, Start PROVE PolicyInv'
  OBVIOUS
<1>1. /\ store \in Stores /\ config \in Configs
      /\ wanted \in [Items -> {"nothing", "in", "out"}] /\ DecidedIn(store)
  BY DecidedInStore DEF PolicyInv, TypeOK
<1>2. /\ loaded' = [up |-> TRUE, config |-> config, asked |-> wanted]
      /\ store' = Sync(store, config) /\ snapshot' = SnapshotOf(store') /\ pending' = TRUE
      /\ UNCHANGED <<config, rule, behind, commands, edits, wanted>>
  BY DEF Start
<1>3. starts' \in 0 .. MaxStarts
  BY PoliciesAssumption DEF Start, PolicyInv, TypeOK
<1>4. store' \in Stores /\ DecidedIn(store')
  BY <1>1, <1>2, SyncDecides
<1>5. OpenedByOperators' /\ OperatorsDecide'
  BY <1>2, <1>4 DEF DecidedIn, OpenedByOperators, OperatorsDecide
<1>6. loaded' # NotUp /\ loaded'.up = TRUE /\ loaded'.config = config /\ loaded'.asked = wanted
  BY <1>2 DEF NotUp
<1>7. TypeOK'
  <2>1. loaded' \in [up : {TRUE}, config : Configs, asked : [Items -> {"nothing", "in", "out"}]]
    BY <1>1, <1>2
  <2>2. snapshot' \in Snapshots
    BY <1>2, <1>4, SnapshotTypes
  <2> QED
    BY <1>1, <1>2, <1>3, <1>4, <1>6, <2>1, <2>2 DEF PolicyInv, TypeOK
<1>8. ConfigReachesThePipeline'
  <2>1. /\ config.blocked_asns \subseteq snapshot'.blocked_asns
        /\ config.restricted_asns \subseteq snapshot'.restricted_asns
        /\ config.allowed_regions \subseteq snapshot'.allowed_regions
        /\ config.whitelist \cap HostSet \subseteq snapshot'.whitelisted_ips
    BY <1>1, <1>2, SyncEffect DEF SnapshotOf
  <2>2. ASSUME NEW n \in config.categories, wanted[<<"categories", n>>] # "out"
        PROVE  CategoryOf[n] \in snapshot'.blocked_categories
    <3>1. n \in Names
      BY <1>1, PoliciesAssumption
    <3>2. store'.categories[n] # "open"
      BY <1>4, <2>2, <3>1 DEF DecidedIn
    <3>3. store'.categories[n] = "blocked"
      <4>1. store'.categories[n] = IF store.categories[n] = "unset" /\ n \in config.categories
                                   THEN "blocked" ELSE store.categories[n]
        BY <1>1, <1>2, <3>1, SyncEffect
      <4>2. store.categories[n] \in {"unset", "blocked", "open"}
        BY <1>1, <3>1 DEF Stores
      <4> QED
        BY <2>2, <3>2, <4>1, <4>2
    <3> QED
      BY <1>2, <3>1, <3>3 DEF SnapshotOf
  <2> QED
    BY <1>6, <2>1, <2>2 DEF ConfigReachesThePipeline
<1>9. EdgeFollowsPolicies'
  BY <1>2 DEF EdgeFollowsPolicies
<1> QED
  BY <1>5, <1>7, <1>8, <1>9 DEF PolicyInv

LEMMA StopKeepsInv == PolicyInv /\ Stop => PolicyInv'
<1> SUFFICES ASSUME PolicyInv, Stop PROVE PolicyInv'
  OBVIOUS
<1>1. loaded' = NotUp /\ snapshot' = NotUp /\ pending' = FALSE
      /\ UNCHANGED <<config, store, rule, behind, commands, starts, edits, wanted>>
  BY DEF Stop
<1>2. TypeOK'
  BY <1>1 DEF PolicyInv, TypeOK
<1> QED
  BY <1>1, <1>2 DEF PolicyInv, OpenedByOperators, OperatorsDecide, ConfigReachesThePipeline,
     EdgeFollowsPolicies

\* What a command remembers of itself.
LEMMA AskTypes ==
    ASSUME PolicyInv, NEW item \in Items, NEW add \in BOOLEAN, Ask(item, add)
    PROVE  /\ commands' \in 0 .. MaxCommands
           /\ wanted' = [wanted EXCEPT ![item] = IF add THEN "in" ELSE "out"]
BY PoliciesAssumption DEF Ask, PolicyInv, TypeOK

LEMMA CommandKeepsInv ==
    ASSUME PolicyInv, NEW item \in Items, NEW add \in BOOLEAN, Command(item, add)
    PROVE  PolicyInv'
<1>1. /\ store \in Stores /\ pending \in BOOLEAN
      /\ wanted \in [Items -> {"nothing", "in", "out"}] /\ DecidedIn(store)
  BY DecidedInStore DEF PolicyInv, TypeOK
<1>2. /\ loaded # NotUp /\ Ask(item, add) /\ store' = Execute(store, item, add)
      /\ pending' = (pending \/ Notifies(item))
      /\ UNCHANGED <<config, loaded, snapshot, rule, behind, starts, edits>>
  BY DEF Command
<1>3. commands' \in 0 .. MaxCommands
      /\ wanted' = [wanted EXCEPT ![item] = IF add THEN "in" ELSE "out"]
  BY <1>2, AskTypes
<1>4. /\ store' \in Stores /\ wanted' \in [Items -> {"nothing", "in", "out"}]
      /\ OpenedByOperators' /\ OperatorsDecide'
  BY <1>1, <1>2, <1>3, ExecuteDecides
<1>5. pending' \in BOOLEAN
  BY <1>2
<1>6. TypeOK'
  BY <1>2, <1>3, <1>4, <1>5 DEF PolicyInv, TypeOK
<1>7. ConfigReachesThePipeline'
  BY <1>2, SamePipeline DEF PolicyInv
<1>8. EdgeFollowsPolicies'
  <2> SUFFICES ASSUME ~ pending', ~ behind' PROVE rule' = RuleOf(store', loaded'.config)
    BY DEF EdgeFollowsPolicies
  <2>1. ~ pending /\ ~ behind /\ ~ Notifies(item)
    BY <1>2
  <2>2. rule = RuleOf(store, loaded.config)
    BY <1>2, <2>1 DEF PolicyInv, EdgeFollowsPolicies
  <2>3. /\ store'.blocked_asns = store.blocked_asns
        /\ store'.restricted_asns = store.restricted_asns
        /\ store'.allowed_regions = store.allowed_regions /\ store'.bans = store.bans
    BY <1>1, <1>2, <2>1, ExecuteEffect
  <2>4. RuleOf(store', loaded.config) = RuleOf(store, loaded.config)
    BY <2>3, SameRule
  <2> QED
    BY <1>2, <2>2, <2>4
<1> QED
  BY <1>4, <1>6, <1>7, <1>8 DEF PolicyInv

LEMMA OfflineCommandKeepsInv ==
    ASSUME PolicyInv, NEW item \in Items, NEW add \in BOOLEAN, OfflineCommand(item, add)
    PROVE  PolicyInv'
<1>1. /\ store \in Stores /\ config \in Configs
      /\ wanted \in [Items -> {"nothing", "in", "out"}] /\ DecidedIn(store)
  BY DecidedInStore DEF PolicyInv, TypeOK
<1>2. /\ loaded = NotUp /\ Ask(item, add) /\ store' = Execute(Sync(store, config), item, add)
      /\ UNCHANGED <<config, loaded, snapshot, pending, rule, behind, starts, edits>>
  BY DEF OfflineCommand
<1>3. commands' \in 0 .. MaxCommands
      /\ wanted' = [wanted EXCEPT ![item] = IF add THEN "in" ELSE "out"]
  BY <1>2, AskTypes
<1>4. Sync(store, config) \in Stores /\ DecidedIn(Sync(store, config))
  BY <1>1, SyncDecides
<1>5. /\ store' \in Stores /\ wanted' \in [Items -> {"nothing", "in", "out"}]
      /\ OpenedByOperators' /\ OperatorsDecide'
  BY <1>1, <1>2, <1>3, <1>4, ExecuteDecides
<1>6. TypeOK'
  BY <1>2, <1>3, <1>5 DEF PolicyInv, TypeOK
<1>7. ConfigReachesThePipeline' /\ EdgeFollowsPolicies'
  BY <1>2 DEF ConfigReachesThePipeline, EdgeFollowsPolicies
<1> QED
  BY <1>5, <1>6, <1>7 DEF PolicyInv

LEMMA OfflineListKeepsInv == PolicyInv /\ OfflineList => PolicyInv'
<1> SUFFICES ASSUME PolicyInv, OfflineList PROVE PolicyInv'
  OBVIOUS
<1>1. store \in Stores /\ config \in Configs /\ DecidedIn(store)
  BY DecidedInStore DEF PolicyInv, TypeOK
<1>2. /\ loaded = NotUp /\ store' = Sync(store, config)
      /\ UNCHANGED <<config, loaded, snapshot, pending, rule, behind, commands, starts, edits, wanted>>
  BY DEF OfflineList
<1>3. store' \in Stores /\ DecidedIn(store')
  BY <1>1, <1>2, SyncDecides
<1>4. OpenedByOperators' /\ OperatorsDecide'
  BY <1>2, <1>3 DEF DecidedIn, OpenedByOperators, OperatorsDecide
<1>5. TypeOK'
  BY <1>2, <1>3 DEF PolicyInv, TypeOK
<1>6. ConfigReachesThePipeline' /\ EdgeFollowsPolicies'
  BY <1>2 DEF ConfigReachesThePipeline, EdgeFollowsPolicies
<1> QED
  BY <1>4, <1>5, <1>6 DEF PolicyInv

\* A ban is put in or taken out, and the worker is told of it or falls behind.
LEMMA BansChange ==
    ASSUME PolicyInv, NEW bans \in SUBSET HostSet, store' = [store EXCEPT !.bans = bans],
           \/ pending' = (loaded # NotUp) /\ behind' = behind
           \/ pending' = pending /\ behind' = TRUE,
           UNCHANGED <<config, loaded, snapshot, rule, commands, starts, edits, wanted>>
    PROVE  PolicyInv'
<1>1. /\ store' \in Stores /\ store'.categories = store.categories
      /\ store'.whitelist = store.whitelist /\ store'.blocked_asns = store.blocked_asns
      /\ store'.allowed_regions = store.allowed_regions
  BY DEF PolicyInv, TypeOK, Stores
<1>2. TypeOK'
  <2>1. pending \in BOOLEAN /\ behind \in BOOLEAN /\ (pending => loaded # NotUp)
    BY DEF PolicyInv, TypeOK
  <2>2. pending' \in BOOLEAN /\ behind' \in BOOLEAN
    BY <2>1
  <2>3. pending' => loaded' # NotUp
    BY <2>1
  <2> QED
    BY <1>1, <2>2, <2>3 DEF PolicyInv, TypeOK
<1>3. OperatorsDecide' /\ OpenedByOperators'
  BY <1>1, SameItems DEF PolicyInv
<1>4. ConfigReachesThePipeline'
  BY SamePipeline DEF PolicyInv
<1>5. EdgeFollowsPolicies'
  BY DEF EdgeFollowsPolicies
<1> QED
  BY <1>2, <1>3, <1>4, <1>5 DEF PolicyInv

LEMMA JudgeKeepsInv ==
    ASSUME PolicyInv, NEW r \in Requests, Judge(r)
    PROVE  PolicyInv'
<1> DEFINE bans == store.bans \cup {r.ip}
<1>1. bans \in SUBSET HostSet
  BY PoliciesAssumption DEF PolicyInv, TypeOK, Stores
<1>2. store' = [store EXCEPT !.bans = bans] /\ pending' = (loaded # NotUp) /\ behind' = behind
      /\ UNCHANGED <<config, loaded, snapshot, rule, commands, starts, edits, wanted>>
  BY DEF Judge
<1> HIDE DEF bans
<1> QED
  BY <1>1, <1>2, BansChange

LEMMA UnbanKeepsInv ==
    ASSUME PolicyInv, NEW host \in HostSet, Unban(host)
    PROVE  PolicyInv'
<1> DEFINE bans == store.bans \ {host}
<1>1. bans \in SUBSET HostSet
  BY DEF PolicyInv, TypeOK, Stores
<1>2. store' = [store EXCEPT !.bans = bans] /\ pending' = (loaded # NotUp) /\ behind' = behind
      /\ UNCHANGED <<config, loaded, snapshot, rule, commands, starts, edits, wanted>>
  BY DEF Unban
<1> HIDE DEF bans
<1> QED
  BY <1>1, <1>2, BansChange

LEMMA ExpireKeepsInv ==
    ASSUME PolicyInv, NEW host \in HostSet, Expire(host)
    PROVE  PolicyInv'
<1> DEFINE bans == store.bans \ {host}
<1>1. bans \in SUBSET HostSet
  BY DEF PolicyInv, TypeOK, Stores
<1>2. store' = [store EXCEPT !.bans = bans] /\ pending' = pending /\ behind' = TRUE
      /\ UNCHANGED <<config, loaded, snapshot, rule, commands, starts, edits, wanted>>
  BY DEF Expire
<1> HIDE DEF bans
<1> QED
  BY <1>1, <1>2, BansChange

\* The rule is the store's if every list could be read.
LEMMA PushRuleKeepsInv == PolicyInv /\ PushRule => PolicyInv'
<1> SUFFICES ASSUME PolicyInv, PushRule PROVE PolicyInv'
  OBVIOUS
<1>1. PICK lost \in SUBSET Unreadable :
        rule' = RuleOf(Without(store, lost), loaded.config) /\ behind' = (lost # {})
  BY DEF PushRule
<1>2. /\ loaded # NotUp /\ pending' = FALSE
      /\ UNCHANGED <<config, store, loaded, snapshot, commands, starts, edits, wanted>>
  BY DEF PushRule
<1>3. store \in Stores /\ loaded.config.max_rule_chars \in Nat
  BY <1>2, PoliciesAssumption DEF PolicyInv, TypeOK
<1>4. rule' \in Rules
  <2> DEFINE s == Without(store, lost)
  <2>1. /\ s.blocked_asns \in SUBSET AsnSet /\ s.restricted_asns \in SUBSET AsnSet
        /\ s.allowed_regions \in SUBSET RegionSet /\ s.bans \in SUBSET HostSet
    BY <1>3, WithoutTypes
  <2> HIDE DEF s
  <2>2. RuleOf(s, loaded.config) \in Rules
    BY <1>3, <2>1, RuleTypes
  <2> QED
    BY <1>1, <2>2 DEF s
<1>5. behind' \in BOOLEAN
  BY <1>1
<1>6. TypeOK'
  BY <1>2, <1>4, <1>5 DEF PolicyInv, TypeOK
<1>7. OperatorsDecide' /\ OpenedByOperators'
  BY <1>2 DEF PolicyInv, OperatorsDecide, OpenedByOperators
<1>8. ConfigReachesThePipeline'
  BY <1>2, SamePipeline DEF PolicyInv
<1>9. EdgeFollowsPolicies'
  <2> SUFFICES ASSUME lost = {} PROVE rule' = RuleOf(store, loaded.config)
    BY <1>1, <1>2 DEF EdgeFollowsPolicies
  <2> DEFINE s == Without(store, lost)
  <2>1. /\ s.blocked_asns = store.blocked_asns /\ s.restricted_asns = store.restricted_asns
        /\ s.allowed_regions = store.allowed_regions /\ s.bans = store.bans
    BY <1>3, WithoutTypes
  <2> HIDE DEF s
  <2>2. RuleOf(s, loaded.config) = RuleOf(store, loaded.config)
    BY <2>1, SameRule
  <2> QED
    BY <1>1, <2>2 DEF s
<1> QED
  BY <1>6, <1>7, <1>8, <1>9 DEF PolicyInv

LEMMA FailRoundKeepsInv == PolicyInv /\ FailRound => PolicyInv'
<1> SUFFICES ASSUME PolicyInv, FailRound PROVE PolicyInv'
  OBVIOUS
<1>1. /\ pending' = FALSE /\ behind' = TRUE
      /\ UNCHANGED <<config, store, loaded, snapshot, rule, commands, starts, edits, wanted>>
  BY DEF FailRound
<1>2. TypeOK'
  BY <1>1 DEF PolicyInv, TypeOK
<1>3. OperatorsDecide' /\ OpenedByOperators'
  BY <1>1 DEF PolicyInv, OperatorsDecide, OpenedByOperators
<1>4. ConfigReachesThePipeline'
  BY <1>1, SamePipeline DEF PolicyInv
<1>5. EdgeFollowsPolicies'
  BY <1>1 DEF EdgeFollowsPolicies
<1> QED
  BY <1>2, <1>3, <1>4, <1>5 DEF PolicyInv

LEMMA StepKeepsPolicyInv == PolicyInv /\ [Next]_vars => PolicyInv'
<1> SUFFICES ASSUME PolicyInv, [Next]_vars PROVE PolicyInv'
  OBVIOUS
<1>1. CASE UNCHANGED vars
  <2>1. TypeOK'
    BY <1>1 DEF vars, PolicyInv, TypeOK
  <2> QED
    BY <1>1, <2>1 DEF vars, PolicyInv, OpenedByOperators, OperatorsDecide,
       ConfigReachesThePipeline, EdgeFollowsPolicies
<1> QED
  BY <1>1, EditConfigKeepsInv, StartKeepsInv, StopKeepsInv, CommandKeepsInv,
     OfflineCommandKeepsInv, OfflineListKeepsInv, JudgeKeepsInv, UnbanKeepsInv,
     ExpireKeepsInv, PushRuleKeepsInv, FailRoundKeepsInv DEF Next

LEMMA PolicyInvHolds == Spec => []PolicyInv
BY InitPolicyInv, StepKeepsPolicyInv, PTL DEF Spec

-----------------------------------------------------------------------------
(* The theorems.                                                           *)

\* The tables, the snapshot and the rule keep their types, the rule names IPv4
\* addresses only, and the snapshot is there exactly while the daemon is up.
THEOREM PolicyTypes == Spec => []TypeOK
<1>1. PolicyInv => TypeOK
  BY DEF PolicyInv
<1> QED
  BY <1>1, PolicyInvHolds, PTL

\* However often a configuration is copied over the store, what operators put in
\* stays in and a category they opened stays open.
THEOREM OperatorsPrevail == Spec => []OperatorsDecide
<1>1. PolicyInv => OperatorsDecide
  BY DEF PolicyInv
<1> QED
  BY <1>1, PolicyInvHolds, PTL

\* The pipeline of a running daemon enforces the configuration of its start.
THEOREM PipelineEnforcesItsConfig == Spec => []ConfigReachesThePipeline
<1>1. PolicyInv => ConfigReachesThePipeline
  BY DEF PolicyInv
<1> QED
  BY <1>1, PolicyInvHolds, PTL

\* Whenever no unit is on its way to the worker, the rule at Cloudflare is the one
\* of the store, but for what its latest round missed and for bans that expired since.
THEOREM RuleFollowsPolicies == Spec => []EdgeFollowsPolicies
<1>1. PolicyInv => EdgeFollowsPolicies
  BY DEF PolicyInv
<1> QED
  BY <1>1, PolicyInvHolds, PTL

\* Then it keeps within its budget and uses it to the full for the IPv4 bans, whatever
\* the tables hold and however long the items are.
THEOREM RuleSpendsItsBudget == Spec => []RuleIsFullest
<1>1. PolicyInv => RuleIsFullest
  <2> SUFFICES ASSUME PolicyInv, loaded # NotUp, ~ pending, ~ behind
               PROVE  LET max == loaded.config.max_rule_chars
                          blocked == InOrder(Asns, store.blocked_asns)
                          restricted == InOrder(Asns, store.restricted_asns)
                          regions == InOrder(Regions, store.allowed_regions)
                          ips == InOrder(Reverse(Hosts), store.bans \cap V4Hosts)
                      IN /\ TextLength(rule) <= max
                         /\ IsFullest(rule, max, blocked, restricted, regions, ips)
    BY DEF RuleIsFullest
  <2> DEFINE max == loaded.config.max_rule_chars
             blocked == InOrder(Asns, store.blocked_asns)
             restricted == InOrder(Asns, store.restricted_asns)
             regions == InOrder(Regions, store.allowed_regions)
             ips == InOrder(Reverse(Hosts), store.bans \cap V4Hosts)
  <2>1. max \in Nat
    BY PoliciesAssumption DEF PolicyInv, TypeOK
  <2>2. Asns \in Seq(AsnSet) /\ Regions \in Seq(RegionSet) /\ Reverse(Hosts) \in Seq(HostSet)
    <3>1. Hosts \in Seq(HostSet) /\ Asns \in Seq(AsnSet) /\ Regions \in Seq(RegionSet)
      BY PoliciesAssumption
    <3> QED
      BY <3>1 DEF Reverse
  <2>3. /\ blocked \in Seq(AsnSet) /\ restricted \in Seq(AsnSet)
        /\ regions \in Seq(RegionSet) /\ ips \in Seq(HostSet)
    <3>1. /\ blocked \in Seq(AsnSet \cap store.blocked_asns)
          /\ restricted \in Seq(AsnSet \cap store.restricted_asns)
          /\ regions \in Seq(RegionSet \cap store.allowed_regions)
          /\ ips \in Seq(HostSet \cap (store.bans \cap V4Hosts))
      BY <2>2, InOrderTypes
    <3> HIDE DEF blocked, restricted, regions, ips
    <3> QED
      BY <3>1, RowsOfPart
  <2>4. HaveSizes(AsnSet) /\ HaveSizes(HostSet) /\ HaveLengths(AsnSet) /\ HaveLengths(RegionSet)
    BY PoliciesAssumption DEF HaveSizes, HaveLengths
  <2>5. rule = Render(max, blocked, restricted, regions, ips)
    BY DEF PolicyInv, EdgeFollowsPolicies, RuleOf
  <2> HIDE DEF max, blocked, restricted, regions, ips
  <2>6. TextLength(rule) <= max /\ IsFullest(rule, max, blocked, restricted, regions, ips)
    BY <2>1, <2>3, <2>4, <2>5, RenderIsFullest
  <2> QED
    BY <2>6 DEF max, blocked, restricted, regions, ips
<1> QED
  BY <1>1, PolicyInvHolds, PTL

\* A command holds when it returns, online or offline.
THEOREM CommandsHold == Spec => CommandsTakeEffect
<1>1. PolicyInv /\ [Next]_vars
      => [\A item \in Items :
            wanted'[item] # wanted[item]
                => (IsIn(store', item) <=> wanted'[item] = "in")]_vars
  <2> SUFFICES ASSUME PolicyInv, Next, NEW i \in Items, wanted'[i] # wanted[i]
               PROVE  IsIn(store', i) <=> wanted'[i] = "in"
    BY DEF vars
  <2>1. PICK item \in Items, add \in BOOLEAN : Command(item, add) \/ OfflineCommand(item, add)
    BY DEF Next, EditConfig, Start, Stop, OfflineList, Judge, Unban, Expire, PushRule, FailRound
  <2>2. PICK s \in Stores : store' = Execute(s, item, add)
    <3>1. store \in Stores /\ Sync(store, config) \in Stores
      BY SyncEffect DEF PolicyInv, TypeOK
    <3> QED
      BY <2>1, <3>1 DEF Command, OfflineCommand
  <2>3. wanted' = [wanted EXCEPT ![item] = IF add THEN "in" ELSE "out"]
    BY <2>1 DEF Command, OfflineCommand, Ask
  <2>4. i = item /\ wanted'[i] = IF add THEN "in" ELSE "out"
    BY <2>3 DEF PolicyInv, TypeOK
  <2>5. IsIn(store', item) <=> add
    BY <2>2, ExecuteEffect
  <2> QED
    BY <2>4, <2>5
<1>2. Spec => [][\A item \in Items :
            wanted'[item] # wanted[item]
                => (IsIn(store', item) <=> wanted'[item] = "in")]_vars
  BY <1>1, PolicyInvHolds, PTL DEF Spec
<1> QED
  BY <1>2 DEF CommandsTakeEffect
=============================================================================
