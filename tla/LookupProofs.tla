----------------------------- MODULE LookupProofs -----------------------------
(* Theorems about Lookup, for every listing, page size, name and limit. *)
EXTENDS Lookup, FiniteSetTheorems, TLAPS

LEMMA ListingFacts ==
  /\ Len(LISTING) \in Nat /\ DOMAIN LISTING = 1..Len(LISTING)
  /\ \A k \in 1..Len(LISTING) : LISTING[k] \in DATABASES
  /\ \A d \in DATABASES : \E k \in 1..Len(LISTING) : d = LISTING[k]
  /\ \A j, k \in 1..Len(LISTING) : LISTING[j] = LISTING[k] => j = k
  /\ \A d \in DATABASES : d.id \in Ids /\ d.instance \in Instances
<1>1. Len(LISTING) \in Nat /\ DOMAIN LISTING = 1..Len(LISTING)
  BY ListingAssumption
<1>2. \A j, k \in 1..Len(LISTING) : LISTING[j] = LISTING[k] => j = k
  BY <1>1, ListingAssumption
<1>3. DATABASES = {LISTING[k] : k \in 1..Len(LISTING)}
  BY <1>1 DEF DATABASES, Range
<1> QED
  BY <1>1, <1>2, <1>3 DEF Ids, Instances

LEMMA DatabasesFinite == IsFiniteSet(DATABASES)
<1>1. IsFiniteSet(1..Len(LISTING))
  BY ListingFacts, FS_Interval
<1>2. LISTING \in [1..Len(LISTING) -> DATABASES]
  BY ListingAssumption
<1>3. LISTING \in Surjection(1..Len(LISTING), DATABASES)
  BY <1>2, ListingFacts DEF Surjection
<1> QED
  BY <1>1, <1>3, FS_Surjection

-----------------------------------------------------------------------------
(***************************************************************************)
(* Matching: what one, none and several matches say of the entries.        *)
(***************************************************************************)
LEMMA MatchFacts ==
  ASSUME NEW S, \A e \in S : e.db \in DATABASES
  PROVE  /\ Matches(S) \subseteq S
         /\ \A e \in Matches(S), f \in S :
               /\ TIER[f.db.id] >= TIER[e.db.id]
               /\ TIER[f.db.id] = TIER[e.db.id] => f \in Matches(S)
         /\ Matches(S) = {} => \A e \in S : TIER[e.db.id] = 4
<1> DEFINE t(e) == TIER[e.db.id]
<1>1. \A e \in S : t(e) \in 1..4
  BY ListingFacts, TierAssumption
<1>2. \A e : e \in Matches(S) <=> e \in S /\ t(e) <= 3 /\ \A f \in S : t(e) <= t(f)
  BY DEF Matches
<1>3. \A e \in Matches(S), f \in S : t(f) >= t(e) /\ (t(f) = t(e) => f \in Matches(S))
  BY <1>1, <1>2
<1>4. ASSUME NEW e \in S, t(e) # 4 PROVE \E f \in S : f \in Matches(S)
  <2>1. t(e) \in 1..3
    BY <1>1, <1>4
  <2>2. CASE \E f \in S : t(f) = 1
    BY <1>1, <1>2, <2>2
  <2>3. CASE (\A f \in S : t(f) # 1) /\ \E f \in S : t(f) = 2
    BY <1>1, <1>2, <2>3
  <2>4. CASE (\A f \in S : t(f) # 1) /\ (\A f \in S : t(f) # 2)
    BY <1>1, <1>2, <1>4, <2>1, <2>4
  <2> QED
    BY <2>2, <2>3, <2>4
<1>5. Matches(S) \subseteq S
  BY <1>2
<1> QED
  BY <1>3, <1>4, <1>5

\* Several matches of several databases are at least two candidates.
LEMMA Ambiguous ==
  ASSUME NEW M, IsFiniteSet(M), Cardinality(M) > 1, \A e, f \in M : e.db = f.db => e = f,
         \A e \in M : e.db \in DATABASES
  PROVE  Cardinality({e.db : e \in M}) >= 2
<1> DEFINE C == {e.db : e \in M}
<1>1. Cardinality(M) \in Nat
  BY FS_CardinalityType
<1>2. M # {}
  BY <1>1, FS_EmptySet
<1>3. PICK e \in M : TRUE
  BY <1>2
<1>4. M # {e}
  BY <1>1, FS_Singleton
<1>5. PICK f \in M : f # e
  BY <1>3, <1>4
<1>6. e.db # f.db /\ e.db \in C /\ f.db \in C
  BY <1>3, <1>5
<1>7. IsFiniteSet(C)
  <2>1. C \subseteq DATABASES
    OBVIOUS
  <2> QED
    BY <2>1, DatabasesFinite, FS_Subset
<1>8. Cardinality(C) \in Nat
  BY <1>7, FS_CardinalityType
<1>9. Cardinality(C) # 0 /\ Cardinality(C) # 1
  <2>1. C # {}
    BY <1>6
  <2>2. \A x : C # {x}
    BY <1>6
  <2> QED
    BY <1>7, <2>1, <2>2, FS_EmptySet, FS_Singleton
<1> QED
  BY <1>8, <1>9

-----------------------------------------------------------------------------
(***************************************************************************)
(* One page of the listing.                                                *)
(***************************************************************************)
LEMMA PageFacts ==
  ASSUME TypeOK, SourceInv, NEW from \in Nat, NEW to \in Nat, to <= Len(LISTING)
  PROVE  /\ IsFiniteSet(Page(from, to))
         /\ \A e \in Page(from, to) :
               /\ \E k \in (from + 1)..to : e.db = LISTING[k]
               /\ e.db \in DATABASES /\ e.sources = sources[e.db.instance]
         /\ \A e, f \in Page(from, to) : e.db = f.db => e = f
         /\ \A k \in (from + 1)..to : LISTING[k] \in catalog /\ LISTING[k] \in admitted =>
               \E e \in Page(from, to) : e.db = LISTING[k]
<1> DEFINE D == {d \in admitted \intersect catalog : \E k \in (from + 1)..to : LISTING[k] = d}
           f == [d \in D |-> Entry(d)]
<1>1. Page(from, to) = {Entry(d) : d \in D}
  BY DEF Page
<1>2. D \subseteq DATABASES
  BY DEF TypeOK
<1>3. IsFiniteSet(D)
  BY <1>2, DatabasesFinite, FS_Subset
<1>4. f \in Surjection(D, Page(from, to))
  BY <1>1 DEF Surjection
<1>5. IsFiniteSet(Page(from, to))
  BY <1>3, <1>4, FS_Surjection
<1>6. \A d : Entry(d).db = d /\ Entry(d).sources = sources[d.instance]
  BY DEF Entry
<1>7. \A e \in Page(from, to) : e.db \in D /\ e = Entry(e.db)
  BY <1>1, <1>6
<1>8. \A d \in D : Entry(d) \in Page(from, to)
  BY <1>1
<1>9. \A k \in (from + 1)..to : LISTING[k] \in catalog /\ LISTING[k] \in admitted =>
               \E e \in Page(from, to) : e.db = LISTING[k]
  BY <1>6, <1>8
<1>10. \A e \in Page(from, to) :
               /\ \E k \in (from + 1)..to : e.db = LISTING[k]
               /\ e.db \in DATABASES /\ e.sources = sources[e.db.instance]
  BY <1>2, <1>6, <1>7
<1>11. \A e, g \in Page(from, to) : e.db = g.db => e = g
  BY <1>7
<1> HIDE DEF D, f
<1> QED
  BY <1>5, <1>9, <1>10, <1>11

\* With the next page the entries still are what EntriesInv and PagesInv say.
LEMMA ExtendedFacts ==
  ASSUME TypeOK, PagesInv, EntriesInv, SourceInv, pc = "list",
         NEW to \in (pageToken + 1)..Len(LISTING),
         NEW S, S = Extended(Page(From, to))
  PROVE  /\ IsFiniteSet(S)
         /\ \A e \in S : /\ e.db \in DATABASES /\ \E k \in 1..to : e.db = LISTING[k]
                         /\ e.db.instance \in replicated => "READ_ONLY" \in e.sources
         /\ \A e, f \in S : e.db = f.db => e = f
         /\ \A k \in 1..to : LISTING[k] \in steady \intersect admitted =>
               \E e \in S : e.db = LISTING[k]
<1> DEFINE P == Page(pageToken, to)
<1>0. /\ Len(LISTING) \in Nat /\ pageToken \in Nat /\ pageToken <= Len(LISTING)
      /\ to \in Nat /\ pageToken < to /\ to <= Len(LISTING)
  BY ListingFacts DEF TypeOK
<1>1. S = all \union P
  BY DEF Extended, From
<1>2. /\ IsFiniteSet(P)
      /\ \A e \in P : /\ \E k \in (pageToken + 1)..to : e.db = LISTING[k]
                      /\ e.db \in DATABASES /\ e.sources = sources[e.db.instance]
      /\ \A e, f \in P : e.db = f.db => e = f
      /\ \A k \in (pageToken + 1)..to : LISTING[k] \in catalog /\ LISTING[k] \in admitted =>
               \E e \in P : e.db = LISTING[k]
  BY <1>0, PageFacts
<1> HIDE DEF P
<1>3. IsFiniteSet(S)
  <2>1. IsFiniteSet(all) /\ IsFiniteSet(P)
    BY <1>2 DEF EntriesInv
  <2>2. IsFiniteSet(all \cup P)
    BY <2>1, FS_Union
  <2> QED
    BY <1>1, <2>2
<1>4. \A k \in 1..pageToken : k \in 1..to
  BY <1>0
<1>5. \A k \in (pageToken + 1)..to : k \in 1..to /\ k \notin 1..pageToken
  BY <1>0
<1>6. \A k \in 1..to : k \in 1..Len(LISTING) /\ (k \in 1..pageToken \/ k \in (pageToken + 1)..to)
  BY <1>0
<1>7. \A e \in all : e.db \in DATABASES /\ \E k \in 1..pageToken : e.db = LISTING[k]
  BY DEF TypeOK, EntriesInv
<1>8. ASSUME NEW e \in S
      PROVE  /\ e.db \in DATABASES /\ \E k \in 1..to : e.db = LISTING[k]
             /\ e.db.instance \in replicated => "READ_ONLY" \in e.sources
  <2>1. CASE e \in all
    BY <1>4, <1>7, <2>1 DEF EntriesInv
  <2>2. CASE e \in P
    BY <1>2, <1>5, <2>2 DEF SourceInv
  <2> QED
    BY <1>1, <2>1, <2>2
<1>9. ASSUME NEW e \in S, NEW f \in S, e.db = f.db PROVE e = f
  <2>1. \A a \in all, b \in P : a.db # b.db
    <3> SUFFICES ASSUME NEW a \in all, NEW b \in P, a.db = b.db PROVE FALSE
      OBVIOUS
    <3>1. PICK j \in 1..pageToken : a.db = LISTING[j]
      BY <1>7
    <3>2. PICK k \in (pageToken + 1)..to : b.db = LISTING[k]
      BY <1>2
    <3>3. j \in 1..Len(LISTING) /\ k \in 1..Len(LISTING) /\ j # k
      BY <1>4, <1>5, <1>6
    <3> QED
      BY <3>1, <3>2, <3>3, ListingFacts
  <2> QED
    BY <1>1, <1>2, <1>9, <2>1 DEF EntriesInv
<1>10. ASSUME NEW k \in 1..to, LISTING[k] \in steady \intersect admitted
       PROVE  \E e \in S : e.db = LISTING[k]
  <2>1. CASE k \in 1..pageToken
    BY <1>1, <1>10, <2>1 DEF PagesInv
  <2>2. CASE k \in (pageToken + 1)..to
    BY <1>1, <1>2, <1>10, <2>2 DEF TypeOK
  <2> QED
    BY <1>6, <2>1, <2>2
<1> QED
  BY <1>3, <1>8, <1>9, <1>10

\* The listing ends only when no database that stayed is left out.
LEMMA LastPage ==
  ASSUME TypeOK, SourceInv, NEW to \in 1..Len(LISTING), NextToken(to) = 0,
         NEW S, \A k \in 1..to : LISTING[k] \in steady \intersect admitted =>
                    \E e \in S : e.db = LISTING[k]
  PROVE  \A d \in steady \intersect admitted : \E e \in S : e.db = d
<1>0. Len(LISTING) \in Nat /\ to \in Nat /\ to # 0 /\ to <= Len(LISTING)
  BY ListingFacts
<1>1. Page(to, Len(LISTING)) = {}
  BY <1>0 DEF NextToken
<1>2. \A k \in (to + 1)..Len(LISTING) : ~ (LISTING[k] \in catalog /\ LISTING[k] \in admitted)
  BY <1>0, <1>1, PageFacts
<1> SUFFICES ASSUME NEW d \in steady, d \in admitted PROVE \E e \in S : e.db = d
  OBVIOUS
<1>3. d \in catalog /\ d \in DATABASES
  BY DEF TypeOK
<1>4. PICK k \in 1..Len(LISTING) : d = LISTING[k]
  BY <1>3, ListingFacts
<1>5. k \in 1..to \/ k \in (to + 1)..Len(LISTING)
  BY <1>0
<1> QED
  BY <1>2, <1>3, <1>4, <1>5

-----------------------------------------------------------------------------
(***************************************************************************)
(* The step that resolves or refuses.                                      *)
(***************************************************************************)
LEMMA DecideFacts ==
  ASSUME TypeOK, NeverAPick, RefusalIsTrue, StartInv, out = Pending,
         NEW S, IsFiniteSet(S),
         \A e \in S : /\ e.db \in DATABASES
                      /\ e.db.instance \in replicated => "READ_ONLY" \in e.sources,
         \A e, f \in S : e.db = f.db => e = f,
         \A d \in steady \intersect admitted : \E e \in S : e.db = d,
         Decide(Matches(S)), UNCHANGED <<full, admitted, steady, replicated>>, pc = "list"
  PROVE  /\ NeverAPick' /\ RefusalIsTrue'
         /\ \/ /\ pc' = "call" /\ resolved' \in DATABASES /\ out' = out
               /\ source' \in {None, "READ_ONLY", "ADMIN"}
               /\ resolved'.instance \in replicated => source' = "READ_ONLY"
            \/ /\ pc' = "done" /\ UNCHANGED <<resolved, source>>
               /\ out'.result \in {"database_not_found", "ambiguous_target"}
<1> DEFINE M == Matches(S)
<1>1. /\ M \subseteq S
      /\ \A e \in M, f \in S : /\ TIER[f.db.id] >= TIER[e.db.id]
                               /\ TIER[f.db.id] = TIER[e.db.id] => f \in M
      /\ M = {} => \A e \in S : TIER[e.db.id] = 4
  BY MatchFacts
<1>2. IsFiniteSet(M)
  BY <1>1, FS_Subset
<1>3. \A d \in DATABASES : TIER[d.id] \in 1..4
  BY ListingFacts, TierAssumption
<1>4. admitted' = admitted /\ steady' = steady
  OBVIOUS
<1>5. Decide(M)
  OBVIOUS
<1> HIDE DEF M
<1>6. CASE M = {} /\ End([result |-> "database_not_found"]) /\ UNCHANGED <<resolved, source>>
  <2>1. out' = [result |-> "database_not_found"] /\ pc' = "done"
    BY <1>6 DEF End
  <2>2. \A d \in steady \intersect admitted : TIER[d.id] = 4
    BY <1>1, <1>6
  <2>3. RefusalIsTrue'
    BY <1>4, <2>1, <2>2 DEF RefusalIsTrue
  <2>4. NeverAPick'
    BY <1>4, <1>6 DEF NeverAPick
  <2> QED
    BY <1>6, <2>1, <2>3, <2>4
<1>7. CASE Cardinality(M) = 1 /\ (\E e \in M : FromEntry(e)) /\ pc' = "call" /\ UNCHANGED out
  <2>1. PICK e \in M : FromEntry(e)
    BY <1>7
  <2>2. \A f \in M : f = e
    BY <1>2, <1>7, FS_Singleton
  <2>3. resolved' = e.db /\ source' = DataSource(e.sources) /\ e \in S
    BY <1>1, <2>1 DEF FromEntry
  <2>4. source' \in {None, "READ_ONLY", "ADMIN"}
        /\ ("READ_ONLY" \in e.sources => source' = "READ_ONLY")
    BY <2>3 DEF DataSource
  <2>5. \A d \in steady \intersect admitted : d # e.db => TIER[d.id] > TIER[e.db.id]
    <3> SUFFICES ASSUME NEW d \in steady \intersect admitted, d # e.db
                 PROVE  TIER[d.id] > TIER[e.db.id]
      OBVIOUS
    <3>1. PICK f \in S : f.db = d
      OBVIOUS
    <3>2. f \notin M
      BY <2>2, <3>1
    <3>3. TIER[d.id] >= TIER[e.db.id] /\ TIER[d.id] # TIER[e.db.id]
      BY <1>1, <3>1, <3>2
    <3>4. TIER[d.id] \in 1..4 /\ TIER[e.db.id] \in 1..4
      BY <1>3, <2>3, <3>1
    <3> QED
      BY <3>3, <3>4
  <2>6. NeverAPick'
    BY <1>4, <2>3, <2>5 DEF NeverAPick
  <2>7. RefusalIsTrue'
    BY <1>7 DEF RefusalIsTrue, Pending
  <2> QED
    BY <1>7, <2>3, <2>4, <2>6, <2>7
<1>8. CASE /\ Cardinality(M) > 1
           /\ End([result |-> "ambiguous_target", candidates |-> {e.db : e \in M}])
           /\ UNCHANGED <<resolved, source>>
  <2> DEFINE C == {e.db : e \in M}
  <2>1. out'.result = "ambiguous_target" /\ out'.candidates = C /\ pc' = "done"
    BY <1>8 DEF End
  <2>2. Cardinality(C) >= 2
    BY <1>1, <1>2, <1>8, Ambiguous
  <2>3. ASSUME NEW c \in C, NEW d \in steady \intersect admitted
        PROVE  TIER[d.id] >= TIER[c.id] /\ (TIER[d.id] = TIER[c.id] => d \in C)
    <3>1. PICK e \in M : c = e.db
      BY <2>3
    <3>2. PICK f \in S : f.db = d
      BY <2>3
    <3> QED
      BY <1>1, <3>1, <3>2
  <2> HIDE DEF C
  <2>4. RefusalIsTrue'
    BY <1>4, <2>1, <2>2, <2>3 DEF RefusalIsTrue
  <2>5. NeverAPick'
    BY <1>4, <1>8 DEF NeverAPick
  <2> QED
    BY <1>8, <2>1, <2>4, <2>5
<1> QED
  BY <1>5, <1>6, <1>7, <1>8 DEF Decide

-----------------------------------------------------------------------------
(***************************************************************************)
(* Tables: what an answer under a limit holds, and what is shown of it.    *)
(***************************************************************************)
LEMMA TablesFinite ==
  /\ \A d : IsFiniteSet(TablesOf(d)) /\ SchemasOf(d) \subseteq SCHEMAS \union {None}
  /\ \A d : \A t \in TablesOf(d) : t[1] \in SchemasOf(d) /\ t[2] \in TABLES /\ t = <<t[1], t[2]>>
  /\ IsFiniteSet(TABLES) /\ TABLES \subseteq Nat \ {0}
<1>1. IsFiniteSet(SCHEMAS) /\ IsFiniteSet({None}) /\ IsFiniteSet(TABLES)
  BY LimitsAssumption, FS_Singleton
<1>2. \A d : IsFiniteSet(SchemasOf(d))
  BY <1>1 DEF SchemasOf
<1>3. \A d : IsFiniteSet(TablesOf(d))
  BY <1>1, <1>2, FS_Product DEF TablesOf
<1>4. \A d : SchemasOf(d) \subseteq SCHEMAS \union {None}
  BY DEF SchemasOf
<1>5. \A d : \A t \in TablesOf(d) : t[1] \in SchemasOf(d) /\ t[2] \in TABLES /\ t = <<t[1], t[2]>>
  BY DEF TablesOf
<1>6. TABLES \subseteq Nat \ {0}
  <2>1. Cardinality(TABLES) \in Nat
    BY <1>1, FS_CardinalityType
  <2> QED
    BY <2>1, LimitsAssumption
<1> QED
  BY <1>1, <1>3, <1>4, <1>5, <1>6

\* Names all of which are among the first n are at most n.
LEMMA FirstFacts ==
  ASSUME NEW names \in SUBSET TABLES, NEW n \in Nat, names \subseteq FirstByName(names, n)
  PROVE  Cardinality(names) <= n
<1> DEFINE Below(t) == {u \in names : u < t}
           rank == [t \in names |-> Cardinality(Below(t))]
<1>1. IsFiniteSet(names) /\ names \subseteq Nat
  BY TablesFinite, FS_Subset
<1>2. \A t \in names : IsFiniteSet(Below(t)) /\ Cardinality(Below(t)) \in Nat
  <2> SUFFICES ASSUME NEW t \in names PROVE IsFiniteSet(Below(t)) /\ Cardinality(Below(t)) \in Nat
    OBVIOUS
  <2>1. Below(t) \in SUBSET names
    OBVIOUS
  <2> QED
    BY <1>1, <2>1, FS_Subset, FS_CardinalityType
<1>3. \A t \in names : Cardinality(Below(t)) < n
  BY DEF FirstByName
<1>4. rank \in [names -> 0..(n - 1)]
  BY <1>2, <1>3
<1>5. \A t, u \in names : t < u => Cardinality(Below(t)) # Cardinality(Below(u))
  <2> SUFFICES ASSUME NEW t \in names, NEW u \in names, t < u
               PROVE  Cardinality(Below(t)) # Cardinality(Below(u))
    OBVIOUS
  <2>1. Below(t) \in SUBSET Below(u)
    <3>1. t \in Nat /\ u \in Nat /\ \A x \in names : x \in Nat
      BY <1>1
    <3>2. \A x \in names : x < t => x < u
      BY <3>1
    <3> QED
      BY <3>2
  <2>2. t \in Below(u) /\ t \notin Below(t)
    BY <1>1
  <2>3. IsFiniteSet(Below(u)) /\ Below(t) # Below(u)
    BY <1>2, <2>2
  <2> HIDE DEF Below
  <2> QED
    BY <2>1, <2>3, FS_Subset
<1>6. rank \in Injection(names, 0..(n - 1))
  <2>1. \A t, u \in names : t = u \/ t < u \/ u < t
    BY <1>1
  <2>2. IsInjective(rank)
    BY <1>5, <2>1 DEF IsInjective
  <2> QED
    BY <1>4, <2>2 DEF Injection
<1>7. 0 \in Int /\ n - 1 \in Int
  OBVIOUS
<1>8. IsFiniteSet(0..(n - 1)) /\ Cardinality(0..(n - 1)) = IF 0 > n - 1 THEN 0 ELSE (n - 1) - 0 + 1
  BY <1>7, FS_Interval
<1>9. Cardinality(names) <= Cardinality(0..(n - 1))
  BY <1>6, <1>8, FS_Injection
<1> QED
  BY <1>8, <1>9

\* An answer holds no table that is not there, and of each schema as many as it may.
LEMMA AnswersFacts ==
  ASSUME NEW d, NEW tables \in SUBSET TablesOf(d), NEW limit \in Nat,
         NEW a \in Answers(tables, limit), NEW s \in SCHEMAS \union {None}
  PROVE  /\ a \subseteq tables
         /\ InSchema(tables, s) \subseteq TABLES /\ InSchema(a, s) \subseteq InSchema(tables, s)
         /\ IsFiniteSet(InSchema(tables, s)) /\ Cardinality(InSchema(tables, s)) \in Nat
         /\ Cardinality(InSchema(a, s)) = AtMost(Cardinality(InSchema(tables, s)), limit)
         /\ Cardinality(InSchema(a, s)) = Cardinality(InSchema(tables, s)) =>
                InSchema(a, s) = InSchema(tables, s)
<1>1. a \subseteq tables
      /\ Cardinality(InSchema(a, s)) = AtMost(Cardinality(InSchema(tables, s)), limit)
  BY DEF Answers
<1>2. InSchema(tables, s) \in SUBSET TABLES /\ InSchema(a, s) \in SUBSET InSchema(tables, s)
  BY <1>1, TablesFinite DEF InSchema
<1>3. IsFiniteSet(InSchema(tables, s))
  BY <1>2, TablesFinite, FS_Subset
<1>4. Cardinality(InSchema(tables, s)) \in Nat
  BY <1>3, FS_CardinalityType
<1>5. Cardinality(InSchema(a, s)) = Cardinality(InSchema(tables, s)) =>
                InSchema(a, s) = InSchema(tables, s)
  BY <1>2, <1>3, FS_Subset
<1> QED
  BY <1>1, <1>2, <1>3, <1>4, <1>5

\* Without a limit everything asked for is in the answer.
LEMMA AllAnswered ==
  ASSUME NEW d, NEW tables \in SUBSET TablesOf(d), NEW a \in Answers(tables, NoLimit)
  PROVE  a = tables
<1>1. NoLimit \in Nat
  BY DEF NoLimit
<1>2. a \subseteq tables
  BY DEF Answers
<1>3. ASSUME NEW t \in tables PROVE t \in a
  <2>1. t[1] \in SCHEMAS \union {None} /\ t = <<t[1], t[2]>>
    BY TablesFinite
  <2>2. Cardinality(InSchema(a, t[1])) = AtMost(Cardinality(InSchema(tables, t[1])), NoLimit)
    BY <1>1, <2>1, AnswersFacts
  <2>3. InSchema(a, t[1]) = InSchema(tables, t[1])
    BY <1>1, <2>1, <2>2, AnswersFacts DEF AtMost
  <2>4. t[2] \in InSchema(a, t[1])
    BY <2>3 DEF InSchema
  <2>5. PICK u \in a : u[1] = t[1] /\ u[2] = t[2]
    BY <2>4 DEF InSchema
  <2>6. u = <<u[1], u[2]>>
    BY <1>2, TablesFinite
  <2> QED
    BY <2>1, <2>5, <2>6
<1> QED
  BY <1>2, <1>3

\* What a schema's section says of the tables there.
LEMMA SectionFacts ==
  ASSUME NEW d, NEW tables \in SUBSET TablesOf(d), NEW include \in {"summary", "columns", "details"},
         NEW L, L = LimitForInclude(include, NoTable), NEW a \in Answers(tables, L),
         NEW s \in SCHEMAS \union {None}
  PROVE  Section(InSchema(a, s), include).truncated <=>
            Section(InSchema(a, s), include).shown # InSchema(tables, s)
<1> DEFINE names == InSchema(a, s)
           there == InSchema(tables, s)
<1>1. TABLE_LIMIT \in Nat
  BY LimitsAssumption
<1>2. L \in Nat /\ L = IF include \in {"columns", "details"} THEN TABLE_LIMIT + 1 ELSE 0
  BY <1>1 DEF LimitForInclude, NoLimit
<1>3. /\ names \subseteq there /\ there \subseteq TABLES /\ Cardinality(there) \in Nat
      /\ Cardinality(names) = AtMost(Cardinality(there), L)
      /\ Cardinality(names) = Cardinality(there) => names = there
  <2>1. L \in Nat
    BY <1>2
  <2>2. InSchema(a, s) \subseteq InSchema(tables, s)
    BY <2>1, AnswersFacts
  <2>3. Cardinality(InSchema(tables, s)) \in Nat
    BY <2>1, AnswersFacts
  <2>4. InSchema(tables, s) \subseteq TABLES
    BY <2>1, AnswersFacts
  <2>5. Cardinality(names) = AtMost(Cardinality(there), L)
    BY <2>1, AnswersFacts
  <2>6. Cardinality(names) = Cardinality(there) => names = there
    BY <2>1, AnswersFacts
  <2> QED
    BY <2>2, <2>3, <2>4, <2>5, <2>6
<1>4. /\ Section(names, include).truncated = Truncated(names, include)
      /\ Section(names, include).shown =
            IF Truncated(names, include) THEN FirstByName(names, TABLE_LIMIT) ELSE names
  BY DEF Section
<1> HIDE DEF names, there
<1>5. CASE Truncated(names, include)
  <2>1. Cardinality(names) > TABLE_LIMIT
    BY <1>5 DEF Truncated
  <2>2. Cardinality(names) \in Nat
    BY <1>2, <1>3 DEF AtMost, NoLimit
  <2>3. ~ (names \subseteq FirstByName(names, TABLE_LIMIT))
    BY <1>1, <1>3, <2>1, <2>2, FirstFacts
  <2>4. FirstByName(names, TABLE_LIMIT) # there
    BY <1>3, <2>3
  <2> QED
    BY <1>4, <1>5, <2>4 DEF names, there
<1>6. CASE ~ Truncated(names, include)
  <2>1. include \in {"columns", "details"} => ~ (Cardinality(names) > TABLE_LIMIT)
    BY <1>6 DEF Truncated
  <2>2. Cardinality(names) = Cardinality(there)
    BY <1>1, <1>2, <1>3, <2>1 DEF AtMost, NoLimit
  <2> QED
    BY <1>3, <1>4, <1>6, <2>2 DEF names, there
<1> QED
  BY <1>5, <1>6

-----------------------------------------------------------------------------
(***************************************************************************)
(* The invariant.                                                          *)
(***************************************************************************)
\* The properties of rows and tables are about commands that ended with them.
Answered == {"rows", "tables", "table", "table_not_found", "ambiguous_table"}

LEMMA Unanswered ==
  /\ out.result \notin Answered => ReplicaFirst /\ TruncatedIsExact /\ TableIsTheOne
  /\ out'.result \notin Answered => ReplicaFirst' /\ TruncatedIsExact' /\ TableIsTheOne'
<1>1. out.result \notin Answered => ReplicaFirst /\ TruncatedIsExact /\ TableIsTheOne
  BY DEF Answered, ReplicaFirst, TruncatedIsExact, TableIsTheOne
<1>2. out'.result \notin Answered => ReplicaFirst' /\ TruncatedIsExact' /\ TableIsTheOne'
  BY DEF Answered, ReplicaFirst, TruncatedIsExact, TableIsTheOne
<1> QED
  BY <1>1, <1>2

LEMMA InitAll == Init => TypeOK /\ SafetyInv
<1> SUFFICES ASSUME Init PROVE TypeOK /\ SafetyInv
  OBVIOUS
<1>1. sources \in [Instances -> SUBSET {"READ_ONLY", "ADMIN"}]
      /\ \A i \in Instances : sources[i] \in SOURCES[i]
  <2>1. /\ sources \in [Instances -> UNION Range(SOURCES)]
        /\ \A i \in Instances : sources[i] \in SOURCES[i]
    BY DEF Init
  <2>2. \A i \in Instances : SOURCES[i] \subseteq SUBSET {"READ_ONLY", "ADMIN"}
    BY SourcesAssumption
  <2>3. \A i \in Instances : sources[i] \in SUBSET {"READ_ONLY", "ADMIN"}
    BY <2>1, <2>2
  <2> QED
    BY <2>1, <2>3
<1>2. admitted \subseteq DATABASES
  BY DEF Init, Admissible, Narrowings
<1>3. TypeOK
  <2>1. pageToken \in 0..Len(LISTING) /\ changes \in 0..MaxChanges
    BY ListingFacts, LimitsAssumption DEF Init
  <2>2. out.result = "none" /\ out = Pending
    BY DEF Init, Pending
  <2>3. pc \in {"workspace", "get"} /\ source = None /\ all = {} /\ resolved = NoDatabase
        /\ full \in DATABASES \union {NoDatabase}
        /\ catalog \subseteq DATABASES /\ steady = catalog /\ replicated \subseteq Instances
    BY DEF Init
  <2> QED
    BY <1>1, <1>2, <2>1, <2>2, <2>3 DEF TypeOK, Results
<1>4. EntriesInv
  BY FS_EmptySet DEF Init, EntriesInv
<1>5. SourceInv
  BY <1>1 DEF Init, SourceInv
<1>6. PagesInv /\ StartInv /\ CandidatesInv
  BY DEF Init, PagesInv, StartInv, CandidatesInv
<1>7. NeverAPick /\ RefusalIsTrue
  BY DEF Init, NeverAPick, RefusalIsTrue, Pending
<1>8. out.result \notin Answered
  BY DEF Init, Pending, Answered
<1> QED
  BY <1>3, <1>4, <1>5, <1>6, <1>7, <1>8, Unanswered DEF SafetyInv

\* A command that ends with anything but a refusal of the name.
LEMMA EndStep ==
  ASSUME TypeOK, SafetyInv,
         UNCHANGED <<command, pageToken, all, resolved, source, server>>,
         pc' = "done", out'.result \in Results,
         out'.result \notin {"none", "database_not_found", "ambiguous_target"},
         out'.result = "table_not_found" => Cardinality(out'.candidates) <= CANDIDATE_CAP,
         ReplicaFirst', TruncatedIsExact', TableIsTheOne'
  PROVE  TypeOK' /\ SafetyInv'
<1> USE DEF command, server
<1>1. out' # Pending
  BY DEF Pending
<1>2. TypeOK'
  BY <1>1 DEF TypeOK
<1>3. EntriesInv' /\ SourceInv' /\ PagesInv' /\ StartInv' /\ CandidatesInv'
  BY DEF SafetyInv, EntriesInv, SourceInv, PagesInv, StartInv, CandidatesInv
<1>4. NeverAPick' /\ RefusalIsTrue'
  BY DEF SafetyInv, NeverAPick, RefusalIsTrue
<1> QED
  BY <1>2, <1>3, <1>4 DEF SafetyInv

\* A step to another call, with what was found so far as it was.
LEMMA GoStep ==
  ASSUME TypeOK, SafetyInv,
         UNCHANGED <<command, pageToken, all, resolved, source, server, out>>,
         \/ pc = "workspace" /\ pc' = "list" /\ pageToken = 0
         \/ pc = "call" /\ pc' = "candidates" /\ CandidatesInv'
         \/ pc = pc' /\ UNCHANGED truth
  PROVE  TypeOK' /\ SafetyInv'
<1> USE DEF command, server
<1>1. pc \in {"workspace", "call"} => out.result = "none"
  BY DEF TypeOK, Pending
<1>2. TypeOK'
  BY DEF TypeOK
<1>3. EntriesInv' /\ SourceInv' /\ PagesInv' /\ StartInv'
  BY DEF SafetyInv, EntriesInv, SourceInv, PagesInv, StartInv
<1>4. NeverAPick' /\ RefusalIsTrue'
  BY DEF SafetyInv, NeverAPick, RefusalIsTrue
<1>5. CASE pc \in {"workspace", "call"}
  <2>1. out'.result \notin Answered
    BY <1>1, <1>5 DEF Answered
  <2>2. CandidatesInv'
    BY <1>5 DEF SafetyInv, CandidatesInv, Meant
  <2> QED
    BY <1>2, <1>3, <1>4, <2>1, <2>2, Unanswered DEF SafetyInv
<1>6. CASE pc = pc' /\ UNCHANGED truth
  <2>1. CandidatesInv' /\ TableIsTheOne' /\ TruncatedIsExact' /\ ReplicaFirst'
    BY <1>6 DEF SafetyInv, CandidatesInv, TableIsTheOne, Meant, TruncatedIsExact,
                ReplicaFirst, SchemasOf, EffectiveHint, Filtered, InSchema
  <2> QED
    BY <1>2, <1>3, <1>4, <2>1 DEF SafetyInv
<1> QED
  BY <1>5, <1>6

LEMMA ListStep == TypeOK /\ SafetyInv /\ ListPage => TypeOK' /\ SafetyInv'
<1> SUFFICES ASSUME TypeOK, SafetyInv, ListPage PROVE TypeOK' /\ SafetyInv'
  OBVIOUS
<1> USE DEF command, server
<1>1. PICK to \in (pageToken + 1)..Len(LISTING) :
        /\ pageToken' = NextToken(to)
        /\ IF pageToken' = 0
             THEN Decide(Matches(Extended(Page(From, to)))) /\ all' = {}
             ELSE /\ all' = Extended(Page(From, to))
                  /\ UNCHANGED <<pc, resolved, source, out>>
  BY DEF ListPage, From
<1> DEFINE S == Extended(Page(From, to))
<1>2. pc = "list" /\ UNCHANGED <<full, admitted, catalog, sources, changes, steady, replicated, truth>>
  BY DEF ListPage
<1>3. out = Pending
  BY <1>2 DEF TypeOK
<1>4. /\ IsFiniteSet(S)
      /\ \A e \in S : /\ e.db \in DATABASES /\ \E k \in 1..to : e.db = LISTING[k]
                      /\ e.db.instance \in replicated => "READ_ONLY" \in e.sources
      /\ \A e, f \in S : e.db = f.db => e = f
      /\ \A k \in 1..to : LISTING[k] \in steady \intersect admitted => \E e \in S : e.db = LISTING[k]
  BY <1>2, ExtendedFacts DEF SafetyInv
<1> HIDE DEF S
<1>5. to \in 1..Len(LISTING) /\ pageToken' \in {0, to} /\ 0 \in 0..Len(LISTING)
      /\ to \in 0..Len(LISTING) /\ to # 0
  <2>1. pageToken \in Nat /\ Len(LISTING) \in Nat
    BY ListingFacts DEF TypeOK
  <2>2. pageToken' \in {0, to}
    BY <1>1 DEF NextToken
  <2> QED
    BY <2>1, <2>2
<1>6. CASE pageToken' = 0
  <2>1. \A d \in steady \intersect admitted : \E e \in S : e.db = d
    BY <1>1, <1>4, <1>5, <1>6, LastPage DEF SafetyInv
  <2>2. Decide(Matches(S)) /\ all' = {}
    BY <1>1, <1>6 DEF S
  <2>3. /\ NeverAPick' /\ RefusalIsTrue'
        /\ \/ /\ pc' = "call" /\ resolved' \in DATABASES /\ out' = out
              /\ source' \in {None, "READ_ONLY", "ADMIN"}
              /\ resolved'.instance \in replicated => source' = "READ_ONLY"
           \/ /\ pc' = "done" /\ UNCHANGED <<resolved, source>>
              /\ out'.result \in {"database_not_found", "ambiguous_target"}
    BY <1>2, <1>3, <1>4, <2>1, <2>2, DecideFacts DEF SafetyInv
  <2>4. TypeOK'
    <3>1. CASE pc' = "call" /\ out' = out
      BY <1>2, <1>3, <1>5, <1>6, <2>2, <2>3, <3>1 DEF TypeOK
    <3>2. CASE pc' = "done" /\ out'.result \in {"database_not_found", "ambiguous_target"}
      <4>1. out' # Pending
        BY <3>2 DEF Pending
      <4> QED
        BY <1>2, <1>5, <1>6, <2>2, <2>3, <3>2, <4>1 DEF TypeOK, Results
    <3> QED
      BY <2>3, <3>1, <3>2
  <2>5. EntriesInv'
    BY <2>2, FS_EmptySet DEF EntriesInv
  <2>6. SourceInv' /\ PagesInv' /\ StartInv' /\ CandidatesInv'
    BY <1>2, <1>3, <2>3 DEF SafetyInv, SourceInv, PagesInv, StartInv, CandidatesInv
  <2>7. out'.result \notin Answered
    BY <1>3, <2>3 DEF Answered, Pending
  <2> QED
    BY <2>3, <2>4, <2>5, <2>6, <2>7, Unanswered DEF SafetyInv
<1>7. CASE pageToken' # 0
  <2>1. pageToken' = to /\ all' = S /\ UNCHANGED <<pc, resolved, source, out>>
    BY <1>1, <1>5, <1>7 DEF S
  <2>2. TypeOK'
    BY <1>2, <1>4, <1>5, <2>1 DEF TypeOK
  <2>3. EntriesInv' /\ PagesInv'
    BY <1>2, <1>4, <2>1 DEF EntriesInv, PagesInv
  <2>4. SourceInv' /\ StartInv' /\ NeverAPick' /\ RefusalIsTrue' /\ CandidatesInv'
    BY <1>2, <2>1 DEF SafetyInv, SourceInv, StartInv, NeverAPick, RefusalIsTrue, CandidatesInv
  <2>5. out'.result \notin Answered
    BY <1>3, <2>1 DEF Answered, Pending
  <2> QED
    BY <2>2, <2>3, <2>4, <2>5, Unanswered DEF SafetyInv
<1> QED
  BY <1>6, <1>7

LEMMA GetStep == TypeOK /\ SafetyInv /\ GetDatabase => TypeOK' /\ SafetyInv'
<1> SUFFICES ASSUME TypeOK, SafetyInv, GetDatabase PROVE TypeOK' /\ SafetyInv'
  OBVIOUS
<1> USE DEF command, server
<1>1. /\ pc = "get" /\ pc' = "call" /\ full \in catalog /\ resolved' = full
      /\ source' = DataSource(sources[full.instance])
      /\ UNCHANGED <<full, admitted, pageToken, all, out, catalog, sources, changes, steady,
                     replicated, truth>>
  BY DEF GetDatabase, FromEntry, Entry
<1>2. full \in DATABASES /\ full # NoDatabase
  BY <1>1 DEF TypeOK, SafetyInv, StartInv
<1>3. source' \in {None, "READ_ONLY", "ADMIN"}
      /\ ("READ_ONLY" \in sources[full.instance] => source' = "READ_ONLY")
  BY <1>1 DEF DataSource
<1>4. TypeOK'
  BY <1>1, <1>2, <1>3 DEF TypeOK
<1>5. SourceInv' /\ StartInv' /\ PagesInv' /\ EntriesInv'
  BY <1>1, <1>2, <1>3 DEF SafetyInv, SourceInv, StartInv, PagesInv, EntriesInv
<1>6. NeverAPick' /\ RefusalIsTrue' /\ CandidatesInv'
  BY <1>1, <1>2 DEF SafetyInv, NeverAPick, RefusalIsTrue, CandidatesInv
<1>7. out'.result \notin Answered
  BY <1>1 DEF Answered, Pending, TypeOK
<1> QED
  BY <1>4, <1>5, <1>6, <1>7, Unanswered DEF SafetyInv

\* A statement runs on the data source that was settled on, or not at all.
LEMMA QueryStep == TypeOK /\ SafetyInv /\ Query => TypeOK' /\ SafetyInv'
<1> SUFFICES ASSUME TypeOK, SafetyInv, Query PROVE TypeOK' /\ SafetyInv'
  OBVIOUS
<1>1. /\ pc = "call" /\ pc' = "done"
      /\ UNCHANGED <<command, pageToken, all, resolved, source, server>>
      /\ \/ out' = [result |-> "query_error"]
         \/ out'.result = "rows" /\ truth'.on \in RunsOn
  BY DEF Query, End
<1>2. ReplicaFirst'
  <2> SUFFICES ASSUME out'.result = "rows", resolved.instance \in replicated
               PROVE  truth'.on = "READ_ONLY"
    BY <1>1 DEF ReplicaFirst, server
  <2>1. source = "READ_ONLY"
    BY <1>1 DEF SafetyInv, SourceInv
  <2> QED
    BY <1>1, <2>1 DEF RunsOn, None
<1>3. TableIsTheOne'
  BY <1>1 DEF TableIsTheOne
<1>4. CASE out' = [result |-> "query_error"]
  BY <1>1, <1>2, <1>3, <1>4, EndStep DEF Results, TruncatedIsExact
<1>5. CASE out'.result = "rows"
  <2>1. PICK limit \in 1..MaxRows, total \in 0..MaxRows + 1, cap \in 0..MaxRows :
          LET rows == AtMost(AtMost(total, AskedRows(limit)), cap)
          IN /\ out' = [result |-> "rows", shown |-> AtMost(rows, limit), truncated |-> rows > limit]
             /\ truth'.limit = limit /\ truth'.total = total /\ truth'.cap = cap
    BY <1>5 DEF Query, End
  <2> DEFINE rows == AtMost(AtMost(total, AskedRows(limit)), cap)
  <2>2. limit \in Nat \ {0} /\ total \in Nat /\ cap \in Nat
    BY <2>1, LimitsAssumption
  <2>3. out'.shown = AtMost(rows, limit) /\ out'.truncated = (rows > limit)
    BY <2>1
  <2>4. /\ rows > limit => total > AtMost(rows, limit)
        /\ cap = NoLimit \/ cap > limit => (rows > limit <=> total > AtMost(rows, limit))
    BY <2>2 DEF AtMost, AskedRows, NoLimit
  <2> HIDE DEF rows
  <2>5. TruncatedIsExact'
    BY <1>5, <2>1, <2>3, <2>4 DEF TruncatedIsExact
  <2> QED
    BY <1>1, <1>2, <1>3, <1>5, <2>5, EndStep DEF Results
<1> QED
  BY <1>1, <1>4, <1>5

\* The table --table may mean is looked for in all of the answer, and a section
\* of the bulk modes is cut exactly when a table is left out.
LEMMA SchemaStep == TypeOK /\ SafetyInv /\ Schema => TypeOK' /\ SafetyInv'
<1> SUFFICES ASSUME TypeOK, SafetyInv, Schema PROVE TypeOK' /\ SafetyInv'
  OBVIOUS
<1> DEFINE asked(hint, table, tables) == Filtered(tables, EffectiveHint(resolved, hint), table)
<1>1. pc = "call" /\ UNCHANGED <<command, pageToken, all, resolved, source, server>>
  BY DEF Schema
<1> DEFINE Ended(hint, table, tables, include, answer) ==
             /\ truth' = [asked |-> "tables", hint |-> hint, table |-> table, tables |-> tables]
             /\ IF table # NoTable
                THEN DecideTable({t \in answer : t[2] = table})
                ELSE End([result |-> "tables",
                          sections |-> [s \in SchemasOf(resolved) |->
                                         Section(InSchema(answer, s), include)]])
<1>2. PICK hint \in SCHEMAS \union {None}, table \in TABLES \union {NoTable},
           tables \in SUBSET TablesOf(resolved) :
        \E include \in Includes(table) :
          \E answer \in Answers(asked(hint, table, tables), LimitForInclude(include, table)) :
            Ended(hint, table, tables, include, answer)
  BY DEF Schema
<1>3. PICK include \in Includes(table) :
        \E answer \in Answers(asked(hint, table, tables), LimitForInclude(include, table)) :
            Ended(hint, table, tables, include, answer)
  BY <1>2
<1>4. PICK answer \in Answers(asked(hint, table, tables), LimitForInclude(include, table)) :
        Ended(hint, table, tables, include, answer)
  BY <1>3
<1>5. asked(hint, table, tables) \in SUBSET TablesOf(resolved)
  BY DEF Filtered
<1>6. out.result = "none" /\ UNCHANGED resolved
  BY <1>1 DEF TypeOK, Pending
<1>7. CASE table # NoTable
  <2> DEFINE found == {t \in answer : t[2] = table}
  <2>1. DecideTable(found)
    BY <1>4, <1>7
  <2>2. answer = asked(hint, table, tables)
    <3>1. answer \in Answers(asked(hint, table, tables), NoLimit)
      BY <1>4, <1>7 DEF LimitForInclude
    <3> QED
      BY <1>5, <3>1, AllAnswered
  <2>3. resolved.instance \in LISTED \union (Instances \ NAMED) => found = Meant'
    <3>1. Meant' = {t \in tables : /\ t[2] = table
                                   /\ hint = None \/ resolved.instance \notin NAMED \/ t[1] = hint}
      BY <1>4, <1>6 DEF Meant
    <3>2. found = {t \in tables : /\ t[2] = table
                                  /\ EffectiveHint(resolved, hint) = None
                                        \/ t[1] = EffectiveHint(resolved, hint)}
      BY <1>7, <2>2 DEF Filtered
    <3> QED
      BY <3>1, <3>2, EngineAssumption DEF EffectiveHint
  <2> HIDE DEF found
  <2>4. CASE found = {} /\ pc' = "candidates" /\ UNCHANGED out
    <3>1. CandidatesInv'
      BY <1>6, <2>3, <2>4 DEF CandidatesInv
    <3> QED
      BY <1>1, <2>4, <3>1, GoStep
  <2>5. CASE Cardinality(found) = 1 /\ End([result |-> "table", found |-> found])
    <3>1. pc' = "done" /\ out'.result = "table" /\ out'.found = found
      BY <2>5 DEF End
    <3>2. TableIsTheOne'
      BY <1>6, <2>3, <3>1 DEF TableIsTheOne
    <3>3. TruncatedIsExact' /\ ReplicaFirst'
      BY <3>1 DEF TruncatedIsExact, ReplicaFirst
    <3> QED
      BY <1>1, <3>1, <3>2, <3>3, EndStep DEF Results
  <2>6. CASE Cardinality(found) > 1 /\ End([result |-> "ambiguous_table", found |-> found])
    <3>1. pc' = "done" /\ out'.result = "ambiguous_table"
      BY <2>6 DEF End
    <3>2. TableIsTheOne'
      BY <1>6, <2>3, <2>6, <3>1 DEF TableIsTheOne
    <3>3. TruncatedIsExact' /\ ReplicaFirst'
      BY <3>1 DEF TruncatedIsExact, ReplicaFirst
    <3> QED
      BY <1>1, <3>1, <3>2, <3>3, EndStep DEF Results
  <2> QED
    BY <2>1, <2>4, <2>5, <2>6 DEF DecideTable
<1>8. CASE table = NoTable
  <2> DEFINE there(s) == InSchema(asked(hint, NoTable, tables), s)
             sections == [s \in SchemasOf(resolved) |-> Section(InSchema(answer, s), include)]
  <2>1. pc' = "done" /\ out'.result = "tables" /\ out'.sections = sections
    BY <1>4, <1>8 DEF End
  <2>2. include \in {"summary", "columns", "details"}
    BY <1>4, <1>8 DEF Includes, ResolveInclude, None
  <2>3. ASSUME NEW s \in SchemasOf(resolved)
        PROVE  sections[s].truncated <=> sections[s].shown # there(s)
    <3>1. s \in SCHEMAS \union {None}
      BY TablesFinite
    <3> QED
      BY <1>4, <1>5, <1>8, <2>2, <3>1, SectionFacts
  <2>4. truth'.tables = tables /\ truth'.hint = hint
    BY <1>4
  <2> HIDE DEF sections
  <2>5. DOMAIN sections = SchemasOf(resolved)
    BY DEF sections
  <2>6. TruncatedIsExact'
    <3>1. resolved' = resolved
      BY <1>6
    <3> QED
      BY <2>1, <2>3, <2>4, <2>5, <3>1 DEF TruncatedIsExact, EffectiveHint
  <2>7. TableIsTheOne' /\ ReplicaFirst'
    BY <2>1 DEF TableIsTheOne, ReplicaFirst
  <2> QED
    BY <1>1, <2>1, <2>6, <2>7, EndStep DEF Results
<1> QED
  BY <1>7, <1>8

\* A refusal of a table names at most CANDIDATE_CAP others.
LEMMA CandidatesStep ==
  TypeOK /\ SafetyInv /\ (Candidates \/ CandidatesFail) => TypeOK' /\ SafetyInv'
<1> SUFFICES ASSUME TypeOK, SafetyInv, Candidates \/ CandidatesFail
             PROVE  TypeOK' /\ SafetyInv'
  OBVIOUS
<1>1. /\ UNCHANGED <<command, pageToken, all, resolved, source, server>>
      /\ pc' = "done" /\ out'.result = "table_not_found"
  <2>1. UNCHANGED <<command, pageToken, all, resolved, source, server>>
    BY DEF Candidates, CandidatesFail
  <2>2. \E c : End([result |-> "table_not_found", candidates |-> c])
    BY DEF Candidates, CandidatesFail
  <2>3. PICK c : End([result |-> "table_not_found", candidates |-> c])
    BY <2>2
  <2> QED
    BY <2>1, <2>3 DEF End
<1>2. CANDIDATE_CAP \in Nat \ {0}
  BY LimitsAssumption
<1>3. TableIsTheOne' /\ TruncatedIsExact' /\ ReplicaFirst'
  <2>1. pc = "candidates" /\ UNCHANGED <<resolved, truth>>
    BY DEF Candidates, CandidatesFail
  <2> QED
    BY <1>1, <2>1 DEF SafetyInv, CandidatesInv, Meant, TableIsTheOne, TruncatedIsExact, ReplicaFirst
<1>4. CASE CandidatesFail
  <2>1. Cardinality(out'.candidates) <= CANDIDATE_CAP
    BY <1>2, <1>4, FS_EmptySet DEF CandidatesFail, End
  <2> QED
    BY <1>1, <1>3, <2>1, EndStep DEF Results
<1>5. CASE Candidates
  <2> DEFINE All(now) == Filtered(now, EffectiveHint(resolved, truth.hint), NoTable)
             Similar(a) == {t \in a : <<t[2], truth.table>> \in SIMILAR}
  <2>1. PICK now \in SUBSET TablesOf(resolved) :
          \E a \in Answers(All(now), CANDIDATE_FETCH_LIMIT) :
             \E named \in SUBSET Similar(a) :
                /\ Cardinality(named) = Capped(Cardinality(Similar(a)))
                /\ End([result |-> "table_not_found", candidates |-> named])
    BY <1>5 DEF Candidates
  <2>2. PICK a \in Answers(All(now), CANDIDATE_FETCH_LIMIT) :
             \E named \in SUBSET Similar(a) :
                /\ Cardinality(named) = Capped(Cardinality(Similar(a)))
                /\ End([result |-> "table_not_found", candidates |-> named])
    BY <2>1
  <2>3. Cardinality(out'.candidates) = Capped(Cardinality(Similar(a)))
    BY <2>2 DEF End
  <2>4. Similar(a) \subseteq TablesOf(resolved)
    BY <2>1, <2>2 DEF Answers, Filtered
  <2> HIDE DEF Similar
  <2>5. Cardinality(Similar(a)) \in Nat
    BY <2>4, TablesFinite, FS_Subset, FS_CardinalityType
  <2>6. Cardinality(out'.candidates) <= CANDIDATE_CAP
    BY <1>2, <2>3, <2>5 DEF Capped, AtMost, NoLimit
  <2> QED
    BY <1>1, <1>3, <2>6, EndStep DEF Results
<1> QED
  BY <1>4, <1>5

\* Other users, who change databases and data sources.
LEMMA CatalogStep ==
  ASSUME TypeOK, SafetyInv, NEW d \in DATABASES, CatalogChanges(d)
  PROVE  TypeOK' /\ SafetyInv'
<1>1. /\ pc \in {"workspace", "list", "get"} /\ changes' = changes + 1 /\ changes < MaxChanges
      /\ catalog' \subseteq DATABASES /\ steady' = steady \ {d} /\ steady' \subseteq catalog'
      /\ UNCHANGED <<pc, full, admitted, pageToken, all, resolved, source, out, sources,
                     replicated, truth>>
  <2>1. UNCHANGED <<pc, command, pageToken, all, resolved, source, out, sources, replicated, truth>>
    BY DEF CatalogChanges
  <2> QED
    BY <2>1 DEF CatalogChanges, TypeOK, command
<1>2. changes' \in 0..MaxChanges
  BY <1>1, LimitsAssumption DEF TypeOK
<1>3. TypeOK'
  BY <1>1, <1>2 DEF TypeOK
<1>4. EntriesInv' /\ SourceInv' /\ PagesInv' /\ StartInv'
  BY <1>1 DEF SafetyInv, EntriesInv, SourceInv, PagesInv, StartInv
<1>5. NeverAPick' /\ RefusalIsTrue' /\ CandidatesInv'
  BY <1>1 DEF SafetyInv, NeverAPick, RefusalIsTrue, CandidatesInv
<1>6. out'.result \notin Answered
  BY <1>1 DEF Answered, Pending, TypeOK
<1> QED
  BY <1>3, <1>4, <1>5, <1>6, Unanswered DEF SafetyInv

LEMMA SourcesStep ==
  ASSUME TypeOK, SafetyInv, NEW i \in Instances, SourcesChange(i)
  PROVE  TypeOK' /\ SafetyInv'
<1>1. PICK types \in SOURCES[i] : sources' = [sources EXCEPT ![i] = types]
  BY DEF SourcesChange
<1>2. /\ pc # "done" /\ changes' = changes + 1 /\ changes < MaxChanges
      /\ replicated' = {r \in replicated : "READ_ONLY" \in sources'[r]}
      /\ UNCHANGED <<pc, command, pageToken, all, resolved, source, out, catalog, steady, truth>>
  BY DEF SourcesChange
<1>3. sources' \in [Instances -> SUBSET {"READ_ONLY", "ADMIN"}]
      /\ \A j \in Instances : sources'[j] \in SOURCES[j]
  <2>1. types \in SUBSET {"READ_ONLY", "ADMIN"}
    BY SourcesAssumption
  <2> QED
    BY <1>1, <2>1 DEF TypeOK, SafetyInv, SourceInv
<1>4. changes' \in 0..MaxChanges
  BY <1>2, LimitsAssumption DEF TypeOK
<1>5. TypeOK'
  BY <1>2, <1>3, <1>4 DEF TypeOK, command
<1>6. EntriesInv' /\ SourceInv' /\ PagesInv' /\ StartInv'
  BY <1>2, <1>3 DEF SafetyInv, EntriesInv, SourceInv, PagesInv, StartInv, command
<1>7. NeverAPick' /\ RefusalIsTrue' /\ CandidatesInv'
  BY <1>2 DEF SafetyInv, NeverAPick, RefusalIsTrue, CandidatesInv, Meant, command
<1>8. out'.result \notin Answered
  BY <1>2 DEF Answered, Pending, TypeOK
<1> QED
  BY <1>5, <1>6, <1>7, <1>8, Unanswered DEF SafetyInv

LEMMA NextAll == TypeOK /\ SafetyInv /\ [Next]_vars => TypeOK' /\ SafetyInv'
<1> SUFFICES ASSUME TypeOK, SafetyInv, [Next]_vars PROVE TypeOK' /\ SafetyInv'
  OBVIOUS
<1>1. CASE GetWorkspace
  <2>1. CASE pc' = "list" /\ UNCHANGED out
    BY <1>1, <2>1, GoStep DEF GetWorkspace, SafetyInv, StartInv
  <2>2. CASE End([result |-> "workspace_unknown"])
    <3>1. out' = [result |-> "workspace_unknown"] /\ out'.result \notin Answered
      BY <2>2 DEF End, Answered
    <3> QED
      BY <1>1, <2>2, <3>1, Unanswered, EndStep DEF GetWorkspace, End, Results
  <2> QED
    BY <1>1, <2>1, <2>2 DEF GetWorkspace
<1>2. CASE CallFails
  <2>1. out' = [result |-> "call_failed"] /\ out'.result \notin Answered
    BY <1>2 DEF CallFails, End, Answered
  <2> QED
    BY <1>2, <2>1, Unanswered, EndStep DEF CallFails, End, Results
<1>3. CASE Finished \/ UNCHANGED vars
  BY <1>3, GoStep DEF Finished, vars, command, server
<1> QED
  BY <1>1, <1>2, <1>3, ListStep, GetStep, QueryStep, SchemaStep, CandidatesStep,
     CatalogStep, SourcesStep DEF Next, Step

-----------------------------------------------------------------------------
\* The inductive invariant, TypeOK with it: the entries read so far hold every
\* database that stayed and was passed by, once each.
THEOREM Safety == Spec => [](TypeOK /\ SafetyInv)
BY InitAll, NextAll, PTL DEF Spec

\* TypeOK of Lookup is an invariant: among others, a refusal of a table names at
\* most CANDIDATE_CAP candidates.
THEOREM TypeCorrect == Spec => []TypeOK
BY Safety, PTL

\* With any listing, page size and changes between the pages, no database that
\* stayed matches the name as well as the one it was resolved to.
THEOREM NeverPicks == Spec => []NeverAPick
<1>1. SafetyInv => NeverAPick
  BY DEF SafetyInv
<1> QED
  BY <1>1, Safety, PTL

\* A name is refused as unknown or ambiguous only when it is.
THEOREM RefusalsTrue == Spec => []RefusalIsTrue
<1>1. SafetyInv => RefusalIsTrue
  BY DEF SafetyInv
<1> QED
  BY <1>1, Safety, PTL

\* A statement runs on a read-only source wherever there was one all the time.
THEOREM ReplicaPreferred == Spec => []ReplicaFirst
<1>1. SafetyInv => ReplicaFirst
  BY DEF SafetyInv
<1> QED
  BY <1>1, Safety, PTL

\* Rows and tables are reported as left out exactly when they are.
THEOREM TruncationExact == Spec => []TruncatedIsExact
<1>1. SafetyInv => TruncatedIsExact
  BY DEF SafetyInv
<1> QED
  BY <1>1, Safety, PTL

\* With any schemas and tables, the table shown is all that --table may mean,
\* and a table is refused only when it is missing or in several schemas.
THEOREM TableTheOne == Spec => []TableIsTheOne
<1>1. SafetyInv => TableIsTheOne
  BY DEF SafetyInv
<1> QED
  BY <1>1, Safety, PTL
=============================================================================
