------------------------------- MODULE Lookup -------------------------------
(***************************************************************************)
(* `bbcli query` and `bbcli schema`: a short database name is resolved to  *)
(* exactly one database by listing and matching (resolve.rs), and one      *)
(* statement or one metadata request is sent to it (query.rs, schema.rs).  *)
(*                                                                         *)
(* The server lists in pages, and databases are made and dropped between   *)
(* two calls; every call can fail.  A name is modelled by how it compares  *)
(* with the input: TIER gives the first of match_databases' three tests it *)
(* passes (1 equal, 2 equal ignoring case, 3 contains ignoring case), or   *)
(* 4 for none.  The server's own name.contains is a test apart: it looks   *)
(* at the whole resource name and may mind the case, so that it can hide   *)
(* what tiers 2 and 3 would match and let through what no tier does.       *)
(* Tables are numbered in the order of their names.                        *)
(***************************************************************************)
EXTENDS Naturals, Sequences, FiniteSets, Functions

CONSTANTS
    LISTING,         \* every database there can be, in the server's order: records [instance, id]
    TIER,            \* how the id of a database compares with the input
    PROJECT,         \* the project of a database
    FILTERS,         \* what the server's name.contains("<input>") may let through
    LISTED,          \* instances whose engine is in MULTI_SCHEMA_ENGINES
    NAMED,           \* instances that do have named schemas
    SOURCES,         \* the sets of data source types an instance may declare
    SCHEMAS,         \* their names
    TABLES,          \* table names, 1..n
    SIMILAR,         \* <<name, missing>>: table_name_matches
    PAGE_SIZE,       \* databases in a page; 1000 in resolve.rs:187
    TABLE_LIMIT,     \* 200 in schema.rs
    CANDIDATE_FETCH_LIMIT,  \* 500 in schema.rs
    CANDIDATE_CAP,   \* 10 in schema.rs
    MaxRows,         \* bound: rows of a statement's result, and of --limit
    MaxChanges       \* bound: changes by other users while the command runs

DATABASES == Range(LISTING)
Ids == {d.id : d \in DATABASES}
Instances == {d.instance : d \in DATABASES}

ASSUME ListingAssumption ==
    /\ LISTING \in Seq(DATABASES)
    /\ \A i, j \in DOMAIN LISTING : LISTING[i] = LISTING[j] => i = j
ASSUME TierAssumption ==
    /\ TIER \in [Ids -> 1..4]
    /\ \A i, j \in Ids : TIER[i] = 1 /\ TIER[j] = 1 => i = j
    /\ \A f \in FILTERS : {d \in DATABASES : TIER[d.id] = 1} \subseteq f
ASSUME ProjectAssumption == PROJECT \in [DATABASES -> Range(PROJECT)]
ASSUME EngineAssumption == LISTED \subseteq NAMED /\ NAMED \subseteq Instances
ASSUME SourcesAssumption ==
    SOURCES \in [Instances -> SUBSET SUBSET {"READ_ONLY", "ADMIN"}]
ASSUME LimitsAssumption ==
    /\ IsFiniteSet(TABLES) /\ TABLES = 1..Cardinality(TABLES) /\ IsFiniteSet(SCHEMAS)
    /\ SIMILAR \subseteq TABLES \X TABLES
    /\ {PAGE_SIZE, TABLE_LIMIT, CANDIDATE_FETCH_LIMIT, CANDIDATE_CAP} \subseteq Nat \ {0}
    /\ MaxRows \in Nat /\ MaxChanges \in Nat

None == "-"         \* no option given; also the name of the one unnamed schema
NoDatabase == [instance |-> None, id |-> None]
NoTable == 0
NoLimit == 0

VARIABLES
    pc,             \* the call the command makes next
    full,           \* the database the input names in full, or NoDatabase
    admitted,       \* the databases the filter of the listing lets through
    pageToken,      \* position in LISTING of the next page, 0 for the first
    all,            \* the entries of the pages so far: [db, sources]
    resolved,       \* the database narrowed to, or NoDatabase
    source,         \* the type of its data source to read from; None: the server's choice
    out,            \* how the command ended
    catalog,        \* the databases on the server
    sources,        \* the types of data source each instance declares
    changes,        \* changes by other users so far
    steady,         \* databases that have been there since the command began
    replicated,     \* instances with a READ_ONLY source since the command began
    truth           \* what the server held when it answered, and what it was asked

vars == <<pc, full, admitted, pageToken, all, resolved, source, out,
          catalog, sources, changes, steady, replicated, truth>>
server == <<catalog, sources, changes, steady, replicated>>
command == <<full, admitted>>

Pending == [result |-> "none"]
Nothing == [asked |-> "nothing"]

\* What --instance and --project narrow to, each given or not.
Narrowings == {{d \in DATABASES : i \in {None, d.instance} /\ p \in {None, PROJECT[d]}} :
                  i \in Instances \union {None}, p \in Range(PROJECT) \union {None}}

\* build_database_filter, as a server applies it: the name test and the terms
\* that narrow.
Admissible == {n \intersect f : n \in Narrowings, f \in FILTERS}

Init ==
    /\ full \in DATABASES \union {NoDatabase}
    /\ admitted \in IF full = NoDatabase THEN Admissible ELSE {DATABASES}
    /\ pc = IF full = NoDatabase THEN "workspace" ELSE "get"
    /\ pageToken = 0 /\ all = {} /\ out = Pending
    /\ resolved = NoDatabase /\ source = None
    /\ catalog \in SUBSET DATABASES
    /\ steady = catalog
    /\ sources \in {f \in [Instances -> UNION Range(SOURCES)] :
                        \A i \in Instances : f[i] \in SOURCES[i]}
    /\ replicated = {i \in Instances : "READ_ONLY" \in sources[i]}
    /\ changes = 0
    /\ truth = Nothing

End(o) == pc' = "done" /\ out' = o

-----------------------------------------------------------------------------
(* Resolution (resolve.rs) *)

Entry(d) == [db |-> d, sources |-> sources[d.instance]]

\* select_data_source: READ_ONLY first, else ADMIN, else nothing.
AdminFirst(types) == CASE "ADMIN" \in types -> "ADMIN"
                       [] "ADMIN" \notin types /\ "READ_ONLY" \in types -> "READ_ONLY"
                       [] OTHER -> None
DataSource(types) == CASE "READ_ONLY" \in types -> "READ_ONLY"
                       [] "READ_ONLY" \notin types /\ "ADMIN" \in types -> "ADMIN"
                       [] OTHER -> None

\* from_entry: the data source is settled by what the entry said.
FromEntry(e) == resolved' = e.db /\ source' = DataSource(e.sources)

MatchesAnyTier(entries) == {e \in entries : TIER[e.db.id] <= 3}

\* match_databases: the hits of the first tier that has any.
Matches(entries) ==
    {d \in entries : TIER[d.db.id] <= 3 /\ \A e \in entries : TIER[d.db.id] <= TIER[e.db.id]}

\* What the number of matches decides: none and several are refusals.
Decide(matches) ==
    \/ /\ matches = {}
       /\ End([result |-> "database_not_found"])
       /\ UNCHANGED <<resolved, source>>
    \/ /\ Cardinality(matches) = 1
       /\ \E e \in matches : FromEntry(e)
       /\ pc' = "call" /\ UNCHANGED out
    \/ /\ Cardinality(matches) > 1
       /\ End([result |-> "ambiguous_target", candidates |-> {e.db : e \in matches}])
       /\ UNCHANGED <<resolved, source>>

\* current_workspace: the listing needs a concrete parent.
GetWorkspace ==
    /\ pc = "workspace"
    /\ \/ pc' = "list" /\ UNCHANGED out
       \/ End([result |-> "workspace_unknown"])
    /\ UNCHANGED <<command, pageToken, all, resolved, source, server, truth>>

\* A page holds admitted databases after the token, at most PAGE_SIZE, maybe
\* fewer than remain; its own token is missing (0) when none remain.
Page(from, to) ==
    {Entry(d) : d \in {e \in admitted \intersect catalog :
                          \E k \in (from + 1)..to : LISTING[k] = e}}
NextToken(to) == IF Page(to, Len(LISTING)) = {} THEN 0 ELSE to

\* The token of the answer goes into the next request; the entries add up.
AlwaysFromStart == 0
From == pageToken
OnlyLast(page) == page
Extended(page) == all \union page

\* list_databases: one round of the loop; the last one goes on to match.
ListPage ==
    /\ pc = "list"
    /\ \E to \in (From + 1)..Len(LISTING) :
        /\ Cardinality(Page(From, to)) <= PAGE_SIZE
        /\ pageToken' = NextToken(to)
        /\ IF pageToken' = 0
             THEN Decide(Matches(Extended(Page(From, to)))) /\ all' = {}
             ELSE /\ all' = Extended(Page(From, to))
                  /\ UNCHANGED <<pc, resolved, source, out>>
    /\ UNCHANGED <<command, server, truth>>

\* A full resource name is taken at its word; narrowing does not apply to it.
GetDatabase ==
    /\ pc = "get" /\ full \in catalog
    /\ FromEntry(Entry(full))
    /\ pc' = "call"
    /\ UNCHANGED <<command, pageToken, all, out, server, truth>>

-----------------------------------------------------------------------------
(* query (query.rs) *)

\* The server returns up to what it was asked for, and no more than its own
\* policy allows (0: it has none).
AtMost(n, limit) == IF limit # NoLimit /\ n > limit THEN limit ELSE n

\* One row more than --limit is asked for.
AskExactly(limit) == limit
AskedRows(limit) == limit + 1

\* The data source the server runs a statement on: the one named, which must
\* still be there, or one of its own choice (None: of a type bbcli ignores).
RunsOn == IF source = None THEN {None} \union sources[resolved.instance]
                           ELSE {source} \intersect sources[resolved.instance]

\* A statement runs, or its error comes in an answer that is no error itself.
Query ==
    /\ pc = "call"
    /\ \/ End([result |-> "query_error"]) /\ UNCHANGED truth
       \/ \E on \in RunsOn, limit \in 1..MaxRows, total \in 0..MaxRows + 1, cap \in 0..MaxRows :
            LET rows == AtMost(AtMost(total, AskedRows(limit)), cap)
            IN /\ End([result |-> "rows", shown |-> AtMost(rows, limit),
                       truncated |-> rows > limit])
               /\ truth' = [asked |-> "rows", on |-> on, limit |-> limit, total |-> total, cap |-> cap]
    /\ UNCHANGED <<command, pageToken, all, resolved, source, server>>

-----------------------------------------------------------------------------
(* schema (schema.rs) *)

SchemasOf(d) == IF d.instance \in NAMED THEN SCHEMAS ELSE {None}
TablesOf(d) == SchemasOf(d) \X TABLES

HintAlways(d, hint) == hint

\* The hint is dropped on engines without named schemas: the server's filter is exact.
EffectiveHint(d, hint) == IF d.instance \in LISTED THEN hint ELSE None

\* build_metadata_filter, as the server applies it.
Filtered(tables, hint, table) ==
    {t \in tables : (hint = None \/ t[1] = hint) /\ (table = NoTable \/ t[2] = table)}

InSchema(tables, s) == {t[2] : t \in {u \in tables : u[1] = s}}

\* GetDatabaseMetadata: any tables, but per schema as many as the limit allows.
Answers(tables, limit) ==
    {a \in SUBSET tables : \A s \in SCHEMAS \union {None} :
        Cardinality(InSchema(a, s)) = AtMost(Cardinality(InSchema(tables, s)), limit)}

ResolveInclude(include, table) ==
    CASE include # None -> include
      [] include = None /\ table # NoTable -> "details"
      [] include = None /\ table = NoTable -> "summary"

Includes(table) ==
    {ResolveInclude(given, table) : given \in {None, "summary", "columns", "details"}}

LimitForInclude(include, table) ==
    IF table = NoTable /\ include \in {"columns", "details"} THEN TABLE_LIMIT + 1 ELSE NoLimit

\* transform_schemas: sorted by name, and the sentinel table dropped in the bulk modes.
FirstByName(names, n) == {t \in names : Cardinality({u \in names : u < t}) < n}
Truncated(names, include) == include \in {"columns", "details"} /\ Cardinality(names) > TABLE_LIMIT
Section(names, include) ==
    [shown |-> IF Truncated(names, include) THEN FirstByName(names, TABLE_LIMIT) ELSE names,
     truncated |-> Truncated(names, include)]

\* What the tables found under the name of --table decide.
DecideTable(found) ==
    \/ found = {} /\ pc' = "candidates" /\ UNCHANGED out
    \/ Cardinality(found) = 1 /\ End([result |-> "table", found |-> found])
    \/ Cardinality(found) > 1 /\ End([result |-> "ambiguous_table", found |-> found])

Schema ==
    /\ pc = "call"
    /\ \E hint \in SCHEMAS \union {None}, table \in TABLES \union {NoTable},
          tables \in SUBSET TablesOf(resolved) :
        /\ truth' = [asked |-> "tables", hint |-> hint, table |-> table, tables |-> tables]
        /\ \E include \in Includes(table) :
            \E answer \in Answers(Filtered(tables, EffectiveHint(resolved, hint), table),
                                  LimitForInclude(include, table)) :
                IF table # NoTable
                THEN DecideTable({t \in answer : t[2] = table})
                ELSE End([result |-> "tables",
                          sections |-> [s \in SchemasOf(resolved) |->
                                         Section(InSchema(answer, s), include)]])
    /\ UNCHANGED <<command, pageToken, all, resolved, source, server>>

\* collect_candidates names no more than the cap.
AllOf(n) == n
Capped(n) == AtMost(n, CANDIDATE_CAP)

\* lookup_candidates: a second fetch, of what is there by now; a failure
\* yields no candidates and keeps the refusal.
Candidates ==
    /\ pc = "candidates"
    /\ \E now \in SUBSET TablesOf(resolved) :
        \E answer \in Answers(Filtered(now, EffectiveHint(resolved, truth.hint), NoTable),
                              CANDIDATE_FETCH_LIMIT) :
            LET similar == {t \in answer : <<t[2], truth.table>> \in SIMILAR}
            IN \E named \in SUBSET similar :
                /\ Cardinality(named) = Capped(Cardinality(similar))
                /\ End([result |-> "table_not_found", candidates |-> named])
    /\ UNCHANGED <<command, pageToken, all, resolved, source, server, truth>>

-----------------------------------------------------------------------------
(* Failures, and the other users of the server *)

\* A call that is refused (its database is gone, say), lost or out of time ends
\* the command (`?`); only the fetch of candidates is allowed to fail.
CallFails ==
    /\ pc \notin {"done", "candidates"}
    /\ End([result |-> "call_failed"])
    /\ UNCHANGED <<command, pageToken, all, resolved, source, server, truth>>

CandidatesFail ==
    /\ pc = "candidates"
    /\ End([result |-> "table_not_found", candidates |-> {}])
    /\ UNCHANGED <<command, pageToken, all, resolved, source, server, truth>>

\* Somebody makes or drops a database (a rename is one of each).  Once the name
\* is resolved it shows only as a call that fails.
CatalogChanges(d) ==
    /\ pc \in {"workspace", "list", "get"} /\ changes < MaxChanges
    /\ changes' = changes + 1
    /\ catalog' = IF d \in catalog THEN catalog \ {d} ELSE catalog \union {d}
    /\ steady' = steady \ {d}
    /\ UNCHANGED <<pc, command, pageToken, all, resolved, source, out, sources, replicated, truth>>

\* Somebody adds or removes data sources of an instance.
SourcesChange(i) ==
    /\ pc # "done" /\ changes < MaxChanges
    /\ changes' = changes + 1
    /\ \E types \in SOURCES[i] \ {sources[i]} : sources' = [sources EXCEPT ![i] = types]
    /\ replicated' = {r \in replicated : "READ_ONLY" \in sources'[r]}
    /\ UNCHANGED <<pc, command, pageToken, all, resolved, source, out, catalog, steady, truth>>

Finished == pc = "done" /\ UNCHANGED vars

Step == GetWorkspace \/ ListPage \/ GetDatabase \/ Query \/ Schema \/ Candidates
            \/ CallFails \/ CandidatesFail

Next == Step \/ Finished \/ (\E d \in DATABASES : CatalogChanges(d))
            \/ \E i \in Instances : SourcesChange(i)

Spec == Init /\ [][Next]_vars

\* The command runs on and every call comes to an end, as --timeout makes it.
FairSpec == Spec /\ WF_vars(Step)

-----------------------------------------------------------------------------
(* Properties *)

Results == {"none", "call_failed", "workspace_unknown", "database_not_found",
            "ambiguous_target", "query_error", "rows", "tables", "table",
            "ambiguous_table", "table_not_found"}

\* The types, that the command has ended exactly when it has a result, and
\* that a refusal names no more than CANDIDATE_CAP tables.
TypeOK ==
    /\ pc \in {"workspace", "list", "get", "call", "candidates", "done"}
    /\ full \in DATABASES \union {NoDatabase} /\ admitted \subseteq DATABASES
    /\ pageToken \in 0..Len(LISTING) /\ {e.db : e \in all} \subseteq DATABASES
    /\ resolved \in DATABASES \union {NoDatabase}
    /\ source \in {None, "READ_ONLY", "ADMIN"}
    /\ \A i \in Instances : sources[i] \in SOURCES[i]
    /\ replicated \subseteq Instances
    /\ catalog \subseteq DATABASES /\ steady \subseteq catalog /\ changes \in 0..MaxChanges
    /\ out.result \in Results /\ (pc = "done" <=> out # Pending)
    /\ out.result = "table_not_found" => Cardinality(out.candidates) <= CANDIDATE_CAP

\* A short name never picks, among what the server's filter lets through:
\* whatever was made or dropped between two pages, no other database of those
\* that was there all along matches as well as the one resolved.  A filter that
\* minds the case can hide an equal or a better match of tiers 2 and 3.
NeverAPick ==
    full = NoDatabase /\ resolved # NoDatabase =>
        \A d \in (steady \intersect admitted) \ {resolved} : TIER[d.id] > TIER[resolved.id]

\* A refusal is true of what the server's filter lets through: a name is not
\* found only when no database of those that stayed matches it, and an ambiguous
\* name lists at least two equally good matches, every one that stayed among
\* them.
RefusalIsTrue ==
    /\ out.result = "database_not_found" => \A d \in steady \intersect admitted : TIER[d.id] = 4
    /\ out.result = "ambiguous_target" =>
        /\ Cardinality(out.candidates) >= 2
        /\ \A c \in out.candidates, d \in steady \intersect admitted :
            TIER[d.id] >= TIER[c.id] /\ (TIER[d.id] = TIER[c.id] => d \in out.candidates)

\* A query stays off the admin connection of an instance that had a read-only
\* one all the time: the choice made from the listing can be stale only when
\* the data sources have changed since the command began.
ReplicaFirst ==
    out.result = "rows" /\ resolved.instance \in replicated => truth.on = "READ_ONLY"

\* `truncated` is a fact: rows were left out exactly when the output says so
\* (unless the server's own policy cut them), and the same for the tables of
\* each schema.
TruncatedIsExact ==
    /\ out.result = "rows" =>
        /\ out.truncated => truth.total > out.shown
        /\ truth.cap = NoLimit \/ truth.cap > truth.limit =>
            out.truncated <=> truth.total > out.shown
    /\ out.result = "tables" =>
        \A s \in DOMAIN out.sections :
            LET there == InSchema(Filtered(truth.tables, EffectiveHint(resolved, truth.hint), NoTable), s)
            IN out.sections[s].truncated <=> out.sections[s].shown # there

\* The tables the caller may mean by --table and --schema.
Meant == {t \in truth.tables :
            /\ t[2] = truth.table
            /\ truth.hint = None \/ resolved.instance \notin NAMED \/ t[1] = truth.hint}

\* A table is shown only when no other schema the caller may mean has one of
\* that name, and refused only when there is none; a --schema flag hides
\* nothing on an engine without named schemas.
TableIsTheOne ==
    resolved # NoDatabase /\ resolved.instance \in LISTED \union (Instances \ NAMED) =>
        /\ out.result = "table" => out.found = Meant
        /\ out.result = "table_not_found" => Meant = {}
        /\ out.result = "ambiguous_table" => Cardinality(Meant) > 1

\* Paging comes to an end, and the command with it.
LookupEnds == <>(pc = "done")

-----------------------------------------------------------------------------
(* The inductive invariant behind the theorems of LookupProofs *)

\* A database that stayed and comes before the page token is among the entries.
PagesInv == pc = "list" =>
    \A k \in 1..pageToken : LISTING[k] \in steady \intersect admitted =>
        \E e \in all : e.db = LISTING[k]

\* The entries: of databases before the token, one of each, none older than the
\* removal of a READ_ONLY source.
EntriesInv ==
    /\ IsFiniteSet(all)
    /\ \A e \in all : /\ \E k \in 1..pageToken : e.db = LISTING[k]
                      /\ e.db.instance \in replicated => "READ_ONLY" \in e.sources
    /\ \A e, f \in all : e.db = f.db => e = f

\* The data source settled on is a READ_ONLY one where one was there all the time.
SourceInv ==
    /\ sources \in [Instances -> SUBSET {"READ_ONLY", "ADMIN"}]
    /\ \A i \in replicated : "READ_ONLY" \in sources[i]
    /\ pc \in {"call", "candidates"} => resolved \in DATABASES
    /\ pc = "call" /\ resolved.instance \in replicated => source = "READ_ONLY"

\* Candidates are looked for when the table meant is not there.
CandidatesInv ==
    pc = "candidates" /\ resolved.instance \in LISTED \union (Instances \ NAMED) => Meant = {}

\* Only a full name is fetched; a listing begins at its beginning.
StartInv == /\ pc = "get" => full # NoDatabase
            /\ pc = "workspace" => pageToken = 0

SafetyInv == /\ PagesInv
             /\ EntriesInv
             /\ SourceInv
             /\ StartInv
             /\ CandidatesInv
             /\ NeverAPick
             /\ RefusalIsTrue
             /\ ReplicaFirst
             /\ TruncatedIsExact
             /\ TableIsTheOne
=============================================================================
