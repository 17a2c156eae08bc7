----------------------------- MODULE SquashRule -----------------------------
(***************************************************************************)
(* The analyzer rule squash_joins (internal/rule/squashjoins.go): inner    *)
(* joins of git tables become one squashed table, a chain of iterators in  *)
(* which each table is read from the objects of the one before.            *)
(*                                                                         *)
(* The rule works in two passes.  The first goes up the tree of joins and  *)
(* merges a join into a joinedTables node when its condition has a filter  *)
(* some iterator implements (Join).  The second takes the tables of that   *)
(* node in the order of the hierarchy and chooses an iterator for each     *)
(* (ChainTable), or leaves the table to a join in memory                   *)
(* (AddUnsquashable); each filter goes to the iterator that can evaluate   *)
(* it, or is dropped where the iterator is thought to imply it.            *)
(*                                                                         *)
(* A filter is abstracted to the tables it reads and a column: over two    *)
(* tables it is the equality of that column, over one the equality with a  *)
(* literal.  Left-deep trees of inner joins are modelled, each table       *)
(* occurs once and under its own name.                                     *)
(***************************************************************************)
EXTENDS Naturals, Sequences, FiniteSets

CONSTANTS
    Data,          \* Data[t]: the rows of table t, records over Columns(t)
    Literal,       \* Literal[c]: the literal that column c is compared with
    MainTree,      \* MainTree[h]: the root tree of commit h
    LocalFilters,  \* the filters over one table that queries may have
    MaxTables,     \* bound: tables of a query with arbitrary conditions
    MaxNatural,    \* bound: tables of a query with natural joins only
    MaxAtoms,      \* bound: filters of a condition that is not natural
    MaxLocal       \* bound: filters over one table in a query

VARIABLES
    query,     \* the joins from left to right: [table, cond, local]
    merged,    \* how many of them are in the joinedTables node
    phase,     \* "join", "build", "planned" or a failure
    todo,      \* tables of the node still to be chained
    used,      \* the tables taken from todo so far
    kind,      \* the table whose objects the last iterator gives, or "nil"
    schema,    \* the tables whose columns the iterator returns
    filters,   \* filters without a place yet
    applied,   \* filters evaluated by iterators
    links,     \* equalities the iterators imply
    unsquashable \* tables joined in memory: [table, filters]

vars == <<query, merged, phase, todo, used, kind, schema, filters, applied,
          links, unsquashable>>
-----------------------------------------------------------------------------
(* Tables, columns and filters.                                            *)

tableHierarchy ==
    <<"repositories", "remotes", "refs", "ref_commits", "commits",
      "commit_trees", "tree_entries", "commit_blobs", "commit_files",
      "blobs", "files">>

Tables == {tableHierarchy[i] : i \in 1..11}

Columns == {"repository_id", "remote_name", "ref_name", "commit_hash",
            "tree_hash", "blob_hash", "file_path"}

Filter == [tables : SUBSET Tables, col : Columns]

ASSUME LocalAssumption == LocalFilters \subseteq Filter

\* The columns that two tables share, less those a blob hash determines.
tableSchema(t) ==
    {"repository_id"} \cup
    (CASE t = "remotes"      -> {"remote_name"}
       [] t = "refs"         -> {"ref_name", "commit_hash"}
       [] t = "ref_commits"  -> {"ref_name", "commit_hash"}
       [] t = "commits"      -> {"commit_hash", "tree_hash"}
       [] t = "commit_trees" -> {"commit_hash", "tree_hash"}
       [] t = "tree_entries" -> {"tree_hash", "blob_hash"}
       [] t = "commit_blobs" -> {"commit_hash", "blob_hash"}
       [] t = "commit_files" -> {"commit_hash", "file_path", "blob_hash",
                                 "tree_hash"}
       [] t = "blobs"        -> {"blob_hash"}
       [] t = "files"        -> {"file_path", "blob_hash", "tree_hash"}
       [] OTHER              -> {})

Atom(ts, c) == [tables |-> ts, col |-> c]

tableHierarchyIndex(t) == CHOOSE i \in DOMAIN tableHierarchy :
                              tableHierarchy[i] = t

orderedTablePair(t1, t2) ==
    IF tableHierarchyIndex(t1) < tableHierarchyIndex(t2)
    THEN <<t1, t2>> ELSE <<t2, t1>>

\* The tables of ts are taken in the order of the hierarchy
\* (orderedTableNames), from the first.
FirstOf(ts) == CHOOSE t \in ts :
                   \A u \in ts : tableHierarchyIndex(t) <= tableHierarchyIndex(u)

\* Mutant: the filters that read any of the tables.
SlipFiltersForTables(fs, ts) == {f \in fs : f.tables \cap ts # {}}

filtersForTables(fs, ts) == {f \in fs : f.tables \subseteq ts}

\* The columns whose equality an iterator that joins t1 with t2 is thought
\* to imply.
redundantColumns(t1, t2) ==
    CASE t1 = "repositories" /\ t2 \in {"remotes", "refs", "ref_commits",
                                       "commits", "tree_entries", "blobs"}
             -> {"repository_id"}
      [] t1 = "remotes" /\ t2 = "refs"
             -> {"repository_id"}
      [] t1 = "refs" /\ t2 = "ref_commits"
             -> {"ref_name", "commit_hash"}
      [] t1 = "refs" /\ t2 \in {"commits", "commit_trees", "commit_blobs",
                               "commit_files"}
             -> {"commit_hash"}
      [] t1 = "ref_commits" /\ t2 \in {"commits", "commit_trees",
                                      "commit_blobs", "commit_files"}
             -> {"commit_hash"}
      [] t1 = "commits" /\ t2 = "commit_trees"
             -> {"commit_hash", "tree_hash"}
      [] t1 = "commits" /\ t2 \in {"commit_blobs", "commit_files"}
             -> {"commit_hash"}
      [] t1 \in {"commits", "commit_trees"} /\ t2 = "tree_entries"
             -> {"tree_hash"}
      [] t1 \in {"tree_entries", "commit_blobs", "commit_files"}
             /\ t2 = "blobs"
             -> {"blob_hash"}
      [] OTHER -> {}

isRedundantFilter(f, t1, t2) ==
    f.tables = {t1, t2} /\ f.col \in redundantColumns(t1, t2)

Compound == {Atom({"commit_files", "files"}, c) :
                 c \in {"tree_hash", "file_path", "blob_hash"}}

hasRedundantCompoundFilter(fs, t1, t2) ==
    <<t1, t2>> = <<"commit_files", "files">> /\ Compound \subseteq fs

removeRedundantFilters(fs, t1, t2) ==
    {f \in fs : /\ ~isRedundantFilter(f, t1, t2)
                /\ ~(<<t1, t2>> = <<"commit_files", "files">>
                       /\ f \in Compound)}

hasChainableJoinCondition(cond, t1, t2) ==
    \/ hasRedundantCompoundFilter(cond, t1, t2)
    \/ \E f \in cond : isRedundantFilter(f, t1, t2)

hasRefHEADFilter(fs) ==
    \E t \in {"commits", "ref_commits"} :
        Atom({"refs", t}, "commit_hash") \in fs

\* Mutant: looks for the filter on the wrong table.
SlipHasMainTreeFilter(fs) ==
    Atom({"commits", "tree_entries"}, "tree_hash") \in fs

hasMainTreeFilter(fs) == Atom({"commits", "commit_trees"}, "tree_hash") \in fs
-----------------------------------------------------------------------------
(* First pass: which joins are merged.                                     *)

Prefix(q, n) == {q[i].table : i \in 1..n}
QueryTables  == Prefix(query, Len(query))

findSquashedTables == Prefix(query, merged)

\* The last leaf visited wins: the tables of the joinedTables node if the
\* whole left side is one, else the rightmost table.
findLeafTables == IF merged = Len(query)
                  THEN findSquashedTables
                  ELSE {query[Len(query)].table}

\* Natural joins leave one of several equal columns: a column of another
\* squashed table stands for that of rt if rt has one with its name.
RewriteFor(cond, lt, rt) ==
    IF rt \notin findSquashedTables THEN cond
    ELSE {Atom({IF u \notin {lt, rt} /\ f.col \in tableSchema(rt)
                THEN rt ELSE u : u \in f.tables}, f.col) : f \in cond}

isJoinCondSquashable(lt, cond) ==
    \E rt \in findLeafTables :
        LET p == orderedTablePair(lt, rt)
        IN  hasChainableJoinCondition(RewriteFor(cond, lt, rt), p[1], p[2])

Shared(t, ts) == UNION {{Atom({u, t}, c) : c \in tableSchema(u) \cap tableSchema(t)} :
                            u \in ts}

\* How a natural join is resolved: each column of the new table that an
\* earlier one has is compared with that of the leftmost.
NaturalCond(t) ==
    {f \in Shared(t, QueryTables) :
        \A i, j \in DOMAIN query :
            query[i].table \in f.tables /\ j < i
                => f.col \notin tableSchema(query[j].table)}

Natural(q) == \A i \in 2..Len(q) : q[i].natural

Conds(t) ==
    (IF Len(query) < MaxTables
     THEN {s \in SUBSET Shared(t, QueryTables) :
               s # {} /\ Cardinality(s) <= MaxAtoms}
     ELSE {})
    \cup (IF Natural(query) THEN {NaturalCond(t)} ELSE {})

Locals(t) == LET n == Cardinality(UNION {query[i].local : i \in DOMAIN query})
             IN  {s \in SUBSET {f \in LocalFilters : f.tables = {t}} :
                      Cardinality(s) + n <= MaxLocal}

From(t) ==
    /\ phase = "join" /\ query = <<>>
    /\ \E l \in Locals(t) :
           query' = <<[table |-> t, cond |-> {}, local |-> l,
                       natural |-> TRUE]>>
    /\ UNCHANGED <<merged, phase, todo, used, kind, schema, filters, applied,
                   links, unsquashable>>

squashJoin(t) ==
    /\ phase = "join" /\ query # <<>>
    /\ Len(query) < MaxNatural
    /\ t \notin QueryTables
    /\ \E cond \in Conds(t), l \in Locals(t) :
           /\ query' = Append(query,
                              [table |-> t, cond |-> cond, local |-> l,
                               natural |-> cond = NaturalCond(t)])
           /\ merged' = IF isJoinCondSquashable(t, cond)
                        THEN Len(query) + 1 ELSE merged
    /\ UNCHANGED <<phase, todo, used, kind, schema, filters, applied, links,
                   unsquashable>>

FiltersUpTo(n) == UNION {query[i].cond \cup query[i].local : i \in 1..n}

joinTables ==
    /\ phase = "join" /\ merged > 1
    /\ phase' = "build"
    /\ todo' = findSquashedTables
    /\ filters' = FiltersUpTo(merged)
    /\ UNCHANGED <<query, merged, used, kind, schema, applied, links,
                   unsquashable>>
-----------------------------------------------------------------------------
(* Second pass: the iterator for table t after an iterator of kind k.  A   *)
(* step takes the filters over "reads", gives the objects of table         *)
(* "gives", and links them to the current objects by the columns "on".     *)

Chain(t1, t2, on) == [reads |-> <<t1, t2>>, gives |-> t2,
                      on |-> on \cup {"repository_id"}]
Scan(t)           == [reads |-> <<t, t>>, gives |-> t, on |-> {}]
Unsquashable      == [reads |-> <<>>, gives |-> "none", on |-> {}]
InvalidChain      == [reads |-> <<"none", "none">>, gives |-> "none",
                      on |-> {}]

\* Which iterators are, by their methods, of a type of the type switches.
ReposIter       == {"repositories"}
RemotesIter     == {"remotes"}
RefsIter        == {"refs"}
RefCommitsIter  == {"ref_commits"}
CommitsIter     == {"ref_commits", "commits"}
TreesIter       == {"commit_trees"}
TreeEntriesIter == {"tree_entries"}
BlobsIter       == {"commit_blobs", "blobs"}
FilesIter       == {"commit_files"}

ForRepositories(k) ==
    IF k = "nil" THEN Scan("repositories") ELSE InvalidChain

ForRemotes(k) ==
    CASE k \in ReposIter -> Chain("repositories", "remotes", {})
      [] k = "nil"       -> Scan("remotes")
      [] OTHER           -> Unsquashable

ForRefs(k) ==
    CASE k \in ReposIter   -> Chain("repositories", "refs", {})
      [] k \in RemotesIter -> Chain("remotes", "refs", {})
      [] k = "nil"         -> Scan("refs")
      [] OTHER             -> Unsquashable

\* Without an index the filters on the name of the reference are evaluated
\* on the references, which lead to the same rows.
ForRefCommits(k, fs) ==
    CASE k \in ReposIter -> Chain("repositories", "ref_commits", {})
      [] k \in RefsIter  -> Chain("refs", "ref_commits",
                                  {"ref_name"} \cup
                                  (IF hasRefHEADFilter(fs)
                                   THEN {"commit_hash"} ELSE {}))
      [] k = "nil"       -> Scan("ref_commits")
      [] OTHER           -> Unsquashable

ForCommits(k) ==
    CASE k \in ReposIter   -> Chain("repositories", "commits", {})
      [] k \in RefsIter    -> Chain("refs", "commits", {"commit_hash"})
      [] k \in CommitsIter -> Chain("ref_commits", "commits", {"commit_hash"})
      [] k = "nil"         -> Scan("commits")
      [] OTHER             -> Unsquashable

\* After repositories the iterator is that of the tree entries.
ForCommitTrees(k, fs) ==
    CASE k \in ReposIter      -> Chain("repositories", "tree_entries", {})
      [] k \in RefsIter       -> Chain("refs", "commit_trees", {"commit_hash"})
      [] k \in RefCommitsIter -> Chain("ref_commits", "commit_trees",
                                       {"commit_hash"})
      [] k \in CommitsIter \ RefCommitsIter ->
             Chain("commits", "commit_trees",
                   {"commit_hash"} \cup
                   (IF hasMainTreeFilter(fs) THEN {"tree_hash"} ELSE {}))
      [] k = "nil"            -> Scan("commit_trees")
      [] OTHER                -> Unsquashable

ForCommitBlobs(k) ==
    CASE k \in RefsIter       -> Chain("refs", "commit_blobs", {"commit_hash"})
      [] k \in RefCommitsIter -> Chain("ref_commits", "commit_blobs",
                                       {"commit_hash"})
      [] k \in CommitsIter \ RefCommitsIter ->
             Chain("commits", "commit_blobs", {"commit_hash"})
      [] k = "nil"            -> Scan("commit_blobs")
      [] OTHER                -> Unsquashable

\* Mutant: references are followed to their commits, as for commit_trees.
SlipForTreeEntries(k) ==
    CASE k \in ReposIter   -> Chain("repositories", "tree_entries", {})
      [] k \in RefsIter    -> Chain("refs", "tree_entries", {"main_tree"})
      [] k \in CommitsIter ->
             Chain("commits", "tree_entries",
                   IF k = "commits" THEN {"tree_hash"} ELSE {"main_tree"})
      [] k \in TreesIter   -> Chain("commit_trees", "tree_entries",
                                    {"tree_hash"})
      [] k = "nil"         -> Scan("tree_entries")
      [] OTHER             -> Unsquashable

\* After ref_commits the root tree is that of the commit, read on the way.
ForTreeEntries(k) ==
    CASE k \in ReposIter   -> Chain("repositories", "tree_entries", {})
      [] k \in CommitsIter ->
             Chain("commits", "tree_entries",
                   IF k = "commits" THEN {"tree_hash"} ELSE {"main_tree"})
      [] k \in TreesIter   -> Chain("commit_trees", "tree_entries",
                                    {"tree_hash"})
      [] k = "nil"         -> Scan("tree_entries")
      [] OTHER             -> Unsquashable

ForBlobs(k) ==
    CASE k \in ReposIter       -> Chain("repositories", "blobs", {})
      [] k \in BlobsIter       -> Chain("commit_blobs", "blobs", {"blob_hash"})
      [] k \in TreeEntriesIter -> Chain("tree_entries", "blobs",
                                        {"blob_hash"})
      [] k \in FilesIter       -> Chain("commit_files", "blobs",
                                        {"blob_hash"})
      [] OTHER                 -> Unsquashable

ForCommitFiles(k) ==
    CASE k \in RefsIter    -> Chain("refs", "commit_files", {"commit_hash"})
      [] k \in CommitsIter -> Chain("commits", "commit_files",
                                    {"commit_hash"})
      [] k = "nil"         -> Scan("commit_files")
      [] OTHER             -> Unsquashable

ForFiles(k) ==
    IF k \in FilesIter
    THEN Chain("commit_files", "files", {"file_path", "blob_hash", "tree_hash"})
    ELSE Unsquashable

StepFor(t, k, fs) ==
    CASE t = "repositories" -> ForRepositories(k)
      [] t = "remotes"      -> ForRemotes(k)
      [] t = "refs"         -> ForRefs(k)
      [] t = "ref_commits"  -> ForRefCommits(k, fs)
      [] t = "commits"      -> ForCommits(k)
      [] t = "commit_trees" -> ForCommitTrees(k, fs)
      [] t = "commit_blobs" -> ForCommitBlobs(k)
      [] t = "tree_entries" -> ForTreeEntries(k)
      [] t = "blobs"        -> ForBlobs(k)
      [] t = "commit_files" -> ForCommitFiles(k)
      [] t = "files"        -> ForFiles(k)

\* Can the expression be evaluated on rows with the columns of ts?
fixFieldIndexes(fs, ts) == \A f \in fs : f.tables \subseteq ts

ChainTable ==
    LET t    == FirstOf(todo)
        step == StepFor(t, kind, filters)
        t1   == step.reads[1]
        t2   == step.reads[2]
        mine == filtersForTables(filters, {t1, t2})
        kept == removeRedundantFilters(mine, t1, t2)
    IN  /\ phase = "build" /\ todo # {}
        /\ step.reads # <<>>
        /\ todo' = todo \ {t}
        /\ used' = used \cup {t}
        /\ filters' = filters \ mine
        /\ applied' = applied \cup kept
        /\ links' = links \cup {Atom({kind, step.gives}, c) : c \in step.on}
        /\ kind' = step.gives
        /\ schema' = schema \cup {step.gives}
        /\ phase' = IF step # InvalidChain /\ fixFieldIndexes(kept, schema')
                    THEN phase ELSE "failed"
        /\ UNCHANGED <<query, merged, unsquashable>>

AddUnsquashable ==
    LET t    == FirstOf(todo)
        mine == filtersForTables(filters, used \cup {t})
    IN  /\ phase = "build" /\ todo # {}
        /\ StepFor(t, kind, filters) = Unsquashable
        /\ todo' = todo \ {t}
        /\ used' = used \cup {t}
        /\ unsquashable' = Append(unsquashable,
                                  [table |-> t, filters |-> mine])
        /\ filters' = filters \ mine
        /\ UNCHANGED <<query, merged, phase, kind, schema, applied, links>>

\* The tables joined in memory before the n-th one, and the squashed table.
NodeSchema(n) == schema \cup {unsquashable[i].table : i \in 1..n}

projectSchema == findSquashedTables \subseteq NodeSchema(Len(unsquashable))

\* What comes of the rule.  With no iterator there is no schema to read: a
\* nil pointer.  Without tables to join in memory nothing tests that the
\* iterator has the columns of the query: buildSchemaMapping takes the first
\* one for a column that is missing, and SquashedTable.Schema leaves nil
\* columns at its end, which the last pass dereferences when it looks for a
\* column of the remaining filters in vain.
Outcome ==
    CASE kind = "nil" -> "panic"
      [] kind # "nil" /\ unsquashable = <<>> ->
             IF findSquashedTables \subseteq schema THEN "planned"
             ELSE IF fixFieldIndexes(filters, schema) THEN "garbled"
             ELSE "panic"
      [] OTHER ->
             IF /\ \A n \in DOMAIN unsquashable :
                       fixFieldIndexes(unsquashable[n].filters, NodeSchema(n))
                /\ projectSchema
             THEN "planned" ELSE "failed"

buildSquashedTable ==
    /\ phase = "build" /\ todo = {}
    /\ phase' = Outcome
    /\ UNCHANGED <<query, merged, todo, used, kind, schema, filters, applied,
                   links, unsquashable>>
-----------------------------------------------------------------------------
Init ==
    /\ query = <<>> /\ merged = 0 /\ phase = "join"
    /\ todo = {} /\ used = {} /\ kind = "nil" /\ schema = {}
    /\ filters = {} /\ applied = {} /\ links = {} /\ unsquashable = <<>>

Next == \/ \E t \in Tables : From(t) \/ squashJoin(t)
        \/ joinTables
        \/ ChainTable
        \/ AddUnsquashable
        \/ buildSquashedTable

Spec == Init /\ [][Next]_vars
-----------------------------------------------------------------------------
(* What rows the query asks for and what rows the plan returns.            *)

Holds(f, row) ==
    IF f.col = "main_tree"
    THEN \A t \in f.tables \ {"tree_entries"} :
             MainTree[row[t].commit_hash] = row["tree_entries"].tree_hash
    ELSE IF Cardinality(f.tables) = 1
    THEN \A t \in f.tables : row[t][f.col] = Literal[f.col]
    ELSE \A t, u \in f.tables : row[t][f.col] = row[u][f.col]

With(r, t, d) == [u \in DOMAIN r \cup {t} |-> IF u = t THEN d ELSE r[u]]

\* The rows of the tables so far, each with a row of table t, that satisfy
\* the filters that read t.
Extend(rows, t, fs) ==
    {r \in {With(r, t, d) : d \in Data[t], r \in rows} :
         \A f \in fs : (t \in f.tables /\ f.tables \subseteq DOMAIN r)
                          => Holds(f, r)}

\* The combinations of rows of the tables of ts that satisfy the filters.
\* The tables are read in the order of the hierarchy (orderedTableNames).
RowsOf(ts, fs) ==
    LET rows[n \in 0..11] ==
            IF n = 0 THEN {<<>>}
            ELSE IF tableHierarchy[n] \in ts
            THEN Extend(rows[n - 1], tableHierarchy[n], fs)
            ELSE rows[n - 1]
    IN  rows[11]

AllFilters == FiltersUpTo(Len(query))

QueryRows == RowsOf(QueryTables, AllFilters)

unsquashableFilters ==
    UNION {unsquashable[i].filters : i \in DOMAIN unsquashable}

\* Joins that were not merged are evaluated in memory.
PlanRows == RowsOf(QueryTables,
                   links \cup applied \cup filters \cup unsquashableFilters
                   \cup UNION {query[i].cond \cup query[i].local :
                                  i \in (merged + 1)..Len(query)})
-----------------------------------------------------------------------------
(* Properties.                                                             *)

(* A filter of the joined tables is never lost: it waits for a place, is   *)
(* evaluated by an iterator or in a join in memory, or was dropped and is  *)
(* one that the links between the iterators imply (removeRedundantFilters).*)
NoFilterLost ==
    phase # "join" =>
        FiltersUpTo(merged)
            \subseteq filters \cup applied \cup unsquashableFilters \cup links

\* Tables chained as if one of them were another: the tree entries of a
\* reference's commits are those of their root trees only, and the commit
\* trees of a repository are read with the iterator of its tree entries.
RootTreesOnly(ts) == {"ref_commits", "tree_entries"} \subseteq ts
                         /\ {"commits", "commit_trees"} \cap ts = {}
WrongIterator(ts) == /\ {"repositories", "commit_trees"} \subseteq ts
                     /\ {"remotes", "refs", "ref_commits", "commits"}
                            \cap ts = {}

(* A query written with natural joins, as docs/using-gitbase/              *)
(* optimize-queries.md advises, gets all of its rows from the squashed     *)
(* table; buildSquashedTable breaks this for one combination of tables     *)
(* only.                                                                   *)
NaturalJoinsKeepRows ==
    (phase = "planned" /\ Natural(query)
       /\ ~RootTreesOnly(findSquashedTables)) => PlanRows = QueryRows

(* Whatever the conditions, no plan puts the wrong column in a row, and    *)
(* the rule fails or panics for no other tables than the ones that         *)
(* buildSquashedTable gives the wrong iterator.                            *)
FailsOnlyForWrongIterator ==
    /\ phase # "garbled"
    /\ phase \in {"failed", "panic"} => WrongIterator(findSquashedTables)

\* The hierarchies of docs/using-gitbase/optimize-queries.md; with remotes
\* each of them is one, too.
Hierarchies ==
    {{"repositories", "remotes", "refs", "ref_commits", "commits"} \cup ts :
        ts \in {{"commit_trees", "tree_entries", "blobs"}, {"commit_blobs", "blobs"},
                {"commit_files", "blobs"}, {"commit_files", "files"}}}

(* docs/using-gitbase/optimize-queries.md: "we suggest always using        *)
(* `NATURAL JOIN` for joining tables, since it's less verbose and already  *)
(* satisfies all the filters for squashing tables", and "As long as the    *)
(* tables you join are a subset of any of these hierarchies, it will be    *)
(* applied": the rule does not fail for them.                              *)
DocumentedJoinsAreSquashed ==
    Natural(query) /\ (\E h \in Hierarchies : QueryTables \subseteq h)
        => phase \in {"join", "build", "planned"}
=============================================================================
