--------------------------- MODULE SquashRuleProofs ---------------------------
(***************************************************************************)
(* Proofs that the squash rule loses no filter, fails only for the tables  *)
(* that get the wrong iterator and keeps the rows of natural joins, for    *)
(* every query it can be given: any tables, any number of joins, any       *)
(* conditions.                                                             *)
(*                                                                         *)
(* NoFilterLost is not inductive: that the links of a new iterator imply   *)
(* the filters it drops depends on which tables come before it.  Inv adds  *)
(* that tables are taken in the order of the hierarchy and that the kind   *)
(* of the last iterator is one of the tables taken (LoopOK), so that a     *)
(* filter on commits cannot be left when ref_commits is the last iterator. *)
(*                                                                         *)
(* For FailsOnlyForWrongIterator, FailInv adds what the conditions of the  *)
(* joins say (JoinsOK), where the columns of the tables taken are          *)
(* (PlacedOK) and, for the tables that get the wrong iterator, that the    *)
(* filters on commit_trees find no place (WrongPath).                      *)
(*                                                                         *)
(* For NaturalJoinsKeepRows, RowsInv adds what the links of the plan and   *)
(* the conditions of natural joins compare.                                *)
(*                                                                         *)
(* The last part is about the arrays that the rows of squashed tables are  *)
(* in, SharedRows.                                                         *)
(***************************************************************************)
EXTENDS SquashRule, SharedRows, SequenceTheorems, FiniteSetTheorems,
        WellFoundedInduction, TLAPS

(* The names of the tables are those of the hierarchy, and differ.          *)
LEMMA TableNames ==
    Tables = {"repositories", "remotes", "refs", "ref_commits", "commits",
              "commit_trees", "tree_entries", "commit_blobs", "commit_files",
              "blobs", "files"}
BY DEF Tables, tableHierarchy

\* Where a table is in the hierarchy.
D(t) == tableHierarchyIndex(t)

(* Where each table is in the hierarchy (tableHierarchyIndex).              *)
LEMMA Depths ==
    /\ \A t \in Tables : D(t) \in 1..11
    /\ D("repositories") = 1
    /\ D("remotes") = 2
    /\ D("refs") = 3
    /\ D("ref_commits") = 4
    /\ D("commits") = 5
    /\ D("commit_trees") = 6
    /\ D("tree_entries") = 7
    /\ D("commit_blobs") = 8
    /\ D("commit_files") = 9
    /\ D("blobs") = 10
    /\ D("files") = 11
<1>1. DOMAIN tableHierarchy = 1..11
  BY DEF tableHierarchy
<1>2. \A t \in Tables : D(t) \in 1..11 /\ tableHierarchy[D(t)] = t
  BY <1>1 DEF D, tableHierarchyIndex, Tables
<1>3. \A i, j \in 1..11 : tableHierarchy[i] = tableHierarchy[j] => i = j
  BY DEF tableHierarchy
<1> QED
  BY <1>2, <1>3, TableNames DEF tableHierarchy

(* A non-empty set of tables has one that comes first.                      *)
LEMMA FirstIsFirst ==
    ASSUME NEW ts \in SUBSET Tables, ts # {}
    PROVE  FirstOf(ts) \in ts /\ \A u \in ts : D(FirstOf(ts)) <= D(u)
<1>1. \E n \in 1..11 : tableHierarchy[n] \in ts
          /\ \A m \in 1..11 : m < n => tableHierarchy[m] \notin ts
  BY DEF Tables
<1>2. \A m \in 1..11 : D(tableHierarchy[m]) = m
  BY Depths DEF tableHierarchy
<1>3. \E t \in ts : \A u \in ts : D(t) <= D(u)
  BY <1>1, <1>2 DEF Tables
<1> QED
  BY <1>3 DEF FirstOf, D

\* Tables that the type switches of the loop can meet as the last iterator.
Kinds == Tables \cup {"nil", "none"}

\* The filter f is one that the iterator chosen by a step makes the rule
\* drop: a redundant one or, for commit_files and files, one of the three
\* that are redundant together.
Dropping(f, step) ==
    /\ step.reads # <<>>
    /\ \/ isRedundantFilter(f, step.reads[1], step.reads[2])
       \/ /\ <<step.reads[1], step.reads[2]>> = <<"commit_files", "files">>
          /\ f \in Compound

\* The links that a step adds after an iterator of kind k.
LinksOf(k, step) == {Atom({k, step.gives}, c) : c \in step.on}

(* Chaining t2 after the objects of t1 by all the columns that are          *)
(* redundant for t1 and t2 implies the filters that are dropped.            *)
LEMMA ChainDrops ==
    ASSUME NEW t1, NEW t2, NEW on, NEW f \in Filter,
           <<t1, t2>> # <<"commit_files", "files">>,
           Dropping(f, Chain(t1, t2, on)),
           redundantColumns(t1, t2) \subseteq on \cup {"repository_id"}
    PROVE  f \in LinksOf(t1, Chain(t1, t2, on))
<1>1. f = Atom({t1, t2}, f.col)
  BY DEF Filter, Atom, isRedundantFilter, Dropping, Chain
<1>2. f.col \in on \cup {"repository_id"}
  BY DEF isRedundantFilter, Dropping, Chain
<1> QED
  BY <1>1, <1>2 DEF LinksOf, Chain

(* The scan of one table drops nothing.                                     *)
LEMMA ScanDrops ==
    ASSUME NEW t \in Tables, NEW f
    PROVE  ~Dropping(f, Scan(t))
BY DEF Dropping, Scan, isRedundantFilter, redundantColumns

(* A table left to a join in memory drops nothing.                          *)
LEMMA NothingDropped ==
    ASSUME NEW f
    PROVE  ~Dropping(f, Unsquashable)
BY DEF Dropping, Unsquashable

(* What the iterator chosen by ForRemotes drops, its links imply.           *)
LEMMA RemotesStep ==
    ASSUME NEW k \in Kinds, NEW fs \in SUBSET Filter, NEW f \in fs,
           Dropping(f, ForRemotes(k))
    PROVE  f \in LinksOf(k, ForRemotes(k))
<1>1. CASE k = "repositories"
  <2>1. ForRemotes(k) = Chain("repositories", "remotes", {})
    BY <1>1 DEF ForRemotes, ReposIter
  <2>2. redundantColumns("repositories", "remotes") \subseteq {} \cup {"repository_id"}
    BY DEF redundantColumns
  <2> QED
    BY <1>1, <2>1, <2>2, ChainDrops
<1>2. CASE k = "nil"
  BY <1>2, ScanDrops, TableNames DEF ForRemotes, ReposIter
<1> QED
  BY <1>1, <1>2, NothingDropped, TableNames
     DEF Kinds, ForRemotes, ReposIter

(* What the iterator chosen by ForRefs drops, its links imply.              *)
LEMMA RefsStep ==
    ASSUME NEW k \in Kinds, NEW fs \in SUBSET Filter, NEW f \in fs,
           Dropping(f, ForRefs(k))
    PROVE  f \in LinksOf(k, ForRefs(k))
<1>1. CASE k = "repositories"
  <2>1. ForRefs(k) = Chain("repositories", "refs", {})
    BY <1>1 DEF ForRefs, ReposIter, RemotesIter
  <2>2. redundantColumns("repositories", "refs") \subseteq {} \cup {"repository_id"}
    BY DEF redundantColumns
  <2> QED
    BY <1>1, <2>1, <2>2, ChainDrops
<1>2. CASE k = "remotes"
  <2>1. ForRefs(k) = Chain("remotes", "refs", {})
    BY <1>2 DEF ForRefs, ReposIter, RemotesIter
  <2>2. redundantColumns("remotes", "refs") \subseteq {} \cup {"repository_id"}
    BY DEF redundantColumns
  <2> QED
    BY <1>2, <2>1, <2>2, ChainDrops
<1>3. CASE k = "nil"
  BY <1>3, ScanDrops, TableNames DEF ForRefs, ReposIter, RemotesIter
<1> QED
  BY <1>1, <1>2, <1>3, NothingDropped, TableNames
     DEF Kinds, ForRefs, ReposIter, RemotesIter

(* What the iterator chosen by ForCommits drops, its links imply.           *)
LEMMA CommitsStep ==
    ASSUME NEW k \in Kinds, NEW fs \in SUBSET Filter, NEW f \in fs,
           k # "commits",
           Dropping(f, ForCommits(k))
    PROVE  f \in LinksOf(k, ForCommits(k))
<1>1. CASE k = "repositories"
  <2>1. ForCommits(k) = Chain("repositories", "commits", {})
    BY <1>1 DEF ForCommits, ReposIter, RefsIter, CommitsIter
  <2>2. redundantColumns("repositories", "commits") \subseteq {} \cup {"repository_id"}
    BY DEF redundantColumns
  <2> QED
    BY <1>1, <2>1, <2>2, ChainDrops
<1>2. CASE k = "refs"
  <2>1. ForCommits(k) = Chain("refs", "commits", {"commit_hash"})
    BY <1>2 DEF ForCommits, ReposIter, RefsIter, CommitsIter
  <2>2. redundantColumns("refs", "commits") \subseteq {"commit_hash"} \cup {"repository_id"}
    BY DEF redundantColumns
  <2> QED
    BY <1>2, <2>1, <2>2, ChainDrops
<1>3. CASE k = "ref_commits"
  <2>1. ForCommits(k) = Chain("ref_commits", "commits", {"commit_hash"})
    BY <1>3 DEF ForCommits, ReposIter, RefsIter, CommitsIter
  <2>2. redundantColumns("ref_commits", "commits") \subseteq {"commit_hash"} \cup {"repository_id"}
    BY DEF redundantColumns
  <2> QED
    BY <1>3, <2>1, <2>2, ChainDrops
<1>4. CASE k = "nil"
  BY <1>4, ScanDrops, TableNames DEF ForCommits, ReposIter, RefsIter, CommitsIter
<1> QED
  BY <1>1, <1>2, <1>3, <1>4, NothingDropped, TableNames
     DEF Kinds, ForCommits, ReposIter, RefsIter, CommitsIter

(* What the iterator chosen by ForCommitBlobs drops, its links imply.       *)
LEMMA CommitBlobsStep ==
    ASSUME NEW k \in Kinds, NEW fs \in SUBSET Filter, NEW f \in fs,
           Dropping(f, ForCommitBlobs(k))
    PROVE  f \in LinksOf(k, ForCommitBlobs(k))
<1>1. CASE k = "refs"
  <2>1. ForCommitBlobs(k) = Chain("refs", "commit_blobs", {"commit_hash"})
    BY <1>1 DEF ForCommitBlobs, RefsIter, RefCommitsIter, CommitsIter
  <2>2. redundantColumns("refs", "commit_blobs") \subseteq {"commit_hash"} \cup {"repository_id"}
    BY DEF redundantColumns
  <2> QED
    BY <1>1, <2>1, <2>2, ChainDrops
<1>2. CASE k = "ref_commits"
  <2>1. ForCommitBlobs(k) = Chain("ref_commits", "commit_blobs", {"commit_hash"})
    BY <1>2 DEF ForCommitBlobs, RefsIter, RefCommitsIter, CommitsIter
  <2>2. redundantColumns("ref_commits", "commit_blobs") \subseteq {"commit_hash"} \cup {"repository_id"}
    BY DEF redundantColumns
  <2> QED
    BY <1>2, <2>1, <2>2, ChainDrops
<1>3. CASE k = "commits"
  <2>1. ForCommitBlobs(k) = Chain("commits", "commit_blobs", {"commit_hash"})
    BY <1>3 DEF ForCommitBlobs, RefsIter, RefCommitsIter, CommitsIter
  <2>2. redundantColumns("commits", "commit_blobs") \subseteq {"commit_hash"} \cup {"repository_id"}
    BY DEF redundantColumns
  <2> QED
    BY <1>3, <2>1, <2>2, ChainDrops
<1>4. CASE k = "nil"
  BY <1>4, ScanDrops, TableNames DEF ForCommitBlobs, RefsIter, RefCommitsIter, CommitsIter
<1> QED
  BY <1>1, <1>2, <1>3, <1>4, NothingDropped, TableNames
     DEF Kinds, ForCommitBlobs, RefsIter, RefCommitsIter, CommitsIter

(* What the iterator chosen by ForTreeEntries drops, its links imply.       *)
LEMMA TreeEntriesStep ==
    ASSUME NEW k \in Kinds, NEW fs \in SUBSET Filter, NEW f \in fs,
           k # "ref_commits",
           Dropping(f, ForTreeEntries(k))
    PROVE  f \in LinksOf(k, ForTreeEntries(k))
<1>1. CASE k = "repositories"
  <2>1. ForTreeEntries(k) = Chain("repositories", "tree_entries", {})
    BY <1>1 DEF ForTreeEntries, ReposIter, CommitsIter, TreesIter
  <2>2. redundantColumns("repositories", "tree_entries") \subseteq {} \cup {"repository_id"}
    BY DEF redundantColumns
  <2> QED
    BY <1>1, <2>1, <2>2, ChainDrops
<1>2. CASE k = "commits"
  <2>1. ForTreeEntries(k) = Chain("commits", "tree_entries", {"tree_hash"})
    BY <1>2 DEF ForTreeEntries, ReposIter, CommitsIter, TreesIter
  <2>2. redundantColumns("commits", "tree_entries") \subseteq {"tree_hash"} \cup {"repository_id"}
    BY DEF redundantColumns
  <2> QED
    BY <1>2, <2>1, <2>2, ChainDrops
<1>3. CASE k = "commit_trees"
  <2>1. ForTreeEntries(k) = Chain("commit_trees", "tree_entries", {"tree_hash"})
    BY <1>3 DEF ForTreeEntries, ReposIter, CommitsIter, TreesIter
  <2>2. redundantColumns("commit_trees", "tree_entries") \subseteq {"tree_hash"} \cup {"repository_id"}
    BY DEF redundantColumns
  <2> QED
    BY <1>3, <2>1, <2>2, ChainDrops
<1>4. CASE k = "nil"
  BY <1>4, ScanDrops, TableNames DEF ForTreeEntries, ReposIter, CommitsIter, TreesIter
<1> QED
  BY <1>1, <1>2, <1>3, <1>4, NothingDropped, TableNames
     DEF Kinds, ForTreeEntries, ReposIter, CommitsIter, TreesIter

(* What the iterator chosen by ForBlobs drops, its links imply.             *)
LEMMA BlobsStep ==
    ASSUME NEW k \in Kinds, NEW fs \in SUBSET Filter, NEW f \in fs,
           k # "blobs",
           Dropping(f, ForBlobs(k))
    PROVE  f \in LinksOf(k, ForBlobs(k))
<1>1. CASE k = "repositories"
  <2>1. ForBlobs(k) = Chain("repositories", "blobs", {})
    BY <1>1 DEF ForBlobs, ReposIter, BlobsIter, TreeEntriesIter, FilesIter
  <2>2. redundantColumns("repositories", "blobs") \subseteq {} \cup {"repository_id"}
    BY DEF redundantColumns
  <2> QED
    BY <1>1, <2>1, <2>2, ChainDrops
<1>2. CASE k = "commit_blobs"
  <2>1. ForBlobs(k) = Chain("commit_blobs", "blobs", {"blob_hash"})
    BY <1>2 DEF ForBlobs, ReposIter, BlobsIter, TreeEntriesIter, FilesIter
  <2>2. redundantColumns("commit_blobs", "blobs") \subseteq {"blob_hash"} \cup {"repository_id"}
    BY DEF redundantColumns
  <2> QED
    BY <1>2, <2>1, <2>2, ChainDrops
<1>3. CASE k = "tree_entries"
  <2>1. ForBlobs(k) = Chain("tree_entries", "blobs", {"blob_hash"})
    BY <1>3 DEF ForBlobs, ReposIter, BlobsIter, TreeEntriesIter, FilesIter
  <2>2. redundantColumns("tree_entries", "blobs") \subseteq {"blob_hash"} \cup {"repository_id"}
    BY DEF redundantColumns
  <2> QED
    BY <1>3, <2>1, <2>2, ChainDrops
<1>4. CASE k = "commit_files"
  <2>1. ForBlobs(k) = Chain("commit_files", "blobs", {"blob_hash"})
    BY <1>4 DEF ForBlobs, ReposIter, BlobsIter, TreeEntriesIter, FilesIter
  <2>2. redundantColumns("commit_files", "blobs") \subseteq {"blob_hash"} \cup {"repository_id"}
    BY DEF redundantColumns
  <2> QED
    BY <1>4, <2>1, <2>2, ChainDrops
<1> QED
  BY <1>1, <1>2, <1>3, <1>4, NothingDropped, TableNames
     DEF Kinds, ForBlobs, ReposIter, BlobsIter, TreeEntriesIter, FilesIter

(* What the iterator chosen by ForCommitFiles drops, its links imply.       *)
LEMMA CommitFilesStep ==
    ASSUME NEW k \in Kinds, NEW fs \in SUBSET Filter, NEW f \in fs,
           k # "ref_commits",
           Dropping(f, ForCommitFiles(k))
    PROVE  f \in LinksOf(k, ForCommitFiles(k))
<1>1. CASE k = "refs"
  <2>1. ForCommitFiles(k) = Chain("refs", "commit_files", {"commit_hash"})
    BY <1>1 DEF ForCommitFiles, RefsIter, CommitsIter
  <2>2. redundantColumns("refs", "commit_files") \subseteq {"commit_hash"} \cup {"repository_id"}
    BY DEF redundantColumns
  <2> QED
    BY <1>1, <2>1, <2>2, ChainDrops
<1>2. CASE k = "commits"
  <2>1. ForCommitFiles(k) = Chain("commits", "commit_files", {"commit_hash"})
    BY <1>2 DEF ForCommitFiles, RefsIter, CommitsIter
  <2>2. redundantColumns("commits", "commit_files") \subseteq {"commit_hash"} \cup {"repository_id"}
    BY DEF redundantColumns
  <2> QED
    BY <1>2, <2>1, <2>2, ChainDrops
<1>3. CASE k = "nil"
  BY <1>3, ScanDrops, TableNames DEF ForCommitFiles, RefsIter, CommitsIter
<1> QED
  BY <1>1, <1>2, <1>3, NothingDropped, TableNames
     DEF Kinds, ForCommitFiles, RefsIter, CommitsIter

(* What the iterator chosen by ForRefCommits drops, its links imply.        *)
LEMMA RefCommitsStep ==
    ASSUME NEW k \in Kinds, NEW fs \in SUBSET Filter, NEW f \in fs,
           Dropping(f, ForRefCommits(k, fs))
    PROVE  f \in LinksOf(k, ForRefCommits(k, fs))
<1>1. CASE k = "repositories"
  <2>1. ForRefCommits(k, fs) = Chain("repositories", "ref_commits", {})
    BY <1>1 DEF ForRefCommits, ReposIter, RefsIter
  <2>2. redundantColumns("repositories", "ref_commits")
            \subseteq {} \cup {"repository_id"}
    BY DEF redundantColumns
  <2> QED
    BY <1>1, <2>1, <2>2, ChainDrops
<1>2. CASE k = "refs"
  <2> DEFINE on == {"ref_name"} \cup (IF hasRefHEADFilter(fs)
                                      THEN {"commit_hash"} ELSE {})
  <2>1. ForRefCommits(k, fs) = Chain("refs", "ref_commits", on)
    BY <1>2 DEF ForRefCommits, ReposIter, RefsIter
  <2>2. isRedundantFilter(f, "refs", "ref_commits")
    BY <2>1 DEF Dropping, Chain
  <2>3. f = Atom({"refs", "ref_commits"}, f.col)
    BY <2>2 DEF Filter, Atom, isRedundantFilter
  <2>4. f.col \in {"ref_name", "commit_hash"}
    BY <2>2 DEF isRedundantFilter, redundantColumns
  <2>5. f.col = "commit_hash" => hasRefHEADFilter(fs)
    BY <2>3 DEF hasRefHEADFilter
  <2>6. f.col \in on
    BY <2>4, <2>5
  <2> QED
    BY <1>2, <2>1, <2>3, <2>6 DEF LinksOf, Chain
<1>3. CASE k = "nil"
  BY <1>3, ScanDrops, TableNames DEF ForRefCommits, ReposIter, RefsIter
<1> QED
  BY <1>1, <1>2, <1>3, NothingDropped, TableNames
     DEF Kinds, ForRefCommits, ReposIter, RefsIter

(* What the iterator chosen by ForCommitTrees drops, its links imply.       *)
LEMMA CommitTreesStep ==
    ASSUME NEW k \in Kinds, NEW fs \in SUBSET Filter, NEW f \in fs,
           Dropping(f, ForCommitTrees(k, fs))
    PROVE  f \in LinksOf(k, ForCommitTrees(k, fs))
<1> USE DEF ReposIter, RefsIter, RefCommitsIter, CommitsIter
<1>1. CASE k = "repositories"
  <2>1. ForCommitTrees(k, fs) = Chain("repositories", "tree_entries", {})
    BY <1>1 DEF ForCommitTrees
  <2>2. redundantColumns("repositories", "tree_entries")
            \subseteq {} \cup {"repository_id"}
    BY DEF redundantColumns
  <2> QED
    BY <1>1, <2>1, <2>2, ChainDrops
<1>2. CASE k \in {"refs", "ref_commits"}
  <2>1. ForCommitTrees(k, fs) = Chain(k, "commit_trees", {"commit_hash"})
    BY <1>2 DEF ForCommitTrees
  <2>2. redundantColumns(k, "commit_trees")
            \subseteq {"commit_hash"} \cup {"repository_id"}
    BY <1>2 DEF redundantColumns
  <2> QED
    BY <1>2, <2>1, <2>2, ChainDrops
<1>3. CASE k = "commits"
  <2> DEFINE on == {"commit_hash"} \cup (IF hasMainTreeFilter(fs)
                                         THEN {"tree_hash"} ELSE {})
  <2>1. ForCommitTrees(k, fs) = Chain("commits", "commit_trees", on)
    BY <1>3 DEF ForCommitTrees
  <2>2. isRedundantFilter(f, "commits", "commit_trees")
    BY <2>1 DEF Dropping, Chain
  <2>3. f = Atom({"commits", "commit_trees"}, f.col)
    BY <2>2 DEF Filter, Atom, isRedundantFilter
  <2>4. f.col \in {"commit_hash", "tree_hash"}
    BY <2>2 DEF isRedundantFilter, redundantColumns
  <2>5. f.col = "tree_hash" => hasMainTreeFilter(fs)
    BY <2>3 DEF hasMainTreeFilter
  <2>6. f.col \in on
    BY <2>4, <2>5
  <2> QED
    BY <1>3, <2>1, <2>3, <2>6 DEF LinksOf, Chain
<1>4. CASE k = "nil"
  BY <1>4, ScanDrops, TableNames DEF ForCommitTrees
<1> QED
  BY <1>1, <1>2, <1>3, <1>4, NothingDropped, TableNames
     DEF Kinds, ForCommitTrees

(* What the iterator chosen by ForFiles drops, its links imply.             *)
LEMMA FilesStep ==
    ASSUME NEW k \in Kinds, NEW f \in Filter, Dropping(f, ForFiles(k))
    PROVE  f \in LinksOf(k, ForFiles(k))
<1>1. CASE k = "commit_files"
  <2> DEFINE on == {"file_path", "blob_hash", "tree_hash"}
  <2>1. ForFiles(k) = Chain("commit_files", "files", on)
    BY <1>1 DEF ForFiles, FilesIter
  <2>2. f \in Compound
    BY <2>1 DEF Dropping, Chain, isRedundantFilter, redundantColumns
  <2> QED
    BY <1>1, <2>1, <2>2 DEF LinksOf, Chain, Compound
<1> QED
  BY <1>1, NothingDropped DEF ForFiles, FilesIter

(* Whatever table is chained after whatever iterator, a dropped filter is   *)
(* implied by the links, provided that no table is chained twice and that   *)
(* no filter is on commits where ref_commits is the last iterator.          *)
LEMMA DroppedIsLinked ==
    ASSUME NEW t \in Tables, NEW k \in Kinds,
           NEW fs \in SUBSET Filter, NEW f \in fs,
           t \in {"commits", "blobs"} => k # t,
           k = "ref_commits" /\ t \in {"tree_entries", "commit_files"}
               => "commits" \notin f.tables,
           t = "repositories" => k = "nil",
           Dropping(f, StepFor(t, k, fs))
    PROVE  f \in LinksOf(k, StepFor(t, k, fs))
<1>1. CASE k = "ref_commits" /\ t \in {"tree_entries", "commit_files"}
  <2>1. t = "tree_entries" =>
            StepFor(t, k, fs) = Chain("commits", t, {"main_tree"})
    <3>1. ForTreeEntries("ref_commits")
              = Chain("commits", "tree_entries", {"main_tree"})
      BY DEF ForTreeEntries, ReposIter, CommitsIter, TreesIter, Chain
    <3> QED
      BY <1>1, <3>1 DEF StepFor
  <2>2. t = "commit_files" =>
            StepFor(t, k, fs) = Chain("commits", t, {"commit_hash"})
    BY <1>1 DEF StepFor, ForCommitFiles, RefsIter, CommitsIter
  <2>3. \A on : ~Dropping(f, Chain("commits", t, on))
    BY <1>1 DEF Dropping, isRedundantFilter, Chain
  <2> QED
    BY <1>1, <2>1, <2>2, <2>3
<1>2. CASE t = "repositories"
  BY <1>2, ScanDrops, TableNames DEF StepFor, ForRepositories
<1>3. CASE /\ ~(k = "ref_commits" /\ t \in {"tree_entries", "commit_files"})
           /\ t # "repositories"
  <2>1. CASE t = "remotes"
    BY <1>3, <2>1, RemotesStep DEF StepFor
  <2>2. CASE t = "refs"
    BY <1>3, <2>2, RefsStep DEF StepFor
  <2>3. CASE t = "ref_commits"
    BY <1>3, <2>3, RefCommitsStep DEF StepFor
  <2>4. CASE t = "commits"
    BY <1>3, <2>4, CommitsStep DEF StepFor
  <2>5. CASE t = "commit_trees"
    BY <1>3, <2>5, CommitTreesStep DEF StepFor
  <2>6. CASE t = "commit_blobs"
    BY <1>3, <2>6, CommitBlobsStep DEF StepFor
  <2>7. CASE t = "tree_entries"
    BY <1>3, <2>7, TreeEntriesStep DEF StepFor
  <2>8. CASE t = "blobs"
    BY <1>3, <2>8, BlobsStep DEF StepFor
  <2>9. CASE t = "commit_files"
    BY <1>3, <2>9, CommitFilesStep DEF StepFor
  <2>10. CASE t = "files"
    BY <1>3, <2>10, FilesStep DEF StepFor
  <2> QED
    BY <1>3, TableNames, <2>1, <2>2, <2>3, <2>4, <2>5,
       <2>6, <2>7, <2>8, <2>9, <2>10
<1> QED
  BY <1>1, <1>2, <1>3
-----------------------------------------------------------------------------
(* The inductive invariant.                                                 *)

Join == [table : Tables, cond : SUBSET Filter, local : SUBSET Filter,
         natural : BOOLEAN]

\* The filters of a join are on tables that were joined by then.
QueryOK ==
    /\ query \in Seq(Join)
    /\ merged \in 0..Len(query)
    /\ \A i \in 1..Len(query) : \A f \in query[i].cond \cup query[i].local :
           f.tables \subseteq Prefix(query, i)

\* The loop of buildSquashedTable: tables are taken by their depth, and the
\* last iterator is one of a table taken.
LoopOK ==
    /\ phase \in {"join", "build", "planned", "failed", "garbled", "panic"}
    /\ todo \subseteq Tables /\ used \subseteq Tables
    /\ filters \subseteq Filter /\ applied \subseteq Filter
    /\ unsquashable \in Seq([table : Tables, filters : SUBSET Filter])
    /\ kind \in Kinds
    /\ schema \subseteq Tables \cup {"none"}
    /\ \A u \in used, v \in todo : D(u) < D(v)
    /\ used = {} => kind = "nil"
    /\ kind \in {"ref_commits", "commits", "blobs"} => kind \in used
    /\ kind = "ref_commits" => "commits" \notin used
    /\ phase = "join" => used = {} /\ todo = {}
    /\ phase # "join" =>
           /\ used \cup todo = findSquashedTables
           /\ \A f \in filters : f.tables \subseteq used \cup todo

Inv == QueryOK /\ LoopOK /\ NoFilterLost

(* The invariant holds before the query is read.                            *)
LEMMA InitInv == Init => Inv
BY DEF Init, Inv, QueryOK, LoopOK, NoFilterLost, Kinds, Join

(* A further join changes nothing in the joins before it.                   *)
LEMMA PrefixGrows ==
    ASSUME NEW q \in Seq(Join), NEW j \in Join, NEW n \in 0..Len(q)
    PROVE  Prefix(Append(q, j), n) = Prefix(q, n)
BY DEF Prefix

(* More joins have more tables.                                             *)
LEMMA PrefixMonotone ==
    ASSUME NEW q \in Seq(Join), NEW m \in 0..Len(q), NEW n \in 0..m
    PROVE  Prefix(q, n) \subseteq Prefix(q, m)
BY DEF Prefix

(* The tables of a prefix of the query are tables.                          *)
LEMMA PrefixTables ==
    ASSUME NEW q \in Seq(Join), NEW n \in 0..Len(q)
    PROVE  Prefix(q, n) \subseteq Tables
<1>1. \A i \in 1..n : q[i] \in Join
  OBVIOUS
<1> QED
  BY <1>1 DEF Prefix, Join

(* The first table of a query keeps the invariant.                          *)
LEMMA FromInv ==
    ASSUME Inv, NEW t \in Tables, From(t)
    PROVE  Inv'
<1>1. PICK l \in Locals(t) :
          query' = <<[table |-> t, cond |-> {}, local |-> l,
                      natural |-> TRUE]>>
  BY DEF From
<1>2. l \in SUBSET Filter /\ \A f \in l : f.tables = {t}
  BY LocalAssumption DEF Locals
<1>3. QueryOK'
  <2>1. query' \in Seq(Join) /\ Len(query') = 1
    BY <1>1, <1>2 DEF Join
  <2>2. merged' = 0
    <3>1. query = <<>> /\ merged \in 0..Len(query) /\ merged' = merged
      BY DEF From, Inv, QueryOK
    <3> QED
      BY <3>1
  <2>3. Prefix(query', 1) = {t}
    BY <1>1 DEF Prefix
  <2>4. ASSUME NEW i \in 1..Len(query'),
               NEW f \in query'[i].cond \cup query'[i].local
        PROVE  f.tables \subseteq Prefix(query', i)
    <3>1. i = 1
      BY <2>1
    <3>2. f \in l
      BY <1>1, <3>1
    <3> QED
      BY <1>2, <2>3, <3>1, <3>2
  <2> QED
    BY <2>1, <2>2, <2>4 DEF QueryOK
<1>4. LoopOK' /\ NoFilterLost'
  BY DEF From, Inv, LoopOK, NoFilterLost
<1> QED
  BY <1>3, <1>4 DEF Inv

(* The columns of the tables are columns.                                   *)
LEMMA ColumnNames == \A t \in Tables : tableSchema(t) \subseteq Columns
BY TableNames DEF tableSchema, Columns

(* Reading one more join, merged or not, keeps the invariant.               *)
LEMMA SquashJoinInv ==
    ASSUME Inv, NEW t \in Tables, squashJoin(t)
    PROVE  Inv'
<1>1. PICK cond \in Conds(t), l \in Locals(t) :
          /\ query' = Append(query, [table |-> t, cond |-> cond, local |-> l,
                                     natural |-> cond = NaturalCond(t)])
          /\ merged' = IF isJoinCondSquashable(t, cond)
                       THEN Len(query) + 1 ELSE merged
  BY DEF squashJoin
<1> DEFINE j == [table |-> t, cond |-> cond, local |-> l,
                 natural |-> cond = NaturalCond(t)]
<1>2. query \in Seq(Join) /\ QueryTables \subseteq Tables
  BY PrefixTables DEF Inv, QueryOK, QueryTables
<1>3. cond \subseteq Shared(t, QueryTables)
  BY DEF Conds, NaturalCond
<1>4. \A f \in cond : f \in Filter /\ f.tables \subseteq QueryTables \cup {t}
  BY <1>2, <1>3, ColumnNames DEF Shared, Atom, Filter
<1>5. \A f \in l : f \in Filter /\ f.tables = {t}
  BY LocalAssumption DEF Locals
<1>6. j \in Join
  BY <1>4, <1>5 DEF Join
<1>7. Len(query') = Len(query) + 1 /\ query' \in Seq(Join)
  BY <1>1, <1>2, <1>6
<1>8. Prefix(query', Len(query')) = QueryTables \cup {t}
  BY <1>1, <1>2, <1>6, <1>7 DEF QueryTables, Prefix
<1>9. QueryOK'
  <2>1. merged' \in 0..Len(query')
    BY <1>1, <1>2, <1>7 DEF Inv, QueryOK
  <2>2. ASSUME NEW i \in 1..Len(query'),
               NEW f \in query'[i].cond \cup query'[i].local
        PROVE  f.tables \subseteq Prefix(query', i)
    <3>1. CASE i = Len(query')
      BY <1>1, <1>2, <1>4, <1>5, <1>6, <1>7, <1>8, <3>1
    <3>2. CASE i \in 1..Len(query)
      <4>1. query'[i] = query[i]
        BY <1>1, <1>2, <1>6, <3>2
      <4>2. Prefix(query', i) = Prefix(query, i)
        BY <1>1, <1>2, <1>6, <3>2, PrefixGrows
      <4> QED
        BY <3>2, <4>1, <4>2 DEF Inv, QueryOK
    <3> QED
      BY <1>2, <1>7, <3>1, <3>2
  <2> QED
    BY <1>7, <2>1, <2>2 DEF QueryOK
<1>10. LoopOK' /\ NoFilterLost'
  BY DEF squashJoin, Inv, LoopOK, NoFilterLost
<1> QED
  BY <1>9, <1>10 DEF Inv

(* The joinedTables node has the filters of the merged joins.               *)
LEMMA JoinTablesInv ==
    ASSUME Inv, joinTables
    PROVE  Inv'
<1>1. QueryOK'
  BY DEF joinTables, Inv, QueryOK, Prefix
<1>2. filters' = FiltersUpTo(merged) /\ todo' = findSquashedTables /\ used' = {}
      /\ findSquashedTables' = findSquashedTables
      /\ FiltersUpTo(merged)' = FiltersUpTo(merged)
  BY DEF joinTables, Inv, LoopOK, findSquashedTables, FiltersUpTo, Prefix
<1>3. findSquashedTables \subseteq Tables
  BY PrefixTables DEF Inv, QueryOK, findSquashedTables
<1>4. \A f \in filters' : f \in Filter /\ f.tables \subseteq findSquashedTables
  <2> TAKE f \in filters'
  <2>1. PICK i \in 1..merged : f \in query[i].cond \cup query[i].local
    BY <1>2 DEF FiltersUpTo
  <2>2. i \in 1..Len(query) /\ query[i] \in Join
    BY <2>1 DEF Inv, QueryOK
  <2>3. f.tables \subseteq Prefix(query, i)
    BY <2>1, <2>2 DEF Inv, QueryOK
  <2>4. Prefix(query, i) \subseteq Prefix(query, merged)
    BY <2>1, PrefixMonotone DEF Inv, QueryOK
  <2> QED
    BY <2>1, <2>2, <2>3, <2>4 DEF findSquashedTables, Join
<1>5. LoopOK'
  BY <1>2, <1>3, <1>4 DEF joinTables, Inv, LoopOK
<1>6. NoFilterLost'
  BY <1>2 DEF NoFilterLost
<1> QED
  BY <1>1, <1>5, <1>6 DEF Inv

(* The kinds and schemas of the steps.                                      *)
LEMMA StepGives ==
    ASSUME NEW t \in Tables, NEW k \in Kinds, NEW fs
    PROVE  /\ StepFor(t, k, fs).gives \in Tables \cup {"none"}
           /\ StepFor(t, k, fs).gives \in {"ref_commits", "commits", "blobs"}
                  => StepFor(t, k, fs).gives = t
           /\ t = "commits" /\ k = "ref_commits"
                  => StepFor(t, k, fs).gives = "commits"
<1> USE DEF Scan, Chain, Unsquashable, InvalidChain
<1>1. CASE t \in {"repositories", "remotes", "refs"}
  BY <1>1, TableNames DEF StepFor, ForRepositories, ForRemotes, ForRefs
<1>2. CASE t = "commits"
  BY <1>2, TableNames DEF StepFor, ForCommits, CommitsIter, ReposIter, RefsIter
<1>3. CASE t \in {"ref_commits", "commit_trees"}
  BY <1>3, TableNames DEF StepFor, ForRefCommits, ForCommitTrees
<1>4. CASE t \in {"commit_blobs", "tree_entries"}
  BY <1>4, TableNames DEF StepFor, ForCommitBlobs, ForTreeEntries
<1>5. CASE t \in {"blobs", "commit_files", "files"}
  BY <1>5, TableNames DEF StepFor, ForBlobs, ForCommitFiles, ForFiles
<1> QED
  BY <1>1, <1>2, <1>3, <1>4, <1>5, TableNames

(* Moving the first of the tables from todo to used keeps them in order.    *)
LEMMA OrderKept ==
    ASSUME NEW td \in SUBSET Tables, NEW us \in SUBSET Tables, td # {},
           \A u \in us, v \in td : D(u) < D(v)
    PROVE  LET t == FirstOf(td)
           IN  /\ t \in td
               /\ (us \cup {t}) \cup (td \ {t}) = us \cup td
               /\ \A u \in us \cup {t}, v \in td \ {t} : D(u) < D(v)
<1> DEFINE t == FirstOf(td)
<1>1. t \in td /\ \A u \in td : D(t) <= D(u)
  BY FirstIsFirst
<1>2. \A u \in Tables : tableHierarchy[D(u)] = u
  BY TableNames, Depths DEF tableHierarchy
<1>3. \A u \in td \ {t} : D(t) < D(u)
  BY <1>1, <1>2, Depths
<1> QED
  BY <1>1, <1>3

(* Chaining one more iterator keeps the invariant: the filters it drops     *)
(* are implied by the links (DroppedIsLinked).                              *)
LEMMA ChainTableInv ==
    ASSUME Inv, ChainTable
    PROVE  Inv'
<1> DEFINE t    == FirstOf(todo)
           step == StepFor(t, kind, filters)
           t1   == step.reads[1]
           t2   == step.reads[2]
           mine == filtersForTables(filters, {t1, t2})
           remaining == removeRedundantFilters(mine, t1, t2)
<1>1. /\ phase = "build" /\ todo # {} /\ step.reads # <<>>
      /\ todo' = todo \ {t} /\ used' = used \cup {t}
      /\ filters' = filters \ mine /\ applied' = applied \cup remaining
      /\ links' = links \cup LinksOf(kind, step)
      /\ kind' = step.gives /\ schema' = schema \cup {step.gives}
      /\ phase' \in {"build", "failed"}
      /\ UNCHANGED <<query, merged, unsquashable>>
  BY DEF ChainTable, LinksOf
<1>2. /\ t \in todo /\ used' \cup todo' = used \cup todo
      /\ \A u \in used', v \in todo' : D(u) < D(v)
  BY <1>1, OrderKept DEF Inv, LoopOK
<1>3. t \in Tables /\ kind \in Kinds /\ filters \in SUBSET Filter
  BY <1>2 DEF Inv, LoopOK
<1>4. /\ step.gives \in Tables \cup {"none"}
      /\ step.gives \in {"ref_commits", "commits", "blobs"} => step.gives = t
      /\ t = "commits" /\ kind = "ref_commits" => step.gives = "commits"
  BY <1>3, StepGives
<1>5. /\ findSquashedTables' = findSquashedTables
      /\ FiltersUpTo(merged)' = FiltersUpTo(merged)
      /\ unsquashableFilters' = unsquashableFilters
  BY <1>1 DEF findSquashedTables, Prefix, FiltersUpTo, unsquashableFilters
<1>6. mine \subseteq filters /\ remaining \subseteq mine
  BY DEF filtersForTables, removeRedundantFilters
<1>7. QueryOK'
  BY <1>1 DEF Inv, QueryOK, Prefix
<1>8. LoopOK'
  <2>1. kind' = "ref_commits" => "commits" \notin used'
    <3>1. kind' = "ref_commits" => t = "ref_commits"
      BY <1>1, <1>4
    <3>2. t = "ref_commits" => "commits" \notin used
      BY <1>2, Depths DEF Inv, LoopOK
    <3> QED
      BY <1>1, <3>1, <3>2
  <2>2. kind' \in {"ref_commits", "commits", "blobs"} => kind' \in used'
    BY <1>1, <1>4
  <2>3. \A f \in filters' : f.tables \subseteq used' \cup todo'
    BY <1>1, <1>2 DEF Inv, LoopOK
  <2>4. used' \cup todo' = findSquashedTables'
    BY <1>1, <1>2, <1>5 DEF Inv, LoopOK
  <2>5. used' # {} /\ kind' \in Kinds /\ schema' \subseteq Tables \cup {"none"}
    BY <1>1, <1>4 DEF Inv, LoopOK, Kinds
  <2>6. /\ todo' \subseteq Tables /\ used' \subseteq Tables
        /\ filters' \subseteq Filter /\ applied' \subseteq Filter
        /\ unsquashable' \in Seq([table : Tables, filters : SUBSET Filter])
    BY <1>1, <1>3, <1>6 DEF Inv, LoopOK
  <2> QED
    BY <1>1, <1>2, <2>1, <2>2, <2>3, <2>4, <2>5, <2>6 DEF LoopOK
<1>9. NoFilterLost'
  <2>1. ASSUME NEW f \in mine \ remaining
        PROVE  f \in LinksOf(kind, step)
    <3>1. f \in filters /\ Dropping(f, step)
      BY <1>1, <1>6, <2>1 DEF Dropping, removeRedundantFilters
    <3>2. t \in {"commits", "blobs"} => kind # t
      BY <1>2, Depths DEF Inv, LoopOK
    <3>3. kind = "ref_commits" /\ t \in {"tree_entries", "commit_files"}
              => "commits" \notin f.tables
      <4>1. f.tables \subseteq used \cup todo
        BY <1>1, <3>1 DEF Inv, LoopOK
      <4>2. kind = "ref_commits" => "commits" \notin used
        BY DEF Inv, LoopOK
      <4>3. t \in {"tree_entries", "commit_files"} => "commits" \notin todo
        BY <1>1, FirstIsFirst, Depths DEF Inv, LoopOK
      <4> QED
        BY <4>1, <4>2, <4>3
    <3>4. t = "repositories" => kind = "nil"
      <4>1. t = "repositories" => used = {}
        BY <1>2, Depths DEF Inv, LoopOK
      <4> QED
        BY <4>1 DEF Inv, LoopOK
    <3> QED
      BY <1>3, <3>1, <3>2, <3>3, <3>4, DroppedIsLinked
  <2>2. FiltersUpTo(merged)
            \subseteq filters \cup applied \cup unsquashableFilters \cup links
    BY <1>1 DEF Inv, NoFilterLost
  <2> QED
    BY <1>1, <1>5, <2>1, <2>2 DEF NoFilterLost
<1> QED
  BY <1>7, <1>8, <1>9 DEF Inv

(* Appending an element of a set keeps a sequence over that set.            *)
LEMMA AppendInSeq ==
    ASSUME NEW S, NEW s \in Seq(S), NEW x \in S
    PROVE  Append(s, x) \in Seq(S)
OBVIOUS

(* Leaving a table to a join in memory keeps the invariant.                 *)
LEMMA AddUnsquashableInv ==
    ASSUME Inv, AddUnsquashable
    PROVE  Inv'
<1> DEFINE t    == FirstOf(todo)
           mine == filtersForTables(filters, used \cup {t})
           last == [table |-> t, filters |-> mine]
<1>1. /\ phase = "build" /\ todo # {}
      /\ StepFor(t, kind, filters) = Unsquashable
      /\ todo' = todo \ {t} /\ used' = used \cup {t}
      /\ filters' = filters \ mine
      /\ unsquashable' = Append(unsquashable, last)
      /\ UNCHANGED <<query, merged, phase, kind, schema, applied, links>>
  BY DEF AddUnsquashable
<1>2. /\ t \in todo /\ used' \cup todo' = used \cup todo
      /\ \A u \in used', v \in todo' : D(u) < D(v)
  BY <1>1, OrderKept DEF Inv, LoopOK
<1>3. t \in Tables /\ kind \in Kinds /\ filters \in SUBSET Filter
  BY <1>2 DEF Inv, LoopOK
<1>4. mine \subseteq filters
  BY DEF filtersForTables
<1>5. /\ findSquashedTables' = findSquashedTables
      /\ FiltersUpTo(merged)' = FiltersUpTo(merged)
  BY <1>1 DEF findSquashedTables, Prefix, FiltersUpTo
<1>6. unsquashableFilters \cup mine \subseteq unsquashableFilters'
  <2>1. unsquashable \in Seq([table : Tables, filters : SUBSET Filter])
    BY DEF Inv, LoopOK
  <2>2. last \in [table : Tables, filters : SUBSET Filter]
    BY <1>3, <1>4
  <2>3. /\ \A i \in DOMAIN unsquashable : i \in DOMAIN unsquashable'
                                     /\ unsquashable'[i] = unsquashable[i]
        /\ Len(unsquashable) + 1 \in DOMAIN unsquashable'
        /\ unsquashable'[Len(unsquashable) + 1] = last
    BY <1>1, <2>1, <2>2
  <2>4. ASSUME NEW f \in unsquashableFilters
        PROVE  f \in unsquashableFilters'
    <3>1. PICK i \in DOMAIN unsquashable : f \in unsquashable[i].filters
      BY DEF unsquashableFilters
    <3>2. i \in DOMAIN unsquashable' /\ f \in unsquashable'[i].filters
      BY <2>3, <3>1
    <3> QED
      BY <3>2 DEF unsquashableFilters
  <2>5. ASSUME NEW f \in mine
        PROVE  f \in unsquashableFilters'
    <3> DEFINE n == Len(unsquashable) + 1
    <3>1. n \in DOMAIN unsquashable' /\ f \in unsquashable'[n].filters
      BY <2>3
    <3> QED
      BY <3>1 DEF unsquashableFilters
  <2> QED
    BY <2>4, <2>5
<1>7. QueryOK'
  BY <1>1 DEF Inv, QueryOK, Prefix
<1>8. LoopOK'
  <2>1. kind = "ref_commits" => t # "commits"
    <3>1. ForCommits("ref_commits") # Unsquashable
      BY DEF ForCommits, ReposIter, RefsIter, CommitsIter, Chain, Unsquashable
    <3> QED
      BY <1>1, <3>1 DEF StepFor
  <2>2. /\ \A f \in filters' : f.tables \subseteq used' \cup todo'
        /\ used' \cup todo' = findSquashedTables'
    BY <1>1, <1>2, <1>5 DEF Inv, LoopOK
  <2>3. /\ todo' \subseteq Tables /\ used' \subseteq Tables /\ used' # {}
        /\ filters' \subseteq Filter /\ applied' \subseteq Filter
    BY <1>1, <1>3 DEF Inv, LoopOK
  <2>4. unsquashable' \in Seq([table : Tables, filters : SUBSET Filter])
    <3>1. unsquashable \in Seq([table : Tables, filters : SUBSET Filter])
      BY DEF Inv, LoopOK
    <3>2. last \in [table : Tables, filters : SUBSET Filter]
      BY <1>3, <1>4
    <3> QED
      BY <1>1, <3>1, <3>2, AppendInSeq
  <2>5. /\ kind' = "ref_commits" => "commits" \notin used'
        /\ kind' \in {"ref_commits", "commits", "blobs"} => kind' \in used'
        /\ kind' \in Kinds /\ schema' \subseteq Tables \cup {"none"}
        /\ phase' = "build"
    BY <1>1, <2>1 DEF Inv, LoopOK
  <2> QED
    BY <1>2, <2>2, <2>3, <2>4, <2>5 DEF LoopOK
<1>9. NoFilterLost'
  BY <1>1, <1>5, <1>6 DEF Inv, NoFilterLost
<1> QED
  BY <1>7, <1>8, <1>9 DEF Inv

(* The end of buildSquashedTable keeps the invariant.                       *)
LEMMA BuildInv ==
    ASSUME Inv, buildSquashedTable
    PROVE  Inv'
<1>1. Outcome \in {"planned", "failed", "garbled", "panic"}
  BY DEF Outcome
<1> QED
  BY <1>1 DEF buildSquashedTable, Inv, QueryOK, LoopOK, NoFilterLost, Prefix,
     findSquashedTables, FiltersUpTo, unsquashableFilters

(* Every step keeps the invariant.                                          *)
LEMMA StepInv == Inv /\ [Next]_vars => Inv'
<1> SUFFICES ASSUME Inv, [Next]_vars PROVE Inv'
  OBVIOUS
<1>1. CASE Next
  BY <1>1, FromInv, SquashJoinInv, JoinTablesInv, ChainTableInv,
     AddUnsquashableInv, BuildInv DEF Next
<1>2. CASE UNCHANGED vars
  BY <1>2 DEF vars, Inv, QueryOK, LoopOK, NoFilterLost, Prefix,
     findSquashedTables, FiltersUpTo, unsquashableFilters
<1> QED
  BY <1>1, <1>2

(* For every query, whatever its tables, conditions and filters, and in     *)
(* every state of the rule, no filter of the joined tables is lost:         *)
(* removeRedundantFilters drops only what the iterators imply.              *)
THEOREM FiltersSurvive == Spec => []NoFilterLost
<1>1. Inv => NoFilterLost
  BY DEF Inv
<1> QED
  BY <1>1, InitInv, StepInv, PTL DEF Spec

-----------------------------------------------------------------------------
(* When the rule fails.                                                     *)

\* The tables of a query differ, and each join compares the new table with
\* an earlier one; what is merged is not blobs and files alone, for no
\* iterator implies a condition on these two.
JoinsOK ==
    /\ \A i, j \in 1..Len(query) : query[i].table = query[j].table => i = j
    /\ \A i \in 2..Len(query) : \E f \in query[i].cond :
           query[i].table \in f.tables /\ (i = 2 => query[1].table \in f.tables)
    /\ merged > 1 => ~(findSquashedTables \subseteq {"blobs", "files"})
    /\ phase # "join" => merged > 1
    /\ phase = "join" => schema = {} /\ kind = "nil" /\ unsquashable = <<>>

Wrong == WrongIterator(findSquashedTables)

\* The columns of every table taken so far are in the schema of the iterator
\* or of a table joined in memory, and so are those of every filter, where
\* no table gets the wrong iterator.
PlacedOK ==
    phase = "build" =>
        /\ kind = "nil" => used \subseteq {"blobs", "files"}
        /\ kind # "nil" => kind \in schema
        /\ kind = "repositories" =>
               /\ "repositories" \in used
               /\ {"remotes", "refs", "ref_commits", "commits", "commit_trees"} \cap used = {}
        /\ ~Wrong => used \subseteq NodeSchema(Len(unsquashable))
        /\ ~Wrong => \A n \in DOMAIN unsquashable : \A f \in unsquashable[n].filters :
                         f.tables \subseteq NodeSchema(n)

\* Where a table does, it is commit_trees: its columns are nowhere, and its
\* filters have no place but in a join in memory.
WrongPath ==
    phase = "build" /\ Wrong =>
        /\ "repositories" \in used /\ "commit_trees" \in todo => kind = "repositories"
        /\ "commit_trees" \in used => kind \in {"tree_entries", "blobs"}
        /\ "commit_trees" \notin NodeSchema(Len(unsquashable))
        /\ unsquashable = <<>> =>
               \A f \in FiltersUpTo(merged) : "commit_trees" \in f.tables => f \in filters

\* What fails, and that the tables with the wrong iterator do.
Outcomes == FailsOnlyForWrongIterator /\ (phase = "planned" => ~Wrong)

FailInv == JoinsOK /\ PlacedOK /\ WrongPath /\ Outcomes

\* What the iterator chosen for table t after one of kind k reads and gives.
Follows(t, k, s) ==
    \/ s = Unsquashable
    \/ k = "nil" /\ s.reads = <<t, t>> /\ s.gives = t
    \/ /\ t = "commit_trees" /\ k = "repositories"
       /\ s.reads = <<"repositories", "tree_entries">> /\ s.gives = "tree_entries"
    \/ /\ ~(t = "commit_trees" /\ k = "repositories")
       /\ k # "nil" /\ s.reads = <<k, t>> /\ s.gives = t
    \/ /\ t \in {"tree_entries", "commit_files"} /\ k = "ref_commits"
       /\ s.reads = <<"commits", t>> /\ s.gives = t

(* The iterators give the rows of the table they were chosen for, with one  *)
(* exception, and read those of the iterator before.                        *)
LEMMA StepFollows ==
    ASSUME NEW t \in Tables, NEW k \in Kinds, NEW fs,
           t \in {"commits", "blobs"} => k # t,
           t = "repositories" => k = "nil"
    PROVE  Follows(t, k, StepFor(t, k, fs))
<1> USE DEF Scan, Chain, Follows
<1>1. CASE t = "repositories"
  BY <1>1, TableNames DEF StepFor, ForRepositories
<1>2. CASE t = "remotes"
  BY <1>2, TableNames DEF StepFor, ForRemotes, ReposIter
<1>3. CASE t = "refs"
  BY <1>3, TableNames DEF StepFor, ForRefs, ReposIter, RemotesIter
<1>4. CASE t = "ref_commits"
  BY <1>4, TableNames DEF StepFor, ForRefCommits, ReposIter, RefsIter
<1>5. CASE t = "commits"
  BY <1>5, TableNames DEF StepFor, ForCommits, ReposIter, RefsIter, CommitsIter
<1>6. CASE t = "commit_trees"
  BY <1>6, TableNames DEF StepFor, ForCommitTrees, ReposIter, RefsIter, CommitsIter,
     RefCommitsIter
<1>7. CASE t = "commit_blobs"
  BY <1>7, TableNames DEF StepFor, ForCommitBlobs, RefsIter, CommitsIter, RefCommitsIter
<1>8. CASE t = "tree_entries"
  BY <1>8, TableNames DEF StepFor, ForTreeEntries, ReposIter, CommitsIter, TreesIter
<1>9. CASE t = "blobs"
  BY <1>9, TableNames DEF StepFor, ForBlobs, ReposIter, BlobsIter, TreeEntriesIter, FilesIter
<1>10. CASE t = "commit_files"
  BY <1>10, TableNames DEF StepFor, ForCommitFiles, RefsIter, CommitsIter
<1>11. CASE t = "files"
  BY <1>11, TableNames DEF StepFor, ForFiles, FilesIter
<1> QED
  BY <1>1, <1>2, <1>3, <1>4, <1>5, <1>6, <1>7, <1>8, <1>9, <1>10, <1>11, TableNames

(* Which tables always have an iterator: all but blobs and files at the     *)
(* start of a chain, and those up to commit_trees after repositories.       *)
LEMMA HasIterator ==
    ASSUME NEW t \in Tables, NEW k, NEW fs,
           \/ k = "nil" /\ t \notin {"blobs", "files"}
           \/ k = "repositories"
                /\ t \in {"remotes", "refs", "ref_commits", "commits", "commit_trees"}
    PROVE  StepFor(t, k, fs).reads # <<>>
<1> USE DEF Scan, Chain
<1>1. CASE t = "repositories"
  BY <1>1 DEF StepFor, ForRepositories
<1>2. CASE t = "remotes"
  BY <1>2 DEF StepFor, ForRemotes, ReposIter
<1>3. CASE t = "refs"
  BY <1>3 DEF StepFor, ForRefs, ReposIter, RemotesIter
<1>4. CASE t = "ref_commits"
  BY <1>4 DEF StepFor, ForRefCommits, ReposIter, RefsIter
<1>5. CASE t = "commits"
  BY <1>5 DEF StepFor, ForCommits, ReposIter, RefsIter, CommitsIter
<1>6. CASE t = "commit_trees"
  BY <1>6 DEF StepFor, ForCommitTrees, ReposIter, RefsIter, CommitsIter, RefCommitsIter
<1>7. CASE t = "commit_blobs"
  BY <1>7 DEF StepFor, ForCommitBlobs, RefsIter, CommitsIter, RefCommitsIter
<1>8. CASE t = "tree_entries"
  BY <1>8 DEF StepFor, ForTreeEntries, ReposIter, CommitsIter, TreesIter
<1>10. CASE t = "commit_files"
  BY <1>10 DEF StepFor, ForCommitFiles, RefsIter, CommitsIter
<1> QED
  BY <1>1, <1>2, <1>3, <1>4, <1>5, <1>6, <1>7, <1>8, <1>10, TableNames

(* After the tree entries that were read for commit_trees, and after their  *)
(* blobs, only blobs have an iterator.                                      *)
LEMMA NoIterator ==
    ASSUME NEW t \in {"tree_entries", "commit_blobs", "commit_files", "files"},
           NEW k \in {"tree_entries", "blobs"}, NEW fs
    PROVE  StepFor(t, k, fs) = Unsquashable
<1>1. CASE t = "commit_blobs"
  BY <1>1 DEF StepFor, ForCommitBlobs, RefsIter, CommitsIter, RefCommitsIter
<1>2. CASE t = "tree_entries"
  BY <1>2 DEF StepFor, ForTreeEntries, ReposIter, CommitsIter, TreesIter
<1>3. CASE t = "commit_files"
  BY <1>3 DEF StepFor, ForCommitFiles, RefsIter, CommitsIter
<1>4. CASE t = "files"
  BY <1>4 DEF StepFor, ForFiles, FilesIter
<1> QED
  BY <1>1, <1>2, <1>3, <1>4

(* A condition that an iterator implies is not one on blobs and files.      *)
LEMMA ChainableTables ==
    ASSUME NEW cond, NEW t1 \in {"blobs", "files"}, NEW t2 \in {"blobs", "files"}
    PROVE  ~hasChainableJoinCondition(cond, t1, t2)
<1>1. redundantColumns(t1, t2) = {}
  BY DEF redundantColumns
<1> QED
  BY <1>1 DEF hasChainableJoinCondition, hasRedundantCompoundFilter, isRedundantFilter

(* A condition of a join is not empty, and compares the new table with one  *)
(* of those before.                                                         *)
LEMMA CondsCompare ==
    ASSUME Inv, JoinsOK, NEW t \in Tables, t \notin QueryTables, Len(query) > 0,
           NEW cond \in Conds(t)
    PROVE  /\ cond # {}
           /\ \A f \in cond : t \in f.tables /\ (Len(query) = 1 => query[1].table \in f.tables)
<1>1. cond \subseteq Shared(t, QueryTables)
  BY DEF Conds, NaturalCond
<1>2. \A f \in Shared(t, QueryTables) : \E u \in QueryTables : f.tables = {u, t}
  BY DEF Shared, Atom
<1>3. Len(query) = 1 => QueryTables = {query[1].table}
  BY DEF QueryTables, Prefix
<1>4. NaturalCond(t) # {}
  <2> DEFINE u == query[1].table
             f == Atom({u, t}, "repository_id")
  <2>1. query \in Seq(Join) /\ DOMAIN query = 1..Len(query) /\ Len(query) \in Nat
    BY DEF Inv, QueryOK
  <2>2. u \in QueryTables
    BY <2>1 DEF QueryTables, Prefix
  <2>3. "repository_id" \in tableSchema(u) \cap tableSchema(t)
    BY DEF tableSchema
  <2>4. f \in Shared(t, QueryTables)
    <3> DEFINE S(v) == {Atom({v, t}, c) : c \in tableSchema(v) \cap tableSchema(t)}
    <3>1. f \in S(u)
      BY <2>3
    <3>2. Shared(t, QueryTables) = UNION {S(v) : v \in QueryTables}
      BY DEF Shared
    <3> HIDE DEF S, f
    <3> QED
      BY <2>2, <3>1, <3>2
  <2>5. f.tables = {u, t}
    BY DEF Atom
  <2>6. ASSUME NEW i \in DOMAIN query, NEW j \in DOMAIN query,
               query[i].table \in f.tables, j < i
        PROVE  FALSE
    <3>1. query[i].table \in QueryTables
      BY <2>1 DEF QueryTables, Prefix
    <3>2. query[i].table = u
      BY <2>5, <2>6, <3>1
    <3>3. i = 1
      BY <2>1, <3>2 DEF JoinsOK
    <3> QED
      BY <2>1, <2>6, <3>3
  <2> QED
    BY <2>4, <2>6 DEF NaturalCond
<1>5. cond # {}
  BY <1>4 DEF Conds
<1> QED
  BY <1>1, <1>2, <1>3, <1>5

(* The joins keep JoinsOK.                                                  *)
LEMMA SquashJoinOK ==
    ASSUME Inv, JoinsOK, NEW t \in Tables, squashJoin(t)
    PROVE  JoinsOK'
<1>1. PICK cond \in Conds(t), l \in Locals(t) :
          /\ query' = Append(query, [table |-> t, cond |-> cond, local |-> l,
                                     natural |-> cond = NaturalCond(t)])
          /\ merged' = IF isJoinCondSquashable(t, cond)
                       THEN Len(query) + 1 ELSE merged
  BY DEF squashJoin
<1>2. /\ phase = "join" /\ query # <<>> /\ t \notin QueryTables
      /\ UNCHANGED <<phase, schema, kind, unsquashable>>
  BY DEF squashJoin
<1>3. PICK n \in Nat \ {0} : n = Len(query)
  BY <1>2 DEF Inv, QueryOK
<1>4. PICK j : j = [table |-> t, cond |-> cond, local |-> l, natural |-> cond = NaturalCond(t)]
  OBVIOUS
<1>5. query \in Seq(Join) /\ merged \in 0..n /\ DOMAIN query = 1..n
  BY <1>3 DEF Inv, QueryOK
<1>6. j \in Join
  <2>1. QueryTables \subseteq Tables
    BY <1>5, <1>3, PrefixTables DEF QueryTables
  <2>2. cond \subseteq Shared(t, QueryTables)
    BY DEF Conds, NaturalCond
  <2>3. \A f \in cond : f \in Filter
    BY <2>1, <2>2, ColumnNames DEF Shared, Atom, Filter
  <2>4. \A f \in l : f \in Filter
    BY LocalAssumption DEF Locals
  <2> QED
    BY <1>4, <2>3, <2>4 DEF Join
<1>7. /\ query' = Append(query, j) /\ Len(query') = n + 1
      /\ \A i \in 1..n : query'[i] = query[i]
      /\ query'[n + 1] = j /\ j.table = t /\ j.cond = cond
  BY <1>1, <1>3, <1>4, <1>5, <1>6
<1>8. \A i \in 1..(n + 1) : i \in 1..n \/ i = n + 1
  BY <1>3
<1>9. QueryTables = {query[i].table : i \in 1..n}
  BY <1>3 DEF QueryTables, Prefix
<1>10. \A a, b \in 1..Len(query') : query'[a].table = query'[b].table => a = b
  <2> SUFFICES ASSUME NEW a \in 1..(n + 1), NEW b \in 1..(n + 1),
                      query'[a].table = query'[b].table
               PROVE  a = b
    BY <1>7
  <2>1. CASE a \in 1..n /\ b \in 1..n
    BY <1>3, <1>7, <2>1 DEF JoinsOK
  <2>2. CASE a = n + 1 /\ b \in 1..n
    BY <1>2, <1>7, <1>9, <2>2
  <2>3. CASE a \in 1..n /\ b = n + 1
    BY <1>2, <1>7, <1>9, <2>3
  <2> QED
    BY <1>8, <2>1, <2>2, <2>3
<1>11. \A i \in 2..Len(query') : \E f \in query'[i].cond :
           query'[i].table \in f.tables /\ (i = 2 => query'[1].table \in f.tables)
  <2> SUFFICES ASSUME NEW i \in 2..(n + 1)
               PROVE  \E f \in query'[i].cond :
                          query'[i].table \in f.tables /\ (i = 2 => query'[1].table \in f.tables)
    BY <1>7
  <2>1. query'[1] = query[1]
    BY <1>3, <1>7
  <2>2. CASE i \in 1..n
    <3>1. i \in 2..Len(query) /\ query'[i] = query[i]
      BY <1>3, <1>7, <2>2
    <3> QED
      BY <2>1, <3>1 DEF JoinsOK
  <2>3. CASE i = n + 1
    <3>1. /\ cond # {}
          /\ \A f \in cond : t \in f.tables /\ (n = 1 => query[1].table \in f.tables)
      BY <1>2, <1>3, CondsCompare
    <3>2. i = 2 => n = 1
      BY <1>3, <2>3
    <3> QED
      BY <1>7, <2>1, <2>3, <3>1, <3>2
  <2> QED
    BY <1>3, <1>8, <2>2, <2>3
<1>12. merged' > 1 => ~(findSquashedTables' \subseteq {"blobs", "files"})
  <2>1. CASE isJoinCondSquashable(t, cond)
    <3>1. PICK rt \in findLeafTables :
              hasChainableJoinCondition(RewriteFor(cond, t, rt), orderedTablePair(t, rt)[1],
                                        orderedTablePair(t, rt)[2])
      BY <2>1 DEF isJoinCondSquashable
    <3>2. rt \in QueryTables
      <4>1. CASE merged = Len(query)
        BY <4>1 DEF findLeafTables, findSquashedTables, QueryTables
      <4>2. CASE merged # Len(query)
        BY <1>3, <1>9, <4>2 DEF findLeafTables
      <4> QED
        BY <4>1, <4>2
    <3>3. findSquashedTables' = {query'[i].table : i \in 1..(n + 1)}
      BY <1>1, <1>3, <2>1 DEF findSquashedTables, Prefix
    <3>4. t \in findSquashedTables' /\ rt \in findSquashedTables'
      <4>1. n + 1 \in 1..(n + 1) /\ 1..n \subseteq 1..(n + 1)
        BY <1>3
      <4> QED
        BY <1>7, <1>9, <3>2, <3>3, <4>1
    <3>5. /\ orderedTablePair(t, rt)[1] \in {t, rt}
          /\ orderedTablePair(t, rt)[2] \in {t, rt}
      BY DEF orderedTablePair
    <3> QED
      BY <3>1, <3>4, <3>5, ChainableTables
  <2>2. CASE ~isJoinCondSquashable(t, cond)
    <3>1. merged' = merged
      BY <1>1, <2>2
    <3>2. findSquashedTables' = findSquashedTables
      BY <1>3, <1>5, <1>6, <1>7, <3>1, PrefixGrows DEF findSquashedTables
    <3> QED
      BY <3>1, <3>2 DEF JoinsOK
  <2> QED
    BY <2>1, <2>2
<1> QED
  BY <1>2, <1>10, <1>11, <1>12 DEF JoinsOK

(* So does the first table.                                                 *)
LEMMA FromOK ==
    ASSUME Inv, JoinsOK, NEW t \in Tables, From(t)
    PROVE  JoinsOK'
<1>1. Len(query') = 1
  BY DEF From
<1>2. phase = "join" /\ UNCHANGED <<phase, merged, schema, kind, unsquashable>>
  BY DEF From
<1>3. merged = 0
  <2>1. query = <<>> /\ merged \in 0..Len(query)
    BY DEF From, Inv, QueryOK
  <2> QED
    BY <2>1
<1>4. \A i, j \in 1..Len(query') : query'[i].table = query'[j].table => i = j
  BY <1>1
<1>5. 2..Len(query') = {}
  BY <1>1
<1> QED
  BY <1>2, <1>3, <1>4, <1>5 DEF JoinsOK

(* A table that was merged occurs in a filter.                              *)
LEMMA TableIsCompared ==
    ASSUME Inv, JoinsOK, merged > 1, NEW t \in findSquashedTables
    PROVE  \E f \in FiltersUpTo(merged) : t \in f.tables
<1>1. merged \in Nat /\ merged <= Len(query) /\ Len(query) \in Nat
  BY DEF Inv, QueryOK
<1>2. PICK i \in 1..merged : t = query[i].table
  BY DEF findSquashedTables, Prefix
<1>3. CASE i = 1
  <2>1. 2 \in 2..Len(query) /\ 2 \in 1..merged
    BY <1>1
  <2>2. PICK f \in query[2].cond : query[1].table \in f.tables
    BY <2>1 DEF JoinsOK
  <2> QED
    BY <1>2, <1>3, <2>1, <2>2 DEF FiltersUpTo
<1>4. CASE i # 1
  <2>1. i \in 2..Len(query)
    BY <1>1, <1>2, <1>4
  <2>2. PICK f \in query[i].cond : query[i].table \in f.tables
    BY <2>1 DEF JoinsOK
  <2> QED
    BY <1>2, <2>2 DEF FiltersUpTo
<1> QED
  BY <1>3, <1>4

(* Where the loop of buildSquashedTable is.                                 *)
LEMMA LoopPlace ==
    ASSUME Inv, phase = "build", todo # {}, NEW t, t = FirstOf(todo)
    PROVE  /\ t \in Tables /\ t \in todo /\ t \notin used /\ kind \in Kinds
           /\ t \in {"commits", "blobs"} => kind # t
           /\ t = "repositories" => kind = "nil" /\ used = {}
           /\ kind = "ref_commits" /\ t \in {"tree_entries", "commit_files"}
                  => "commits" \notin used \cup todo
           /\ \A u \in findSquashedTables : D(u) < D(t) => u \in used
           /\ \A u \in findSquashedTables : u # t /\ u \in todo => D(t) < D(u)
           /\ \A u \in used : D(u) < D(t) /\ u \notin todo
           /\ used \cup todo = findSquashedTables
           /\ todo \subseteq Tables /\ used \subseteq Tables
<1>1. /\ todo \subseteq Tables /\ used \subseteq Tables /\ kind \in Kinds
      /\ used \cup todo = findSquashedTables
      /\ \A u \in used, v \in todo : D(u) < D(v)
      /\ kind \in {"ref_commits", "commits", "blobs"} => kind \in used
      /\ kind = "ref_commits" => "commits" \notin used
      /\ used = {} => kind = "nil"
  BY DEF Inv, LoopOK
<1>2. t \in todo /\ \A u \in todo : D(t) <= D(u)
  BY <1>1, FirstIsFirst
<1>3. \A u \in Tables : D(u) \in 1..11 /\ tableHierarchy[D(u)] = u
  BY TableNames, Depths DEF tableHierarchy
<1>4. \A u \in todo : u # t => D(t) < D(u)
  BY <1>1, <1>2, <1>3
<1>5. t \notin used /\ \A u \in used : D(u) < D(t) /\ u \notin todo
  BY <1>1, <1>2, <1>3
<1>6. \A u \in findSquashedTables : D(u) < D(t) => u \in used
  BY <1>1, <1>2, <1>3
<1>7. t = "repositories" => used = {}
  BY <1>1, <1>3, <1>5, Depths
<1>8. t \in {"tree_entries", "commit_files"} => "commits" \notin todo
  BY <1>2, Depths
<1> QED
  BY <1>1, <1>2, <1>4, <1>5, <1>6, <1>7, <1>8

(* The wrong iterator is chosen for the tables of WrongIterator only.       *)
LEMMA WrongStep ==
    ASSUME Inv, PlacedOK, phase = "build", todo # {},
           FirstOf(todo) = "commit_trees", kind = "repositories"
    PROVE  Wrong
<1>1. PICK t : t = FirstOf(todo)
  OBVIOUS
<1>2. /\ "commit_trees" \in todo /\ used \cup todo = findSquashedTables
      /\ \A u \in findSquashedTables : u # "commit_trees" /\ u \in todo => D("commit_trees") < D(u)
  BY <1>1, LoopPlace
<1>3. /\ "repositories" \in used
      /\ {"remotes", "refs", "ref_commits", "commits", "commit_trees"} \cap used = {}
  BY DEF PlacedOK
<1>4. \A u \in {"remotes", "refs", "ref_commits", "commits"} : u \notin todo
  BY <1>2, Depths
<1> QED
  BY <1>2, <1>3, <1>4 DEF Wrong, WrongIterator

(* What the loop does with the tables of WrongIterator.                     *)
LEMMA WrongSteps ==
    ASSUME Inv, WrongPath, Wrong, phase = "build", todo # {}, NEW t, t = FirstOf(todo)
    PROVE  \/ t = "repositories" /\ kind = "nil" /\ used = {}
           \/ t = "commit_trees" /\ kind = "repositories"
           \/ /\ t \in {"tree_entries", "commit_blobs", "commit_files", "blobs", "files"}
              /\ kind \in {"tree_entries", "blobs"} /\ "commit_trees" \in used
<1>1. /\ t \in Tables /\ t \in todo
      /\ t = "repositories" => kind = "nil" /\ used = {}
      /\ \A u \in findSquashedTables : D(u) < D(t) => u \in used
      /\ used \cup todo = findSquashedTables
  BY LoopPlace
<1>2. /\ "repositories" \in findSquashedTables /\ "commit_trees" \in findSquashedTables
      /\ \A u \in {"remotes", "refs", "ref_commits", "commits"} : u \notin findSquashedTables
  BY DEF Wrong, WrongIterator
<1>3. CASE t = "repositories"
  BY <1>1, <1>3
<1>4. CASE t = "commit_trees"
  <2>1. "repositories" \in used
    BY <1>1, <1>2, <1>4, Depths
  <2> QED
    BY <1>1, <1>4, <2>1 DEF WrongPath
<1>5. CASE t \in {"tree_entries", "commit_blobs", "commit_files", "blobs", "files"}
  <2>1. "commit_trees" \in used
    BY <1>1, <1>2, <1>5, Depths
  <2> QED
    BY <1>5, <2>1 DEF WrongPath
<1> QED
  BY <1>1, <1>2, <1>3, <1>4, <1>5, TableNames

(* Chaining an iterator keeps the invariant, and never fails.               *)
LEMMA ChainTableOK ==
    ASSUME Inv, FailInv, ChainTable
    PROVE  FailInv'
<1>0. JoinsOK /\ PlacedOK /\ WrongPath
  BY DEF FailInv
<1>1. PICK t : t = FirstOf(todo)
  OBVIOUS
<1>2. PICK step : step = StepFor(t, kind, filters)
  OBVIOUS
<1>3. PICK mine : mine = filtersForTables(filters, {step.reads[1], step.reads[2]})
  OBVIOUS
<1>4. PICK remaining : remaining = removeRedundantFilters(mine, step.reads[1], step.reads[2])
  OBVIOUS
<1>5. /\ phase = "build" /\ todo # {} /\ step.reads # <<>>
      /\ todo' = todo \ {t} /\ used' = used \cup {t}
      /\ filters' = filters \ mine
      /\ kind' = step.gives /\ schema' = schema \cup {step.gives}
      /\ phase' = IF step # InvalidChain /\ fixFieldIndexes(remaining, schema')
                  THEN phase ELSE "failed"
      /\ UNCHANGED <<query, merged, unsquashable>>
  BY <1>1, <1>2, <1>3, <1>4 DEF ChainTable
<1>6. /\ t \in Tables /\ t \in todo /\ t \notin used /\ kind \in Kinds
      /\ t \in {"commits", "blobs"} => kind # t
      /\ t = "repositories" => kind = "nil" /\ used = {}
      /\ kind = "ref_commits" /\ t \in {"tree_entries", "commit_files"}
             => "commits" \notin used \cup todo
      /\ used \cup todo = findSquashedTables
      /\ \A u \in used : u \notin todo
  BY <1>1, <1>5, LoopPlace
<1>7. Follows(t, kind, step) /\ step # Unsquashable
  <2>1. Unsquashable.reads = <<>>
    BY DEF Unsquashable
  <2> QED
    BY <1>2, <1>5, <1>6, <2>1, StepFollows
<1>8. /\ findSquashedTables' = findSquashedTables /\ Wrong' = Wrong
      /\ FiltersUpTo(merged)' = FiltersUpTo(merged)
      /\ \A n : NodeSchema(n)' = NodeSchema(n) \cup {step.gives}
  BY <1>5 DEF findSquashedTables, Prefix, Wrong, WrongIterator, NodeSchema, FiltersUpTo
<1>9. /\ step.gives = t \/ (t = "commit_trees" /\ kind = "repositories" /\ step.gives = "tree_entries")
      /\ step.gives \in Tables
  BY <1>6, <1>7, TableNames DEF Follows
<1>10. phase' = "build"
  <2>1. step # InvalidChain
    BY <1>9, TableNames DEF InvalidChain
  <2>2. ASSUME NEW f \in remaining PROVE f.tables \subseteq schema'
    <3>1. f \in filters /\ f.tables \subseteq {step.reads[1], step.reads[2]}
      BY <1>3, <1>4, <2>2 DEF removeRedundantFilters, filtersForTables
    <3>2. f.tables \subseteq used \cup todo
      BY <1>5, <3>1 DEF Inv, LoopOK
    <3>3. kind # "nil" => kind \in schema
      BY <1>0, <1>5 DEF PlacedOK
    <3>4. CASE kind = "nil" /\ step.reads = <<t, t>> /\ step.gives = t
      BY <1>5, <3>1, <3>4
    <3>5. CASE /\ kind = "repositories" /\ step.reads = <<"repositories", "tree_entries">>
               /\ step.gives = "tree_entries"
      BY <1>5, <3>1, <3>3, <3>5
    <3>6. CASE kind # "nil" /\ step.reads = <<kind, t>> /\ step.gives = t
      BY <1>5, <3>1, <3>3, <3>6
    <3>7. CASE /\ t \in {"tree_entries", "commit_files"} /\ kind = "ref_commits"
               /\ step.reads = <<"commits", t>> /\ step.gives = t
      BY <1>5, <1>6, <3>1, <3>2, <3>7
    <3> QED
      BY <1>7, <3>4, <3>5, <3>6, <3>7 DEF Follows
  <2> QED
    BY <1>5, <2>1, <2>2 DEF fixFieldIndexes
<1>11. JoinsOK'
  BY <1>0, <1>5, <1>8, <1>10 DEF JoinsOK
<1>12. PlacedOK'
  <2>1. kind' # "nil" /\ kind' \in schema'
    BY <1>5, <1>9, TableNames
  <2>2. kind' = "repositories" =>
            /\ "repositories" \in used'
            /\ {"remotes", "refs", "ref_commits", "commits", "commit_trees"} \cap used' = {}
    BY <1>5, <1>6, <1>9
  <2>3. ~Wrong => step.gives = t
    BY <1>0, <1>1, <1>5, <1>9, WrongStep
  <2>4. ~Wrong => used' \subseteq NodeSchema(Len(unsquashable))'
    <3>1. ~Wrong => used \subseteq NodeSchema(Len(unsquashable))
      BY <1>0, <1>5 DEF PlacedOK
    <3>2. NodeSchema(Len(unsquashable))' = NodeSchema(Len(unsquashable)) \cup {step.gives}
      BY <1>5 DEF NodeSchema
    <3> QED
      BY <1>5, <2>3, <3>1, <3>2
  <2>5. ~Wrong => \A n \in DOMAIN unsquashable : \A f \in unsquashable[n].filters :
                      f.tables \subseteq NodeSchema(n)'
    <3>1. ~Wrong => \A n \in DOMAIN unsquashable : \A f \in unsquashable[n].filters :
                        f.tables \subseteq NodeSchema(n)
      BY <1>0, <1>5 DEF PlacedOK
    <3> QED
      BY <1>8, <3>1
  <2> QED
    BY <1>5, <1>8, <2>1, <2>2, <2>4, <2>5 DEF PlacedOK
<1>13. WrongPath'
  <2> SUFFICES ASSUME Wrong
               PROVE  /\ "repositories" \in used' /\ "commit_trees" \in todo' => kind' = "repositories"
                      /\ "commit_trees" \in used' => kind' \in {"tree_entries", "blobs"}
                      /\ "commit_trees" \notin NodeSchema(Len(unsquashable))'
                      /\ unsquashable' = <<>> =>
                             \A f \in FiltersUpTo(merged) :
                                 "commit_trees" \in f.tables => f \in filters'
    BY <1>8 DEF WrongPath
  <2>1. /\ "commit_trees" \notin NodeSchema(Len(unsquashable))
        /\ unsquashable = <<>> =>
               \A f \in FiltersUpTo(merged) : "commit_trees" \in f.tables => f \in filters
    BY <1>0, <1>5 DEF WrongPath
  <2>2. \/ t = "repositories" /\ kind = "nil" /\ used = {}
        \/ t = "commit_trees" /\ kind = "repositories"
        \/ t = "blobs" /\ kind \in {"tree_entries", "blobs"} /\ "commit_trees" \in used
    <3>1. \/ t = "repositories" /\ kind = "nil" /\ used = {}
          \/ t = "commit_trees" /\ kind = "repositories"
          \/ /\ t \in {"tree_entries", "commit_blobs", "commit_files", "blobs", "files"}
             /\ kind \in {"tree_entries", "blobs"} /\ "commit_trees" \in used
      BY <1>0, <1>1, <1>5, WrongSteps
    <3> QED
      BY <1>2, <1>7, <3>1, NoIterator
  <2>3. /\ step.gives # "commit_trees"
        /\ t = "repositories" => step.gives = "repositories"
        /\ t = "commit_trees" => step.gives = "tree_entries"
        /\ t = "blobs" => step.gives = "blobs"
    BY <1>7, <2>2 DEF Follows
  <2>4. "commit_trees" \notin {step.reads[1], step.reads[2]}
    BY <1>7, <2>2 DEF Follows
  <2>5. \A f \in mine : "commit_trees" \notin f.tables
    BY <1>3, <2>4 DEF filtersForTables
  <2>6. NodeSchema(Len(unsquashable))' = NodeSchema(Len(unsquashable)) \cup {step.gives}
    BY <1>5 DEF NodeSchema
  <2>7. "repositories" \in used' /\ "commit_trees" \in todo' => kind' = "repositories"
    BY <1>5, <1>6, <2>2, <2>3
  <2>8. "commit_trees" \in used' => kind' \in {"tree_entries", "blobs"}
    BY <1>5, <1>6, <2>2, <2>3
  <2> QED
    BY <1>5, <2>1, <2>3, <2>5, <2>6, <2>7, <2>8
<1>14. Outcomes'
  BY <1>10 DEF Outcomes, FailsOnlyForWrongIterator
<1> QED
  BY <1>11, <1>12, <1>13, <1>14 DEF FailInv

(* Leaving a table to a join in memory keeps the invariant.                 *)
LEMMA AddUnsquashableOK ==
    ASSUME Inv, FailInv, AddUnsquashable
    PROVE  FailInv'
<1>0. JoinsOK /\ PlacedOK /\ WrongPath
  BY DEF FailInv
<1>1. PICK t : t = FirstOf(todo)
  OBVIOUS
<1>2. PICK mine : mine = filtersForTables(filters, used \cup {t})
  OBVIOUS
<1>3. PICK last : last = [table |-> t, filters |-> mine]
  OBVIOUS
<1>4. /\ phase = "build" /\ todo # {} /\ StepFor(t, kind, filters) = Unsquashable
      /\ todo' = todo \ {t} /\ used' = used \cup {t}
      /\ unsquashable' = Append(unsquashable, last)
      /\ UNCHANGED <<query, merged, phase, kind, schema>>
  BY <1>1, <1>2, <1>3 DEF AddUnsquashable
<1>5. /\ t \in Tables /\ t \in todo /\ t \notin used /\ kind \in Kinds
      /\ used \cup todo = findSquashedTables
      /\ \A u \in used : u \notin todo
  BY <1>1, <1>4, LoopPlace
<1>6. StepFor(t, kind, filters).reads = <<>>
  BY <1>4 DEF Unsquashable
<1>7. /\ findSquashedTables' = findSquashedTables /\ Wrong' = Wrong
      /\ FiltersUpTo(merged)' = FiltersUpTo(merged)
  BY <1>4 DEF findSquashedTables, Prefix, Wrong, WrongIterator, FiltersUpTo
<1>8. PICK m \in Nat : m = Len(unsquashable)
  BY DEF Inv, LoopOK
<1>9. /\ DOMAIN unsquashable = 1..m /\ DOMAIN unsquashable' = 1..(m + 1)
      /\ Len(unsquashable') = m + 1
      /\ \A i \in 1..m : unsquashable'[i] = unsquashable[i]
      /\ unsquashable'[m + 1] = last /\ last.table = t /\ last.filters = mine
  <2>1. unsquashable \in Seq([table : Tables, filters : SUBSET Filter])
    BY DEF Inv, LoopOK
  <2>2. last \in [table : Tables, filters : SUBSET Filter]
    BY <1>2, <1>3, <1>5 DEF filtersForTables, Inv, LoopOK
  <2>3. last.table = t /\ last.filters = mine
    BY <1>3
  <2> QED
    BY <1>4, <1>8, <2>1, <2>2, <2>3
<1>10. \A i \in 1..(m + 1) : i \in 1..m \/ i = m + 1
  BY <1>8
<1>11. /\ \A n \in 0..m : NodeSchema(n)' = NodeSchema(n)
       /\ NodeSchema(m + 1)' = NodeSchema(m) \cup {t}
  <2>1. ASSUME NEW n \in 0..m PROVE NodeSchema(n)' = NodeSchema(n)
    <3>1. \A i \in 1..n : unsquashable'[i].table = unsquashable[i].table
      BY <1>8, <1>9, <2>1
    <3>2. {unsquashable'[i].table : i \in 1..n} = {unsquashable[i].table : i \in 1..n}
      BY <3>1
    <3> QED
      BY <1>4, <3>2 DEF NodeSchema
  <2>2. {unsquashable'[i].table : i \in 1..(m + 1)} = {unsquashable[i].table : i \in 1..m} \cup {t}
    <3>1. m + 1 \in 1..(m + 1) /\ 1..m \subseteq 1..(m + 1)
      BY <1>8
    <3>2. \A i \in 1..m : unsquashable'[i].table = unsquashable[i].table
      BY <1>9
    <3>3. unsquashable'[m + 1].table = t
      BY <1>9
    <3> QED
      BY <1>10, <3>1, <3>2, <3>3
  <2>3. NodeSchema(m + 1)' = schema' \cup {unsquashable'[i].table : i \in 1..(m + 1)}
    BY DEF NodeSchema
  <2> QED
    BY <1>4, <2>1, <2>2, <2>3 DEF NodeSchema
<1>12. JoinsOK'
  BY <1>0, <1>4, <1>7 DEF JoinsOK
<1>13. PlacedOK'
  <2>1. kind' = "nil" => used' \subseteq {"blobs", "files"}
    BY <1>0, <1>4, <1>5, <1>6, HasIterator DEF PlacedOK
  <2>2. kind' # "nil" => kind' \in schema'
    BY <1>0, <1>4 DEF PlacedOK
  <2>3. kind' = "repositories" =>
            /\ "repositories" \in used'
            /\ {"remotes", "refs", "ref_commits", "commits", "commit_trees"} \cap used' = {}
    BY <1>0, <1>4, <1>5, <1>6, HasIterator DEF PlacedOK
  <2>4. ~Wrong => used' \subseteq NodeSchema(m + 1)'
    BY <1>0, <1>4, <1>8, <1>11 DEF PlacedOK
  <2>5. NodeSchema(Len(unsquashable))' = NodeSchema(m + 1)'
    BY <1>9 DEF NodeSchema
  <2>6. ASSUME ~Wrong, NEW n \in 1..(m + 1), NEW f \in unsquashable'[n].filters
        PROVE  f.tables \subseteq NodeSchema(n)'
    <3>1. CASE n \in 1..m
      <4>1. NodeSchema(n)' = NodeSchema(n)
        BY <1>8, <1>11, <3>1
      <4>2. n \in DOMAIN unsquashable /\ f \in unsquashable[n].filters
        BY <1>9, <2>6, <3>1
      <4> QED
        BY <1>0, <1>4, <2>6, <4>1, <4>2 DEF PlacedOK
    <3>2. CASE n = m + 1
      <4>1. f \in mine
        BY <1>9, <2>6, <3>2
      <4>2. f.tables \subseteq used'
        BY <1>2, <1>4, <4>1 DEF filtersForTables
      <4> QED
        BY <2>4, <2>6, <3>2, <4>2
    <3> QED
      BY <1>10, <3>1, <3>2
  <2> QED
    BY <1>7, <1>9, <2>1, <2>2, <2>3, <2>4, <2>5, <2>6 DEF PlacedOK
<1>14. WrongPath'
  <2> SUFFICES ASSUME Wrong
               PROVE  /\ "repositories" \in used' /\ "commit_trees" \in todo' => kind' = "repositories"
                      /\ "commit_trees" \in used' => kind' \in {"tree_entries", "blobs"}
                      /\ "commit_trees" \notin NodeSchema(Len(unsquashable))'
                      /\ unsquashable' # <<>>
    BY <1>7 DEF WrongPath
  <2>1. /\ t \in {"tree_entries", "commit_blobs", "commit_files", "blobs", "files"}
        /\ kind \in {"tree_entries", "blobs"} /\ "commit_trees" \in used
    <3>1. ~(t = "repositories" /\ kind = "nil") /\ ~(t = "commit_trees" /\ kind = "repositories")
      BY <1>5, <1>6, HasIterator
    <3> QED
      BY <1>0, <1>1, <1>4, <3>1, WrongSteps
  <2>2. "commit_trees" \notin NodeSchema(m + 1)'
    BY <1>0, <1>4, <1>8, <1>11, <2>1 DEF WrongPath
  <2>3. NodeSchema(Len(unsquashable))' = NodeSchema(m + 1)'
    BY <1>9 DEF NodeSchema
  <2>4. unsquashable' # <<>>
    BY <1>8, <1>9
  <2> QED
    BY <1>4, <1>5, <2>1, <2>2, <2>3, <2>4
<1>15. Outcomes'
  BY <1>4 DEF Outcomes, FailsOnlyForWrongIterator
<1> QED
  BY <1>12, <1>13, <1>14, <1>15 DEF FailInv

(* The end of buildSquashedTable: the outcome is as FailsOnlyForWrong-      *)
(* Iterator says.                                                           *)
LEMMA BuildOK ==
    ASSUME Inv, FailInv, buildSquashedTable
    PROVE  FailInv'
<1>0. JoinsOK /\ PlacedOK /\ WrongPath
  BY DEF FailInv
<1>1. /\ phase = "build" /\ todo = {} /\ phase' = Outcome
      /\ UNCHANGED <<query, merged, used, kind, schema, filters, unsquashable>>
  BY DEF buildSquashedTable
<1>2. used = findSquashedTables /\ Len(unsquashable) \in Nat
      /\ unsquashable \in Seq([table : Tables, filters : SUBSET Filter])
  BY <1>1 DEF Inv, LoopOK
<1>3. findSquashedTables' = findSquashedTables
  BY <1>1 DEF findSquashedTables, Prefix
<1>4. kind # "nil" /\ merged > 1
  BY <1>0, <1>1, <1>2 DEF PlacedOK, JoinsOK
<1>5. unsquashable = <<>> => NodeSchema(Len(unsquashable)) = schema
  BY DEF NodeSchema
<1>6. CASE ~Wrong
  <2>1. /\ used \subseteq NodeSchema(Len(unsquashable))
        /\ \A n \in DOMAIN unsquashable : fixFieldIndexes(unsquashable[n].filters, NodeSchema(n))
    BY <1>0, <1>1, <1>6 DEF PlacedOK, fixFieldIndexes
  <2>2. Outcome = "planned"
    BY <1>2, <1>4, <1>5, <2>1 DEF Outcome, projectSchema
  <2> QED
    BY <1>0, <1>1, <1>3, <1>4, <1>6, <2>2
       DEF FailInv, JoinsOK, PlacedOK, WrongPath, Outcomes, FailsOnlyForWrongIterator, Wrong
<1>7. CASE Wrong
  <2>1. "commit_trees" \in findSquashedTables
    BY <1>7 DEF Wrong, WrongIterator
  <2>2. "commit_trees" \notin NodeSchema(Len(unsquashable))
    BY <1>0, <1>1, <1>7 DEF WrongPath
  <2>3. PICK f \in FiltersUpTo(merged) : "commit_trees" \in f.tables
    BY <1>0, <1>4, <2>1, TableIsCompared
  <2>4. unsquashable = <<>> => f \in filters
    BY <1>0, <1>1, <1>7, <2>3 DEF WrongPath
  <2>5. unsquashable = <<>> => ~fixFieldIndexes(filters, schema)
    BY <1>5, <2>2, <2>3, <2>4 DEF fixFieldIndexes
  <2>6. Outcome \in {"panic", "failed"}
    BY <1>4, <1>5, <2>1, <2>2, <2>5 DEF Outcome, projectSchema
  <2> QED
    BY <1>0, <1>1, <1>3, <1>4, <1>7, <2>6
       DEF FailInv, JoinsOK, PlacedOK, WrongPath, Outcomes, FailsOnlyForWrongIterator, Wrong
<1> QED
  BY <1>6, <1>7

(* The joinedTables node, where the loop starts.                            *)
LEMMA JoinTablesOK ==
    ASSUME Inv, FailInv, joinTables
    PROVE  FailInv'
<1>0. JoinsOK
  BY DEF FailInv
<1>1. /\ phase = "join" /\ merged > 1 /\ phase' = "build"
      /\ filters' = FiltersUpTo(merged)
      /\ UNCHANGED <<query, merged, used, kind, schema, unsquashable>>
  BY DEF joinTables
<1>2. used = {} /\ schema = {} /\ kind = "nil" /\ unsquashable = <<>>
  BY <1>0, <1>1 DEF Inv, LoopOK, JoinsOK
<1>3. findSquashedTables' = findSquashedTables /\ FiltersUpTo(merged)' = FiltersUpTo(merged)
  BY <1>1 DEF findSquashedTables, Prefix, FiltersUpTo
<1>4. JoinsOK'
  BY <1>0, <1>1, <1>3 DEF JoinsOK
<1>5. DOMAIN unsquashable' = {} /\ NodeSchema(Len(unsquashable))' = {}
  BY <1>1, <1>2 DEF NodeSchema
<1>6. PlacedOK'
  BY <1>1, <1>2, <1>5 DEF PlacedOK
<1>7. WrongPath'
  BY <1>1, <1>2, <1>3, <1>5 DEF WrongPath
<1> QED
  BY <1>1, <1>4, <1>6, <1>7 DEF FailInv, Outcomes, FailsOnlyForWrongIterator

(* The rule starts with the invariant, and every step keeps it.             *)
LEMMA FailInvInit == Init => FailInv
<1> SUFFICES ASSUME Init PROVE FailInv
  OBVIOUS
<1>1. /\ query = <<>> /\ merged = 0 /\ phase = "join"
      /\ schema = {} /\ kind = "nil" /\ unsquashable = <<>>
  BY DEF Init
<1>2. 1..Len(query) = {} /\ 2..Len(query) = {}
  BY <1>1
<1> QED
  BY <1>1, <1>2 DEF FailInv, JoinsOK, PlacedOK, WrongPath, Outcomes, FailsOnlyForWrongIterator

(* Every step keeps the invariant.                                          *)
LEMMA FailInvStep == Inv /\ FailInv /\ [Next]_vars => FailInv'
<1> SUFFICES ASSUME Inv, FailInv, [Next]_vars PROVE FailInv'
  OBVIOUS
<1>0. JoinsOK
  BY DEF FailInv
<1>1. ASSUME NEW t \in Tables, From(t) \/ squashJoin(t) PROVE FailInv'
  <2>1. JoinsOK'
    BY <1>0, <1>1, FromOK, SquashJoinOK
  <2>2. phase' = "join"
    BY <1>1 DEF From, squashJoin
  <2> QED
    BY <2>1, <2>2 DEF FailInv, PlacedOK, WrongPath, Outcomes, FailsOnlyForWrongIterator
<1>2. CASE UNCHANGED vars
  <2>1. UNCHANGED <<query, merged, phase, todo, used, kind, schema, filters, unsquashable>>
    BY <1>2 DEF vars
  <2>2. /\ findSquashedTables' = findSquashedTables /\ Wrong' = Wrong
        /\ FiltersUpTo(merged)' = FiltersUpTo(merged)
        /\ \A n : NodeSchema(n)' = NodeSchema(n)
        /\ NodeSchema(Len(unsquashable))' = NodeSchema(Len(unsquashable))
    BY <2>1 DEF findSquashedTables, Prefix, Wrong, WrongIterator, FiltersUpTo, NodeSchema
  <2>3. JoinsOK'
    BY <1>0, <2>1, <2>2 DEF JoinsOK
  <2>4. PlacedOK'
    BY <2>1, <2>2 DEF FailInv, PlacedOK
  <2>5. WrongPath'
    BY <2>1, <2>2 DEF FailInv, WrongPath
  <2>6. Outcomes'
    BY <2>1, <2>2 DEF FailInv, Outcomes, FailsOnlyForWrongIterator
  <2> QED
    BY <2>3, <2>4, <2>5, <2>6 DEF FailInv
<1> QED
  BY <1>1, <1>2, JoinTablesOK, ChainTableOK, AddUnsquashableOK, BuildOK DEF Next

(* For every query, whatever its tables, conditions and filters, the rule   *)
(* puts no wrong column into a row, and fails or panics for no other tables *)
(* than those that get the wrong iterator: repositories and commit_trees    *)
(* without a table between them.                                            *)
THEOREM FailuresAreKnown == Spec => []FailsOnlyForWrongIterator
<1>1. FailInv => FailsOnlyForWrongIterator
  BY DEF FailInv, Outcomes
<1> QED
  BY <1>1, InitInv, StepInv, FailInvInit, FailInvStep, PTL DEF Spec

-----------------------------------------------------------------------------
(***************************************************************************)
(* The rows of a query with natural joins.  RowsOf tests each filter as    *)
(* soon as its tables are read; what it returns is the set of combinations *)
(* of rows that satisfy all filters (RowsOfCombines), so that the filters  *)
(* of the plan and of the query need only imply each other on whole rows   *)
(* (SameRows).  RowsInv says why they do: the plan has the filters of the  *)
(* query and links, a link compares a column that two tables have (PlanOK),*)
(* and natural joins make these equal to that of the leftmost table with   *)
(* it (NaturalOK).                                                         *)
(***************************************************************************)

(* A set of naturals that is not empty has a least element. *)
LEMMA LeastElement ==
  ASSUME NEW T, T \subseteq Nat, T # {}
  PROVE  \E n \in T : \A m \in T : n <= m
<1> DEFINE R == OpToRel(<, Nat)
<1>1. IsWellFoundedOn(R, Nat)
  BY NatLessThanWellFounded
<1>2. PICK n \in T : \A m \in T : <<m, n>> \notin R
  <2> HIDE DEF R
  <2> QED
    BY <1>1, WFMin
<1>3. \A m \in T : ~(m < n)
  BY <1>2 DEF OpToRel
<1> QED
  BY <1>3

\* g lists the rows after each of the first n tables of the hierarchy.
Reads(g, n, ts, fs) ==
    g = [l \in 0..n |->
            IF l = 0 THEN {<<>>}
            ELSE IF tableHierarchy[l] \in ts
            THEN Extend(g[l - 1], tableHierarchy[l], fs)
            ELSE g[l - 1]]

(* The rows of the tables so far are defined, however many there are.       *)
LEMMA SomethingReads ==
    ASSUME NEW ts, NEW fs
    PROVE  \A n \in Nat : \E g : Reads(g, n, ts, fs)
<1> DEFINE T == {n \in Nat : ~ \E g : Reads(g, n, ts, fs)}
<1> SUFFICES ASSUME T # {} PROVE FALSE
  OBVIOUS
<1>1. PICK n \in T : \A m \in T : n <= m
  BY LeastElement
<1>2. n # 0
  <2> DEFINE f == [l \in 0..0 |-> {<<>>}]
  <2>1. f = [l \in 0..0 |->
                IF l = 0 THEN {<<>>}
                ELSE IF tableHierarchy[l] \in ts
                THEN Extend(f[l - 1], tableHierarchy[l], fs)
                ELSE f[l - 1]]
    OBVIOUS
  <2> QED
    BY <2>1 DEF Reads
<1>3. n - 1 \in Nat /\ n - 1 \notin T
  BY <1>1, <1>2
<1>4. PICK f : Reads(f, n - 1, ts, fs)
  BY <1>3
<1> DEFINE e == IF tableHierarchy[n] \in ts
                THEN Extend(f[n - 1], tableHierarchy[n], fs)
                ELSE f[n - 1]
           g == [l \in 0..n |-> IF l = n THEN e ELSE f[l]]
<1>5. \A l \in 0..(n - 1) : f[l] = IF l = 0 THEN {<<>>}
                                   ELSE IF tableHierarchy[l] \in ts
                                   THEN Extend(f[l - 1], tableHierarchy[l], fs)
                                   ELSE f[l - 1]
  BY <1>4 DEF Reads
<1>6. \A l \in 0..n : g[l] = IF l = 0 THEN {<<>>}
                             ELSE IF tableHierarchy[l] \in ts
                             THEN Extend(g[l - 1], tableHierarchy[l], fs)
                             ELSE g[l - 1]
  <2> SUFFICES ASSUME NEW l \in 0..n
               PROVE  g[l] = IF l = 0 THEN {<<>>}
                             ELSE IF tableHierarchy[l] \in ts
                             THEN Extend(g[l - 1], tableHierarchy[l], fs)
                             ELSE g[l - 1]
    OBVIOUS
  <2>1. CASE l = n
    <3>1. g[n] = e /\ g[n - 1] = f[n - 1]
      BY <1>2, <1>3
    <3> HIDE DEF g
    <3> QED
      BY <1>2, <2>1, <3>1
  <2>2. CASE l # n
    <3>1. g[l] = f[l] /\ (l # 0 => g[l - 1] = f[l - 1])
      BY <1>2, <1>3, <2>2
    <3> HIDE DEF g
    <3> QED
      BY <1>3, <1>5, <2>2, <3>1
  <2> QED
    BY <2>1, <2>2
<1>7. g = [l \in 0..n |-> g[l]]
  OBVIOUS
<1> HIDE DEF g
<1>8. Reads(g, n, ts, fs)
  BY <1>6, <1>7 DEF Reads
<1> QED
  BY <1>1, <1>8

(* Whether a filter holds depends on the rows of the tables it reads.       *)
LEMMA HoldsReads ==
    ASSUME NEW f, f.col # "main_tree", NEW r, NEW s, \A u \in f.tables : r[u] = s[u]
    PROVE  Holds(f, r) <=> Holds(f, s)
BY DEF Holds

\* r has a row of each table of us, and they satisfy the filters.
Combines(r, us, fs) ==
    /\ r = [u \in us |-> r[u]]
    /\ \A u \in us : r[u] \in Data[u]
    /\ \A f \in fs : f.tables # {} /\ f.tables \subseteq us => Holds(f, r)

(* Reading one more table and testing the filters on it gives the           *)
(* combinations with the rows of that table.                                *)
LEMMA ExtendCombines ==
    ASSUME NEW us, NEW t, t \notin us, NEW fs, \A f \in fs : f.col # "main_tree",
           NEW rows, \A r : r \in rows <=> Combines(r, us, fs)
    PROVE  \A r : r \in Extend(rows, t, fs) <=> Combines(r, us \cup {t}, fs)
<1> TAKE r
<1>1. ASSUME r \in Extend(rows, t, fs) PROVE Combines(r, us \cup {t}, fs)
  <2>1. PICK d \in Data[t], s \in rows : r = With(s, t, d)
    BY <1>1 DEF Extend
  <2>2. Combines(s, us, fs)
    BY <2>1
  <2>3. DOMAIN s = us
    BY <2>2 DEF Combines
  <2>4. /\ r = [u \in us \cup {t} |-> r[u]]
        /\ r[t] = d
        /\ \A u \in us : r[u] = s[u]
    BY <2>1, <2>3 DEF With
  <2>5. \A u \in us \cup {t} : r[u] \in Data[u]
    BY <2>1, <2>2, <2>4 DEF Combines
  <2>6. ASSUME NEW f \in fs, f.tables # {}, f.tables \subseteq us \cup {t}
        PROVE  Holds(f, r)
    <3>1. CASE t \in f.tables
      <4>1. DOMAIN r = us \cup {t}
        BY <2>4
      <4> QED
        BY <1>1, <2>6, <3>1, <4>1 DEF Extend
    <3>2. CASE t \notin f.tables
      <4>1. f.tables \subseteq us
        BY <2>6, <3>2
      <4>2. Holds(f, s)
        BY <2>2, <2>6, <4>1 DEF Combines
      <4>3. \A u \in f.tables : r[u] = s[u]
        BY <2>4, <4>1
      <4> QED
        BY <2>6, <4>2, <4>3, HoldsReads
    <3> QED
      BY <3>1, <3>2
  <2> QED
    BY <2>4, <2>5, <2>6 DEF Combines
<1>2. ASSUME Combines(r, us \cup {t}, fs) PROVE r \in Extend(rows, t, fs)
  <2> DEFINE s == [u \in us |-> r[u]]
  <2>1. r = [u \in us \cup {t} |-> r[u]] /\ r[t] \in Data[t]
    BY <1>2 DEF Combines
  <2>2. Combines(s, us, fs)
    <3>1. s = [u \in us |-> s[u]] /\ \A u \in us : s[u] = r[u]
      OBVIOUS
    <3>2. \A u \in us : s[u] \in Data[u]
      BY <1>2, <3>1 DEF Combines
    <3>3. ASSUME NEW f \in fs, f.tables # {}, f.tables \subseteq us PROVE Holds(f, s)
      <4>1. Holds(f, r)
        BY <1>2, <3>3 DEF Combines
      <4>2. \A u \in f.tables : s[u] = r[u]
        BY <3>1, <3>3
      <4> HIDE DEF s
      <4> QED
        BY <3>3, <4>1, <4>2, HoldsReads
    <3> HIDE DEF s
    <3> QED
      BY <3>1, <3>2, <3>3 DEF Combines
  <2>3. r = With(s, t, r[t])
    <3>1. DOMAIN s = us /\ \A u \in us : s[u] = r[u]
      OBVIOUS
    <3> HIDE DEF s
    <3>2. With(s, t, r[t]) = [u \in us \cup {t} |-> r[u]]
      BY <3>1 DEF With
    <3> QED
      BY <2>1, <3>2
  <2>4. s \in rows
    BY <2>2
  <2>5. \A f \in fs : t \in f.tables /\ f.tables \subseteq DOMAIN r => Holds(f, r)
    <3>1. DOMAIN r = us \cup {t}
      BY <2>1
    <3> QED
      BY <1>2, <3>1 DEF Combines
  <2> HIDE DEF s
  <2> QED
    BY <2>1, <2>3, <2>4, <2>5 DEF Extend
<1> QED
  BY <1>1, <1>2

\* The first n tables of the hierarchy.
First(n) == {tableHierarchy[i] : i \in 1..n}

(* RowsOf reads the tables in the order of the hierarchy and drops rows as  *)
(* soon as a filter can be tested: what is left are the combinations of     *)
(* rows that satisfy the filters, in whatever order they are tested.        *)
LEMMA RowsOfCombines ==
    ASSUME NEW ts \in SUBSET Tables, NEW fs, \A f \in fs : f.col # "main_tree"
    PROVE  \A r : r \in RowsOf(ts, fs) <=> Combines(r, ts, fs)
<1> DEFINE g == CHOOSE h : Reads(h, 11, ts, fs)
<1>1. Reads(g, 11, ts, fs)
  BY SomethingReads
<1>2. RowsOf(ts, fs) = g[11]
  BY DEF RowsOf, Reads
<1> HIDE DEF g
<1>3. \A n \in 0..11 : g[n] = IF n = 0 THEN {<<>>}
                              ELSE IF tableHierarchy[n] \in ts
                              THEN Extend(g[n - 1], tableHierarchy[n], fs)
                              ELSE g[n - 1]
  BY <1>1 DEF Reads
<1> DEFINE OK(n) == \A r : r \in g[n] <=> Combines(r, ts \cap First(n), fs)
<1>4. OK(0)
  <2>1. ts \cap First(0) = {} /\ g[0] = {<<>>}
    BY <1>3 DEF First
  <2>2. ASSUME NEW r PROVE r = <<>> <=> Combines(r, {}, fs)
    BY DEF Combines
  <2> QED
    BY <2>1, <2>2
<1>5. ASSUME NEW n \in 1..11, OK(n - 1) PROVE OK(n)
  <2> DEFINE t == tableHierarchy[n]
  <2>1. First(n) = First(n - 1) \cup {t}
    BY DEF First
  <2>2. t \notin First(n - 1)
    <3>1. \A i, j \in 1..11 : tableHierarchy[i] = tableHierarchy[j] => i = j
      BY DEF tableHierarchy
    <3> QED
      BY <3>1 DEF First
  <2>3. n \in 0..11 /\ n # 0
    OBVIOUS
  <2>4. g[n] = IF t \in ts THEN Extend(g[n - 1], t, fs) ELSE g[n - 1]
    BY <1>3, <2>3
  <2> HIDE DEF t
  <2>5. CASE t \in ts
    <3>1. t \notin ts \cap First(n - 1)
      BY <2>2
    <3>2. \A r : r \in Extend(g[n - 1], t, fs)
                     <=> Combines(r, (ts \cap First(n - 1)) \cup {t}, fs)
      BY <1>5, <3>1, ExtendCombines
    <3>3. ts \cap First(n) = (ts \cap First(n - 1)) \cup {t}
      BY <2>1, <2>5
    <3> QED
      BY <2>4, <2>5, <3>2, <3>3
  <2>6. CASE t \notin ts
    <3>1. ts \cap First(n) = ts \cap First(n - 1)
      BY <2>1, <2>6
    <3> QED
      BY <1>5, <2>4, <2>6, <3>1
  <2> QED
    BY <2>5, <2>6
<1> HIDE DEF OK
<1>6. OK(11)
  <2>1. OK(1) /\ OK(2) /\ OK(3)
    BY <1>4, <1>5
  <2>2. OK(4) /\ OK(5) /\ OK(6)
    BY <1>5, <2>1
  <2>3. OK(7) /\ OK(8) /\ OK(9)
    BY <1>5, <2>2
  <2> QED
    BY <1>5, <2>3
<1>7. ts \cap First(11) = ts
  BY DEF First, Tables
<1> USE DEF OK
<1> QED
  BY <1>2, <1>6, <1>7

(* More filters ask for the same rows if the added ones hold wherever the   *)
(* others do.                                                               *)
LEMMA SameRows ==
    ASSUME NEW ts \in SUBSET Tables, NEW fs, NEW gs, fs \subseteq gs,
           \A f \in gs : f.col # "main_tree",
           \A r : Combines(r, ts, fs) =>
               \A f \in gs : f.tables # {} /\ f.tables \subseteq ts => Holds(f, r)
    PROVE  RowsOf(ts, gs) = RowsOf(ts, fs)
<1>1. \A r : Combines(r, ts, gs) <=> Combines(r, ts, fs)
  BY DEF Combines
<1>2. \A r : r \in RowsOf(ts, gs) <=> Combines(r, ts, gs)
  BY RowsOfCombines
<1>3. \A r : r \in RowsOf(ts, fs) <=> Combines(r, ts, fs)
  <2>1. \A f \in fs : f.col # "main_tree"
    OBVIOUS
  <2> QED
    BY <2>1, RowsOfCombines
<1>4. \A r : r \in RowsOf(ts, gs) <=> r \in RowsOf(ts, fs)
  BY <1>1, <1>2, <1>3
<1> QED
  BY <1>4

-----------------------------------------------------------------------------
(* The links of the plan are equalities that the natural joins ask for.     *)

\* A natural join compares each column of the new table with that of the
\* leftmost table that has it.
NaturalOK ==
    \A i \in 2..Len(query) : query[i].natural = TRUE =>
        \A m \in 1..(i - 1) :
            \A c \in tableSchema(query[m].table) \cap tableSchema(query[i].table) :
                (\A b \in 1..(m - 1) : c \notin tableSchema(query[b].table))
                    => Atom({query[m].table, query[i].table}, c) \in query[i].cond

\* f compares a column that two of the tables have.
IsShared(f, ts) ==
    \E t, u \in ts : /\ t # u /\ f.tables = {t, u}
                     /\ f.col \in tableSchema(t) \cap tableSchema(u)

Known == ~Wrong /\ ~RootTreesOnly(findSquashedTables)

\* The plan has no filters but those of the query, and its links compare
\* columns that two of the tables have.
PlanOK ==
    /\ phase = "join" => links = {} /\ applied = {} /\ filters = {} /\ unsquashable = <<>>
    /\ applied \cup filters \cup unsquashableFilters \subseteq FiltersUpTo(merged)
    /\ kind = "ref_commits" => "commit_trees" \notin used
    /\ Known => kind = "nil" \/ kind \in used
    /\ Known => \A f \in links : IsShared(f, findSquashedTables)

RowsInv == NaturalOK /\ PlanOK

(* The equality of a column that two tables have is one they share.         *)
LEMMA SharedColumn ==
    ASSUME NEW t, NEW ts, NEW u \in ts, NEW c \in tableSchema(u) \cap tableSchema(t)
    PROVE  Atom({u, t}, c) \in Shared(t, ts)
<1>1. Atom({u, t}, c) \in {Atom({u, t}, d) : d \in tableSchema(u) \cap tableSchema(t)}
  OBVIOUS
<1> QED
  BY <1>1, Zenon DEF Shared

(* The first table is no join.                                              *)
LEMMA FromNatural ==
    ASSUME NEW t \in Tables, From(t)
    PROVE  NaturalOK'
<1>1. PICK l \in Locals(t) :
          query' = <<[table |-> t, cond |-> {}, local |-> l, natural |-> TRUE]>>
  BY DEF From
<1>2. 2..Len(query') = {}
  BY <1>1
<1> QED
  BY <1>2 DEF NaturalOK

(* The condition of a natural join is that of NaturalCond.                  *)
LEMMA SquashJoinNatural ==
    ASSUME Inv, JoinsOK, NaturalOK, NEW t \in Tables, squashJoin(t)
    PROVE  NaturalOK'
<1>1. PICK cond \in Conds(t), l \in Locals(t) :
          query' = Append(query, [table |-> t, cond |-> cond, local |-> l,
                                  natural |-> cond = NaturalCond(t)])
  BY DEF squashJoin
<1>2. query \in Seq(Join) /\ Len(query) \in Nat /\ t \notin QueryTables
  BY DEF Inv, QueryOK, squashJoin
<1>3. /\ Len(query') = Len(query) + 1
      /\ \A i \in 1..Len(query) : query'[i] = query[i]
      /\ query'[Len(query) + 1] = [table |-> t, cond |-> cond, local |-> l,
                                   natural |-> cond = NaturalCond(t)]
  BY <1>1, <1>2
<1>4. PICK q : q = query'
  OBVIOUS
<1>5. ASSUME NEW i \in 2..Len(q), q[i].natural = TRUE, NEW m \in 1..(i - 1),
             NEW c \in tableSchema(q[m].table) \cap tableSchema(q[i].table),
             \A b \in 1..(m - 1) : c \notin tableSchema(q[b].table)
      PROVE  Atom({q[m].table, q[i].table}, c) \in q[i].cond
  <2>1. m \in 1..Len(query) /\ q[m] = query[m] /\ \A b \in 1..(m - 1) : q[b] = query[b]
    BY <1>2, <1>3, <1>4, <1>5
  <2>2. CASE i \in 1..Len(query)
    <3>1. q[i] = query[i] /\ i \in 2..Len(query)
      BY <1>3, <1>4, <2>2
    <3> QED
      BY <1>5, <2>1, <3>1 DEF NaturalOK
  <2>3. CASE i = Len(query) + 1
    <3>1. q[i].table = t /\ q[i].cond = cond /\ cond = NaturalCond(t)
      <4>1. PICK b : b = (cond = NaturalCond(t))
        OBVIOUS
      <4>2. q[i] = [table |-> t, cond |-> cond, local |-> l, natural |-> b]
        BY <1>3, <1>4, <2>3, <4>1
      <4>3. q[i].table = t /\ q[i].cond = cond /\ q[i].natural = b
        BY <4>2
      <4>4. cond = NaturalCond(t)
        BY <1>5, <4>1, <4>3, Zenon
      <4> QED
        BY <4>3, <4>4
    <3>2. query[m].table \in QueryTables
      BY <2>1 DEF QueryTables, Prefix
    <3> DEFINE f == Atom({query[m].table, t}, c)
    <3>3. f \in Shared(t, QueryTables)
      <4>1. c \in tableSchema(query[m].table) \cap tableSchema(t)
        BY <1>5, <2>1, <3>1
      <4> QED
        BY <3>2, <4>1, SharedColumn
    <3>4. f.tables = {query[m].table, t} /\ f.col = c
      BY DEF Atom
    <3>5. DOMAIN query = 1..Len(query)
      BY <1>2
    <3> HIDE DEF f
    <3>6. ASSUME NEW a \in DOMAIN query, NEW b \in DOMAIN query,
                 query[a].table \in f.tables, b < a
          PROVE  f.col \notin tableSchema(query[b].table)
      <4>1. query[a].table # t
        BY <1>2, <3>5, <3>6 DEF QueryTables, Prefix
      <4>2. query[a].table = query[m].table
        BY <3>4, <3>6, <4>1
      <4>3. a = m
        BY <2>1, <3>5, <4>2 DEF JoinsOK
      <4>4. b \in 1..(m - 1)
        BY <1>2, <3>5, <3>6, <4>3
      <4> QED
        BY <1>5, <2>1, <3>4, <4>4
    <3>7. f \in NaturalCond(t)
      BY <3>3, <3>6 DEF NaturalCond
    <3> QED
      BY <2>1, <3>1, <3>7 DEF f
  <2> QED
    BY <1>2, <1>3, <1>4, <2>2, <2>3
<1> QED
  BY <1>4, <1>5 DEF NaturalOK

(* A link compares a column that the table of the iterator and that of the  *)
(* one before have.                                                         *)
LEMMA LinksShare ==
    ASSUME NEW t \in Tables, NEW k \in Tables, NEW fs, NEW c \in StepFor(t, k, fs).on,
           t # k, ~(t = "commit_trees" /\ k = "repositories"),
           ~(t = "tree_entries" /\ k = "ref_commits"), t # "repositories"
    PROVE  /\ StepFor(t, k, fs).gives = t
           /\ c \in tableSchema(t) \cap tableSchema(k)
<1> USE DEF Scan, Chain, Unsquashable, tableSchema
<1>1. CASE t = "remotes"
  BY <1>1, TableNames DEF StepFor, ForRemotes, ReposIter
<1>2. CASE t = "refs"
  BY <1>2, TableNames DEF StepFor, ForRefs, ReposIter, RemotesIter
<1>3. CASE t = "ref_commits"
  BY <1>3, TableNames DEF StepFor, ForRefCommits, ReposIter, RefsIter
<1>4. CASE t = "commits"
  BY <1>4, TableNames DEF StepFor, ForCommits, ReposIter, RefsIter, CommitsIter
<1>5. CASE t = "commit_trees"
  BY <1>5, TableNames DEF StepFor, ForCommitTrees, ReposIter, RefsIter, CommitsIter,
     RefCommitsIter
<1>6. CASE t = "commit_blobs"
  BY <1>6, TableNames DEF StepFor, ForCommitBlobs, RefsIter, CommitsIter, RefCommitsIter
<1>7. CASE t = "tree_entries"
  BY <1>7, TableNames DEF StepFor, ForTreeEntries, ReposIter, CommitsIter, TreesIter
<1>8. CASE t = "blobs"
  BY <1>8, TableNames DEF StepFor, ForBlobs, ReposIter, BlobsIter, TreeEntriesIter, FilesIter
<1>9. CASE t = "commit_files"
  BY <1>9, TableNames DEF StepFor, ForCommitFiles, RefsIter, CommitsIter
<1>10. CASE t = "files"
  BY <1>10, TableNames DEF StepFor, ForFiles, FilesIter
<1> QED
  BY <1>1, <1>2, <1>3, <1>4, <1>5, <1>6, <1>7, <1>8, <1>9, <1>10, TableNames

(* The first iterator of a chain links nothing.                             *)
LEMMA NilLinks ==
    ASSUME NEW t \in Tables, NEW fs
    PROVE  StepFor(t, "nil", fs).on = {}
<1> USE DEF Scan, Unsquashable
<1>1. CASE t \in {"repositories", "remotes", "refs"}
  BY <1>1 DEF StepFor, ForRepositories, ForRemotes, ForRefs, ReposIter, RemotesIter
<1>2. CASE t \in {"ref_commits", "commits"}
  BY <1>2 DEF StepFor, ForRefCommits, ForCommits, ReposIter, RefsIter, CommitsIter
<1>3. CASE t \in {"commit_trees", "commit_blobs"}
  BY <1>3 DEF StepFor, ForCommitTrees, ForCommitBlobs, ReposIter, RefsIter,
     RefCommitsIter, CommitsIter
<1>4. CASE t = "tree_entries"
  BY <1>4 DEF StepFor, ForTreeEntries, ReposIter, CommitsIter, TreesIter
<1>5. CASE t = "commit_files"
  BY <1>5 DEF StepFor, ForCommitFiles, RefsIter, CommitsIter
<1>6. CASE t \in {"blobs", "files"}
  BY <1>6 DEF StepFor, ForBlobs, ForFiles, ReposIter, BlobsIter, TreeEntriesIter, FilesIter
<1> QED
  BY <1>1, <1>2, <1>3, <1>4, <1>5, <1>6, TableNames

(* Two tables are not one.                                                  *)
LEMMA TwoTables ==
    ASSUME NEW t, NEW u, t # u
    PROVE  Cardinality({t, u}) # 1
<1>1. IsFiniteSet({u}) /\ Cardinality({u}) = 1
  BY FS_Singleton
<1>2. Cardinality({u} \cup {t}) = 2
  BY <1>1, FS_AddElement
<1>3. {t, u} = {u} \cup {t}
  OBVIOUS
<1> QED
  BY <1>2, <1>3

(* What the plan depends on besides the loop: tables, joins and filters.    *)
LEMMA QueryKept ==
    ASSUME UNCHANGED <<query, merged>>
    PROVE  /\ findSquashedTables' = findSquashedTables
           /\ FiltersUpTo(merged)' = FiltersUpTo(merged)
           /\ Known' = Known /\ Wrong' = Wrong
           /\ NaturalOK => NaturalOK'
<1>1. findSquashedTables' = findSquashedTables
  BY DEF findSquashedTables, Prefix
<1> QED
  BY <1>1 DEF FiltersUpTo, Known, Wrong, WrongIterator, RootTreesOnly, NaturalOK

(* Chaining an iterator keeps its links among the columns that two tables   *)
(* have.                                                                    *)
LEMMA ChainTablePlan ==
    ASSUME Inv, FailInv, PlanOK, ChainTable
    PROVE  PlanOK'
<1>0. PICK t : t = FirstOf(todo)
  OBVIOUS
<1>1. PICK step : step = StepFor(t, kind, filters)
  OBVIOUS
<1>2. PICK mine : mine = filtersForTables(filters, {step.reads[1], step.reads[2]})
  OBVIOUS
<1>3. PICK remaining : remaining = removeRedundantFilters(mine, step.reads[1], step.reads[2])
  OBVIOUS
<1>4. /\ phase = "build" /\ todo # {} /\ step.reads # <<>>
      /\ used' = used \cup {t}
      /\ filters' = filters \ mine /\ applied' = applied \cup remaining
      /\ links' = links \cup LinksOf(kind, step)
      /\ kind' = step.gives
      /\ phase' \in {"build", "failed"}
      /\ UNCHANGED <<query, merged, unsquashable>>
  BY <1>0, <1>1, <1>2, <1>3 DEF ChainTable, LinksOf
<1>5. mine \subseteq filters /\ remaining \subseteq mine
  BY <1>2, <1>3 DEF filtersForTables, removeRedundantFilters
<1>6. /\ findSquashedTables' = findSquashedTables
      /\ FiltersUpTo(merged)' = FiltersUpTo(merged)
      /\ Known' = Known
      /\ unsquashableFilters' = unsquashableFilters
  BY <1>4, QueryKept DEF unsquashableFilters
<1>7. /\ t \in Tables /\ t \in todo /\ t \notin used /\ kind \in Kinds
      /\ t \in {"commits", "blobs"} => kind # t
      /\ t = "repositories" => kind = "nil"
      /\ kind = "ref_commits" /\ t \in {"tree_entries", "commit_files"}
             => "commits" \notin used \cup todo
      /\ \A u \in used : D(u) < D(t) /\ u \notin todo
      /\ \A u \in findSquashedTables : u # t /\ u \in todo => D(t) < D(u)
      /\ used \cup todo = findSquashedTables
      /\ used \subseteq Tables
  BY <1>0, <1>4, LoopPlace
<1>8. Follows(t, kind, step)
  BY <1>1, <1>7, StepFollows
<1>9. applied' \cup filters' \cup unsquashableFilters' \subseteq FiltersUpTo(merged)'
  BY <1>4, <1>5, <1>6 DEF PlanOK
<1>10. kind' = "ref_commits" => "commit_trees" \notin used'
  <2>1. kind' = "ref_commits" => t = "ref_commits"
    BY <1>1, <1>4, <1>7, StepGives
  <2>2. t = "ref_commits" => "commit_trees" \notin used
    BY <1>7, Depths
  <2> QED
    BY <1>4, <2>1, <2>2
<1>11. Known => ~(t = "commit_trees" /\ kind = "repositories")
  BY <1>0, <1>4, WrongStep DEF Known, FailInv
<1>12. Known => kind' = t
  BY <1>4, <1>8, <1>11 DEF Follows, Unsquashable
<1>13. ASSUME Known, NEW f \in links' PROVE IsShared(f, findSquashedTables)
  <2>1. CASE f \in links
    BY <1>13, <2>1 DEF PlanOK
  <2>2. CASE f \in LinksOf(kind, step)
    <3>1. PICK c \in step.on : f = Atom({kind, step.gives}, c)
      BY <2>2 DEF LinksOf
    <3>2. kind # "nil"
      <4>1. kind = "nil" => step = Unsquashable \/ step.on = {}
        BY <1>1, <1>7, NilLinks
      <4> QED
        BY <3>1, <4>1 DEF Unsquashable
    <3>3. kind \in used /\ kind \in Tables /\ t # kind
      BY <1>7, <1>13, <3>2 DEF PlanOK
    <3>4. ~(t = "tree_entries" /\ kind = "ref_commits")
      <4>1. SUFFICES ASSUME t = "tree_entries", kind = "ref_commits" PROVE FALSE
        OBVIOUS
      <4>2. "commit_trees" \notin todo
        BY <1>7, <4>1, Depths
      <4>3. "commit_trees" \notin used /\ "commits" \notin used \cup todo
        BY <1>7, <4>1 DEF PlanOK
      <4>4. RootTreesOnly(findSquashedTables)
        BY <1>7, <3>3, <4>1, <4>2, <4>3 DEF RootTreesOnly
      <4> QED
        BY <1>13, <4>4 DEF Known
    <3>5. step.gives = t /\ c \in tableSchema(t) \cap tableSchema(kind)
      BY <1>1, <1>7, <1>11, <1>13, <3>1, <3>2, <3>3, <3>4, LinksShare
    <3>6. f.tables = {kind, t} /\ f.col = c
      BY <3>1, <3>5 DEF Atom
    <3> QED
      BY <1>7, <3>3, <3>5, <3>6 DEF IsShared
  <2> QED
    BY <1>4, <1>13, <2>1, <2>2
<1> QED
  BY <1>4, <1>6, <1>9, <1>10, <1>12, <1>13 DEF PlanOK

(* A table joined in memory takes filters and links nothing.                *)
LEMMA AddUnsquashablePlan ==
    ASSUME Inv, PlanOK, AddUnsquashable
    PROVE  PlanOK'
<1>0. PICK t : t = FirstOf(todo)
  OBVIOUS
<1>1. PICK mine : mine = filtersForTables(filters, used \cup {t})
  OBVIOUS
<1>2. /\ phase = "build" /\ todo # {}
      /\ StepFor(t, kind, filters) = Unsquashable
      /\ used' = used \cup {t}
      /\ filters' = filters \ mine
      /\ unsquashable' = Append(unsquashable, [table |-> t, filters |-> mine])
      /\ UNCHANGED <<query, merged, phase, kind, applied, links>>
  BY <1>0, <1>1 DEF AddUnsquashable
<1>3. mine \subseteq filters
  BY <1>1 DEF filtersForTables
<1>4. /\ findSquashedTables' = findSquashedTables
      /\ FiltersUpTo(merged)' = FiltersUpTo(merged)
      /\ Known' = Known
  BY <1>2, QueryKept
<1>5. unsquashableFilters' \subseteq unsquashableFilters \cup mine
  <2>1. unsquashable \in Seq([table : Tables, filters : SUBSET Filter])
    BY DEF Inv, LoopOK
  <2>2. t \in Tables /\ mine \in SUBSET Filter
    BY <1>0, <1>2, <1>3, LoopPlace DEF Inv, LoopOK
  <2>3. /\ DOMAIN unsquashable' = 1..(Len(unsquashable) + 1)
        /\ DOMAIN unsquashable = 1..Len(unsquashable)
        /\ \A i \in 1..Len(unsquashable) : unsquashable'[i] = unsquashable[i]
        /\ unsquashable'[Len(unsquashable) + 1] = [table |-> t, filters |-> mine]
        /\ Len(unsquashable) \in Nat
    BY <1>2, <2>1, <2>2
  <2> SUFFICES ASSUME NEW f \in unsquashableFilters'
               PROVE  f \in unsquashableFilters \cup mine
    OBVIOUS
  <2>4. PICK i \in DOMAIN unsquashable' : f \in unsquashable'[i].filters
    BY DEF unsquashableFilters
  <2>5. CASE i \in 1..Len(unsquashable)
    <3>1. i \in DOMAIN unsquashable /\ f \in unsquashable[i].filters
      BY <2>3, <2>4, <2>5
    <3> QED
      BY <3>1 DEF unsquashableFilters
  <2>6. CASE i = Len(unsquashable) + 1
    BY <2>3, <2>4, <2>6
  <2> QED
    BY <2>3, <2>4, <2>5, <2>6
<1>6. kind = "ref_commits" => t # "commit_trees"
  <2>1. ForCommitTrees("ref_commits", filters) # Unsquashable
    BY DEF ForCommitTrees, ReposIter, RefsIter, RefCommitsIter, Chain, Unsquashable
  <2> QED
    BY <1>2, <2>1 DEF StepFor
<1>7. applied' \cup filters' \cup unsquashableFilters' \subseteq FiltersUpTo(merged)'
  BY <1>2, <1>3, <1>4, <1>5 DEF PlanOK
<1> QED
  BY <1>2, <1>4, <1>6, <1>7 DEF PlanOK

(* The node starts with the filters of the merged joins, and no links.      *)
LEMMA JoinTablesPlan ==
    ASSUME Inv, FailInv, PlanOK, joinTables
    PROVE  PlanOK'
<1>1. /\ phase = "join" /\ phase' = "build" /\ filters' = FiltersUpTo(merged)
      /\ UNCHANGED <<query, merged, used, kind, applied, links, unsquashable>>
  BY DEF joinTables
<1>2. /\ findSquashedTables' = findSquashedTables
      /\ FiltersUpTo(merged)' = FiltersUpTo(merged)
      /\ Known' = Known
      /\ unsquashableFilters' = unsquashableFilters
  BY <1>1, QueryKept DEF unsquashableFilters
<1>3. links = {} /\ applied = {} /\ unsquashable = <<>> /\ kind = "nil"
  BY <1>1 DEF PlanOK, FailInv, JoinsOK
<1>4. unsquashableFilters = {}
  BY <1>3 DEF unsquashableFilters
<1> QED
  BY <1>1, <1>2, <1>3, <1>4 DEF PlanOK

(* Nothing is planned while the joins are read.                             *)
LEMMA JoiningPlan ==
    ASSUME FailInv, PlanOK, phase = "join", phase' = "join",
           UNCHANGED <<kind, used, filters, applied, links, unsquashable>>
    PROVE  PlanOK'
<1>1. links = {} /\ applied = {} /\ filters = {} /\ unsquashable = <<>> /\ kind = "nil"
  BY DEF PlanOK, FailInv, JoinsOK
<1>2. unsquashableFilters' = {}
  BY <1>1 DEF unsquashableFilters
<1> QED
  BY <1>1, <1>2 DEF PlanOK

(* The invariant holds before the query is read.                            *)
LEMMA RowsInvInit == Init => RowsInv
<1> SUFFICES ASSUME Init PROVE RowsInv
  OBVIOUS
<1>1. /\ query = <<>> /\ merged = 0 /\ kind = "nil" /\ links = {} /\ applied = {}
      /\ filters = {} /\ unsquashable = <<>>
  BY DEF Init
<1>2. 2..Len(query) = {} /\ unsquashableFilters = {}
  BY <1>1 DEF unsquashableFilters
<1> QED
  BY <1>1, <1>2 DEF RowsInv, NaturalOK, PlanOK

(* Every step keeps the invariant.                                          *)
LEMMA RowsInvStep == Inv /\ FailInv /\ RowsInv /\ [Next]_vars => RowsInv'
<1> SUFFICES ASSUME Inv, FailInv, RowsInv, [Next]_vars PROVE RowsInv'
  OBVIOUS
<1>0. NaturalOK /\ PlanOK /\ JoinsOK
  BY DEF RowsInv, FailInv
<1>1. ASSUME NEW t \in Tables, From(t) PROVE RowsInv'
  <2>1. /\ phase = "join" /\ phase' = "join"
        /\ UNCHANGED <<kind, used, filters, applied, links, unsquashable>>
    BY <1>1 DEF From
  <2> QED
    BY <1>0, <1>1, <2>1, FromNatural, JoiningPlan DEF RowsInv
<1>2. ASSUME NEW t \in Tables, squashJoin(t) PROVE RowsInv'
  <2>1. /\ phase = "join" /\ phase' = "join"
        /\ UNCHANGED <<kind, used, filters, applied, links, unsquashable>>
    BY <1>2 DEF squashJoin
  <2> QED
    BY <1>0, <1>2, <2>1, SquashJoinNatural, JoiningPlan DEF RowsInv
<1>3. CASE joinTables
  <2>1. UNCHANGED <<query, merged>>
    BY <1>3 DEF joinTables
  <2> QED
    BY <1>0, <1>3, <2>1, QueryKept, JoinTablesPlan DEF RowsInv
<1>4. CASE ChainTable
  <2>1. UNCHANGED <<query, merged>>
    BY <1>4 DEF ChainTable
  <2> QED
    BY <1>0, <1>4, <2>1, QueryKept, ChainTablePlan DEF RowsInv
<1>5. CASE AddUnsquashable
  <2>1. UNCHANGED <<query, merged>>
    BY <1>5 DEF AddUnsquashable
  <2> QED
    BY <1>0, <1>5, <2>1, QueryKept, AddUnsquashablePlan DEF RowsInv
<1>6. CASE buildSquashedTable \/ UNCHANGED vars
  <2>1. /\ UNCHANGED <<query, merged, used, kind, filters, applied, links, unsquashable>>
        /\ phase' = "join" => phase = "join"
    <3>1. Outcome # "join"
      BY DEF Outcome
    <3> QED
      BY <1>6, <3>1 DEF buildSquashedTable, vars
  <2>2. /\ findSquashedTables' = findSquashedTables
        /\ FiltersUpTo(merged)' = FiltersUpTo(merged)
        /\ Known' = Known /\ NaturalOK'
        /\ unsquashableFilters' = unsquashableFilters
    BY <1>0, <2>1, QueryKept DEF unsquashableFilters
  <2>3. PlanOK'
    BY <1>0, <2>1, <2>2 DEF PlanOK
  <2> QED
    BY <2>2, <2>3 DEF RowsInv
<1> QED
  BY <1>1, <1>2, <1>3, <1>4, <1>5, <1>6 DEF Next

(* In a row that satisfies the conditions of natural joins, tables agree on *)
(* every column they share: both have it from the leftmost table with it.   *)
LEMMA NaturalRowsAgree ==
    ASSUME Inv, JoinsOK, NaturalOK, Natural(query), NEW r,
           Combines(r, QueryTables, AllFilters),
           NEW t \in QueryTables, NEW u \in QueryTables,
           NEW c \in tableSchema(t) \cap tableSchema(u)
    PROVE  r[t][c] = r[u][c]
<1>1. query \in Seq(Join) /\ Len(query) \in Nat /\ QueryTables \subseteq Tables
  BY PrefixTables DEF Inv, QueryOK, QueryTables
<1> DEFINE T == {n \in 1..Len(query) : c \in tableSchema(query[n].table)}
<1>2. \A v \in QueryTables : c \in tableSchema(v) => \E n \in T : query[n].table = v
  BY DEF QueryTables, Prefix
<1>3. T \subseteq Nat /\ T # {}
  BY <1>1, <1>2
<1>4. PICK m \in T : \A n \in T : m <= n
  BY <1>3, LeastElement
<1>5. ASSUME NEW i \in T PROVE r[query[i].table][c] = r[query[m].table][c]
  <2>1. CASE i = m
    BY <2>1
  <2>2. CASE i # m
    <3>1. i \in 2..Len(query) /\ m \in 1..(i - 1)
      BY <1>1, <1>4, <2>2
    <3>2. \A b \in 1..(m - 1) : c \notin tableSchema(query[b].table)
      BY <1>1, <1>4
    <3>3. query[i].natural = TRUE
      BY <1>1, <3>1 DEF Natural, Join
    <3> DEFINE f == Atom({query[m].table, query[i].table}, c)
    <3>4. f \in query[i].cond
      BY <1>4, <1>5, <3>1, <3>2, <3>3 DEF NaturalOK
    <3>5. f \in AllFilters
      BY <1>1, <3>1, <3>4 DEF AllFilters, FiltersUpTo
    <3>6. f.tables = {query[m].table, query[i].table} /\ f.col = c
      BY DEF Atom
    <3>7. query[m].table \in QueryTables /\ query[i].table \in QueryTables
      BY DEF QueryTables, Prefix
    <3>8. query[m].table # query[i].table
      BY <1>1, <2>2 DEF JoinsOK
    <3> HIDE DEF f
    <3>9. Holds(f, r)
      BY <3>5, <3>6, <3>7 DEF Combines
    <3>10. c # "main_tree"
      BY <1>1, ColumnNames DEF Columns
    <3>11. PICK v, w : v = query[m].table /\ w = query[i].table
      OBVIOUS
    <3>12. v # w /\ f.tables = {v, w} /\ f.col # "main_tree"
      BY <3>6, <3>8, <3>10, <3>11
    <3>13. Cardinality(f.tables) # 1
      BY <3>12, TwoTables
    <3>14. r[v][c] = r[w][c]
      BY <3>6, <3>9, <3>12, <3>13 DEF Holds
    <3> QED
      BY <3>11, <3>14
  <2> QED
    BY <2>1, <2>2
<1>6. PICK i \in T : query[i].table = t
  BY <1>2
<1>7. PICK j \in T : query[j].table = u
  BY <1>2
<1> QED
  BY <1>5, <1>6, <1>7

(* The filters of the query are those of the merged joins and the others.   *)
LEMMA FiltersSplit ==
    ASSUME Inv
    PROVE  AllFilters = FiltersUpTo(merged)
               \cup UNION {query[i].cond \cup query[i].local :
                              i \in (merged + 1)..Len(query)}
<1>1. Len(query) \in Nat /\ merged \in 0..Len(query)
  BY DEF Inv, QueryOK
<1>2. 1..Len(query) = 1..merged \cup (merged + 1)..Len(query)
  BY <1>1
<1> DEFINE F(i) == query[i].cond \cup query[i].local
           rest == UNION {query[i].cond \cup query[i].local :
                              i \in (merged + 1)..Len(query)}
<1>3. ASSUME NEW x PROVE x \in AllFilters <=> x \in FiltersUpTo(merged) \cup rest
  <2>1. x \in AllFilters <=> \E i \in 1..Len(query) : x \in F(i)
    BY DEF AllFilters, FiltersUpTo
  <2>2. x \in FiltersUpTo(merged) <=> \E i \in 1..merged : x \in F(i)
    BY DEF FiltersUpTo
  <2>3. x \in rest <=> \E i \in (merged + 1)..Len(query) : x \in F(i)
    OBVIOUS
  <2> HIDE DEF F, rest
  <2> QED
    BY <1>2, <2>1, <2>2, <2>3
<1> QED
  BY <1>3

(* A query written with natural joins gets from its plan the rows it asks   *)
(* for, whatever is in the repositories: the plan tests the filters of the  *)
(* query (NoFilterLost) and, besides, equalities of columns that natural    *)
(* joins make equal.                                                        *)
LEMMA PlanAsksForTheQuery == Inv /\ FailInv /\ RowsInv => NaturalJoinsKeepRows
<1> SUFFICES ASSUME Inv, FailInv, RowsInv, phase = "planned", Natural(query),
                    ~RootTreesOnly(findSquashedTables)
             PROVE  PlanRows = QueryRows
  BY DEF NaturalJoinsKeepRows
<1>1. JoinsOK /\ NaturalOK /\ PlanOK /\ Known
  BY DEF FailInv, RowsInv, Outcomes, FailsOnlyForWrongIterator, Known, Wrong
<1>2. QueryTables \in SUBSET Tables /\ findSquashedTables \subseteq QueryTables
  BY PrefixTables, PrefixMonotone DEF Inv, QueryOK, QueryTables, findSquashedTables
<1>3. PICK gs : gs = links \cup applied \cup filters \cup unsquashableFilters
                        \cup UNION {query[i].cond \cup query[i].local :
                                       i \in (merged + 1)..Len(query)}
  OBVIOUS
<1>4. AllFilters \subseteq gs
  BY <1>3, FiltersSplit DEF Inv, NoFilterLost
<1>5. gs \subseteq links \cup AllFilters
  BY <1>1, <1>3, FiltersSplit DEF PlanOK
<1>6. ASSUME NEW f \in gs PROVE f.col # "main_tree"
  <2>1. CASE f \in links
    BY <1>1, <1>2, <2>1, ColumnNames DEF PlanOK, IsShared, Columns
  <2>2. CASE f \in AllFilters
    <3>1. PICK i \in 1..Len(query) : f \in query[i].cond \cup query[i].local
      BY <2>2 DEF AllFilters, FiltersUpTo
    <3>2. query[i] \in Join
      BY <3>1 DEF Inv, QueryOK
    <3> QED
      BY <3>1, <3>2 DEF Join, Filter, Columns
  <2> QED
    BY <1>5, <1>6, <2>1, <2>2
<1>7. ASSUME NEW r, Combines(r, QueryTables, AllFilters),
             NEW f \in gs, f.tables # {}, f.tables \subseteq QueryTables
      PROVE  Holds(f, r)
  <2>1. CASE f \in links
    <3>1. PICK t \in findSquashedTables, u \in findSquashedTables :
              /\ t # u /\ f.tables = {t, u}
              /\ f.col \in tableSchema(t) \cap tableSchema(u)
      BY <1>1, <2>1 DEF PlanOK, IsShared
    <3>2. r[t][f.col] = r[u][f.col]
      BY <1>1, <1>2, <1>7, <3>1, NaturalRowsAgree
    <3>3. Cardinality(f.tables) # 1
      BY <3>1, TwoTables
    <3> QED
      BY <1>6, <3>1, <3>2, <3>3 DEF Holds
  <2>2. CASE f \in AllFilters
    BY <1>7, <2>2 DEF Combines
  <2> QED
    BY <1>5, <1>7, <2>1, <2>2
<1>8. RowsOf(QueryTables, gs) = RowsOf(QueryTables, AllFilters)
  BY <1>2, <1>4, <1>6, <1>7, SameRows
<1> QED
  BY <1>3, <1>8 DEF PlanRows, QueryRows

(* For every query of natural joins, any tables, any local filters, and     *)
(* every content of the repositories, the plan that squash_joins makes      *)
(* returns the rows that the query asks for, unless it reads the tree       *)
(* entries of a reference's commits without commits or commit_trees.        *)
THEOREM NaturalJoinsAreKept == Spec => []NaturalJoinsKeepRows
BY InitInv, StepInv, FailInvInit, FailInvStep, RowsInvInit, RowsInvStep,
   PlanAsksForTheQuery, PTL DEF Spec
-----------------------------------------------------------------------------
(***************************************************************************)
(* The rows of squashed tables (SharedRows), for every chain of tables,    *)
(* every number of items and every order of accepting and rejecting them.  *)
(*                                                                         *)
(* The capacity of a row depends on the chain only, so that append writes  *)
(* in place for the same tables every time.  Own is the last of the others *)
(* and Apart says that arrays of tables before it are not handed out.  An  *)
(* array that was is then written again only behind the columns of Own;    *)
(* when each table after Own has one row at most, there is nothing more to *)
(* write (KeptRows).                                                       *)
(***************************************************************************)

(* A row is in its parent's array when that has room. *)
InPlace(l) == l > 1 /\ Length[l] <= Capacity[l - 1]

Caps == {Capacity[l] : l \in 1..Depth} \union {Length[Depth]}

Array == [cap : Caps, segs : [1..Depth -> Seq(Nat)]]

ArraysTyped ==
  /\ ChainTables \in Seq([width : Nat \ {0}, many : BOOLEAN]) /\ ChainTables # <<>>
  /\ arrays \in Seq(Array)
  /\ row \in [1..Depth -> 0..Len(arrays)]
  /\ items \in [1..Depth -> Nat]
  /\ level \in 1..Depth
  /\ kept \in Seq([arr : 1..Len(arrays), path : Seq(Nat)])
  /\ \A k \in DOMAIN kept : Len(kept[k].path) = Depth

Read(l) == l < level \/ items[l] > 0

(* Tables up to the one that runs have the row made of the current items, with
   the capacity that depends on the chain only. *)
CurrentRows ==
  \A l \in 1..level : Read(l) =>
    /\ items[l] > 0 /\ row[l] # 0
    /\ arrays[row[l]].cap = Capacity[l]
    /\ \A s \in 1..l : arrays[row[l]].segs[s] = Path(items, s)
    /\ l > Own => row[l] = row[Own]

(* The arrays that are handed out are those of table Own, or copies. *)
Apart ==
  /\ \A l \in 1..(Own - 1) : row[l] # 0 =>
       /\ \A m \in Own..Depth : row[m] # row[l]
       /\ \A k \in DOMAIN kept : kept[k].arr # row[l]
  /\ mapped = TRUE => \A k \in DOMAIN kept : \A l \in 1..Depth : kept[k].arr # row[l]

Single == \A l \in (Own + 1)..Depth : ChainTables[l].many # TRUE

KeptRows ==
  \A k \in DOMAIN kept :
    /\ \A s \in 1..Depth : mapped = TRUE \/ s <= Own \/ Single => Intact(k, s)
    /\ Single /\ mapped # TRUE /\ kept[k].arr = row[Own] =>
         \A l \in (Own + 1)..level : items[l] > 0

MemoryInv == ArraysTyped /\ CurrentRows /\ Apart /\ KeptRows

-----------------------------------------------------------------------------
(* Capacities. *)

(* f is the capacity of the rows of the first n tables. *)
Grows(f, n) ==
  f = [l \in 1..n |-> IF l = 1 THEN ChainTables[1].width
                      ELSE IF Length[l] <= f[l - 1] THEN f[l - 1]
                      ELSE growslice(f[l - 1], Length[l])]

(* Whatever the number of tables, capacities are defined: a shortest chain
   without them would have them. *)
LEMMA SomeFunctionGrows == \A n \in Nat : \E f : Grows(f, n)
<1> DEFINE T == {n \in Nat : ~ \E f : Grows(f, n)}
<1> SUFFICES ASSUME T # {} PROVE FALSE
  OBVIOUS
<1>1. PICK n \in T : \A m \in T : n <= m
  BY LeastElement
<1>2. n # 0
  <2> DEFINE f == [l \in 1..0 |-> 0]
  <2>1. f = [l \in 1..0 |-> IF l = 1 THEN ChainTables[1].width
                      ELSE IF Length[l] <= f[l - 1] THEN f[l - 1]
                      ELSE growslice(f[l - 1], Length[l])]
    OBVIOUS
  <2> QED
    BY <2>1 DEF Grows
<1>3. n - 1 \in Nat /\ n - 1 \notin T
  BY <1>1, <1>2
<1>4. PICK f : Grows(f, n - 1)
  BY <1>3
<1> DEFINE e == IF n = 1 THEN ChainTables[1].width
                ELSE IF Length[n] <= f[n - 1] THEN f[n - 1]
                ELSE growslice(f[n - 1], Length[n])
           g == [l \in 1..n |-> IF l = n THEN e ELSE f[l]]
<1>5. \A l \in 1..(n - 1) : f[l] = IF l = 1 THEN ChainTables[1].width
                      ELSE IF Length[l] <= f[l - 1] THEN f[l - 1]
                      ELSE growslice(f[l - 1], Length[l])
  BY <1>4 DEF Grows
<1>6. \A l \in 1..n : g[l] = IF l = 1 THEN ChainTables[1].width
                      ELSE IF Length[l] <= g[l - 1] THEN g[l - 1]
                      ELSE growslice(g[l - 1], Length[l])
  <2> SUFFICES ASSUME NEW l \in 1..n
               PROVE g[l] = IF l = 1 THEN ChainTables[1].width
                      ELSE IF Length[l] <= g[l - 1] THEN g[l - 1]
                      ELSE growslice(g[l - 1], Length[l])
    OBVIOUS
  <2>1. CASE l = n
    <3>1. g[n] = e /\ (n # 1 => g[n - 1] = f[n - 1])
      BY <1>2, <1>3
    <3> HIDE DEF g
    <3> QED
      BY <1>2, <2>1, <3>1
  <2>2. CASE l # n
    <3>1. g[l] = f[l] /\ (l # 1 => g[l - 1] = f[l - 1])
      BY <1>2, <1>3, <2>2
    <3> HIDE DEF g
    <3> QED
      BY <1>3, <1>5, <2>2, <3>1
  <2> QED
    BY <2>1, <2>2
<1>7. g = [l \in 1..n |-> g[l]]
  OBVIOUS
<1> HIDE DEF g
<1>8. Grows(g, n)
  BY <1>6, <1>7 DEF Grows
<1> QED
  BY <1>1, <1>8

(* The capacity of a row is that of its parent's row, or what growslice makes
   of it. *)
LEMMA CapacityUnfolds ==
  ASSUME Depth \in Nat
  PROVE  \A l \in 1..Depth :
           Capacity[l] = IF l = 1 THEN ChainTables[1].width
                         ELSE IF Length[l] <= Capacity[l - 1] THEN Capacity[l - 1]
                         ELSE growslice(Capacity[l - 1], Length[l])
<1> DEFINE f == CHOOSE g : Grows(g, Depth)
<1>1. Grows(f, Depth)
  BY SomeFunctionGrows
<1>2. Capacity = f
  BY DEF Capacity, Grows
<1>3. Grows(Capacity, Depth)
  BY <1>1, <1>2
<1> QED
  BY <1>3 DEF Grows

(* There is a last table whose rows are arrays of their own. *)
LEMMA OwnIsLast ==
  ASSUME Depth \in Nat \ {0}
  PROVE  /\ Own \in 1..Depth /\ ~InPlace(Own)
         /\ \A l \in (Own + 1)..Depth : InPlace(l)
<1> DEFINE T == {n \in 0..(Depth - 1) : ~InPlace(Depth - n)}
<1>1. T \subseteq Nat
  OBVIOUS
<1>2. Depth - 1 \in T
  BY DEF InPlace
<1>3. PICK n \in T : \A m \in T : n <= m
  <2> HIDE DEF T
  <2> QED
    BY <1>1, <1>2, LeastElement
<1>4. PICK l : l = Depth - n
  OBVIOUS
<1>5. l \in 1..Depth /\ ~InPlace(l)
  BY <1>3, <1>4
<1>6. \A m \in (l + 1)..Depth : InPlace(m)
  <2> SUFFICES ASSUME NEW m \in (l + 1)..Depth, ~InPlace(m) PROVE FALSE
    OBVIOUS
  <2>1. Depth - m \in 0..(Depth - 1) /\ Depth - (Depth - m) = m /\ ~(n <= Depth - m)
    BY <1>3, <1>4, <1>5
  <2> QED
    BY <1>3, <2>1
<1>7. l = 1 \/ ~(Length[l] <= Capacity[l - 1])
  BY <1>5 DEF InPlace
<1>8. \A m \in (l + 1)..Depth : Length[m] <= Capacity[m - 1]
  BY <1>6 DEF InPlace
<1>9. /\ Own \in 1..Depth
      /\ Own = 1 \/ ~(Length[Own] <= Capacity[Own - 1])
      /\ \A m \in (Own + 1)..Depth : Length[m] <= Capacity[m - 1]
  BY <1>5, <1>7, <1>8 DEF Own
<1>10. ~InPlace(Own)
  BY <1>9 DEF InPlace
<1>11. \A m \in (Own + 1)..Depth : InPlace(m)
  BY <1>9 DEF InPlace
<1> QED
  BY <1>9, <1>10, <1>11

-----------------------------------------------------------------------------
(* Paths. *)

(* What append does to a sequence. *)
LEMMA AppendFacts ==
  ASSUME NEW S, NEW s \in Seq(S), NEW e \in S, NEW t, t = Append(s, e)
  PROVE  /\ t \in Seq(S) /\ Len(s) \in Nat /\ Len(t) = Len(s) + 1 /\ t[Len(s) + 1] = e
         /\ \A b \in 1..Len(s) : t[b] = s[b]
OBVIOUS

(* What an assignment to an element does to it. *)
LEMMA ReplaceFacts ==
  ASSUME NEW S, NEW s \in Seq(S), NEW e \in S, NEW r \in 1..Len(s), NEW t, t = [s EXCEPT ![r] = e]
  PROVE  /\ t \in Seq(S) /\ Len(s) \in Nat /\ Len(t) = Len(s) /\ t[r] = e
         /\ \A b \in 1..Len(s) : b # r => t[b] = s[b]
OBVIOUS

(* The elements of a sequence. *)
LEMMA ElementFacts ==
  ASSUME NEW S, NEW s \in Seq(S)
  PROVE  DOMAIN s = 1..Len(s) /\ Len(s) \in Nat /\ \A k \in DOMAIN s : s[k] \in S
OBVIOUS

(* The items of the tables of a chain, as a sequence. *)
LEMMA FunctionsAreSequences ==
  ASSUME NEW d \in Nat, NEW f \in [1..d -> Nat]
  PROVE  f \in Seq(Nat) /\ Len(f) = d
OBVIOUS

(* A path has the items up to its table, and depends on no others. *)
LEMMA PathsAgree ==
  ASSUME NEW f \in Seq(Nat), NEW g \in Seq(Nat), NEW s \in Nat \ {0}, s <= Len(f), s <= Len(g),
         \A i \in 1..s : f[i] = g[i]
  PROVE  /\ Path(f, s) = Path(g, s)
         /\ Path(f, s) \in Seq(Nat) /\ Len(Path(f, s)) = s
<1>2. Path(f, s) = [i \in 1..s |-> f[i]] /\ Path(g, s) = [i \in 1..s |-> g[i]]
  BY DEF Path
<1>3. [i \in 1..s |-> f[i]] = [i \in 1..s |-> g[i]]
  OBVIOUS
<1>4. [i \in 1..s |-> f[i]] \in Seq(Nat) /\ Len([i \in 1..s |-> f[i]]) = s
  OBVIOUS
<1> QED
  BY <1>2, <1>3, <1>4

(* A part of a path is the path to an earlier table. *)
LEMMA PartsOfPaths ==
  ASSUME NEW d \in Nat, NEW f \in [1..d -> Nat], NEW l \in 1..d, NEW s \in 1..l
  PROVE  SubSeq(Path(f, l), 1, s) = Path(f, s)
<1>1. f \in Seq(Nat) /\ Len(f) = d
  OBVIOUS
<1>2. Path(f, l) = [i \in 1..l |-> f[i]] /\ Path(f, s) = [i \in 1..s |-> f[i]]
  BY <1>1 DEF Path
<1>3. PICK q : q = [i \in 1..l |-> f[i]]
  OBVIOUS
<1>4. q \in Seq(Nat) /\ Len(q) = l /\ \A i \in 1..l : q[i] = f[i]
  BY <1>3
<1>5. SubSeq(q, 1, s) = [i \in 1..s |-> q[i]]
  BY <1>4
<1>6. [i \in 1..s |-> q[i]] = [i \in 1..s |-> f[i]]
  BY <1>4
<1> QED
  BY <1>2, <1>3, <1>5, <1>6

-----------------------------------------------------------------------------
(* Steps. *)

(* Whether append finds room depends on the chain only. *)
LEMMA RoomIsKnown ==
  ASSUME MemoryInv, level > 1
  PROVE  /\ HasRoom(level) <=> InPlace(level)
         /\ level - 1 \in 1..Depth /\ row[level - 1] \in 1..Len(arrays)
         /\ arrays[row[level - 1]].cap = Capacity[level - 1]
         /\ \A s \in 1..(level - 1) : arrays[row[level - 1]].segs[s] = Path(items, s)
<1>1. /\ level \in 1..Depth /\ Depth \in Nat
      /\ row \in [1..Depth -> 0..Len(arrays)] /\ Len(arrays) \in Nat
  BY DEF MemoryInv, ArraysTyped, Depth
<1>2. level - 1 \in 1..level /\ level - 1 \in 1..Depth /\ level - 1 < level
  BY <1>1
<1>3. Read(level - 1)
  BY <1>2 DEF Read
<1>4. /\ row[level - 1] # 0
      /\ arrays[row[level - 1]].cap = Capacity[level - 1]
      /\ \A s \in 1..(level - 1) : arrays[row[level - 1]].segs[s] = Path(items, s)
  BY <1>2, <1>3 DEF MemoryInv, CurrentRows
<1>5. row[level - 1] \in 1..Len(arrays)
  BY <1>1, <1>2, <1>4
<1> QED
  BY <1>2, <1>4, <1>5 DEF HasRoom, InPlace

(* The iterator that runs has read its next item and has made a row of it. *)
NextItem(its) == its = [items EXCEPT ![level] = @ + 1]

MadeNew(p, mem, a) == mem = NewRow(p) /\ a = Len(mem)

MadeOfParent(p, mem, a) ==
  mem = AppendRow(level, p) /\ a = IF HasRoom(level) THEN row[level - 1] ELSE Len(mem)

(* What append does to the memory: the new row is in array a, and at most the
   segment of the table that runs was written, in that array. *)
Wrote(its, mem, a) ==
  /\ its \in [1..Depth -> Nat] /\ its[level] > 0
  /\ \A i \in 1..Depth : i # level => its[i] = items[i]
  /\ mem \in Seq(Array) /\ Len(mem) \in Nat /\ Len(arrays) <= Len(mem) /\ a \in 1..Len(mem)
  /\ mem[a].cap = Capacity[level]
  /\ \A s \in 1..level : mem[a].segs[s] = Path(its, s)
  /\ \A b \in 1..Len(arrays) :
       /\ mem[b].cap = arrays[b].cap
       /\ \A s \in 1..Depth : b # a \/ s # level => mem[b].segs[s] = arrays[b].segs[s]
  /\ InPlace(level) => level > 1 /\ a = row[level - 1] /\ Len(mem) = Len(arrays)
  /\ ~InPlace(level) => a = Len(arrays) + 1 /\ Len(mem) = a

(* The first table makes an array of its own, ... *)
LEMMA NewRowWrites ==
  ASSUME MemoryInv, level = 1, NEW its, NextItem(its),
         NEW mem, NEW a, MadeNew(Path(its, level), mem, a)
  PROVE  Wrote(its, mem, a)
<1>p. PICK p : p = Path(its, level)
  OBVIOUS
<1>m. mem = NewRow(p) /\ a = Len(mem)
  BY <1>p DEF MadeNew
<1>1. /\ Depth \in Nat \ {0} /\ level \in 1..Depth /\ arrays \in Seq(Array)
      /\ items \in [1..Depth -> Nat]
  BY DEF MemoryInv, ArraysTyped, Depth
<1>2. /\ its \in [1..Depth -> Nat] /\ its[level] > 0
      /\ \A i \in 1..Depth : i # level => its[i] = items[i]
  BY <1>1 DEF NextItem
<1>s. its \in Seq(Nat) /\ Len(its) = Depth
  BY <1>1, <1>2
<1>3. p \in Seq(Nat) /\ Len(p) = 1
  <2>1. level \in Nat \ {0} /\ level <= Len(its)
    BY <1>1, <1>s
  <2>2. Path(its, level) \in Seq(Nat) /\ Len(Path(its, level)) = level
    BY <1>s, <2>1, PathsAgree
  <2> QED
    BY <1>p, <2>2
<1>4. SubSeq(p, 1, 1) = p
  BY <1>3
<1>5. Segments(p) = [l \in 1..Depth |-> IF l = 1 THEN p ELSE <<>>]
  <2>1. \A l \in 1..Depth : l <= Len(p) <=> l = 1
    BY <1>1, <1>3
  <2> QED
    BY <1>4, <2>1 DEF Segments
<1>6. Segments(p) \in [1..Depth -> Seq(Nat)] /\ Segments(p)[1] = p
  <2>1. <<>> \in Seq(Nat) /\ 1 \in 1..Depth
    BY <1>1
  <2> QED
    BY <1>3, <1>5, <2>1
<1>7. ChainTables[1].width = Capacity[1]
  BY <1>1, CapacityUnfolds
<1>8. PICK e : e = [cap |-> ChainTables[1].width, segs |-> Segments(p)]
  OBVIOUS
<1>9. e \in Array /\ e.cap = Capacity[1] /\ e.segs[1] = p
  <2>1. Capacity[1] \in Caps
    BY <1>1 DEF Caps
  <2> QED
    BY <1>6, <1>7, <1>8, <2>1 DEF Array
<1>10. mem = Append(arrays, e)
  BY <1>8, <1>m DEF NewRow
<1>11. /\ mem \in Seq(Array) /\ Len(mem) = Len(arrays) + 1 /\ Len(arrays) \in Nat
       /\ mem[Len(mem)] = e /\ \A b \in 1..Len(arrays) : mem[b] = arrays[b]
  BY <1>1, <1>9, <1>10, AppendFacts
<1>12. \A s \in 1..level : mem[a].segs[s] = Path(its, s)
  <2>1. \A s \in 1..level : s = 1
    BY <1>1
  <2> QED
    BY <1>9, <1>11, <1>m, <1>p, <2>1
<1>13. ~InPlace(level)
  BY DEF InPlace
<1>14. mem[a].cap = Capacity[level] /\ a = Len(arrays) + 1 /\ a \in 1..Len(mem) /\ Len(mem) = a
  BY <1>9, <1>11, <1>m
<1>15. \A b \in 1..Len(arrays) :
         /\ mem[b].cap = arrays[b].cap
         /\ \A s \in 1..Depth : b # a \/ s # level => mem[b].segs[s] = arrays[b].segs[s]
  BY <1>11
<1>16. Len(mem) \in Nat /\ Len(arrays) <= Len(mem)
  BY <1>11
<1> QED
  BY <1>2, <1>11, <1>12, <1>13, <1>14, <1>15, <1>16 DEF Wrote

(* ... another writes behind the row of its parent or to a copy of it. *)
LEMMA AppendRowWrites ==
  ASSUME MemoryInv, level > 1, NEW its, NextItem(its),
         NEW mem, NEW a, MadeOfParent(Path(its, level), mem, a)
  PROVE  Wrote(its, mem, a)
<1>p. PICK p : p = Path(its, level)
  OBVIOUS
<1>m. mem = AppendRow(level, p) /\ a = IF HasRoom(level) THEN row[level - 1] ELSE Len(mem)
  BY <1>p DEF MadeOfParent
<1>1. /\ Depth \in Nat \ {0} /\ level \in 1..Depth /\ arrays \in Seq(Array)
      /\ items \in [1..Depth -> Nat] /\ Len(arrays) \in Nat
  BY DEF MemoryInv, ArraysTyped, Depth
<1>2. /\ its \in [1..Depth -> Nat] /\ its[level] > 0
      /\ \A i \in 1..Depth : i # level => its[i] = items[i]
  BY <1>1 DEF NextItem
<1>s. its \in Seq(Nat) /\ Len(its) = Depth /\ items \in Seq(Nat) /\ Len(items) = Depth
  <2>1. its \in Seq(Nat) /\ Len(its) = Depth
    BY <1>1, <1>2, FunctionsAreSequences
  <2>2. items \in Seq(Nat) /\ Len(items) = Depth
    BY <1>1, FunctionsAreSequences
  <2> QED
    BY <2>1, <2>2
<1>3. p \in Seq(Nat)
  BY <1>1, <1>p, <1>s, PathsAgree
<1>4. PICK r : r = row[level - 1]
  OBVIOUS
<1>5. /\ HasRoom(level) <=> InPlace(level)
      /\ r \in 1..Len(arrays) /\ arrays[r].cap = Capacity[level - 1]
      /\ \A s \in 1..(level - 1) : arrays[r].segs[s] = Path(items, s)
  BY <1>4, RoomIsKnown
<1>6. \A s \in 1..(level - 1) : Path(items, s) = Path(its, s)
  <2> SUFFICES ASSUME NEW s \in 1..(level - 1) PROVE Path(items, s) = Path(its, s)
    OBVIOUS
  <2>1. s \in Nat \ {0} /\ s <= Depth /\ \A i \in 1..s : items[i] = its[i]
    BY <1>1, <1>2
  <2> QED
    BY <1>s, <2>1, PathsAgree
<1>7. arrays[r] \in Array /\ arrays[r].segs \in [1..Depth -> Seq(Nat)] /\ arrays[r].cap \in Caps
  <2>1. arrays[r] \in Array
    BY <1>1, <1>5
  <2> QED
    BY <2>1 DEF Array
<1>8. \A s \in 1..level : s = level \/ s \in 1..(level - 1)
  BY <1>1
<1>9. CASE HasRoom(level)
  <2>1. mem = [arrays EXCEPT ![r].segs[level] = p]
    BY <1>4, <1>9, <1>m DEF AppendRow
  <2>2. PICK e : e = [arrays[r] EXCEPT !.segs[level] = p]
    OBVIOUS
  <2>3. e \in Array /\ e.cap = arrays[r].cap
    BY <1>1, <1>3, <1>7, <2>2 DEF Array
  <2>4. e.segs[level] = p /\ \A s \in 1..Depth : s # level => e.segs[s] = arrays[r].segs[s]
    BY <1>1, <1>3, <1>7, <2>2 DEF Array
  <2>5. mem = [arrays EXCEPT ![r] = e]
    BY <2>1, <2>2
  <2>6. /\ mem \in Seq(Array) /\ Len(mem) = Len(arrays)
        /\ mem[r] = e /\ \A b \in 1..Len(arrays) : b # r => mem[b] = arrays[b]
    BY <1>1, <1>5, <2>3, <2>5, ReplaceFacts
  <2>7. a = r
    BY <1>4, <1>9, <1>m
  <2>8. Capacity[level] = Capacity[level - 1]
    <3>1. Length[level] <= Capacity[level - 1]
      BY <1>5, <1>9 DEF InPlace
    <3> QED
      BY <1>1, <3>1, CapacityUnfolds
  <2>9. \A s \in 1..level : mem[a].segs[s] = Path(its, s)
    <3> SUFFICES ASSUME NEW s \in 1..level PROVE e.segs[s] = Path(its, s)
      BY <2>6, <2>7
    <3>1. CASE s = level
      BY <1>p, <2>4, <3>1
    <3>2. CASE s \in 1..(level - 1)
      <4>1. s \in 1..Depth /\ s # level
        BY <1>1, <3>2
      <4> QED
        BY <1>5, <1>6, <2>4, <3>2, <4>1
    <3> QED
      BY <1>8, <3>1, <3>2
  <2>10. \A b \in 1..Len(arrays) :
           /\ mem[b].cap = arrays[b].cap
           /\ \A s \in 1..Depth : b # a \/ s # level => mem[b].segs[s] = arrays[b].segs[s]
    BY <2>3, <2>4, <2>6, <2>7
  <2>11. mem[a].cap = Capacity[level]
    BY <1>5, <2>3, <2>6, <2>7, <2>8
  <2>12. InPlace(level) /\ a = row[level - 1] /\ a \in 1..Len(mem)
    BY <1>4, <1>5, <1>9, <2>6, <2>7
  <2>13. Len(mem) \in Nat /\ Len(arrays) <= Len(mem)
    BY <1>1, <2>6
  <2> QED
    BY <1>2, <2>6, <2>9, <2>10, <2>11, <2>12, <2>13 DEF Wrote
<1>10. CASE ~HasRoom(level)
  <2> DEFINE own == [s \in 1..Depth |-> IF s < level THEN arrays[r].segs[s]
                                        ELSE IF s = level THEN p ELSE <<>>]
             c == growslice(arrays[r].cap, Length[level])
  <2>1. mem = Append(arrays, [cap |-> c, segs |-> own])
    BY <1>4, <1>10, <1>m DEF AppendRow
  <2>2. own \in [1..Depth -> Seq(Nat)]
    <3>1. <<>> \in Seq(Nat)
      OBVIOUS
    <3> QED
      BY <1>1, <1>3, <1>7, <3>1
  <2>3. c = Capacity[level]
    <3>1. ~(Length[level] <= Capacity[level - 1]) /\ level # 1
      BY <1>1, <1>5, <1>10 DEF InPlace
    <3> QED
      BY <1>1, <1>5, <3>1, CapacityUnfolds
  <2>4. Capacity[level] \in Caps
    BY <1>1 DEF Caps
  <2>5. own[level] = p /\ \A s \in 1..(level - 1) : own[s] = arrays[r].segs[s]
    BY <1>1
  <2> HIDE DEF own, c
  <2>6. PICK e : e = [cap |-> c, segs |-> own]
    OBVIOUS
  <2>7. e \in Array /\ e.cap = Capacity[level] /\ e.segs = own
    BY <2>2, <2>3, <2>4, <2>6 DEF Array
  <2>8. /\ mem \in Seq(Array) /\ Len(mem) = Len(arrays) + 1
        /\ mem[Len(mem)] = e /\ \A b \in 1..Len(arrays) : mem[b] = arrays[b]
    BY <1>1, <2>1, <2>6, <2>7, AppendFacts
  <2>9. a = Len(mem)
    BY <1>10, <1>m
  <2>10. \A s \in 1..level : mem[a].segs[s] = Path(its, s)
    <3> SUFFICES ASSUME NEW s \in 1..level PROVE own[s] = Path(its, s)
      BY <2>7, <2>8, <2>9
    <3>1. CASE s = level
      BY <1>p, <2>5, <3>1
    <3>2. CASE s \in 1..(level - 1)
      BY <1>5, <1>6, <2>5, <3>2
    <3> QED
      BY <1>8, <3>1, <3>2
  <2>11. ~InPlace(level)
    BY <1>5, <1>10
  <2>12. mem[a].cap = Capacity[level] /\ a = Len(arrays) + 1 /\ a \in 1..Len(mem)
    BY <1>1, <2>7, <2>8, <2>9
  <2>13. \A b \in 1..Len(arrays) :
           /\ mem[b].cap = arrays[b].cap
           /\ \A s \in 1..Depth : b # a \/ s # level => mem[b].segs[s] = arrays[b].segs[s]
    BY <2>8
  <2>14. Len(mem) \in Nat /\ Len(arrays) <= Len(mem)
    BY <1>1, <2>8
  <2> QED
    BY <1>2, <2>8, <2>9, <2>10, <2>11, <2>12, <2>13, <2>14 DEF Wrote
<1> QED
  BY <1>9, <1>10

(* What depends on the chain stays. *)
LEMMA ChainStands ==
  ASSUME chain' = chain
  PROVE  /\ ChainTables' = ChainTables /\ Depth' = Depth /\ Length' = Length
         /\ Capacity' = Capacity
         /\ Own' = Own /\ Array' = Array /\ Single' = Single
<1>1. ChainTables' = ChainTables
  BY DEF ChainTables
<1>2. Depth' = Depth
  BY <1>1 DEF Depth
<1>3. Length' = Length
  BY <1>1 DEF Length
<1>4. Capacity' = Capacity
  BY <1>1, <1>2, <1>3 DEF Capacity
<1>5. Own' = Own
  BY <1>2, <1>3, <1>4 DEF Own
<1>6. Array' = Array
  BY <1>2, <1>3, <1>4 DEF Array, Caps
<1>7. Single' = Single
  BY <1>1, <1>2, <1>5 DEF Single
<1> QED
  BY <1>1, <1>2, <1>3, <1>4, <1>5, <1>6, <1>7

(* A step that writes a row and goes on with it. *)
Moves(its, mem, a) ==
  /\ HasItem(level) /\ chain' = chain /\ mapped' = mapped
  /\ row' = [row EXCEPT ![level] = a]
  /\ arrays' \in Seq(Array) /\ Len(mem) <= Len(arrays')
  /\ \A b \in 1..Len(mem) : arrays'[b] = mem[b]
  /\ items' \in [1..Depth -> Nat] /\ \A i \in 1..level : items'[i] = its[i]
  /\ level' = level \/ (level' = level + 1 /\ level < Depth /\ items'[level + 1] = 0)
  /\ \/ kept' = kept
     \/ /\ level = Depth
        /\ \E n \in 1..Len(arrays') :
             /\ kept' = Append(kept, [arr |-> n, path |-> Path(its, Depth)])
             /\ mapped = TRUE => n = Len(mem) + 1 /\ arrays'[n].segs = mem[a].segs
             /\ mapped # TRUE => n = a

(* Facts about such a step that the lemmas below share: where the row is. *)
LEMMA WhereItIs ==
  ASSUME MemoryInv, NEW its, NEW mem, NEW a, Wrote(its, mem, a), Moves(its, mem, a)
  PROVE  /\ Depth \in Nat \ {0} /\ level \in 1..Depth /\ Own \in 1..Depth
         /\ Len(arrays) \in Nat
         /\ row \in [1..Depth -> 0..Len(arrays)] /\ a \in Nat \ {0}
         /\ row'[level] = a /\ \A l \in 1..Depth : l # level => row'[l] = row[l]
         /\ level = Own => a = Len(arrays) + 1
         /\ level > Own =>
              level - 1 \in Own..Depth /\ a = row[level - 1] /\ a = row[Own]
         /\ level < Own /\ a # Len(arrays) + 1 =>
              level - 1 \in 1..(Own - 1) /\ a = row[level - 1] /\ row[level - 1] # 0
<1>1. /\ Depth \in Nat \ {0} /\ level \in 1..Depth /\ Len(arrays) \in Nat
      /\ row \in [1..Depth -> 0..Len(arrays)]
  BY DEF MemoryInv, ArraysTyped, Depth
<1>2. Own \in 1..Depth /\ ~InPlace(Own) /\ \A l \in (Own + 1)..Depth : InPlace(l)
  BY <1>1, OwnIsLast
<1>3. /\ a \in 1..Len(mem) /\ Len(mem) \in Nat
      /\ InPlace(level) => level > 1 /\ a = row[level - 1] /\ Len(mem) = Len(arrays)
      /\ ~InPlace(level) => a = Len(arrays) + 1
  BY DEF Wrote
<1>4. row'[level] = a /\ \A l \in 1..Depth : l # level => row'[l] = row[l]
  BY <1>1 DEF Moves
<1>5. level = Own => a = Len(arrays) + 1
  BY <1>2, <1>3
<1>6. ASSUME level > Own
      PROVE  level - 1 \in Own..Depth /\ a = row[level - 1] /\ a = row[Own]
  <2>1. /\ level \in (Own + 1)..Depth /\ level - 1 \in Own..Depth
        /\ level - 1 \in 1..level /\ level - 1 < level
    BY <1>1, <1>2, <1>6
  <2>2. a = row[level - 1]
    BY <1>2, <1>3, <2>1
  <2>3. row[level - 1] = row[Own]
    <3>1. CASE level - 1 = Own
      BY <3>1
    <3>2. CASE level - 1 # Own
      <4>1. Read(level - 1) /\ level - 1 > Own
        BY <1>2, <2>1, <3>2 DEF Read
      <4> QED
        BY <2>1, <4>1 DEF MemoryInv, CurrentRows
    <3> QED
      BY <3>1, <3>2
  <2> QED
    BY <2>1, <2>2, <2>3
<1>7. ASSUME level < Own, a # Len(arrays) + 1
      PROVE  level - 1 \in 1..(Own - 1) /\ a = row[level - 1] /\ row[level - 1] # 0
  <2>1. level > 1 /\ a = row[level - 1]
    BY <1>3, <1>7
  <2>2. level - 1 \in 1..(Own - 1)
    BY <1>1, <1>2, <1>7, <2>1
  <2> QED
    BY <1>3, <2>1, <2>2
<1>8. a \in Nat \ {0}
  BY <1>3
<1> QED
  BY <1>1, <1>2, <1>4, <1>5, <1>6, <1>7, <1>8

(* The current rows stay: what is written is behind them. *)
LEMMA CurrentRowsMove ==
  ASSUME MemoryInv, NEW its, NEW mem, NEW a, Wrote(its, mem, a), Moves(its, mem, a)
  PROVE  CurrentRows'
<1>1. /\ Depth \in Nat \ {0} /\ level \in 1..Depth /\ Own \in 1..Depth
      /\ Len(arrays) \in Nat
      /\ row \in [1..Depth -> 0..Len(arrays)] /\ a \in Nat \ {0}
      /\ row'[level] = a /\ \A l \in 1..Depth : l # level => row'[l] = row[l]
      /\ level > Own => a = row[Own]
  BY WhereItIs
<1>2. Capacity' = Capacity /\ Own' = Own
  BY ChainStands DEF Moves
<1>3. /\ its \in [1..Depth -> Nat] /\ its[level] > 0
      /\ \A i \in 1..Depth : i # level => its[i] = items[i]
      /\ items' \in [1..Depth -> Nat] /\ \A i \in 1..level : items'[i] = its[i]
      /\ items \in [1..Depth -> Nat]
  BY DEF Wrote, Moves, MemoryInv, ArraysTyped
<1>4. /\ Len(mem) \in Nat /\ Len(arrays) <= Len(mem) /\ a \in 1..Len(mem)
      /\ mem[a].cap = Capacity[level]
      /\ \A s \in 1..level : mem[a].segs[s] = Path(its, s)
      /\ \A b \in 1..Len(mem) : arrays'[b] = mem[b]
  BY DEF Wrote, Moves
<1>5. \A b \in 1..Len(arrays) :
        /\ mem[b].cap = arrays[b].cap
        /\ \A s \in 1..Depth : b # a \/ s # level => mem[b].segs[s] = arrays[b].segs[s]
  BY DEF Wrote
<1>6. level' = level \/ (level' = level + 1 /\ level < Depth /\ items'[level + 1] = 0)
  BY DEF Moves
<1>7. /\ items \in Seq(Nat) /\ Len(items) = Depth /\ its \in Seq(Nat) /\ Len(its) = Depth
      /\ items' \in Seq(Nat) /\ Len(items') = Depth
  <2>1. items \in Seq(Nat) /\ Len(items) = Depth
    BY <1>1, <1>3, FunctionsAreSequences
  <2>2. its \in Seq(Nat) /\ Len(its) = Depth
    BY <1>1, <1>3, FunctionsAreSequences
  <2>3. items' \in Seq(Nat) /\ Len(items') = Depth
    BY <1>1, <1>3, FunctionsAreSequences
  <2> QED
    BY <2>1, <2>2, <2>3
<1> SUFFICES ASSUME NEW l \in 1..level', Read(l)'
             PROVE  /\ items'[l] > 0 /\ row'[l] # 0
                    /\ arrays'[row'[l]].cap = Capacity[l]
                    /\ \A s \in 1..l : arrays'[row'[l]].segs[s] = Path(items', s)
                    /\ l > Own => row'[l] = row'[Own]
  BY <1>2 DEF CurrentRows, Path
<1>8. l \in 1..level
  <2>1. CASE level' = level
    BY <2>1
  <2>2. CASE level' = level + 1 /\ items'[level + 1] = 0
    BY <1>1, <2>2 DEF Read
  <2> QED
    BY <1>6, <2>1, <2>2
<1>9. \A s \in 1..l : Path(its, s) = Path(items', s)
  <2> SUFFICES ASSUME NEW s \in 1..l PROVE Path(its, s) = Path(items', s)
    OBVIOUS
  <2>1. s \in Nat \ {0} /\ s <= Depth /\ \A i \in 1..s : its[i] = items'[i]
    BY <1>1, <1>3, <1>8
  <2>2. PICK f : f = items'
    OBVIOUS
  <2>3. f \in Seq(Nat) /\ s <= Len(f) /\ s <= Len(its) /\ \A i \in 1..s : its[i] = f[i]
    BY <1>7, <2>1, <2>2
  <2>4. Path(its, s) = Path(f, s)
    BY <1>7, <2>1, <2>3, PathsAgree
  <2> QED
    BY <2>2, <2>4 DEF Path
<1>10. CASE l = level
  <2>1. items'[l] > 0 /\ row'[l] = a
    BY <1>1, <1>3, <1>10
  <2>2. arrays'[a].cap = Capacity[l] /\ \A s \in 1..l : arrays'[a].segs[s] = Path(items', s)
    BY <1>4, <1>9, <1>10
  <2>3. l > Own => row'[Own] = row[Own] /\ a = row[Own]
    BY <1>1, <1>10
  <2> QED
    BY <1>1, <2>1, <2>2, <2>3
<1>11. CASE l < level
  <2>1. l \in 1..Depth /\ l # level /\ row'[l] = row[l]
    BY <1>1, <1>8, <1>11
  <2>2. /\ items[l] > 0 /\ row[l] # 0 /\ arrays[row[l]].cap = Capacity[l]
        /\ \A s \in 1..l : arrays[row[l]].segs[s] = Path(items, s)
        /\ l > Own => row[l] = row[Own]
    BY <1>8, <1>11 DEF MemoryInv, CurrentRows, Read
  <2>3. row[l] \in 1..Len(arrays) /\ row[l] \in 1..Len(mem)
    BY <1>1, <1>4, <2>1, <2>2
  <2>4. arrays'[row[l]].cap = Capacity[l]
    BY <1>4, <1>5, <2>2, <2>3
  <2>5. \A s \in 1..l : arrays'[row[l]].segs[s] = Path(items', s)
    <3> SUFFICES ASSUME NEW s \in 1..l PROVE arrays'[row[l]].segs[s] = Path(items', s)
      OBVIOUS
    <3>1. s \in 1..Depth /\ s # level
      BY <1>1, <1>8, <1>11
    <3>2. arrays'[row[l]].segs[s] = arrays[row[l]].segs[s]
      BY <1>4, <1>5, <2>3, <3>1
    <3>3. Path(items, s) = Path(its, s)
      <4>1. s \in Nat \ {0} /\ s <= Depth /\ \A i \in 1..s : items[i] = its[i]
        BY <1>1, <1>3, <1>8, <1>11
      <4>2. s <= Len(items) /\ s <= Len(its)
        BY <1>7, <4>1
      <4> QED
        BY <1>7, <4>1, <4>2, PathsAgree
    <3> QED
      BY <1>9, <2>2, <3>2, <3>3
  <2>6. l > Own => row'[Own] = row[Own]
    BY <1>1, <1>11
  <2>7. items'[l] > 0
    BY <1>3, <1>8, <2>1, <2>2
  <2> QED
    BY <2>1, <2>2, <2>4, <2>5, <2>6, <2>7
<1> QED
  BY <1>1, <1>8, <1>10, <1>11

(* The arrays that rows before table Own are in are not handed out. *)
LEMMA ApartMoves ==
  ASSUME MemoryInv, NEW its, NEW mem, NEW a, Wrote(its, mem, a), Moves(its, mem, a)
  PROVE  Apart'
<1>1. /\ Depth \in Nat \ {0} /\ level \in 1..Depth /\ Own \in 1..Depth
      /\ Len(arrays) \in Nat
      /\ row \in [1..Depth -> 0..Len(arrays)] /\ a \in Nat \ {0}
      /\ row'[level] = a /\ \A l \in 1..Depth : l # level => row'[l] = row[l]
      /\ level = Own => a = Len(arrays) + 1
      /\ level > Own => level - 1 \in Own..Depth /\ a = row[level - 1]
      /\ level < Own /\ a # Len(arrays) + 1 =>
           level - 1 \in 1..(Own - 1) /\ a = row[level - 1] /\ row[level - 1] # 0
  BY WhereItIs
<1>2. Depth' = Depth /\ Own' = Own /\ mapped' = mapped
  BY ChainStands DEF Moves
<1>3. kept \in Seq([arr : 1..Len(arrays), path : Seq(Nat)])
  BY DEF MemoryInv, ArraysTyped
<1>4. \A k \in DOMAIN kept : kept[k].arr \in 1..Len(arrays)
  <2> SUFFICES ASSUME NEW k \in DOMAIN kept PROVE kept[k].arr \in 1..Len(arrays)
    OBVIOUS
  <2>1. kept[k] \in [arr : 1..Len(arrays), path : Seq(Nat)]
    BY <1>3, ElementFacts
  <2> QED
    BY <2>1
<1>5. Len(mem) \in Nat /\ Len(arrays) <= Len(mem) /\ a \in 1..Len(mem)
  BY DEF Wrote
<1>6. \A l \in 1..(Own - 1) : row[l] # 0 =>
        /\ \A m \in Own..Depth : row[m] # row[l]
        /\ \A k \in DOMAIN kept : kept[k].arr # row[l]
  BY DEF MemoryInv, Apart
<1>7. ASSUME NEW l \in 1..(Own - 1), row'[l] # 0
      PROVE  /\ \A m \in Own..Depth : row'[m] # row'[l]
             /\ \A k \in DOMAIN kept : kept[k].arr # row'[l]
  <2>0. l \in 1..Depth /\ row[l] \in 0..Len(arrays)
    BY <1>1
  <2>1. CASE l = level
    <3>1. \A m \in Own..Depth : row'[m] = row[m] /\ row[m] \in 0..Len(arrays)
      BY <1>1, <2>1
    <3>2. CASE a = Len(arrays) + 1
      <4>1. \A m \in Own..Depth : row'[m] # a
        BY <1>1, <3>1, <3>2
      <4>2. \A k \in DOMAIN kept : kept[k].arr # a
        BY <1>1, <1>4, <3>2
      <4> QED
        BY <1>1, <2>1, <4>1, <4>2
    <3>3. CASE a # Len(arrays) + 1
      <4>1. level - 1 \in 1..(Own - 1) /\ a = row[level - 1] /\ row[level - 1] # 0
        BY <1>1, <2>1, <3>3
      <4> QED
        BY <1>1, <1>6, <2>1, <3>1, <4>1
    <3> QED
      BY <3>2, <3>3
  <2>2. CASE l # level
    <3>1. row'[l] = row[l] /\ row[l] # 0
      BY <1>1, <1>7, <2>0, <2>2
    <3>2. ASSUME NEW m \in Own..Depth PROVE row'[m] # row[l]
      <4>1. CASE m # level
        BY <1>1, <1>6, <3>1, <4>1
      <4>2. CASE m = level /\ level = Own
        BY <1>1, <2>0, <4>2
      <4>3. CASE m = level /\ level > Own
        BY <1>1, <1>6, <3>1, <4>3
      <4> QED
        BY <1>1, <4>1, <4>2, <4>3
    <3> QED
      BY <1>6, <3>1, <3>2
  <2> QED
    BY <2>1, <2>2
<1>8. ASSUME mapped = TRUE, NEW k \in DOMAIN kept, NEW l \in 1..Depth PROVE kept[k].arr # row'[l]
  <2>1. \A m \in 1..Depth : kept[k].arr # row[m]
    BY <1>8 DEF MemoryInv, Apart
  <2>2. CASE l # level
    BY <1>1, <2>1, <2>2
  <2>3. CASE l = level /\ a = Len(arrays) + 1
    BY <1>1, <1>4, <2>3
  <2>4. CASE l = level /\ a # Len(arrays) + 1
    <3>1. level - 1 \in 1..Depth /\ a = row[level - 1]
      BY <1>1, <2>4
    <3> QED
      BY <1>1, <2>1, <2>4, <3>1
  <2> QED
    BY <2>2, <2>3, <2>4
<1>9. ASSUME NEW n, level = Depth, mapped = TRUE => n = Len(mem) + 1, mapped # TRUE => n = a
      PROVE  /\ \A l \in 1..(Own - 1) : row'[l] # 0 => n # row'[l]
             /\ mapped = TRUE => \A l \in 1..Depth : n # row'[l]
  <2>1. \A l \in 1..Depth : row'[l] \in 0..Len(mem)
    BY <1>1, <1>5
  <2>2. CASE mapped = TRUE
    BY <1>1, <1>5, <1>9, <2>1, <2>2
  <2>3. CASE mapped # TRUE
    <3>1. level \in Own..Depth /\ row'[level] = n
      BY <1>1, <1>9, <2>3
    <3> QED
      BY <1>7, <2>3, <3>1
  <2> QED
    BY <2>2, <2>3
<1>10. CASE kept' = kept
  BY <1>2, <1>7, <1>8, <1>10 DEF Apart
<1>11. CASE /\ level = Depth
            /\ \E n \in 1..Len(arrays') :
                 /\ kept' = Append(kept, [arr |-> n, path |-> Path(its, Depth)])
                 /\ mapped = TRUE => n = Len(mem) + 1 /\ arrays'[n].segs = mem[a].segs
                 /\ mapped # TRUE => n = a
  <2>1. PICK n \in 1..Len(arrays') :
          /\ kept' = Append(kept, [arr |-> n, path |-> Path(its, Depth)])
          /\ mapped = TRUE => n = Len(mem) + 1
          /\ mapped # TRUE => n = a
    BY <1>11
  <2>2. \A k \in DOMAIN kept' : (k \in DOMAIN kept /\ kept'[k] = kept[k]) \/ kept'[k].arr = n
    BY <1>3, <2>1
  <2>3. /\ \A l \in 1..(Own - 1) : row'[l] # 0 => n # row'[l]
        /\ mapped = TRUE => \A l \in 1..Depth : n # row'[l]
    BY <1>9, <1>11, <2>1
  <2>4. \A l \in 1..(Own - 1) : row'[l] # 0 => \A k \in DOMAIN kept' : kept'[k].arr # row'[l]
    BY <1>7, <2>2, <2>3
  <2>5. mapped = TRUE => \A k \in DOMAIN kept' : \A l \in 1..Depth : kept'[k].arr # row'[l]
    BY <1>8, <2>2, <2>3
  <2> QED
    BY <1>2, <1>7, <2>4, <2>5 DEF Apart
<1> QED
  BY <1>10, <1>11 DEF Moves

(* A table with one row at most has an item to read only if it has read none. *)
LEMMA SingleHasOne ==
  ASSUME MemoryInv, Single, level > Own, Own \in 1..Depth, HasItem(level)
  PROVE  ~(items[level] > 0)
<1>1. Depth \in Nat /\ level \in 1..Depth /\ items[level] \in Nat
  BY DEF MemoryInv, ArraysTyped, Depth
<1>2. level \in (Own + 1)..Depth
  BY <1>1
<1>3. ChainTables[level].many # TRUE
  BY <1>2 DEF Single
<1>4. ChainTables[level].many \in BOOLEAN
  <2>1. ChainTables \in Seq([width : Nat \ {0}, many : BOOLEAN]) /\ level \in DOMAIN ChainTables
    BY <1>1 DEF MemoryInv, ArraysTyped, Depth
  <2>2. ChainTables[level] \in [width : Nat \ {0}, many : BOOLEAN]
    BY <2>1, ElementFacts
  <2> QED
    BY <2>2
<1>5. ~ChainTables[level].many
  BY <1>3, <1>4
<1> QED
  BY <1>1, <1>5 DEF HasItem

(* What was handed out before the step. *)
LEMMA OldRowsStay ==
  ASSUME MemoryInv, NEW its, NEW mem, NEW a, Wrote(its, mem, a), Moves(its, mem, a),
         NEW k \in DOMAIN kept
  PROVE  /\ \A s \in 1..Depth : mapped = TRUE \/ s <= Own \/ Single =>
              arrays'[kept[k].arr].segs[s] = SubSeq(kept[k].path, 1, s)
         /\ Single /\ mapped # TRUE /\ kept[k].arr = row'[Own] =>
              \A l \in (Own + 1)..level' : items'[l] > 0
<1>1. /\ Depth \in Nat \ {0} /\ level \in 1..Depth /\ Own \in 1..Depth
      /\ Len(arrays) \in Nat
      /\ row \in [1..Depth -> 0..Len(arrays)] /\ a \in Nat \ {0}
      /\ row'[level] = a /\ \A l \in 1..Depth : l # level => row'[l] = row[l]
      /\ level = Own => a = Len(arrays) + 1
      /\ level > Own =>
           level - 1 \in Own..Depth /\ a = row[level - 1] /\ a = row[Own]
      /\ level < Own /\ a # Len(arrays) + 1 =>
           level - 1 \in 1..(Own - 1) /\ a = row[level - 1] /\ row[level - 1] # 0
  BY WhereItIs
<1>2. PICK b : b = kept[k].arr
  OBVIOUS
<1>3. b \in 1..Len(arrays)
  <2>1. kept[k] \in [arr : 1..Len(arrays), path : Seq(Nat)]
    BY ElementFacts DEF MemoryInv, ArraysTyped
  <2> QED
    BY <1>2, <2>1
<1>4. b # Len(arrays) + 1
  BY <1>1, <1>3
<1>5. HasItem(level)
  BY DEF Moves
<1>6. /\ \A s \in 1..Depth : mapped = TRUE \/ s <= Own \/ Single =>
           arrays[b].segs[s] = SubSeq(kept[k].path, 1, s)
      /\ Single /\ mapped # TRUE /\ b = row[Own] => \A l \in (Own + 1)..level : items[l] > 0
  BY <1>2 DEF MemoryInv, KeptRows, Intact
<1>7. ASSUME b = a, mapped = TRUE PROVE FALSE
  <2>1. level - 1 \in 1..Depth /\ a = row[level - 1]
    BY <1>1, <1>4, <1>7
  <2> QED
    BY <1>2, <1>7, <2>1 DEF MemoryInv, Apart
<1>8. ASSUME b = a, level <= Own PROVE FALSE
  <2>1. level - 1 \in 1..(Own - 1) /\ a = row[level - 1] /\ row[level - 1] # 0
    BY <1>1, <1>4, <1>8
  <2> QED
    BY <1>2, <1>8, <2>1 DEF MemoryInv, Apart
<1>9. ASSUME Single, mapped # TRUE, b = row[Own], level > Own PROVE FALSE
  <2>1. level \in (Own + 1)..level
    BY <1>1, <1>9
  <2>2. items[level] > 0
    BY <1>6, <1>9, <2>1
  <2> QED
    BY <1>1, <1>5, <1>9, <2>2, SingleHasOne
<1>10. ASSUME NEW s \in 1..Depth, mapped = TRUE \/ s <= Own \/ Single
       PROVE  arrays'[b].segs[s] = SubSeq(kept[k].path, 1, s)
  <2>1. CASE b # a \/ s # level
    <3>1. arrays'[b] = mem[b]
      <4>1. /\ \A i \in 1..Len(mem) : arrays'[i] = mem[i]
            /\ Len(mem) \in Nat /\ Len(arrays) <= Len(mem)
        BY DEF Wrote, Moves
      <4>2. b \in 1..Len(mem)
        BY <1>1, <1>3, <4>1
      <4> QED
        BY <4>1, <4>2
    <3>2. mem[b].segs[s] = arrays[b].segs[s]
      BY <1>3, <2>1 DEF Wrote
    <3> QED
      BY <1>6, <1>10, <3>1, <3>2
  <2>2. CASE b = a /\ s = level
    <3>1. level > Own
      BY <1>1, <1>8, <2>2
    <3>2. mapped # TRUE
      BY <1>7, <2>2
    <3>3. Single
      <4>1. ~(s <= Own)
        BY <1>1, <2>2, <3>1
      <4> QED
        BY <1>10, <3>2, <4>1, Zenon
    <3> QED
      BY <1>1, <1>9, <2>2, <3>1, <3>2, <3>3
  <2> QED
    BY <2>1, <2>2
<1>11. ASSUME Single, mapped # TRUE, b = row'[Own], NEW l \in (Own + 1)..level'
       PROVE  items'[l] > 0
  <2>1. level # Own
    BY <1>1, <1>4, <1>11
  <2>2. b = row[Own]
    BY <1>1, <1>11, <2>1
  <2>3. ~(level > Own)
    BY <1>9, <1>11, <2>2
  <2>4. level' = level \/ level' = level + 1
    BY DEF Moves
  <2> QED
    BY <1>1, <2>1, <2>3, <2>4
<1> QED
  BY <1>2, <1>10, <1>11

(* What the step hands out. *)
LEMMA NewRowIsIntact ==
  ASSUME MemoryInv, NEW its, NEW mem, NEW a, Wrote(its, mem, a), Moves(its, mem, a),
         level = Depth, NEW n \in 1..Len(arrays'),
         mapped = TRUE => n = Len(mem) + 1 /\ arrays'[n].segs = mem[a].segs,
         mapped # TRUE => n = a
  PROVE  /\ \A s \in 1..Depth : arrays'[n].segs[s] = SubSeq(Path(its, Depth), 1, s)
         /\ \A l \in (Own + 1)..level' : items'[l] > 0
<1>1. Depth \in Nat \ {0} /\ level \in 1..Depth /\ Own \in 1..Depth
  BY WhereItIs
<1>2. /\ its \in [1..Depth -> Nat] /\ its[level] > 0 /\ a \in 1..Len(mem)
      /\ \A i \in 1..Depth : i # level => its[i] = items[i]
      /\ \A s \in 1..level : mem[a].segs[s] = Path(its, s)
      /\ \A i \in 1..Len(mem) : arrays'[i] = mem[i]
      /\ \A i \in 1..level : items'[i] = its[i]
  BY DEF Wrote, Moves
<1>3. arrays'[n].segs = mem[a].segs
  <2>1. CASE mapped = TRUE
    BY <2>1
  <2>2. CASE mapped # TRUE
    BY <1>2, <2>2
  <2> QED
    BY <2>1, <2>2
<1>4. ASSUME NEW s \in 1..Depth
      PROVE  arrays'[n].segs[s] = SubSeq(Path(its, Depth), 1, s)
  <2>1. Depth \in Nat /\ Depth \in 1..Depth
    BY <1>1
  <2>2. SubSeq(Path(its, Depth), 1, s) = Path(its, s)
    BY <1>2, <2>1, PartsOfPaths
  <2> QED
    BY <1>2, <1>3, <2>2
<1>5. ASSUME NEW l \in (Own + 1)..level' PROVE items'[l] > 0
  <2>1. level' = level
    BY <1>1 DEF Moves
  <2>2. l \in 1..level /\ l \in 1..Depth
    BY <1>1, <1>5, <2>1
  <2>3. CASE l = level
    BY <1>2, <2>2, <2>3
  <2>4. CASE l # level
    <3>1. Read(l)
      BY <1>1, <2>2, <2>4 DEF Read
    <3>2. items[l] > 0
      BY <2>2, <3>1 DEF MemoryInv, CurrentRows
    <3> QED
      BY <1>2, <2>2, <2>4, <3>2
  <2> QED
    BY <2>3, <2>4
<1> QED
  BY <1>4, <1>5

(* The last element of kept', or an earlier one. *)
LEMMA LastOrEarlier ==
  ASSUME NEW S, NEW s \in Seq(S), NEW e \in S, NEW t, t = Append(s, e), NEW k \in DOMAIN t
  PROVE  (k \in DOMAIN s /\ t[k] = s[k]) \/ t[k] = e
<1>1. DOMAIN t = 1..(Len(s) + 1) /\ DOMAIN s = 1..Len(s) /\ Len(s) \in Nat
  OBVIOUS
<1> QED
  BY <1>1

(* A sequence over a set is one over a larger set. *)
LEMMA SequencesWiden ==
  ASSUME NEW S, NEW T, S \subseteq T, NEW s \in Seq(S)
  PROVE  s \in Seq(T)
OBVIOUS

(* The rows that were handed out stay as KeptRows says, and the new one is like them. *)
LEMMA KeptRowsMove ==
  ASSUME MemoryInv, NEW its, NEW mem, NEW a, Wrote(its, mem, a), Moves(its, mem, a)
  PROVE  KeptRows'
<1>1. Depth' = Depth /\ Own' = Own /\ mapped' = mapped /\ Single' = Single
  BY ChainStands DEF Moves
<1>2. \A k \in DOMAIN kept :
        /\ \A s \in 1..Depth : mapped = TRUE \/ s <= Own \/ Single =>
             arrays'[kept[k].arr].segs[s] = SubSeq(kept[k].path, 1, s)
        /\ Single /\ mapped # TRUE /\ kept[k].arr = row'[Own] =>
             \A l \in (Own + 1)..level' : items'[l] > 0
  BY OldRowsStay
<1> SUFFICES ASSUME NEW k \in DOMAIN kept'
             PROVE  /\ \A s \in 1..Depth : mapped = TRUE \/ s <= Own \/ Single =>
                         arrays'[kept'[k].arr].segs[s] = SubSeq(kept'[k].path, 1, s)
                    /\ Single /\ mapped # TRUE /\ kept'[k].arr = row'[Own] =>
                         \A l \in (Own + 1)..level' : items'[l] > 0
  BY <1>1 DEF KeptRows, Intact
<1>3. CASE kept' = kept
  BY <1>2, <1>3
<1>4. CASE /\ level = Depth
           /\ \E n \in 1..Len(arrays') :
                /\ kept' = Append(kept, [arr |-> n, path |-> Path(its, Depth)])
                /\ mapped = TRUE => n = Len(mem) + 1 /\ arrays'[n].segs = mem[a].segs
                /\ mapped # TRUE => n = a
  <2>1. PICK n \in 1..Len(arrays') :
          /\ kept' = Append(kept, [arr |-> n, path |-> Path(its, Depth)])
          /\ mapped = TRUE => n = Len(mem) + 1 /\ arrays'[n].segs = mem[a].segs
          /\ mapped # TRUE => n = a
    BY <1>4
  <2>2. PICK e : e = [arr |-> n, path |-> Path(its, Depth)]
    OBVIOUS
  <2>3. e.arr = n /\ e.path = Path(its, Depth)
    BY <2>2
  <2>4. (k \in DOMAIN kept /\ kept'[k] = kept[k]) \/ kept'[k] = e
    <3>1. kept \in Seq([arr : 1..Len(arrays), path : Seq(Nat)])
      BY DEF MemoryInv, ArraysTyped
    <3>2. PICK S : S = [arr : 1..Len(arrays), path : Seq(Nat)] \union {e}
      OBVIOUS
    <3>3. e \in S /\ kept \in Seq(S)
      BY <3>1, <3>2, SequencesWiden
    <3>4. kept' = Append(kept, e)
      BY <2>1, <2>2
    <3> QED
      BY <3>3, <3>4, LastOrEarlier
  <2>5. /\ \A s \in 1..Depth : arrays'[n].segs[s] = SubSeq(Path(its, Depth), 1, s)
        /\ \A l \in (Own + 1)..level' : items'[l] > 0
    <3>1. level = Depth
      BY <1>4
    <3> QED
      BY <2>1, <3>1, NewRowIsIntact
  <2>6. CASE k \in DOMAIN kept /\ kept'[k] = kept[k]
    BY <1>2, <2>6
  <2>7. CASE kept'[k] = e
    BY <2>3, <2>5, <2>7
  <2> QED
    BY <2>4, <2>6, <2>7
<1> QED
  BY <1>3, <1>4 DEF Moves

(* The types are kept. *)
LEMMA ArraysTypedMove ==
  ASSUME MemoryInv, NEW its, NEW mem, NEW a, Wrote(its, mem, a), Moves(its, mem, a)
  PROVE  ArraysTyped'
<1>1. ChainTables' = ChainTables /\ Depth' = Depth /\ Array' = Array
  BY ChainStands DEF Moves
<1>2. /\ Depth \in Nat \ {0} /\ level \in 1..Depth /\ Len(arrays) \in Nat
      /\ row \in [1..Depth -> 0..Len(arrays)]
  BY WhereItIs
<1>3. /\ arrays' \in Seq(Array) /\ items' \in [1..Depth -> Nat]
      /\ row' = [row EXCEPT ![level] = a] /\ Len(mem) <= Len(arrays')
      /\ level' = level \/ (level' = level + 1 /\ level < Depth)
  BY DEF Moves
<1>4. Len(mem) \in Nat /\ Len(arrays) <= Len(mem) /\ a \in 1..Len(mem)
  BY DEF Wrote
<1>5. Len(arrays') \in Nat /\ Len(arrays) <= Len(arrays') /\ a \in 0..Len(arrays')
  BY <1>2, <1>3, <1>4
<1>6. row' \in [1..Depth -> 0..Len(arrays')]
  <2>1. \A l \in 1..Depth : row[l] \in 0..Len(arrays')
    BY <1>2, <1>5
  <2>2. row \in [1..Depth -> 0..Len(arrays')]
    BY <1>2, <2>1
  <2> QED
    BY <1>3, <1>5, <2>2
<1>7. level' \in 1..Depth
  BY <1>2, <1>3
<1>8. /\ kept' \in Seq([arr : 1..Len(arrays'), path : Seq(Nat)])
      /\ \A k \in DOMAIN kept' : Len(kept'[k].path) = Depth
  <2>1. PICK S : S = [arr : 1..Len(arrays'), path : Seq(Nat)]
    OBVIOUS
  <2>2. /\ kept \in Seq([arr : 1..Len(arrays), path : Seq(Nat)])
        /\ \A k \in DOMAIN kept : Len(kept[k].path) = Depth
    BY DEF MemoryInv, ArraysTyped
  <2>3. [arr : 1..Len(arrays), path : Seq(Nat)] \subseteq S
    BY <1>2, <1>5, <2>1
  <2>4. kept \in Seq(S)
    BY <2>2, <2>3, SequencesWiden
  <2>5. CASE kept' = kept
    BY <2>1, <2>2, <2>4, <2>5
  <2>6. CASE /\ level = Depth
             /\ \E n \in 1..Len(arrays') :
                  /\ kept' = Append(kept, [arr |-> n, path |-> Path(its, Depth)])
                  /\ mapped = TRUE => n = Len(mem) + 1 /\ arrays'[n].segs = mem[a].segs
                  /\ mapped # TRUE => n = a
    <3>1. PICK n \in 1..Len(arrays') :
            kept' = Append(kept, [arr |-> n, path |-> Path(its, Depth)])
      BY <2>6
    <3>2. PICK e : e = [arr |-> n, path |-> Path(its, Depth)]
      OBVIOUS
    <3>3. Path(its, Depth) \in Seq(Nat) /\ Len(Path(its, Depth)) = Depth
      <4>1. its \in [1..Depth -> Nat] /\ Depth \in Nat
        BY <1>2 DEF Wrote
      <4>2. its \in Seq(Nat) /\ Len(its) = Depth
        BY <4>1, FunctionsAreSequences
      <4>3. Depth \in Nat \ {0} /\ Depth <= Len(its)
        BY <1>2, <4>2
      <4> QED
        BY <4>2, <4>3, PathsAgree
    <3>4. e \in S /\ e.path = Path(its, Depth)
      BY <2>1, <3>2, <3>3
    <3>5. kept' = Append(kept, e)
      BY <3>1, <3>2
    <3>6. kept' \in Seq(S)
      BY <2>4, <3>4, <3>5, AppendFacts
    <3>7. ASSUME NEW k \in DOMAIN kept' PROVE Len(kept'[k].path) = Depth
      <4>1. (k \in DOMAIN kept /\ kept'[k] = kept[k]) \/ kept'[k] = e
        BY <2>4, <3>4, <3>5, LastOrEarlier
      <4> QED
        BY <2>2, <3>3, <3>4, <4>1
    <3> QED
      BY <2>1, <3>6, <3>7
  <2> QED
    BY <2>5, <2>6 DEF Moves
<1>9. ChainTables \in Seq([width : Nat \ {0}, many : BOOLEAN]) /\ ChainTables # <<>>
  BY DEF MemoryInv, ArraysTyped
<1> QED
  BY <1>1, <1>3, <1>6, <1>7, <1>8, <1>9 DEF ArraysTyped

(* A step that writes a row keeps the invariant. *)
LEMMA MoveKeepsInv ==
  ASSUME MemoryInv, NEW its, NEW mem, NEW a, Wrote(its, mem, a), Moves(its, mem, a)
  PROVE  MemoryInv'
BY ArraysTypedMove, CurrentRowsMove, ApartMoves, KeptRowsMove DEF MemoryInv

(* The row that the iterator makes, in the terms of Accept and Reject. *)
Made(p, mem, a) ==
  /\ mem = IF level = 1 THEN NewRow(p) ELSE AppendRow(level, p)
  /\ a = IF level > 1 /\ HasRoom(level) THEN row[level - 1] ELSE Len(mem)

(* Either way of making a row writes it as Wrote says. *)
LEMMA MadeIsWritten ==
  ASSUME MemoryInv, NEW its, NextItem(its), NEW mem, NEW a, Made(Path(its, level), mem, a)
  PROVE  Wrote(its, mem, a)
<1>1. level \in Nat /\ level >= 1
  BY DEF MemoryInv, ArraysTyped
<1>2. CASE level = 1
  <2>1. MadeNew(Path(its, level), mem, a)
    BY <1>2 DEF Made, MadeNew
  <2> QED
    BY <1>2, <2>1, NewRowWrites
<1>3. CASE level > 1
  <2>1. MadeOfParent(Path(its, level), mem, a)
    BY <1>1, <1>3 DEF Made, MadeOfParent
  <2> QED
    BY <1>3, <2>1, AppendRowWrites
<1> QED
  BY <1>1, <1>2, <1>3

(* chainableRowIter.Next and schemaMapperIter.Next hand out the row. *)
HandedOut(its, mem, a) ==
  /\ arrays' \in Seq(Array) /\ Len(mem) <= Len(arrays')
  /\ \A b \in 1..Len(mem) : arrays'[b] = mem[b]
  /\ \E n \in 1..Len(arrays') :
       /\ kept' = Append(kept, [arr |-> n, path |-> Path(its, Depth)])
       /\ mapped = TRUE => n = Len(mem) + 1 /\ arrays'[n].segs = mem[a].segs
       /\ mapped # TRUE => n = a

(* Whether the row is copied or not, what is handed out is the row. *)
LEMMA DeliverHandsOut ==
  ASSUME NEW its, NEW mem, NEW a, Wrote(its, mem, a), Deliver(mem, a, Path(its, Depth))
  PROVE  HandedOut(its, mem, a)
<1>1. mem \in Seq(Array) /\ Len(mem) \in Nat /\ a \in 1..Len(mem)
  BY DEF Wrote
<1>2. CASE mapped = TRUE
  <2>1. PICK e : e = [mem[a] EXCEPT !.cap = Length[Depth]]
    OBVIOUS
  <2>2. mem[a] \in Array
    BY <1>1
  <2>3. e \in Array /\ e.segs = mem[a].segs
    <3>1. Length[Depth] \in Caps
      BY DEF Caps
    <3> QED
      BY <2>1, <2>2, <3>1 DEF Array
  <2>4. /\ arrays' = Append(mem, e)
        /\ kept' = Append(kept, [arr |-> Len(mem) + 1, path |-> Path(its, Depth)])
    BY <1>2, <2>1 DEF Deliver
  <2>5. /\ arrays' \in Seq(Array) /\ Len(arrays') = Len(mem) + 1 /\ arrays'[Len(mem) + 1] = e
        /\ \A b \in 1..Len(mem) : arrays'[b] = mem[b]
    BY <1>1, <2>3, <2>4, AppendFacts
  <2>6. Len(mem) <= Len(arrays') /\ Len(mem) + 1 \in 1..Len(arrays')
    BY <1>1, <2>5
  <2> QED
    BY <1>2, <2>3, <2>4, <2>5, <2>6 DEF HandedOut
<1>3. CASE mapped # TRUE
  <2>1. arrays' = mem /\ kept' = Append(kept, [arr |-> a, path |-> Path(its, Depth)])
    BY <1>3 DEF Deliver
  <2>2. /\ arrays' \in Seq(Array) /\ Len(mem) <= Len(arrays') /\ a \in 1..Len(arrays')
        /\ \A b \in 1..Len(mem) : arrays'[b] = mem[b]
    BY <1>1, <2>1
  <2> QED
    BY <1>3, <2>1, <2>2 DEF HandedOut
<1> QED
  BY <1>2, <1>3

(* The invariant is kept by the iterators that run. *)
LEMMA MemoryStep ==
  ASSUME MemoryInv, [RowsNext]_rowsVars
  PROVE  MemoryInv'
<1>1. /\ Depth \in Nat \ {0} /\ level \in 1..Depth /\ items \in [1..Depth -> Nat]
      /\ Own \in 1..Depth
  <2>1. Depth \in Nat \ {0} /\ level \in 1..Depth /\ items \in [1..Depth -> Nat]
    BY DEF MemoryInv, ArraysTyped, Depth
  <2> QED
    BY <2>1, OwnIsLast
<1>2. CASE Accept
  <2>1. PICK its : its = [items EXCEPT ![level] = @ + 1]
    OBVIOUS
  <2>2. PICK mem : mem = IF level = 1 THEN NewRow(Path(its, level))
                         ELSE AppendRow(level, Path(its, level))
    OBVIOUS
  <2>3. PICK a : a = IF level > 1 /\ HasRoom(level) THEN row[level - 1] ELSE Len(mem)
    OBVIOUS
  <2>4. NextItem(its) /\ Made(Path(its, level), mem, a)
    BY <2>1, <2>2, <2>3 DEF NextItem, Made
  <2>5. Wrote(its, mem, a)
    BY <2>4, MadeIsWritten
  <2>6. /\ HasItem(level) /\ chain' = chain /\ mapped' = mapped
        /\ row' = [row EXCEPT ![level] = a]
        /\ IF level = Depth
             THEN Deliver(mem, a, Path(its, level)) /\ items' = its /\ level' = level
             ELSE /\ arrays' = mem
                  /\ items' = [its EXCEPT ![level + 1] = 0]
                  /\ level' = level + 1
                  /\ kept' = kept
    BY <1>2, <2>1, <2>2, <2>3 DEF Accept
  <2>7. its \in [1..Depth -> Nat] /\ mem \in Seq(Array) /\ Len(mem) \in Nat
    BY <2>5 DEF Wrote
  <2>8. CASE level = Depth
    <3>1. Deliver(mem, a, Path(its, level)) /\ items' = its /\ level' = level
      BY <2>6, <2>8
    <3>2. HandedOut(its, mem, a)
      <4>1. Deliver(mem, a, Path(its, Depth))
        BY <2>8, <3>1
      <4> QED
        BY <2>5, <4>1, DeliverHandsOut
    <3>3. Moves(its, mem, a)
      BY <2>6, <2>7, <2>8, <3>1, <3>2 DEF Moves, HandedOut
    <3> QED
      BY <2>5, <3>3, MoveKeepsInv
  <2>9. CASE level # Depth
    <3>1. /\ arrays' = mem /\ items' = [its EXCEPT ![level + 1] = 0]
          /\ level' = level + 1 /\ kept' = kept
      BY <2>6, <2>9
    <3>2. level + 1 \in 1..Depth /\ level < Depth
      BY <1>1, <2>9
    <3>3. /\ items' \in [1..Depth -> Nat] /\ \A i \in 1..level : items'[i] = its[i]
          /\ items'[level + 1] = 0
      BY <1>1, <2>7, <3>1, <3>2
    <3>4. arrays' \in Seq(Array) /\ Len(mem) <= Len(arrays') /\ \A b \in 1..Len(mem) : arrays'[b] = mem[b]
      BY <2>7, <3>1
    <3>5. Moves(its, mem, a)
      BY <2>6, <3>1, <3>2, <3>3, <3>4 DEF Moves
    <3> QED
      BY <2>5, <3>5, MoveKeepsInv
  <2> QED
    BY <2>8, <2>9
<1>3. CASE Reject
  <2>1. PICK its : its = [items EXCEPT ![level] = @ + 1]
    OBVIOUS
  <2>2. PICK mem : mem = IF level = 1 THEN NewRow(Path(its, level))
                         ELSE AppendRow(level, Path(its, level))
    OBVIOUS
  <2>3. PICK a : a = IF level > 1 /\ HasRoom(level) THEN row[level - 1] ELSE Len(mem)
    OBVIOUS
  <2>4. NextItem(its) /\ Made(Path(its, level), mem, a)
    BY <2>1, <2>2, <2>3 DEF NextItem, Made
  <2>5. Wrote(its, mem, a)
    BY <2>4, MadeIsWritten
  <2>6. items' = its
    BY <1>3, <2>1 DEF Reject
  <2>7. /\ HasItem(level) /\ chain' = chain /\ mapped' = mapped
        /\ row' = [row EXCEPT ![level] = a] /\ arrays' = mem /\ level' = level /\ kept' = kept
    BY <1>3, <2>2, <2>3, <2>6 DEF Reject, Path
  <2>8. its \in [1..Depth -> Nat] /\ mem \in Seq(Array) /\ Len(mem) \in Nat
    BY <2>5 DEF Wrote
  <2>9. Moves(its, mem, a)
    BY <2>6, <2>7, <2>8 DEF Moves
  <2> QED
    BY <2>5, <2>9, MoveKeepsInv
<1>4. CASE Exhausted \/ UNCHANGED rowsVars
  <2>1. /\ chain' = chain /\ mapped' = mapped /\ arrays' = arrays /\ row' = row
        /\ items' = items /\ kept' = kept
        /\ level' = level \/ (level # 1 /\ level' = level - 1)
    BY <1>4 DEF Exhausted, rowsVars
  <2>2. /\ ChainTables' = ChainTables /\ Depth' = Depth /\ Capacity' = Capacity
        /\ Own' = Own /\ Array' = Array /\ Single' = Single
    BY <2>1, ChainStands
  <2>3. level' \in 1..Depth /\ level' <= level
    BY <1>1, <2>1
  <2>4. ArraysTyped'
    BY <2>1, <2>2, <2>3 DEF MemoryInv, ArraysTyped
  <2>5. CurrentRows'
    <3> SUFFICES ASSUME NEW l \in 1..level', Read(l)'
                 PROVE  /\ items[l] > 0 /\ row[l] # 0
                        /\ arrays[row[l]].cap = Capacity[l]
                        /\ \A s \in 1..l : arrays[row[l]].segs[s] = Path(items, s)
                        /\ l > Own => row[l] = row[Own]
      BY <2>1, <2>2 DEF CurrentRows, Path
    <3>1. l \in 1..level /\ Read(l)
      BY <1>1, <2>1, <2>3 DEF Read
    <3> QED
      BY <3>1 DEF MemoryInv, CurrentRows
  <2>6. Apart'
    BY <2>1, <2>2 DEF MemoryInv, Apart
  <2>7. KeptRows'
    <3> SUFFICES ASSUME NEW k \in DOMAIN kept
                 PROVE  /\ \A s \in 1..Depth :
                             mapped = TRUE \/ s <= Own \/ Single => Intact(k, s)
                        /\ Single /\ mapped # TRUE /\ kept[k].arr = row[Own] =>
                             \A l \in (Own + 1)..level' : items[l] > 0
      BY <2>1, <2>2 DEF KeptRows, Intact
    <3>1. \A l \in (Own + 1)..level' : l \in (Own + 1)..level
      BY <1>1, <2>3
    <3> QED
      BY <3>1 DEF MemoryInv, KeptRows
  <2> QED
    BY <2>4, <2>5, <2>6, <2>7 DEF MemoryInv
<1> QED
  BY <1>2, <1>3, <1>4 DEF RowsNext

(* The invariant holds before the first row. *)
LEMMA MemoryInit ==
  ASSUME RowsInit
  PROVE  MemoryInv
<1>1. ChainTables \in Seq([width : Nat \ {0}, many : BOOLEAN]) /\ ChainTables # <<>>
  BY ChainsAreChains DEF RowsInit, ChainTables
<1>2. Depth \in Nat \ {0}
  BY <1>1 DEF Depth
<1>3. Own \in 1..Depth
  BY <1>2, OwnIsLast
<1>4. /\ arrays = <<>> /\ level = 1 /\ kept = <<>>
      /\ row = [l \in 1..Depth |-> 0] /\ items = [l \in 1..Depth |-> 0]
  BY DEF RowsInit
<1>5. ArraysTyped
  <2>1. arrays \in Seq(Array) /\ Len(arrays) = 0
    BY <1>4
  <2>2. row \in [1..Depth -> 0..Len(arrays)] /\ items \in [1..Depth -> Nat]
    BY <1>4, <2>1
  <2>3. kept \in Seq([arr : 1..Len(arrays), path : Seq(Nat)]) /\ DOMAIN kept = {}
    BY <1>4
  <2> QED
    BY <1>1, <1>2, <1>4, <2>1, <2>2, <2>3 DEF ArraysTyped
<1>6. CurrentRows
  BY <1>2, <1>4 DEF CurrentRows, Read
<1>7. DOMAIN kept = {} /\ \A l \in 1..Depth : row[l] = 0
  BY <1>4
<1>8. Apart
  <2>1. \A l \in 1..(Own - 1) : l \in 1..Depth
    BY <1>2, <1>3
  <2> QED
    BY <1>7, <2>1 DEF Apart
<1>9. KeptRows
  BY <1>7 DEF KeptRows
<1> QED
  BY <1>5, <1>6, <1>8, <1>9 DEF MemoryInv

(* squash_iterator.go: "All calls to Row return the same row until another call
   to Advance": whatever the iterators after it append in place, the current row
   of a table stays as it was made, for every chain of tables. *)
THEOREM RowsStay == RowsSpec => []RowStaysUntilAdvance
<1>1. RowsInit => MemoryInv
  BY MemoryInit
<1>2. MemoryInv /\ [RowsNext]_rowsVars => MemoryInv'
  BY MemoryStep
<1>3. MemoryInv => RowStaysUntilAdvance
  <2> SUFFICES ASSUME MemoryInv, NEW l \in 1..level, items[l] > 0
               PROVE  \A s \in 1..l : arrays[row[l]].segs[s] = Path(items, s)
    BY DEF RowStaysUntilAdvance
  <2>1. Read(l)
    BY DEF Read
  <2> QED
    BY <2>1 DEF MemoryInv, CurrentRows
<1> QED
  BY <1>1, <1>2, <1>3, PTL DEF RowsSpec

(* A row that the engine was given changes afterwards only if its columns were
   not reordered and a table with many rows was appended in place, and it
   changes only in the columns of the tables that were. *)
THEOREM KeptRowsChange == RowsSpec => []KeptRowsChangeOnlyBehindSpareRoom
<1>1. RowsInit => MemoryInv
  BY MemoryInit
<1>2. MemoryInv /\ [RowsNext]_rowsVars => MemoryInv'
  BY MemoryStep
<1>3. MemoryInv => KeptRowsChangeOnlyBehindSpareRoom
  <2> SUFFICES ASSUME MemoryInv, NEW k \in DOMAIN kept, NEW s \in 1..Depth, ~Intact(k, s)
               PROVE  ~mapped /\ s > Own /\ \E l \in (Own + 1)..Depth : ChainTables[l].many
    BY DEF KeptRowsChangeOnlyBehindSpareRoom
  <2>1. mapped # TRUE /\ ~(s <= Own) /\ ~Single
    BY DEF MemoryInv, KeptRows
  <2>2. ~mapped
    BY <2>1
  <2>3. s > Own
    <3>1. Depth \in Nat \ {0}
      BY DEF MemoryInv, ArraysTyped, Depth
    <3>2. Own \in 1..Depth
      BY <3>1, OwnIsLast
    <3> QED
      BY <2>1, <3>1, <3>2
  <2>4. \E l \in (Own + 1)..Depth : ChainTables[l].many
    BY <2>1 DEF Single
  <2> QED
    BY <2>2, <2>3, <2>4
<1> QED
  BY <1>1, <1>2, <1>3, PTL DEF RowsSpec
=============================================================================
