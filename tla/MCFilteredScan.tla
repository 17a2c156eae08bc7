--------------------------- MODULE MCFilteredScan ---------------------------
(* All the tables but ref_commits, which has a module of its own, with one
   filter or none; and the commits of a library in which nothing is wrong, with
   every list of at most three filters. *)
EXTENDS MCSelectors, FilteredScan

MCScans ==
  <<repositoriesTable, remotesTable, referencesTable, commitsTable,
    commitTreesTable, commitBlobsTable, commitFilesTable, blobsTable,
    treeEntriesTable, filesTable>>

MCHashColumn == "hash"

FewFilters ==
  {<<>>, <<[kind |-> "Equals", own |-> TRUE, column |-> "hash", values |-> <<"a">>]>>}

MCInit ==
  /\ Init
  /\ filters \in {fs \in IF marks = {} /\ skip /\ Table = commitsTable THEN Filters ELSE FewFilters :
                    LooksUp(fs)}
  /\ Unclassified

MCSpec == MCInit /\ [][FilteredNext]_both /\ WF_both(FilteredStep)
=============================================================================
