--------------------------- MODULE MCSquashChain ----------------------------
(* Chains that internal/rule/squashjoins.go builds: every iterator occurs, and
   every pair of neighbours.  A chain starts with the first table of the join. *)
EXTENDS SquashChain

MCWidth == 2

MCPlans ==
  <<<<squashReposIter, squashRepoRemotesIter, squashRemoteRefsIter>>,
    <<squashReposIter, squashRepoRefsIter, squashRefRefCommitsIter, squashRefCommitCommitsIter>>,
    <<squashReposIter, squashRepoRefsIter, squashRefHeadCommitsIter, squashCommitTreesIter>>,
    <<squashReposIter, squashRepoCommitsIter, squashCommitMainTreeIter, squashTreeTreeEntriesIter>>,
    <<squashReposIter, squashRepoTreeEntriesIter, squashTreeEntryBlobsIter>>,
    <<squashReposIter, squashRepoBlobsIter>>,
    <<squashRemoteIter, squashRemoteRefsIter, squashRefHeadRefCommitsIter>>,
    <<squashRefIter, squashRefHeadRefCommitsIter, squashRefCommitCommitsIter, squashCommitTreesIter>>,
    <<squashRefIndexIter, squashRefRefCommitsIter, squashRefCommitCommitsIter>>,
    <<squashRefCommitsIndexIter, squashRefCommitCommitsIter, squashCommitBlobsIter, squashCommitBlobBlobsIter>>,
    <<squashCommitsIter, squashCommitMainTreeIter, squashTreeTreeEntriesIter, squashTreeEntryBlobsIter>>,
    <<squashCommitTreesIndexIter, squashTreeTreeEntriesIter, squashTreeEntryBlobsIter>>,
    <<squashTreeEntriesIter, squashTreeEntryBlobsIter>>,
    <<squashTreeEntriesIndexIter, squashTreeEntryBlobsIter>>,
    <<squashCommitBlobsIndexIter, squashCommitBlobBlobsIter>>,
    <<squashIndexCommitFilesIter, squashCommitFileFilesIter>>,
    <<squashIndexCommitFilesIter, squashCommitFileBlobsIter>>,
    <<squashCommitsIndexIter, squashCommitTreesIter>>,
    <<squashCommitsIter, squashCommitFilesIter, squashCommitFileFilesIter>>,
    <<squashRefIter, squashRefHeadCommitsIter, squashCommitFilesIter>>>>

\* Two special rows in four chains of three levels, so that one failure follows
\* another; one in the others.
MCMaxMarks == [p \in DOMAIN MCPlans |-> IF p \in {1, 5, 9, 19} THEN 2 ELSE 1]
=============================================================================
