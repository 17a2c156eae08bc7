--------------------------- MODULE MCSquashedQuery ---------------------------
(* Queries whose chains have room behind their rows or have none, where the
   tables that are appended in place have many rows or one, and which are
   written in the order of the hierarchy or in another one. *)
EXTENDS MCSquashRule, SquashedQuery

MCOrders ==
  {<<"repositories", "remotes", "refs", "ref_commits">>,
   <<"repositories", "refs", "ref_commits", "commits">>,
   <<"refs", "ref_commits", "commits", "commit_blobs">>,
   <<"refs", "ref_commits", "commits">>,
   <<"commits", "commit_trees", "tree_entries">>,
   <<"tree_entries", "commit_trees", "commits">>,
   <<"commits", "commit_blobs", "blobs">>,
   <<"commits", "commit_files", "files">>,
   <<"commit_files", "blobs">>, <<"blobs", "commit_files">>}

One(t) == [t EXCEPT !.many = FALSE]

MCChains ==
  <<<<repositories, remotes, refs, One(ref_commits)>>,
    <<repositories, refs, One(ref_commits), ref_commits_commits>>,
    <<refs, One(ref_commits), ref_commits_commits, commit_blobs>>,
    <<refs, ref_commits, ref_commits_commits>>,
    <<commits, commit_trees, tree_entries>>,
    <<commits, One(commit_trees), tree_entries>>,
    <<commits, commit_blobs, blobs>>,
    <<commits, commit_files, files>>,
    <<commit_files, blobs>>>>
=============================================================================
