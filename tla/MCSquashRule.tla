---------------------------- MODULE MCSquashRule ----------------------------
(***************************************************************************)
(* Two repositories that share a commit: r1 has c2, whose parent is c1,    *)
(* and r2 has c1.  The root tree of c2 holds that of c1 as a directory.    *)
(***************************************************************************)
EXTENDS SquashRule

MCMainTree == [h \in {"c1", "c2"} |-> IF h = "c1" THEN "t1" ELSE "t2"]
MCLiteral  == [ref_name |-> "HEAD", blob_hash |-> "b1"]
MCLocal    == {Atom({"ref_commits"}, "ref_name"),
               Atom({"tree_entries"}, "blob_hash")}

Commits == {<<"r1", "c1">>, <<"r1", "c2">>, <<"r2", "c1">>}
Refs    == {<<"r1", "HEAD", "c2">>, <<"r1", "old", "c1">>, <<"r2", "HEAD", "c1">>}
History == [h \in {"c1", "c2"} |-> IF h = "c1" THEN {"c1"} ELSE {"c1", "c2"}]
Trees   == [h \in {"c1", "c2"} |-> IF h = "c1" THEN {"t1"} ELSE {"t1", "t2"}]
Entries == [t \in {"t1", "t2"} |-> IF t = "t1" THEN {"b1"} ELSE {"b2", "t1"}]
Files   == [t \in {"t1", "t2"} |-> IF t = "t1" THEN {<<"a", "b1">>}
                                   ELSE {<<"d/a", "b1">>, <<"a", "b2">>}]
Repo(r) == {x[2] : x \in {y \in Commits : y[1] = r}}

MCData == [t \in Tables |->
  CASE t = "repositories" -> {[repository_id |-> r] : r \in {"r1", "r2"}}
    [] t = "remotes" -> {[repository_id |-> r, remote_name |-> n] :
                           r \in {"r1", "r2"}, n \in {"origin"}}
    [] t = "refs" -> {[repository_id |-> x[1], ref_name |-> x[2],
                       commit_hash |-> x[3]] : x \in Refs}
    [] t = "ref_commits" -> UNION {{[repository_id |-> x[1],
                                     ref_name |-> x[2], commit_hash |-> h] :
                                      h \in History[x[3]]} : x \in Refs}
    [] t = "commits" -> {[repository_id |-> x[1], commit_hash |-> x[2],
                          tree_hash |-> MCMainTree[x[2]]] : x \in Commits}
    [] t = "commit_trees" -> UNION {{[repository_id |-> x[1],
                                      commit_hash |-> x[2],
                                      tree_hash |-> y] :
                                       y \in Trees[x[2]]} : x \in Commits}
    [] t = "tree_entries" -> UNION {UNION {{[repository_id |-> x[1],
                                             tree_hash |-> y,
                                             blob_hash |-> b] :
                                        b \in Entries[y]} :
                                       y \in Trees[x[2]]} : x \in Commits}
    [] t = "commit_blobs" -> UNION {{[repository_id |-> x[1],
                                      commit_hash |-> x[2],
                                      blob_hash |-> f[2]] :
                            f \in Files[MCMainTree[x[2]]]} : x \in Commits}
    [] t = "commit_files" -> UNION {{[repository_id |-> x[1],
                                      commit_hash |-> x[2],
                                      file_path |-> f[1],
                                      blob_hash |-> f[2],
                                      tree_hash |-> MCMainTree[x[2]]] :
                            f \in Files[MCMainTree[x[2]]]} : x \in Commits}
    [] t = "blobs" -> UNION {{[repository_id |-> x[1], blob_hash |-> f[2]] :
                            f \in Files[MCMainTree[x[2]]]} : x \in Commits}
    [] t = "files" -> UNION {UNION {{[repository_id |-> x[1],
                                      file_path |-> f[1], blob_hash |-> f[2],
                                      tree_hash |-> y] :
                                       f \in Files[y]} :
                                      y \in Trees[x[2]]} : x \in Commits}]
=============================================================================
