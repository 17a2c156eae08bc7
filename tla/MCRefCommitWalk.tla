--------------------------- MODULE MCRefCommitWalk ---------------------------
(* Small repositories for RefCommitWalk: histories of four commits, HEAD and
   at most two references, at most one missing object. *)
EXTENDS RefCommitWalk

MCCommit == {"c1", "c2", "c3", "c4"}
MCTag == {"t1"}
MCOther == {"b1"}
MCSymbolic == "symbolic"
MCBadRef == "badref"
MCNone == "nil"

\* Four commits: c4 may merge c3 and c2, c3 may descend from c2 (so that a
\* commit is both a parent and a grandparent of c4), c1 may be the root of all.
Histories ==
  {[c \in MCCommit |-> CASE c = "c1" -> <<>> [] c = "c2" -> p2 [] c = "c3" -> p3 [] c = "c4" -> p4] :
     p2 \in {<<>>, <<"c1">>},
     p3 \in {<<>>, <<"c1">>, <<"c2">>},
     p4 \in {<<"c3">>, <<"c3", "c2">>, <<"c2", "c3">>, <<"c3", "c2", "c1">>}}

RefLists ==
  {<<>>, <<"c4">>, <<"t1">>, <<"b1">>, <<"c4", "c3">>, <<"c2", "c4">>, <<"t1", "c4">>,
   <<"symbolic", "c4">>, <<"badref", "c4">>, <<"c3", "badref">>}

Heads == {"c4", "c2", "nil", "badref"}

MCRepos ==
  {[parents |-> p, peel |-> [t \in MCTag |-> e], missing |-> m, refs |-> r,
    refsErr |-> FALSE, head |-> h] :
      p \in Histories, e \in {"c3", "b1"}, m \in {{}, {"c2"}, {"t1"}, {"c3"}},
      r \in RefLists, h \in Heads}
  \union
  {[parents |-> p, peel |-> [t \in MCTag |-> "c1"], missing |-> {}, refs |-> <<"c3">>,
    refsErr |-> TRUE, head |-> "c4"] : p \in Histories}
=============================================================================
