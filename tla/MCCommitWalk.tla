---------------------------- MODULE MCCommitWalk ----------------------------
(* Small repositories for CommitWalk: every history of three commits with at
   most two parents, one annotated tag, one blob, at most two references (a
   symbolic one and a failing read among them), at most one missing object. *)
EXTENDS CommitWalk

MCCommit == {"c1", "c2", "c3"}
MCTag == {"t1"}
MCOther == {"b1"}
MCSymbolic == "symbolic"
MCBadRef == "badref"
MCNone == "nil"

\* Parents are older commits: hashes make cycles impossible.
Histories ==
  {[c \in MCCommit |-> IF c = "c1" THEN <<>> ELSE IF c = "c2" THEN p2 ELSE p3] :
     p2 \in {<<>>, <<"c1">>},
     p3 \in {<<>>, <<"c1">>, <<"c2">>, <<"c1", "c2">>, <<"c2", "c1">>}}

\* MaxRefs = 2 references are enough for two names of one commit.
RefLists ==
  LET r == MCCommit \union MCTag \union MCOther \union {MCSymbolic, MCBadRef}
  IN  {<<>>} \union {<<a>> : a \in r} \union {<<a, b>> : a, b \in r}

AtMostOneMissing == {{}} \union {{o} : o \in MCCommit \union MCTag}

MCRepos ==
  {[parents |-> p, peel |-> [t \in MCTag |-> e], missing |-> m, refs |-> r,
    refsErr |-> FALSE, head |-> MCNone] :
      p \in Histories, e \in MCCommit \union MCOther, m \in AtMostOneMissing, r \in RefLists}
  \union
  {[parents |-> p, peel |-> [t \in MCTag |-> "c1"], missing |-> {}, refs |-> <<"c3">>,
    refsErr |-> TRUE, head |-> MCNone] : p \in Histories}
=============================================================================
