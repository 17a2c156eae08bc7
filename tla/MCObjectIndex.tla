---------------------------- MODULE MCObjectIndex ----------------------------
(* Three objects with one or two rows, packfiles that share offsets and
   objects, and loose objects beside them. *)
EXTENDS ObjectIndex, TLC

MCObject == {"a", "b", "c"}
MCCount == [a |-> 2, b |-> 1, c |-> 2]
MCNone == "nil"
MCNoHash == ""

\* Offset 1 is taken in each packfile; "a" is in two of them.
MCContents ==
  [p |-> (1 :> "a" @@ 2 :> "b"), q |-> (1 :> "c" @@ 2 :> "a")]

MCStores ==
  {[packs |-> <<"p", "q">>, loose |-> {}],
   [packs |-> <<"q", "p">>, loose |-> {"b"}],
   [packs |-> <<"p">>, loose |-> {"c"}],
   [packs |-> <<>>, loose |-> MCObject],
   [packs |-> <<"q">>, loose |-> {}]}
=============================================================================
