----------------------------- MODULE MCSelectors -----------------------------
(* Lists of at most three filters on two columns, one of them handled. *)
EXTENDS Selectors

MCColumn == {"hash", "message"}
MCHandled == {"hash"}
MCValue == {"a", "A", "b"}
MCNorm == [v \in MCValue |-> IF v = "A" THEN "a" ELSE v]

MCFilter ==
  [kind : {"Equals", "other"}, own : {TRUE}, column : MCColumn, values : {<<"a">>, <<"A">>, <<"b">>}]
  \union
  [kind : {"In"}, own : BOOLEAN, column : MCColumn, values : {<<"a", "b">>, <<"b", "a">>}]

MCFilters == UNION {[1..n -> MCFilter] : n \in 0..3}

\* For the refutation.
MCTwoFilters == [1..2 -> MCFilter]
=============================================================================
