------------------------------ MODULE Selectors ------------------------------
(***************************************************************************)
(* filters.go: how a table uses the filters that the engine pushes down to *)
(* it.  Comparisons of a handled column with literals become selectors,    *)
(* which the iterators of the table use to read only some rows; the others *)
(* stay conditions, evaluated on each row.  Selectors are not evaluated    *)
(* again afterwards.                                                       *)
(*                                                                         *)
(* A step is one iteration of the loop of classifyFilters, and then the    *)
(* building and the reading of the iterator.                               *)
(***************************************************************************)
EXTENDS Integers, Sequences, SequencesExt

CONSTANTS
  Column,       \* the columns of the table
  handledCols,  \* those the table has selectors for
  Value,        \* the values of the columns, and the literals of the filters
  Norm,         \* the spelling under which selectors are compared: hashes are
                \* parsed, reference names are lower-cased
  Filters       \* the lists of filters considered

ASSUME HandledAreColumns == handledCols \subseteq Column
ASSUME NormIsASpelling ==
  Norm \in [Value -> Value] /\ \A v \in Value : Norm[Norm[v]] = Norm[v]

(* An expression: Equals or In with literals, one at least, or any other; the
   columns may be those of another table.  Any other is told apart by one thing
   only: it is here the negation of an In. *)
Filter ==
  [kind : {"Equals", "In", "other"}, own : BOOLEAN, column : Column, values : Seq(Value) \ {<<>>}]

ASSUME FiltersAreFilters == Filters \subseteq Seq(Filter)

Row == [Column -> Value]

VARIABLES
  filters,     \* the filters of the query
  phase,      \* "classify" or "done"
  pos,         \* filters classified
  selectors,   \* per column: a sequence of selectors
  conditions,  \* the remaining expressions
  rows         \* what the iterator returns of all the rows of the table

filterVars == <<filters, phase, pos, selectors, conditions, rows>>

(* The loop of classifyFilters begins. *)
Unclassified ==
  /\ phase = "classify"
  /\ pos = 0
  /\ selectors = [c \in Column |-> <<>>]
  /\ conditions = <<>>
  /\ rows = {}

FilterInit == filters \in Filters /\ Unclassified

(* The filters without columns of other tables: the engine gives up these. *)
handledFilters(fs) ==
  LET handled[i \in 0..Len(fs)] ==
        IF i = 0 THEN <<>>
        ELSE IF fs[i].own THEN Append(handled[i - 1], fs[i]) ELSE handled[i - 1]
  IN  handled[Len(fs)]

(* canHandleEquals and canHandleIn, on a filter of this table. *)
IsSelector(f) == f.kind \in {"Equals", "In"} /\ f.column \in handledCols

(* A slip: a filter that cannot be a selector is forgotten. *)
SlipClassify(f) ==
  /\ selectors' = [selectors EXCEPT ![f.column] = IF IsSelector(f) THEN Append(@, f.values) ELSE @]
  /\ UNCHANGED conditions

Classify(f) ==
  IF IsSelector(f)
  THEN selectors' = [selectors EXCEPT ![f.column] = Append(@, f.values)] /\ UNCHANGED conditions
  ELSE conditions' = Append(conditions, f) /\ UNCHANGED selectors

(* One iteration of the loop of classifyFilters. *)
classifyFilters ==
  /\ phase = "classify" /\ pos < Len(handledFilters(filters))
  /\ pos' = pos + 1
  /\ Classify(handledFilters(filters)[pos + 1])
  /\ UNCHANGED <<filters, phase, rows>>

isValid(c) == \A s \in ToSet(selectors[c]) : s = selectors[c][1]

(* A slip: only the first value of the first selector. *)
SlipTextValues(c) ==
  IF selectors[c] = <<>> \/ ~isValid(c) THEN {} ELSE {selectors[c][1][1]}

(* The values of the first selector; none when there is no selector, and
   none either when the selectors are not all equal. *)
textValues(c) ==
  IF selectors[c] = <<>> \/ ~isValid(c) THEN {} ELSE ToSet(selectors[c][1])

(* stringContains, hashContains, behind the test that there are values. *)
Chosen(row) ==
  \A c \in handledCols :
    textValues(c) # {} => Norm[row[c]] \in {Norm[v] : v \in textValues(c)}

(* What an expression evaluates to. *)
Holds(f, row) ==
  IF f.kind = "other" THEN row[f.column] \notin ToSet(f.values)
  ELSE row[f.column] \in ToSet(f.values)

(* rowIterWithSelectors: the iterator of the table under a FilterIter. *)
rowIterWithSelectors ==
  /\ phase = "classify" /\ pos = Len(handledFilters(filters))
  /\ phase' = "done"
  /\ rows' = {r \in Row : Chosen(r) /\ \A f \in ToSet(conditions) : Holds(f, r)}
  /\ UNCHANGED <<filters, pos, selectors, conditions>>

FilterNext == classifyFilters \/ rowIterWithSelectors

FilterSpec == FilterInit /\ [][FilterNext]_filterVars

-----------------------------------------------------------------------------
OwnFilters == {f \in ToSet(filters) : f.own}

(* No row is lost: a row that satisfies all the filters of the table is
   returned, however the filters were split. *)
NoRowLost ==
  phase = "done" => \A r \in Row : (\A f \in OwnFilters : Holds(f, r)) => r \in rows

(* A row that is returned satisfies all the filters of the table, up to the
   spelling of hashes and names, unless a column has selectors that differ. *)
OnlyMatchingRows ==
  phase = "done" /\ (\A c \in Column : isValid(c)) =>
    \A r \in rows, f \in OwnFilters :
      \/ Holds(f, r)
      \/ IsSelector(f) /\ Norm[r[f.column]] \in {Norm[v] : v \in ToSet(f.values)}

(* filters.go on selectors: "Let's say one selector is [1, 2] and another is
   [3, 4]. 1 or 2 can't be 3 or 4, so the result will always be zero rows." *)
ConflictsGiveNoRows ==
  phase = "done" =>
    \A f, g \in OwnFilters :
      /\ IsSelector(f) /\ IsSelector(g) /\ f.column = g.column
      /\ {Norm[v] : v \in ToSet(f.values)} \intersect {Norm[v] : v \in ToSet(g.values)} = {}
      => rows = {}
=============================================================================
