---------------------------- MODULE FilteredScan ----------------------------
(***************************************************************************)
(* A query over one table with filters: PartitionRows opens the repository *)
(* of the partition (TableScan), classifies the filters of the table again *)
(* for each of them (Selectors), and then builds the iterator: one that    *)
(* looks objects up by hash, if the selectors have values for the column   *)
(* of the hash.                                                            *)
(***************************************************************************)
EXTENDS TableScan, Selectors

CONSTANT HashColumn   \* the column of the objects' hash

ASSUME HashIsHandled == HashColumn \in handledCols

-----------------------------------------------------------------------------
both == <<vars, filterVars>>

(* The values of the selectors over the hash, if they are all the same. *)
Asked(fs) ==
  {f.values : f \in {g \in ToSet(fs) : g.own /\ IsSelector(g) /\ g.column = HashColumn}}

(* The table looks objects up and the filters say which. *)
LooksUp(fs) == byHash = (Table.hashes /\ Cardinality(Asked(fs)) = 1)

FilteredInit ==
  /\ Init
  /\ filters \in {fs \in Filters : LooksUp(fs)}
  /\ Unclassified

(* rowIterWithSelectors, in the repository that was opened. *)
Filtering ==
  /\ status = "open" /\ Mark(<<listed>>) # "gone"
  /\ FilterNext
  /\ UNCHANGED vars

(* The selectors are local to a call of PartitionRows. *)
Forget ==
  /\ phase' = "classify" /\ pos' = 0
  /\ selectors' = [c \in Column |-> <<>>] /\ conditions' = <<>> /\ rows' = {}
  /\ UNCHANGED filters

(* The rest of PartitionRows. *)
FilteredRows ==
  /\ PartitionRows
  /\ \/ Mark(<<listed>>) = "gone" /\ UNCHANGED filterVars
     \/ Mark(<<listed>>) # "gone" /\ phase = "done" /\ Forget

FilteredStep ==
  \/ Filtering \/ FilteredRows
  \/ /\ \/ PartitionCount \/ Partitions \/ NextPartition \/ ListFails
        \/ ReadObject \/ ReadItem \/ ItemsEnd \/ ObjectsEnd \/ Close
     /\ UNCHANGED filterVars

FilteredNext == FilteredStep \/ (Stop /\ UNCHANGED filterVars)

FilteredSpec == FilteredInit /\ [][FilteredNext]_both /\ WF_both(FilteredStep)
=============================================================================
