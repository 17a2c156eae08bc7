---------------------------- MODULE SquashedQuery ----------------------------
(***************************************************************************)
(* A query of squashed tables from the analyzer to its last row: the rule  *)
(* squash_joins plans the chain of iterators (SquashRule) and the engine   *)
(* then reads the squashed table (SharedRows).  What the plan decides for  *)
(* the memory of the rows is which tables are in the chain, which of them  *)
(* give one row only for a row of the one before, and whether the columns  *)
(* are reordered.                                                          *)
(***************************************************************************)
EXTENDS SquashRule, SharedRows

CONSTANT Orders   \* bound: the tables, as they are written, of queries that are read

-----------------------------------------------------------------------------
(* The tables of the joinedTables node, as the query writes them, and those
   of the iterator, which are in the order of the hierarchy. *)
Written == [i \in 1..merged |-> query[i].table]

Chained == SelectSeq(tableHierarchy, LAMBDA t : t \in schema)

(* The columns of a table in the chain.  Iterators that follow an object to
   the one it names give one row: the commit of a reference, and the trees and
   commits that are compared with those of the row before. *)
ColumnsOf(t) ==
  CASE t = "repositories" -> repositories
    [] t = "remotes"      -> remotes
    [] t = "refs"         -> refs
    [] t = "ref_commits"  ->
         IF Atom({"refs", "ref_commits"}, "commit_hash") \in links
         THEN [ref_commits EXCEPT !.many = FALSE] ELSE ref_commits
    [] t = "commits"      ->
         IF schema \cap {"refs", "ref_commits"} # {} THEN ref_commits_commits ELSE commits
    [] t = "commit_trees" ->
         IF Atom({"commits", "commit_trees"}, "tree_hash") \in links
         THEN [commit_trees EXCEPT !.many = FALSE] ELSE commit_trees
    [] t = "tree_entries" -> tree_entries
    [] t = "commit_blobs" -> commit_blobs
    [] t = "commit_files" -> commit_files
    [] t = "blobs"        -> IF Chained[1] = "repositories" /\ Len(Chained) = 2
                             THEN [blobs EXCEPT !.many = TRUE] ELSE blobs
    [] t = "files"        -> files

Built == [i \in DOMAIN Chained |-> ColumnsOf(Chained[i])]

\* Natural joins, or joins on one column, and no filters over one table.
Plain == \A i \in DOMAIN query :
           query[i].local = {} /\ (~query[i].natural => Cardinality(query[i].cond) = 1)

Unread(n) == [l \in 1..n |-> 0]

QueryInit ==
  /\ Init
  /\ chain = 1 /\ mapped = FALSE
  /\ arrays = <<>> /\ row = Unread(Depth) /\ items = Unread(Depth)
  /\ level = 1 /\ rejected = 0 /\ kept = <<>>
  /\ done = TRUE

(* SquashedTable.PartitionRows.  The mapping of columns is left out when
   tables are joined in memory: these are projected afterwards. *)
PartitionRows ==
  /\ phase = "planned" /\ arrays = <<>> /\ done
  /\ [i \in DOMAIN query |-> query[i].table] \in Orders /\ Plain
  /\ chain' \in {c \in DOMAIN Chains : Chains[c] = Built}
  /\ mapped' = (unsquashable = <<>> /\ Written # Chained)
  /\ row' = Unread(Len(Built)) /\ items' = Unread(Len(Built))
  /\ done' = FALSE
  /\ UNCHANGED <<vars, arrays, level, rejected, kept>>

QueryNext ==
  \/ Next /\ UNCHANGED rowsVars
  \/ PartitionRows
  \/ RowsNext /\ UNCHANGED vars

QuerySpec == QueryInit /\ [][QueryNext]_<<vars, rowsVars>>
=============================================================================
