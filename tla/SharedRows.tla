----------------------------- MODULE SharedRows -----------------------------
(***************************************************************************)
(* The memory behind the rows of a squashed table.  Each iterator of       *)
(* squash_iterator.go makes its row with append(parent.Row(), ...): when   *)
(* the array of the parent's row has room, the new row is written into it, *)
(* and the rows that are made from the same parent are one array.  The     *)
(* last row is handed out as it is, unless the columns have to be          *)
(* reordered (squash.go), and what asks for rows may keep them: joins in   *)
(* memory, sorting, and goroutines that exchange rows.                     *)
(*                                                                         *)
(* A row is the number of its array.  The columns of a table are written   *)
(* together and are one segment of an array; its value is the sequence of  *)
(* the items, one for each table up to this one, that it was made from.    *)
(***************************************************************************)
EXTENDS Naturals, Sequences

CONSTANTS
  Chains,       \* chains of tables: sequences of [width, many]
  Fan,          \* items of each table for a row of the one before
  MaxRejected   \* items that filters reject, at most

ASSUME FanIsPositive == Fan \in Nat \ {0} /\ MaxRejected \in Nat
ASSUME ChainsAreChains ==
  \A c \in DOMAIN Chains :
    Chains[c] \in Seq([width : Nat \ {0}, many : BOOLEAN]) /\ Chains[c] # <<>>

VARIABLES
  chain,     \* which chain
  mapped,    \* the columns are reordered: schemaMappings is not empty
  arrays,    \* every array made: [cap, segs]
  row,       \* per table: the array of its current row
  items,     \* per table: items read for the current row of its parent
  level,     \* the table whose iterator is running
  rejected,  \* items rejected by filters
  kept,      \* what was handed out: [arr, path]
  done       \* io.EOF was returned

rowsVars == <<chain, mapped, arrays, row, items, level, rejected, kept, done>>

-----------------------------------------------------------------------------
(* Tables by the number of columns, and whether a row of the parent may have
   many rows. *)
Table(width, many) == [width |-> width, many |-> many]

repositories == Table(1, FALSE)

remotes == Table(6, TRUE)

refs == Table(3, TRUE)

ref_commits == Table(4, TRUE)

commits == Table(11, TRUE)

ref_commits_commits == Table(11, FALSE)

commit_trees == Table(3, TRUE)

tree_entries == Table(5, TRUE)

commit_blobs == Table(3, TRUE)

commit_files == Table(5, TRUE)

blobs == Table(4, FALSE)

files == Table(7, FALSE)

-----------------------------------------------------------------------------
(* Appending to slices of 16-byte values, for up to 64 of them. *)

SizeClasses ==
  (1..16) \union {18, 20, 22, 24, 26, 28, 30, 32, 36, 40, 44, 48, 56, 64}

roundupsize(n) == CHOOSE c \in SizeClasses : c >= n /\ \A b \in SizeClasses : b >= n => c <= b

(* The capacity of the new array when the old one has no room. *)
growslice(cap, needed) == IF needed > 2 * cap THEN roundupsize(needed) ELSE roundupsize(2 * cap)

ChainTables == Chains[chain]

Depth == Len(ChainTables)

(* The length of a row of the table at a place of the chain. *)
Length[l \in Nat] == IF l = 0 THEN 0 ELSE Length[l - 1] + ChainTables[l].width

(* The items of the current row of a table. *)
Path(its, l) == SubSeq(its, 1, l)

(* The segments of a row that was made from these items. *)
Segments(p) == [l \in 1..Depth |-> IF l <= Len(p) THEN SubSeq(p, 1, l) ELSE <<>>]

-----------------------------------------------------------------------------
RowsInit ==
  /\ chain \in DOMAIN Chains
  /\ mapped \in BOOLEAN
  /\ arrays = <<>>
  /\ row = [l \in 1..Depth |-> 0]
  /\ items = [l \in 1..Depth |-> 0]
  /\ level = 1
  /\ rejected = 0
  /\ kept = <<>>
  /\ done = FALSE

(* sql.NewRow makes an array of the size of the row. *)
NewRow(p) == Append(arrays, [cap |-> ChainTables[1].width, segs |-> Segments(p)])

HasRoom(l) == Length[l] <= arrays[row[l - 1]].cap

(* append(parent.Row(), ...): in place, or in a new array. *)
AppendRow(l, p) ==
  LET a == arrays[row[l - 1]]
      own == [s \in 1..Depth |-> IF s < l THEN a.segs[s] ELSE IF s = l THEN p ELSE <<>>]
  IN  IF HasRoom(l)
        THEN [arrays EXCEPT ![row[l - 1]].segs[l] = p]
        ELSE Append(arrays, [cap |-> growslice(a.cap, Length[l]), segs |-> own])

(* Two slips: the row is not copied; its columns are moved in place. *)
SlipDeliverShared(mem, a, p) == arrays' = mem /\ kept' = Append(kept, [arr |-> a, path |-> p])

SlipDeliverInPlace(mem, a, p) ==
  /\ arrays' = IF mapped THEN [mem EXCEPT ![a].segs[1] = mem[a].segs[2]] ELSE mem
  /\ kept' = Append(kept, [arr |-> a, path |-> p])

(* chainableRowIter.Next returns the row; schemaMapperIter.Next a copy of it. *)
Deliver(mem, a, p) ==
  IF mapped
    THEN /\ arrays' = Append(mem, [mem[a] EXCEPT !.cap = Length[Depth]])
         /\ kept' = Append(kept, [arr |-> Len(mem) + 1, path |-> p])
    ELSE arrays' = mem /\ kept' = Append(kept, [arr |-> a, path |-> p])

HasItem(l) == items[l] < IF ChainTables[l].many THEN Fan ELSE 1

(* The iterator of a table takes its next item and makes a row of it, which
   its filters accept: it is returned to the iterator of the next table ... *)
Accept ==
  /\ ~done /\ HasItem(level)
  /\ LET its == [items EXCEPT ![level] = @ + 1]
         p   == Path(its, level)
         mem == IF level = 1 THEN NewRow(p) ELSE AppendRow(level, p)
         a   == IF level > 1 /\ HasRoom(level) THEN row[level - 1] ELSE Len(mem)
     IN
     /\ row' = [row EXCEPT ![level] = a]
     /\ IF level = Depth
          THEN Deliver(mem, a, p) /\ items' = its /\ UNCHANGED level
          ELSE /\ arrays' = mem
               /\ items' = [its EXCEPT ![level + 1] = 0]
               /\ level' = level + 1
               /\ UNCHANGED kept
  /\ UNCHANGED <<chain, mapped, rejected, done>>

(* ... or reject: by then it has been written. *)
Reject ==
  /\ ~done /\ HasItem(level)
  /\ rejected < MaxRejected
  /\ rejected' = rejected + 1
  /\ items' = [items EXCEPT ![level] = @ + 1]
  /\ LET p == Path(items', level)
         mem == IF level = 1 THEN NewRow(p) ELSE AppendRow(level, p)
     IN
     /\ arrays' = mem
     /\ row' = [row EXCEPT ![level] =
                  IF level > 1 /\ HasRoom(level) THEN row[level - 1] ELSE Len(mem)]
  /\ UNCHANGED <<chain, mapped, level, kept, done>>

(* There is no item left: the parent is asked for a row, or it was the first. *)
Exhausted ==
  /\ ~done /\ ~HasItem(level)
  /\ IF level = 1 THEN done' = TRUE /\ UNCHANGED level
                  ELSE level' = level - 1 /\ UNCHANGED done
  /\ UNCHANGED <<chain, mapped, arrays, row, items, rejected, kept>>

RowsNext == Accept \/ Reject \/ Exhausted

RowsSpec == RowsInit /\ [][RowsNext]_rowsVars

-----------------------------------------------------------------------------
(* squash_iterator.go: "All calls to Row return the same row until another call
   to Advance": though arrays are shared, nothing that the iterators after it
   write changes the current row of a table. *)
RowStaysUntilAdvance ==
  \A l \in 1..level :
    items[l] > 0 /\ row[l] # 0 =>
      \A s \in 1..l : arrays[row[l]].segs[s] = Path(items, s)

(* The capacity of the rows of a table, and the last table whose rows are
   arrays of their own. *)
Capacity[l \in 1..Depth] ==
  IF l = 1 THEN ChainTables[1].width
  ELSE IF Length[l] <= Capacity[l - 1] THEN Capacity[l - 1]
  ELSE growslice(Capacity[l - 1], Length[l])

Own == CHOOSE l \in 1..Depth :
         /\ l = 1 \/ ~(Length[l] <= Capacity[l - 1])
         /\ \A m \in (l + 1)..Depth : Length[m] <= Capacity[m - 1]

Intact(k, s) == arrays[kept[k].arr].segs[s] = SubSeq(kept[k].path, 1, s)

(* A row that was handed out changes only if its columns were not reordered and
   a table with many rows was appended in place, and it changes only in the
   columns of the tables that were. *)
KeptRowsChangeOnlyBehindSpareRoom ==
  \A k \in DOMAIN kept : \A s \in 1..Depth :
    ~Intact(k, s) => ~mapped /\ s > Own /\ \E l \in (Own + 1)..Depth : ChainTables[l].many
=============================================================================
