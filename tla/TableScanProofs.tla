-------------------------- MODULE TableScanProofs --------------------------
(***************************************************************************)
(* Proofs for TableScan, for all the tables and for every size of the      *)
(* library, every number of things that are wrong in it and every order of *)
(* steps: the query closes the repositories it read, fails only for a      *)
(* cause, passes over nothing unreadable in silence, and gives the         *)
(* positions that are readable once each, in order and all before io.EOF   *)
(* (RowSource); the table files gives the files of each tree once.         *)
(*                                                                         *)
(* The invariants are made inductive by what the position of the query     *)
(* says: TypeInv (types and where the cursor may be), Passed (what has     *)
(* been found out about the repository and the object at hand), and, one   *)
(* for each, Held, Caused, Silent and Account (which of the wanted rows    *)
(* are ahead of the query, and that the others were returned).             *)
(*                                                                         *)
(* The last part is about the filters of the tables, Selectors.            *)
(***************************************************************************)
EXTENDS TableScan, Selectors, SequenceTheorems, WellFoundedInduction, TLAPS

(* What the argument needs to know of an iterator. *)
Sound(it) ==
  /\ it.levels \in {1, 2}
  /\ it.open # "return"
  /\ it.item # "return"
  /\ it.fragile = TRUE => it.list = "end"
  /\ it.seen \in BOOLEAN
  /\ it.seen = TRUE => it.levels = 2 /\ it.item = "skip"

(* All the iterators are so. *)
LEMMA ItersAreSound ==
  /\ Sound(repositoriesRowIter)
  /\ Sound(remotesRowIter)
  /\ Sound(refRowIter)
  /\ Sound(commitRowIter)
  /\ Sound(commitTreesRowIter)
  /\ Sound(commitBlobsRowIter)
  /\ Sound(commitFilesRowIter)
  /\ Sound(blobRowIter)
  /\ Sound(treeEntriesRowIter)
  /\ Sound(filesRowIter)
<1>1. Sound(repositoriesRowIter)
  BY DEF Sound, Loop, repositoriesRowIter
<1>2. Sound(remotesRowIter)
  BY DEF Sound, Loop, remotesRowIter
<1>3. Sound(refRowIter)
  BY DEF Sound, Loop, refRowIter
<1>4. Sound(commitRowIter)
  BY DEF Sound, Loop, commitRowIter
<1>5. Sound(commitTreesRowIter)
  BY DEF Sound, Loop, commitTreesRowIter
<1>6. Sound(commitBlobsRowIter)
  BY DEF Sound, Loop, commitBlobsRowIter
<1>7. Sound(commitFilesRowIter)
  BY DEF Sound, Loop, commitFilesRowIter
<1>8. Sound(blobRowIter)
  BY DEF Sound, Loop, blobRowIter
<1>9. Sound(treeEntriesRowIter)
  BY DEF Sound, Loop, treeEntriesRowIter
<1>10. Sound(filesRowIter)
  BY DEF Sound, Loop, filesRowIter
<1> QED BY <1>1, <1>2, <1>3, <1>4, <1>5, <1>6, <1>7, <1>8, <1>9, <1>10

(* The iterator of a query is one of these. *)
LEMMA IterIsSound ==
  ASSUME scan \in DOMAIN Scans
  PROVE  Sound(Iter)
<1>1. Scans[scan] \in GitTables
  BY ScansAreTables
<1>2. /\ repositoriesTable.iter = repositoriesRowIter
      /\ remotesTable.iter = remotesRowIter
      /\ referencesTable.iter = refRowIter
      /\ commitsTable.iter = commitRowIter
      /\ commitTreesTable.iter = commitTreesRowIter
      /\ commitBlobsTable.iter = commitBlobsRowIter
      /\ commitFilesTable.iter = commitFilesRowIter
      /\ blobsTable.iter = blobRowIter
      /\ treeEntriesTable.iter = treeEntriesRowIter
      /\ filesTable.iter = filesRowIter
  BY DEF repositoriesTable, remotesTable, referencesTable, commitsTable,
         commitTreesTable, commitBlobsTable, commitFilesTable, blobsTable,
         treeEntriesTable, filesTable, TableOf
<1> QED BY <1>1, <1>2, ItersAreSound DEF GitTables, Iter, Table

(* A position that has a mark is in marks with it. *)
LEMMA MarkIsThere ==
  ASSUME NEW x, Mark(x) # "none"
  PROVE  \E y \in marks : y[1] = x /\ y[2] = Mark(x)
BY DEF Mark

(* The positions that an iterator gets to are reached. *)
LEMMA ReachedPositions ==
  ASSUME NEW r, NEW o, NEW i
  PROVE  /\ Reached(<<r>>)
         /\ Mark(<<r>>) = "none" => Reached(<<r, o>>)
         /\ Mark(<<r>>) = "none" /\ Mark(<<r, o>>) \in {"none", "again"} /\ ~Seen(r, o)
              => Reached(<<r, o, i>>)
<1>1. Len(<<r>>) = 1 /\ Len(<<r, o>>) = 2 /\ Len(<<r, o, i>>) = 3
  OBVIOUS
<1>2. <<r, o>>[1] = r /\ <<r, o, i>>[1] = r /\ <<r, o, i>>[2] = o
  OBVIOUS
<1> QED BY <1>1, <1>2 DEF Reached

(* Only repositories, objects and items have marks, each kind its own. *)
RepoKinds == {"unlisted", "gone", "rejected", "nolist"}

RepoMarked(y) == \E r \in 1..Repos, m \in RepoMarks : y = <<<<r>>, m>>

ObjectMarked(y) ==
  \E r \in 1..Repos, o \in Objects : \E m \in ObjectMarks(o) : y = <<<<r, o>>, m>>

ItemMarked(y) ==
  \E r \in 1..Repos, o \in Objects, i \in 1..Width :
    \E m \in ItemMarks(i) : y = <<<<r, o, i>>, m>>

(* A mark is that of a repository, of an object or of an item. *)
LEMMA MarksOfThreeKinds ==
  ASSUME NEW y \in Marked
  PROVE  RepoMarked(y) \/ ObjectMarked(y) \/ ItemMarked(y)
<1> DEFINE
      R == {<<<<r>>, m>> : r \in 1..Repos, m \in RepoMarks}
      O(r, o) == {<<<<r, o>>, m>> : m \in ObjectMarks(o)}
      I(r, o, i) == {<<<<r, o, i>>, m>> : m \in ItemMarks(i)}
      Os == UNION {O(r, o) : r \in 1..Repos, o \in Objects}
      Is == UNION {I(r, o, i) : r \in 1..Repos, o \in Objects, i \in 1..Width}
<1>1. y \in R \/ y \in Os \/ y \in Is
  BY DEF Marked
<1>2. CASE y \in R
  BY <1>2 DEF RepoMarked
<1>3. CASE y \in Os
  <2>1. PICK r \in 1..Repos, o \in Objects : y \in O(r, o)
    BY <1>3
  <2> QED BY <2>1 DEF ObjectMarked
<1>4. CASE y \in Is
  <2>1. PICK r \in 1..Repos, o \in Objects, i \in 1..Width : y \in I(r, o, i)
    BY <1>4
  <2> QED BY <2>1 DEF ItemMarked
<1> QED BY <1>1, <1>2, <1>3, <1>4

(* "none" is no mark. *)
LEMMA NoneIsNoMark ==
  ASSUME marks \subseteq Marked, NEW y \in marks
  PROVE  y[2] # "none"
<1>1. "none" \notin RepoMarks /\ \A n : "none" \notin ObjectMarks(n) /\ "none" \notin ItemMarks(n)
  BY DEF RepoMarks, ObjectMarks, ItemMarks
<1> QED BY <1>1, MarksOfThreeKinds DEF RepoMarked, ObjectMarked, ItemMarked

(* The mark of a repository is one of its kinds. *)
LEMMA RepoMark ==
  ASSUME marks \subseteq Marked, NEW r
  PROVE  Mark(<<r>>) \in RepoKinds \union {"none"}
<1>1. CASE Mark(<<r>>) = "none"
  BY <1>1
<1>2. CASE Mark(<<r>>) # "none"
  <2>1. PICK y \in marks : y[1] = <<r>> /\ y[2] = Mark(<<r>>)
    BY <1>2, MarkIsThere
  <2>2. \A a, b, c : Len(<<r>>) # Len(<<a, b>>) /\ Len(<<r>>) # Len(<<a, b, c>>)
    OBVIOUS
  <2>3. \A a, b, c, m : <<<<a, b>>, m>>[1] = <<a, b>> /\ <<<<a, b, c>>, m>>[1] = <<a, b, c>>
    OBVIOUS
  <2>4. ~ObjectMarked(y) /\ ~ItemMarked(y)
    BY <2>1, <2>2, <2>3 DEF ObjectMarked, ItemMarked
  <2>5. RepoMarked(y)
    BY <2>4, MarksOfThreeKinds
  <2>6. y[2] \in RepoMarks
    BY <2>5 DEF RepoMarked
  <2>7. RepoMarks \subseteq RepoKinds
    BY DEF RepoMarks, RepoKinds
  <2> QED BY <2>1, <2>6, <2>7
<1> QED BY <1>1, <1>2

-----------------------------------------------------------------------------
(* Positions of rows. *)

LEMMA ObjectsInWidth == Objects \subseteq 1..Width
BY SizesAreNaturals DEF Objects

(* What a loop with one level returns is a row of the table. *)
LEMMA ObjectIsRow ==
  ASSUME NEW r \in 1..Repos, NEW o \in Objects, Iter.levels = 1
  PROVE  <<r, o>> \in Rows
BY DEF Rows, ObjectsOf

(* What a loop with two levels returns is a row of the table. *)
LEMMA ItemIsRow ==
  ASSUME NEW r \in 1..Repos, NEW o \in Objects, NEW i \in 1..Width, Iter.levels = 2
  PROVE  <<r, o, i>> \in Rows
BY DEF Rows, ItemsOf

-----------------------------------------------------------------------------
(* Where the cursor may be. *)
Places ==
  /\ status \in {"open", "run", "closing"} => listed \in 1..Repos
  /\ status = "closing" => stop # "none"
  /\ opened = TRUE => object \in Objects /\ Iter.levels = 2

TypeInv == TypeOK /\ Places

(* A query starts with the types. *)
LEMMA TypeInit == Init => TypeInv
<1> SUFFICES ASSUME Init PROVE TypeInv
  OBVIOUS
<1>1. marks \subseteq Marked
  <2>1. marks \in {{}} \union {Range(f) : f \in [1..MaxMarks -> Marked]}
    BY DEF Init
  <2>2. CASE marks = {}
    BY <2>2
  <2>3. CASE marks \in {Range(f) : f \in [1..MaxMarks -> Marked]}
    <3>1. PICK f \in [1..MaxMarks -> Marked] : marks = Range(f)
      BY <2>3
    <3> QED BY <3>1 DEF Range
  <2> QED BY <2>1, <2>2, <2>3
<1>2. out \in Seq(Rows)
  BY DEF Init
<1>3. listed \in 0..Repos /\ object \in 0..Width /\ item \in 0..Width
  BY SizesAreNaturals DEF Init
<1>4. status = "start" /\ stop = "none" /\ handles = {}
  BY DEF Init
<1>5. scan \in DOMAIN Scans /\ skip \in BOOLEAN
  BY DEF Init
<1>6. opened # TRUE /\ opened \in BOOLEAN
  BY DEF Init
<1>7. TypeOK
  BY <1>1, <1>2, <1>3, <1>4, <1>5, <1>6 DEF TypeOK
<1>8. Places
  BY <1>4, <1>6 DEF Places
<1> QED BY <1>7, <1>8 DEF TypeInv

(* What a query reads does not change. *)
LEMMA WorldStays ==
  ASSUME UNCHANGED world
  PROVE  /\ Table' = Table /\ Iter' = Iter /\ Objects' = Objects
         /\ Rows' = Rows /\ Marked' = Marked
         /\ \A x : Mark(x)' = Mark(x)
<1>1. scan' = scan /\ skip' = skip /\ byHash' = byHash /\ marks' = marks
  BY DEF world
<1>2. Table' = Table /\ Iter' = Iter /\ Objects' = Objects
  BY <1>1 DEF Table, Iter, Objects
<1>3. Rows' = Rows
  BY <1>2 DEF Rows, ObjectsOf, ItemsOf
<1>4. Marked' = Marked
  BY <1>1, <1>2 DEF Marked, RepoMarks, ObjectMarks, ItemMarks
<1>5. \A x : Mark(x)' = Mark(x)
  BY <1>1 DEF Mark
<1> QED BY <1>2, <1>3, <1>4, <1>5

(* The steps keep the types.  Those of Fail are the only ones that do not say
   where the query goes. *)
LEMMA FailStatus ==
  ASSUME NEW policy, Fail(policy)
  PROVE  \/ status' = status /\ stop' = stop
         \/ status' = "panic" /\ stop' = stop
         \/ status' = "closing" /\ stop' = "error"
BY DEF Fail, Continue, End

(* The steps keep the types. *)
LEMMA TypeStep == TypeInv /\ [Next]_vars => TypeInv'
<1> SUFFICES ASSUME TypeInv, [Next]_vars PROVE TypeInv'
  OBVIOUS
<1> USE SizesAreNaturals
<1>t. /\ scan \in DOMAIN Scans /\ skip \in BOOLEAN /\ marks \subseteq Marked
      /\ status \in {"start", "list", "open", "run", "closing", "eof", "error", "panic", "closed"}
      /\ listed \in 0..Repos /\ object \in 0..Width /\ item \in 0..Width
      /\ opened \in BOOLEAN
      /\ stop \in {"none", "eof", "error", "closed"}
      /\ handles \subseteq {Handle(use, r) : use \in {"count", "rows"}, r \in 1..Repos}
      /\ out \in Seq(Rows)
      /\ status \in {"open", "run", "closing"} => listed \in 1..Repos
      /\ status = "closing" => stop # "none"
      /\ opened = TRUE => object \in Objects /\ Iter.levels = 2
  BY DEF TypeInv, TypeOK, Places
<1>w. UNCHANGED world
  BY DEF Next, Step, vars, PartitionCount, Partitions, NextPartition, PartitionRows, ListFails,
         ReadObject, ReadItem, ItemsEnd, ObjectsEnd, Close, Stop
<1>u. /\ scan' = scan /\ skip' = skip /\ marks' = marks
      /\ Rows' = Rows /\ Marked' = Marked /\ Objects' = Objects /\ Iter' = Iter
  BY <1>w, WorldStays DEF world
<1>h. \A use, r : Handle(use, r)' = Handle(use, r)
  BY DEF Handle
<1> DEFINE
      Where ==
        /\ status \in {"start", "list", "open", "run", "closing", "eof", "error", "panic", "closed"}
        /\ listed \in 0..Repos
        /\ stop \in {"none", "eof", "error", "closed"}
        /\ status \in {"open", "run", "closing"} => listed \in 1..Repos
        /\ status = "closing" => stop # "none"
      Cursor ==
        /\ object \in 0..Width /\ item \in 0..Width
        /\ opened \in BOOLEAN
        /\ opened = TRUE => object \in Objects /\ Iter.levels = 2
      Handles == handles \subseteq {Handle(use, r) : use \in {"count", "rows"}, r \in 1..Repos}
      Outs == out \in Seq(Rows)
<1>q. Where' /\ Cursor' /\ Handles' /\ Outs' => TypeInv'
  BY <1>t, <1>u DEF TypeInv, TypeOK, Places
<1>k. /\ UNCHANGED cursor => Cursor'
      /\ UNCHANGED handles => Handles'
      /\ UNCHANGED out => Outs'
  BY <1>t, <1>u, <1>h DEF cursor
<1>1. CASE PartitionCount
  <2>1. Where'
    BY <1>1, <1>t DEF PartitionCount
  <2>2. Handles'
    BY <1>1, <1>h DEF PartitionCount
  <2> QED BY <1>1, <1>k, <1>q, <2>1, <2>2 DEF PartitionCount
<1>2. CASE Partitions
  <2>1. Where'
    BY <1>2, <1>t DEF Partitions
  <2> QED BY <1>2, <1>k, <1>q, <2>1 DEF Partitions
<1>3. CASE NextPartition
  <2>1. Where'
    BY <1>3, <1>t DEF NextPartition
  <2> QED BY <1>3, <1>k, <1>q, <2>1 DEF NextPartition
<1>4. CASE PartitionRows
  <2>1. Where'
    BY <1>4, <1>t DEF PartitionRows
  <2>2. Handles'
    BY <1>4, <1>t, <1>h DEF PartitionRows
  <2>3. Cursor'
    <3>1. object' = 0 /\ item' = 0 /\ opened' = FALSE
      BY <1>4 DEF PartitionRows
    <3>2. opened' # TRUE /\ opened' \in BOOLEAN
      BY <3>1
    <3>3. object' \in 0..Width /\ item' \in 0..Width
      BY <3>1
    <3> QED BY <3>2, <3>3
  <2> QED BY <1>4, <1>k, <1>q, <2>1, <2>2, <2>3 DEF PartitionRows
<1>5. CASE ListFails
  <2>1. Where'
    BY <1>5, <1>t DEF ListFails, End
  <2> QED BY <1>5, <1>k, <1>q, <2>1 DEF ListFails
<1>6. CASE ReadObject
  <2>1. \/ status' = status /\ stop' = stop
        \/ status' = "panic" /\ stop' = stop
        \/ status' = "closing" /\ stop' = "error"
    BY <1>6, FailStatus DEF ReadObject, Continue
  <2>2. Where'
    BY <1>6, <1>t, <2>1 DEF ReadObject
  <2>3. object' = object + 1 /\ object' \in Objects /\ item' = 0
        /\ opened' \in BOOLEAN /\ (opened' = TRUE => Iter.levels = 2)
    BY <1>6 DEF ReadObject
  <2>4. Cursor'
    BY <2>3, <1>u, <1>t, ObjectsInWidth
  <2>5. listed \in 1..Repos
    BY <1>6, <1>t DEF ReadObject
  <2>6. Iter.levels = 1 => <<listed, object + 1>> \in Rows
    BY <2>3, <2>5, ObjectIsRow
  <2>7. Outs'
    BY <1>6, <1>t, <1>u, <2>6 DEF ReadObject
  <2> QED BY <1>6, <1>k, <1>q, <2>2, <2>4, <2>7 DEF ReadObject
<1>7. CASE ReadItem
  <2>1. \/ status' = status /\ stop' = stop
        \/ status' = "panic" /\ stop' = stop
        \/ status' = "closing" /\ stop' = "error"
    BY <1>7, FailStatus DEF ReadItem, Continue
  <2>2. Where'
    BY <1>7, <1>t, <2>1 DEF ReadItem
  <2>3. object' = object /\ item' = item + 1 /\ item < Width /\ opened' \in BOOLEAN /\ opened = TRUE
    BY <1>7, <1>t DEF ReadItem
  <2>4. Cursor'
    BY <2>3, <1>u, <1>t
  <2>5. listed \in 1..Repos
    BY <1>7, <1>t DEF ReadItem
  <2>6. <<listed, object, item + 1>> \in Rows
    BY <2>3, <2>5, <1>t, ItemIsRow
  <2>7. Outs'
    BY <1>7, <1>t, <1>u, <2>6 DEF ReadItem
  <2> QED BY <1>7, <1>k, <1>q, <2>2, <2>4, <2>7 DEF ReadItem
<1>8. CASE ItemsEnd
  <2>1. Where'
    BY <1>8, <1>t DEF ItemsEnd
  <2>2. Cursor'
    <3>1. object' = object /\ item' = item /\ opened' = FALSE
      BY <1>8 DEF ItemsEnd
    <3>2. opened' # TRUE /\ opened' \in BOOLEAN
      BY <3>1
    <3>3. object' \in 0..Width /\ item' \in 0..Width
      BY <3>1, <1>t
    <3> QED BY <3>2, <3>3
  <2> QED BY <1>8, <1>k, <1>q, <2>1, <2>2 DEF ItemsEnd
<1>9. CASE ObjectsEnd
  <2>1. Where'
    BY <1>9, <1>t DEF ObjectsEnd, End
  <2> QED BY <1>9, <1>k, <1>q, <2>1 DEF ObjectsEnd
<1>10. CASE Close
  <2>1. Where'
    BY <1>10, <1>t DEF Close
  <2>2. Handles'
    BY <1>10, <1>t, <1>h DEF Close
  <2> QED BY <1>10, <1>k, <1>q, <2>1, <2>2 DEF Close
<1>11. CASE Stop
  <2>1. Where'
    BY <1>11, <1>t DEF Stop, End
  <2> QED BY <1>11, <1>k, <1>q, <2>1 DEF Stop
<1>12. CASE UNCHANGED vars
  <2>1. Where'
    BY <1>12, <1>t DEF vars
  <2> QED BY <1>12, <1>k, <1>q, <2>1 DEF vars
<1> QED BY <1>1, <1>2, <1>3, <1>4, <1>5, <1>6, <1>7, <1>8, <1>9, <1>10, <1>11, <1>12 DEF Next, Step

(* The state of a query over a table has its type at every step, whatever the
   tables, the library and what is wrong with it. *)
THEOREM Typing == Spec => []TypeOK
<1>1. TypeInv => TypeOK
  BY DEF TypeInv
<1> QED BY <1>1, TypeInit, TypeStep, PTL DEF Spec

-----------------------------------------------------------------------------
(* A repository that was opened for its rows and was not closed is the one that
   is being read, or one that PartitionRows returned no iterator for. *)
Forgotten(h) ==
  \/ h.use = "count"
  \/ Mark(<<h.repo>>) = "rejected"
  \/ Mark(<<h.repo>>) = "nolist" /\ Table.early

Held ==
  \A h \in handles : Forgotten(h) \/ (h.repo = listed /\ status \in {"run", "closing", "panic"})

(* The steps keep Held. *)
LEMMA HeldStep == TypeInv /\ Held /\ [Next]_vars => Held'
<1> SUFFICES ASSUME TypeInv, Held, [Next]_vars PROVE Held'
  OBVIOUS
<1>w. UNCHANGED world
  BY DEF Next, Step, vars, PartitionCount, Partitions, NextPartition, PartitionRows, ListFails,
         ReadObject, ReadItem, ItemsEnd, ObjectsEnd, Close, Stop
<1>f. \A h : Forgotten(h)' = Forgotten(h)
  BY <1>w, WorldStays DEF Forgotten
<1>t. handles \subseteq {Handle(use, r) : use \in {"count", "rows"}, r \in 1..Repos}
  BY DEF TypeInv, TypeOK
<1>a. ASSUME UNCHANGED <<handles, listed>>,
             status' = status \/ (status = "run" /\ status' \in {"panic", "closing"})
               \/ status \notin {"run", "closing", "panic"}
      PROVE  Held'
  BY <1>a, <1>f DEF Held
<1>1. CASE PartitionCount
  <2>1. \A h \in handles' : h.use = "count"
    BY <1>1 DEF PartitionCount, Handle
  <2> QED BY <2>1 DEF Held, Forgotten
<1>2. CASE Partitions
  BY <1>2, <1>a DEF Partitions
<1>3. CASE NextPartition
  <2>1. \A h \in handles : Forgotten(h)
    BY <1>3 DEF NextPartition, Held
  <2> QED BY <1>3, <1>f, <2>1 DEF NextPartition, Held
<1>4. CASE PartitionRows
  <2>1. \A h \in handles : Forgotten(h)
    BY <1>4 DEF PartitionRows, Held
  <2>2. listed' = listed
    BY <1>4 DEF PartitionRows
  <2>3. CASE Mark(<<listed>>) = "gone"
    BY <1>4, <1>f, <2>1, <2>3 DEF PartitionRows, Held
  <2>4. CASE Mark(<<listed>>) # "gone"
    <3>1. handles' = handles \union {Handle("rows", listed)}
      BY <1>4, <2>4 DEF PartitionRows
    <3>2. Handle("rows", listed).repo = listed
      BY DEF Handle
    <3>3. Forgotten(Handle("rows", listed)) \/ status' = "run"
      BY <1>4, <2>4, <3>2 DEF PartitionRows, Forgotten
    <3> QED BY <1>f, <2>1, <2>2, <3>1, <3>2, <3>3 DEF Held
  <2> QED BY <2>3, <2>4
<1>5. CASE ListFails
  BY <1>5, <1>a DEF ListFails, End
<1>6. CASE ReadObject
  <2>1. status' = status \/ status' \in {"panic", "closing"}
    BY <1>6, FailStatus DEF ReadObject, Continue
  <2> QED BY <1>6, <1>a, <2>1 DEF ReadObject
<1>7. CASE ReadItem
  <2>1. status' = status \/ status' \in {"panic", "closing"}
    BY <1>7, FailStatus DEF ReadItem, Continue
  <2> QED BY <1>7, <1>a, <2>1 DEF ReadItem
<1>8. CASE ItemsEnd
  BY <1>8, <1>a DEF ItemsEnd
<1>9. CASE ObjectsEnd
  BY <1>9, <1>a DEF ObjectsEnd, End
<1>10. CASE Close
  <2>1. CASE status' = "panic" /\ UNCHANGED handles
    BY <1>10, <1>f, <2>1 DEF Close, Held
  <2>2. CASE handles' = handles \ {Handle("rows", listed)}
    <3>1. \A h \in handles' : h.use = "rows" => h.repo # listed
      BY <1>t, <2>2 DEF Handle
    <3>2. \A h \in handles' : h.use = "count" \/ h.use = "rows"
      BY <1>t, <2>2 DEF Handle
    <3> QED BY <1>f, <2>2, <3>1, <3>2 DEF Held, Forgotten
  <2> QED BY <1>10, <2>1, <2>2 DEF Close
<1>11. CASE Stop
  BY <1>11, <1>a DEF Stop, End
<1>12. CASE UNCHANGED vars
  BY <1>12, <1>a DEF vars
<1> QED BY <1>1, <1>2, <1>3, <1>4, <1>5, <1>6, <1>7, <1>8, <1>9, <1>10, <1>11, <1>12 DEF Next, Step

(* A query over a table that ended without a panic closed every repository that
   it opened, but for those that PartitionCount opened or that PartitionRows
   opened and gave no iterator for. *)
THEOREM RepositoriesAreClosed == Spec => []ClosesRepositories
<1>1. Init => Held
  BY DEF Init, Held
<1>2. Held => ClosesRepositories
  BY DEF Held, Forgotten, ClosesRepositories, Ended
<1> QED BY <1>1, <1>2, TypeInit, TypeStep, HeldStep, PTL DEF Spec

-----------------------------------------------------------------------------
(* Where the query is in the library, and what it knows by then. *)
Passed ==
  /\ status = "start" => listed = 0
  /\ status = "open" => Mark(<<listed>>) # "unlisted"
  /\ status \in {"run", "closing"} => Mark(<<listed>>) \in {"none", "nolist"}
  /\ status = "run" /\ opened = TRUE =>
       /\ Mark(<<listed>>) = "none"
       /\ Mark(<<listed, object>>) \in {"none", "again"}
       /\ ~Seen(listed, object)
  /\ status \in {"start", "list", "open", "run"} => stop # "error"

(* The steps keep Passed. *)
LEMMA PassedStep == TypeInv /\ Passed /\ [Next]_vars => Passed'
<1> SUFFICES ASSUME TypeInv, Passed, [Next]_vars PROVE Passed'
  OBVIOUS
<1>w. UNCHANGED world
  BY DEF Next, Step, vars, PartitionCount, Partitions, NextPartition, PartitionRows, ListFails,
         ReadObject, ReadItem, ItemsEnd, ObjectsEnd, Close, Stop
<1>m. \A x : Mark(x)' = Mark(x)
  BY <1>w, WorldStays
<1>s. \A r, o : Seen(r, o)' = Seen(r, o)
  BY <1>w, WorldStays DEF Seen
<1>1. CASE PartitionCount
  BY <1>1 DEF PartitionCount, Passed
<1>2. CASE Partitions
  BY <1>2 DEF Partitions, Passed
<1>3. CASE NextPartition
  <2>1. status' \in {"eof", "list", "error"} \/ (status' = "open" /\ Mark(<<listed'>>) # "unlisted")
    BY <1>3 DEF NextPartition
  <2> QED BY <1>3, <1>m, <2>1 DEF NextPartition, Passed
<1>4. CASE PartitionRows
  <2>1. marks \subseteq Marked
    BY DEF TypeInv, TypeOK
  <2>2. Mark(<<listed>>) \in {"none", "gone", "rejected", "nolist"}
    BY <1>4, <2>1, RepoMark DEF PartitionRows, Passed, RepoKinds
  <2>3. status' \in {"list", "error"} \/ (status' = "run" /\ Mark(<<listed>>) \in {"none", "nolist"})
    BY <1>4, <2>2 DEF PartitionRows
  <2>4. opened' # TRUE /\ listed' = listed /\ stop' = stop /\ status = "open"
    BY <1>4 DEF PartitionRows
  <2> QED BY <1>m, <2>3, <2>4 DEF Passed
<1>5. CASE ListFails
  BY <1>5, <1>m DEF ListFails, End, Passed
<1>6. CASE ReadObject
  <2>1. \/ status' = status /\ stop' = stop
        \/ status' = "panic" /\ stop' = stop
        \/ status' = "closing" /\ stop' = "error"
    BY <1>6, FailStatus DEF ReadObject, Continue
  <2>2. listed' = listed /\ object' = object + 1 /\ status = "run"
    BY <1>6 DEF ReadObject
  <2>3. Mark(<<listed>>) = "none"
    BY <1>6, <2>2 DEF ReadObject, Passed
  <2>4. opened' = TRUE => /\ Mark(<<listed, object + 1>>) \in {"none", "again"}
                          /\ ~Seen(listed, object + 1)
    BY <1>6 DEF ReadObject
  <2> QED BY <1>m, <1>s, <2>1, <2>2, <2>3, <2>4 DEF Passed
<1>7. CASE ReadItem
  <2>1. \/ status' = status /\ stop' = stop
        \/ status' = "panic" /\ stop' = stop
        \/ status' = "closing" /\ stop' = "error"
    BY <1>7, FailStatus DEF ReadItem, Continue
  <2>2. listed' = listed /\ object' = object /\ status = "run" /\ opened = TRUE
    BY <1>7 DEF ReadItem, TypeInv, TypeOK
  <2> QED BY <1>m, <1>s, <2>1, <2>2 DEF Passed
<1>8. CASE ItemsEnd
  <2>1. opened' # TRUE /\ listed' = listed /\ stop' = stop /\ status' = status
    BY <1>8 DEF ItemsEnd
  <2> QED BY <1>m, <2>1 DEF Passed
<1>9. CASE ObjectsEnd
  BY <1>9, <1>m DEF ObjectsEnd, End, Passed
<1>10. CASE Close
  <2>1. CASE status' = "panic"
    BY <1>10, <2>1 DEF Passed
  <2>2. CASE status' = IF stop = "eof" THEN "list" ELSE stop
    <3>1. status = "closing" /\ stop \in {"eof", "error", "closed"} /\ stop' = stop
      BY <1>10 DEF Close, TypeInv, TypeOK, Places
    <3> QED BY <2>2, <3>1 DEF Passed
  <2> QED BY <1>10, <2>1, <2>2 DEF Close
<1>11. CASE Stop
  BY <1>11, <1>m DEF Stop, End, Passed
<1>12. CASE UNCHANGED vars
  BY <1>12, <1>m, <1>s DEF vars, cursor, Passed
<1> QED BY <1>1, <1>2, <1>3, <1>4, <1>5, <1>6, <1>7, <1>8, <1>9, <1>10, <1>11, <1>12 DEF Next, Step

-----------------------------------------------------------------------------
(* Something that was reached is to blame for a failure, and Close panics only
   where nothing is skipped. *)
Blame == \E x \in marks : Reached(x[1]) /\ Complains(x)

Caused ==
  /\ status \in {"error", "panic"} \/ stop = "error" => Blame
  /\ status = "panic" => skip = FALSE
  /\ status = "closing" /\ stop = "error" /\ Mark(<<listed>>) = "nolist" =>
       ~Skipped(Iter.list)

(* A mark of a position that was reached takes the blame, when errors are not
   skipped or the mark is one that is not skipped. *)
LEMMA RepoIsToBlame ==
  ASSUME NEW r,
         \/ Mark(<<r>>) = "unlisted" /\ (skip = FALSE \/ listed = 0)
         \/ Mark(<<r>>) = "gone"
         \/ Mark(<<r>>) = "nolist" /\ (skip = FALSE \/ Iter.list = "return")
  PROVE  Blame
<1>1. PICK y \in marks : y[1] = <<r>> /\ y[2] = Mark(<<r>>)
  BY MarkIsThere
<1>2. Reached(y[1])
  BY <1>1, ReachedPositions
<1>3. Complains(y)
  BY <1>1 DEF Complains
<1> QED BY <1>2, <1>3 DEF Blame

(* So it is with an object of a repository that has no mark. *)
LEMMA ObjectIsToBlame ==
  ASSUME NEW r, NEW o, Mark(<<r>>) = "none",
         Mark(<<r, o>>) \in {"unread", "noopen", "nocontent"},
         Mark(<<r, o>>) = "unread" => skip = FALSE \/ Iter.object = "return",
         Mark(<<r, o>>) = "noopen" => skip = FALSE
  PROVE  Blame
<1>1. PICK y \in marks : y[1] = <<r, o>> /\ y[2] = Mark(<<r, o>>)
  BY MarkIsThere
<1>2. Reached(y[1]) /\ Len(y[1]) = 2
  BY <1>1, ReachedPositions
<1>3. Complains(y)
  BY <1>1, <1>2 DEF Complains
<1> QED BY <1>2, <1>3 DEF Blame

(* So it is with an item of an object that was opened. *)
LEMMA ItemIsToBlame ==
  ASSUME NEW r, NEW o, NEW i, Mark(<<r>>) = "none",
         Mark(<<r, o>>) \in {"none", "again"}, ~Seen(r, o),
         Mark(<<r, o, i>>) \in {"unread", "nocontent"},
         Mark(<<r, o, i>>) = "unread" => skip = FALSE
  PROVE  Blame
<1>1. PICK y \in marks : y[1] = <<r, o, i>> /\ y[2] = Mark(<<r, o, i>>)
  BY MarkIsThere
<1>2. Reached(y[1])
  BY <1>1, ReachedPositions
<1>3. Complains(y)
  BY <1>1 DEF Complains
<1> QED BY <1>2, <1>3 DEF Blame

(* A failure that is not skipped. *)
LEMMA FailOutcome ==
  ASSUME NEW policy, Fail(policy), skip \in BOOLEAN
  PROVE  \/ status' = status /\ stop' = stop
         \/ /\ skip = FALSE \/ policy = "return"
            /\ \/ status' = "panic" /\ stop' = stop /\ skip = FALSE
               \/ status' = "closing" /\ stop' = "error"
BY DEF Fail, Continue, End, Skipped

(* The steps keep Caused. *)
LEMMA CausedStep == TypeInv /\ Passed /\ Caused /\ [Next]_vars => Caused'
<1> SUFFICES ASSUME TypeInv, Passed, Caused, [Next]_vars PROVE Caused'
  OBVIOUS
<1>w. UNCHANGED world
  BY DEF Next, Step, vars, PartitionCount, Partitions, NextPartition, PartitionRows, ListFails,
         ReadObject, ReadItem, ItemsEnd, ObjectsEnd, Close, Stop
<1>m. \A x : Mark(x)' = Mark(x)
  BY <1>w, WorldStays
<1>u. skip' = skip /\ marks' = marks /\ Iter' = Iter
  BY <1>w, WorldStays DEF world
<1>r. \A x : Reached(x)' = Reached(x)
  BY <1>m, <1>u, WorldStays, <1>w DEF Reached, Seen
<1>b. Blame /\ listed' = listed => Blame'
  <2>1. listed' = listed => \A x : Complains(x)' = Complains(x)
    BY <1>u DEF Complains
  <2> QED BY <1>r, <1>u, <2>1 DEF Blame
<1>k. skip \in BOOLEAN /\ scan \in DOMAIN Scans
  BY DEF TypeInv, TypeOK
<1>i. Sound(Iter)
  BY <1>k, IterIsSound
<1>p. \A policy : Skipped(policy)' = Skipped(policy)
  BY <1>u DEF Skipped
<1>n. \A policy : ~Skipped(policy) => skip = FALSE \/ policy = "return"
  BY <1>k DEF Skipped
<1>1. CASE PartitionCount
  <2>1. status' \in {"list", "error"} /\ listed' = listed /\ stop' = stop /\ status = "start"
    BY <1>1 DEF PartitionCount
  <2>2. ASSUME status' = "error" PROVE Blame
    <3>1. PICK r \in 1..Repos : Mark(<<r>>) = "unlisted"
      BY <1>1, <2>2 DEF PartitionCount
    <3>2. listed = 0
      BY <2>1 DEF Passed
    <3> QED BY <3>1, <3>2, RepoIsToBlame
  <2> QED BY <1>b, <2>1, <2>2 DEF Caused, Passed
<1>2. CASE Partitions
  BY <1>2 DEF Partitions, Caused, Passed
<1>3. CASE NextPartition
  <2>1. /\ status = "list" /\ stop' = stop
        /\ \/ status' \in {"eof", "list", "open"}
           \/ status' = "error" /\ Mark(<<listed'>>) = "unlisted" /\ skip = FALSE
    BY <1>3, <1>k DEF NextPartition
  <2>2. ASSUME status' = "error" PROVE Blame'
    <3>1. PICK y \in marks : y[1] = <<listed'>> /\ y[2] = "unlisted"
      BY <2>1, <2>2, MarkIsThere
    <3>2. Reached(y[1])
      BY <3>1, ReachedPositions
    <3>3. Complains(y)'
      BY <2>1, <2>2, <3>1, <1>u DEF Complains
    <3> QED BY <3>2, <3>3, <1>r, <1>u DEF Blame
  <2> QED BY <2>1, <2>2 DEF Caused, Passed
<1>4. CASE PartitionRows
  <2>1. /\ status = "open" /\ stop' = stop /\ listed' = listed
        /\ \/ status' \in {"list", "run"}
           \/ status' = "error" /\ Mark(<<listed>>) = "gone"
           \/ status' = "error" /\ Mark(<<listed>>) = "nolist" /\ ~Skipped(Iter.list)
    BY <1>4 DEF PartitionRows
  <2>2. ASSUME status' = "error" PROVE Blame
    BY <2>1, <2>2, <1>n, RepoIsToBlame
  <2> QED BY <2>1, <2>2, <1>b DEF Caused, Passed
<1>5. CASE ListFails
  <2>1. /\ status' = "closing" /\ listed' = listed /\ Mark(<<listed>>) = "nolist"
        /\ stop' = IF Skipped(Iter.list) THEN "eof" ELSE "error"
    BY <1>5 DEF ListFails, End
  <2>2. ASSUME stop' = "error" PROVE Blame /\ ~Skipped(Iter.list)
    BY <2>1, <2>2, <1>n, RepoIsToBlame
  <2> QED BY <2>1, <2>2, <1>b, <1>p, <1>u DEF Caused
<1>6. CASE ReadObject
  <2> DEFINE m == Mark(<<listed, object + 1>>)
  <2>1. status = "run" /\ listed' = listed /\ Mark(<<listed>>) = "none"
    BY <1>6 DEF ReadObject, Passed
  <2>2. stop # "error"
    BY <2>1 DEF Passed
  <2>3. \/ m = "unread" /\ Fail(Iter.object)
        \/ m = "noopen" /\ Fail(Iter.open)
        \/ m = "nocontent" /\ Fail(Iter.content)
        \/ status' = status /\ stop' = stop
    BY <1>6 DEF ReadObject, Continue
  <2>4. CASE status' = status /\ stop' = stop
    BY <2>1, <2>2, <2>4 DEF Caused
  <2>5. CASE ~(status' = status /\ stop' = stop)
    <3>1. Blame
      BY <2>1, <2>3, <2>5, <1>k, <1>i, FailOutcome, ObjectIsToBlame DEF Sound
    <3>2. \/ status' = "panic" /\ stop' = stop /\ skip = FALSE
          \/ status' = "closing" /\ stop' = "error"
      BY <2>3, <2>5, <1>k, FailOutcome
    <3> QED BY <1>b, <1>m, <1>u, <2>1, <2>2, <3>1, <3>2 DEF Caused
  <2> QED BY <2>4, <2>5
<1>7. CASE ReadItem
  <2> DEFINE m == Mark(<<listed, object, item + 1>>)
  <2>1. status = "run" /\ listed' = listed /\ opened = TRUE
    BY <1>7 DEF ReadItem, TypeInv, TypeOK
  <2>2. /\ stop # "error" /\ Mark(<<listed>>) = "none"
        /\ Mark(<<listed, object>>) \in {"none", "again"} /\ ~Seen(listed, object)
    BY <2>1 DEF Passed
  <2>3. \/ m = "unread" /\ Fail(Iter.item)
        \/ m = "nocontent" /\ Fail(Iter.content)
        \/ status' = status /\ stop' = stop
    BY <1>7 DEF ReadItem, Continue
  <2>4. CASE status' = status /\ stop' = stop
    BY <2>1, <2>2, <2>4 DEF Caused
  <2>5. CASE ~(status' = status /\ stop' = stop)
    <3>1. Blame
      BY <2>2, <2>3, <2>5, <1>k, <1>i, FailOutcome, ItemIsToBlame DEF Sound
    <3>2. \/ status' = "panic" /\ stop' = stop /\ skip = FALSE
          \/ status' = "closing" /\ stop' = "error"
      BY <2>3, <2>5, <1>k, FailOutcome
    <3> QED BY <1>b, <1>m, <1>u, <2>1, <2>2, <3>1, <3>2 DEF Caused
  <2> QED BY <2>4, <2>5
<1>8. CASE ItemsEnd
  BY <1>8 DEF ItemsEnd, Caused, Passed
<1>9. CASE ObjectsEnd
  BY <1>9 DEF ObjectsEnd, End, Caused, Passed
<1>10. CASE Close
  <2>1. /\ status = "closing" /\ stop \in {"eof", "error", "closed"}
        /\ stop' = stop /\ listed' = listed
    BY <1>10 DEF Close, TypeInv, TypeOK, Places
  <2>2. CASE Iter.fragile /\ stop = "error" /\ Mark(<<listed>>) = "nolist"
    <3>1. ~Skipped(Iter.list) /\ status' = "panic" /\ Blame
      BY <1>10, <2>1, <2>2 DEF Close, Caused
    <3>2. Iter.fragile = TRUE => Iter.list = "end"
      BY <1>i DEF Sound
    <3>3. skip = FALSE
      BY <2>2, <3>1, <3>2, <1>k DEF Skipped
    <3> QED BY <1>b, <1>u, <2>1, <3>1, <3>3 DEF Caused
  <2>3. CASE ~(Iter.fragile /\ stop = "error" /\ Mark(<<listed>>) = "nolist")
    <3>1. status' = IF stop = "eof" THEN "list" ELSE stop
      BY <1>10, <2>3 DEF Close
    <3> QED BY <1>b, <2>1, <3>1 DEF Caused
  <2> QED BY <2>2, <2>3
<1>11. CASE Stop
  BY <1>11 DEF Stop, End, Caused, Passed
<1>12. CASE UNCHANGED vars
  BY <1>12, <1>m, <1>b, <1>p, <1>u DEF vars, Caused
<1> QED BY <1>1, <1>2, <1>3, <1>4, <1>5, <1>6, <1>7, <1>8, <1>9, <1>10, <1>11, <1>12 DEF Next, Step

(* A query starts with nothing to blame. *)
LEMMA CausedInit == Init => Passed /\ Caused
<1> SUFFICES ASSUME Init PROVE Passed /\ Caused
  OBVIOUS
<1>1. status = "start" /\ listed = 0 /\ stop = "none"
  BY DEF Init
<1> QED BY <1>1 DEF Passed, Caused

(* A query over a table fails only for something it reached that is reported
   whatever the session says, or that the session does not skip; when errors
   are skipped it does not panic. *)
THEOREM FailuresHaveACause == Spec => []FailsForACause
<1>1. Caused => FailsForACause
  BY DEF Caused, FailsForACause, Blame
<1> QED BY <1>1, TypeInit, TypeStep, PassedStep, CausedInit, CausedStep, PTL DEF Spec

-----------------------------------------------------------------------------
(* Nothing unreadable is behind a query that skips no errors. *)

(* A position has one mark. *)
OneMark == \A x, y \in marks : x[1] = y[1] => x = y

(* A position has one mark, and Mark finds it. *)
LEMMA MarkOf ==
  ASSUME OneMark, NEW y \in marks
  PROVE  Mark(y[1]) = y[2]
BY DEF OneMark, Mark

(* The object can be read, and its items if it is opened. *)
GoodObject(r, o) ==
  /\ Mark(<<r, o>>) \notin Unreadable
  /\ Mark(<<r, o>>) \in {"none", "again"} /\ ~Seen(r, o) =>
       \A i \in 1..Width : Mark(<<r, o, i>>) \notin Unreadable

(* The repository can be read, with all that is in it. *)
GoodRepo(r) ==
  /\ Mark(<<r>>) \notin Unreadable
  /\ Mark(<<r>>) = "none" => \A o \in Objects : GoodObject(r, o)

(* What was read so far of the repository is good. *)
GoodSoFar ==
  /\ \A o \in Objects : o < object => GoodObject(listed, o)
  /\ opened = TRUE => \A i \in 1..Width : i <= item => Mark(<<listed, object, i>>) \notin Unreadable
  /\ opened = FALSE /\ object \in Objects => GoodObject(listed, object)

(* The query has not failed, nor has it been stopped. *)
OnTheWay == status \in {"list", "open", "run", "eof"} \/ (status = "closing" /\ stop = "eof")

(* What is behind the query is good. *)
Silent ==
  skip = FALSE /\ OnTheWay =>
    /\ \A r \in 1..Repos :
         r < listed \/ (r = listed /\ status \notin {"open", "run"}) => GoodRepo(r)
    /\ status = "run" => GoodSoFar
    /\ status = "eof" => listed = Repos

(* The items of a loop with one level have no marks. *)
LEMMA ItemsHaveLevelTwo ==
  ASSUME marks \subseteq Marked, Iter.levels = 1, NEW r, NEW o, NEW i
  PROVE  Mark(<<r, o, i>>) = "none"
<1>1. SUFFICES ASSUME Mark(<<r, o, i>>) # "none" PROVE FALSE
  OBVIOUS
<1>2. PICK y \in marks : y[1] = <<r, o, i>> /\ y[2] = Mark(<<r, o, i>>)
  BY <1>1, MarkIsThere
<1>3. \A a, b : Len(<<r, o, i>>) # Len(<<a, b>>) /\ Len(<<r, o, i>>) # Len(<<a>>)
  OBVIOUS
<1>4. \A a, b, m : <<<<a, b>>, m>>[1] = <<a, b>> /\ <<<<a>>, m>>[1] = <<a>>
  OBVIOUS
<1>5. ~RepoMarked(y) /\ ~ObjectMarked(y)
  BY <1>2, <1>3, <1>4 DEF RepoMarked, ObjectMarked
<1>6. ItemMarked(y)
  BY <1>5, MarksOfThreeKinds
<1>7. \A j : ItemMarks(j) = {}
  BY DEF ItemMarks
<1> QED BY <1>6, <1>7 DEF ItemMarked

(* What is good stays so, since nothing in the library changes. *)
LEMMA GoodStays ==
  ASSUME UNCHANGED world
  PROVE  /\ \A r, o : GoodObject(r, o)' = GoodObject(r, o)
         /\ \A r : GoodRepo(r)' = GoodRepo(r)
<1>1. /\ \A x : Mark(x)' = Mark(x)
      /\ Iter' = Iter /\ Objects' = Objects
  BY WorldStays
<1>2. \A r, o : Seen(r, o)' = Seen(r, o)
  BY <1>1 DEF Seen
<1>3. Unreadable' = Unreadable
  BY DEF Unreadable
<1>4. \A r, o : GoodObject(r, o)' = GoodObject(r, o)
  BY <1>1, <1>2, <1>3 DEF GoodObject
<1> QED BY <1>1, <1>3, <1>4 DEF GoodRepo

(* The steps keep Silent. *)
LEMMA SilentStep == TypeInv /\ Passed /\ Silent /\ [Next]_vars => Silent'
<1> SUFFICES ASSUME TypeInv, Passed, Silent, [Next]_vars, skip' = FALSE, OnTheWay'
             PROVE  /\ \A r \in 1..Repos :
                         r < listed' \/ (r = listed' /\ status' \notin {"open", "run"})
                           => GoodRepo(r)'
                    /\ status' = "run" => GoodSoFar'
                    /\ status' = "eof" => listed' = Repos
  BY DEF Silent
<1> USE SizesAreNaturals
<1>w. UNCHANGED world
  BY DEF Next, Step, vars, PartitionCount, Partitions, NextPartition, PartitionRows, ListFails,
         ReadObject, ReadItem, ItemsEnd, ObjectsEnd, Close, Stop
<1>u. /\ skip = FALSE /\ Objects' = Objects /\ Unreadable' = Unreadable
      /\ \A x : Mark(x)' = Mark(x)
  BY <1>w, WorldStays DEF world, Unreadable
<1>g. /\ \A r, o : GoodObject(r, o)' = GoodObject(r, o)
      /\ \A r : GoodRepo(r)' = GoodRepo(r)
  BY <1>w, GoodStays
<1>t. /\ listed \in 0..Repos /\ object \in 0..Width /\ item \in 0..Width
      /\ opened \in BOOLEAN /\ skip \in BOOLEAN /\ marks \subseteq Marked
      /\ scan \in DOMAIN Scans
  BY DEF TypeInv, TypeOK
<1>p. \A policy : ~Skipped(policy)
  BY <1>u DEF Skipped
<1>o. ASSUME OnTheWay
      PROVE  /\ \A r \in 1..Repos :
                  r < listed \/ (r = listed /\ status \notin {"open", "run"}) => GoodRepo(r)
             /\ status = "run" => GoodSoFar
             /\ status = "eof" => listed = Repos
  BY <1>o, <1>u DEF Silent
<1>1. CASE PartitionCount
  <2>1. listed' = 0 /\ status' \in {"list", "error"}
    BY <1>1 DEF PartitionCount, Passed
  <2> QED BY <2>1
<1>2. CASE Partitions
  <2>1. listed' = 0 /\ status' = "list"
    BY <1>2 DEF Partitions, Passed
  <2> QED BY <2>1
<1>3. CASE NextPartition
  <2>1. \A r \in 1..Repos : r <= listed => GoodRepo(r)
    BY <1>3, <1>o, <1>t DEF NextPartition, OnTheWay
  <2>2. CASE listed = Repos /\ status' = "eof" /\ UNCHANGED listed
    BY <1>g, <2>1, <2>2
  <2>3. CASE listed' = listed + 1 /\ status' \in {"open", "error"}
    BY <1>g, <1>t, <2>1, <2>3 DEF OnTheWay
  <2>4. \/ listed = Repos /\ status' = "eof" /\ UNCHANGED listed
        \/ listed' = listed + 1 /\ status' \in {"open", "error"}
    BY <1>3, <1>u DEF NextPartition
  <2> QED BY <2>2, <2>3, <2>4
<1>4. CASE PartitionRows
  <2>1. /\ \A r \in 1..Repos : r < listed => GoodRepo(r)
        /\ listed' = listed /\ object' = 0 /\ status = "open"
    BY <1>4, <1>o DEF PartitionRows, OnTheWay
  <2>2. status' \in {"run", "error"} \/ (status' = "list" /\ Mark(<<listed>>) = "rejected")
    BY <1>4 DEF PartitionRows
  <2>3. Mark(<<listed>>) = "rejected" => GoodRepo(listed)
    BY DEF GoodRepo, Unreadable
  <2>4. 0 \notin Objects /\ \A o \in Objects : ~(o < 0)
    BY ObjectsInWidth
  <2>5. opened' # TRUE
    BY <1>4 DEF PartitionRows
  <2>6. GoodSoFar'
    BY <1>u, <2>1, <2>4, <2>5 DEF GoodSoFar
  <2> QED BY <1>g, <1>t, <2>1, <2>2, <2>3, <2>6 DEF OnTheWay
<1>5. CASE ListFails
  <2>1. status' = "closing" /\ stop' = "error"
    BY <1>5, <1>p DEF ListFails, End
  <2> QED BY <2>1 DEF OnTheWay
<1>6. CASE ReadObject
  <2> DEFINE n == object + 1
  <2>1. /\ status = "run" /\ listed' = listed /\ object' = n /\ n \in Objects
        /\ opened = FALSE
    BY <1>6, <1>t DEF ReadObject
  <2>2. /\ \A r \in 1..Repos : r < listed => GoodRepo(r)
        /\ GoodSoFar
    BY <1>o, <2>1 DEF OnTheWay
  <2>3. Mark(<<listed, n>>) \in {"none", "again", "passed"} /\ status' = "run"
    BY <1>6, <1>p, <2>1 DEF ReadObject, Fail, End, OnTheWay, Continue
  <2>4. \A o \in Objects : o < n => GoodObject(listed, o)
    BY <1>t, <2>1, <2>2, ObjectsInWidth DEF GoodSoFar
  <2>5. Mark(<<listed, n>>) \notin Unreadable
    BY <2>3 DEF Unreadable
  <2>6. opened' = FALSE => GoodObject(listed, n)
    <3>1. SUFFICES ASSUME opened' = FALSE, Mark(<<listed, n>>) \in {"none", "again"}, ~Seen(listed, n)
                   PROVE  \A i \in 1..Width : Mark(<<listed, n, i>>) \notin Unreadable
      BY <2>5 DEF GoodObject
    <3>2. Iter.levels # 2
      BY <1>6, <3>1 DEF ReadObject
    <3>3. Iter.levels = 1
      BY <1>t, <3>2, IterIsSound DEF Sound
    <3> QED BY <1>t, <3>3, ItemsHaveLevelTwo DEF Unreadable
  <2>7. item' = 0
    BY <1>6 DEF ReadObject
  <2>8. GoodSoFar'
    BY <1>u, <1>g, <2>1, <2>4, <2>6, <2>7 DEF GoodSoFar
  <2> QED BY <1>g, <2>1, <2>2, <2>3, <2>8
<1>7. CASE ReadItem
  <2> DEFINE n == item + 1
  <2>1. /\ status = "run" /\ listed' = listed /\ object' = object /\ item' = n
        /\ opened = TRUE
    BY <1>7, <1>t DEF ReadItem
  <2>2. /\ \A r \in 1..Repos : r < listed => GoodRepo(r)
        /\ GoodSoFar
    BY <1>o, <2>1 DEF OnTheWay
  <2>3. Mark(<<listed, object, n>>) \in {"none", "again", "passed"} /\ status' = "run"
    BY <1>7, <1>p, <2>1 DEF ReadItem, Fail, End, OnTheWay, Continue
  <2>4. opened' = TRUE
    BY <1>7, <2>3 DEF ReadItem
  <2>5. Mark(<<listed, object, n>>) \notin Unreadable
    BY <2>3 DEF Unreadable
  <2>6. \A i \in 1..Width : i <= n => Mark(<<listed, object, i>>) \notin Unreadable
    <3>1. \A i \in 1..Width : i <= n => i <= item \/ i = n
      BY <1>t
    <3> QED BY <2>1, <2>2, <2>5, <3>1 DEF GoodSoFar
  <2>7. \A o \in Objects : o < object => GoodObject(listed, o)
    BY <2>2 DEF GoodSoFar
  <2>8. GoodSoFar'
    <3>1. opened' # FALSE
      BY <2>4
    <3> QED BY <1>u, <1>g, <2>1, <2>6, <2>7, <3>1 DEF GoodSoFar
  <2> QED BY <1>g, <2>1, <2>2, <2>3, <2>8
<1>8. CASE ItemsEnd
  <2>1. /\ status = "run" /\ status' = "run" /\ listed' = listed /\ object' = object
        /\ item = Width /\ opened = TRUE
    BY <1>8, <1>t DEF ItemsEnd
  <2>2. /\ \A r \in 1..Repos : r < listed => GoodRepo(r)
        /\ GoodSoFar
    BY <1>o, <2>1 DEF OnTheWay
  <2>3. \A i \in 1..Width : Mark(<<listed, object, i>>) \notin Unreadable
    BY <2>1, <2>2 DEF GoodSoFar
  <2>4. Mark(<<listed, object>>) \in {"none", "again"}
    BY <2>1 DEF Passed
  <2>5. GoodObject(listed, object)
    BY <2>3, <2>4 DEF GoodObject, Unreadable
  <2>6. opened' # TRUE
    BY <1>8 DEF ItemsEnd
  <2>7. GoodSoFar'
    BY <1>u, <1>g, <2>1, <2>2, <2>5, <2>6 DEF GoodSoFar
  <2> QED BY <1>g, <2>1, <2>2, <2>7
<1>9. CASE ObjectsEnd
  <2>1. /\ status = "run" /\ status' = "closing" /\ listed' = listed
        /\ object + 1 \notin Objects /\ opened = FALSE
    BY <1>9, <1>t DEF ObjectsEnd, End
  <2>2. /\ \A r \in 1..Repos : r < listed => GoodRepo(r)
        /\ GoodSoFar
    BY <1>o, <2>1 DEF OnTheWay
  <2>3. Mark(<<listed>>) = "none"
    BY <1>9, <2>1 DEF ObjectsEnd, Passed
  <2>4. \A o \in Objects : o < object \/ o = object
    BY <1>t, <2>1 DEF Objects
  <2>5. \A o \in Objects : GoodObject(listed, o)
    BY <2>1, <2>2, <2>4 DEF GoodSoFar
  <2>6. GoodRepo(listed)
    BY <2>3, <2>5 DEF GoodRepo, Unreadable
  <2> QED BY <1>g, <2>1, <2>2, <2>6
<1>10. CASE Close
  <2>1. /\ status = "closing" /\ stop \in {"eof", "error", "closed"}
        /\ listed' = listed /\ stop' = stop
        /\ status' = "panic" \/ status' = IF stop = "eof" THEN "list" ELSE stop
    BY <1>10 DEF Close, TypeInv, TypeOK, Places
  <2>2. stop = "eof" /\ status' = "list"
    BY <2>1 DEF OnTheWay
  <2> QED BY <1>g, <1>o, <2>1, <2>2 DEF OnTheWay
<1>11. CASE Stop
  <2>1. status' = "closing" /\ stop' = "closed"
    BY <1>11 DEF Stop, End
  <2> QED BY <2>1 DEF OnTheWay
<1>12. CASE UNCHANGED vars
  <2>1. /\ status' = status /\ listed' = listed /\ stop' = stop
        /\ object' = object /\ item' = item /\ opened' = opened
    BY <1>12 DEF vars, cursor
  <2>2. OnTheWay
    BY <2>1 DEF OnTheWay
  <2> QED BY <1>g, <1>u, <1>o, <2>1, <2>2 DEF GoodSoFar
<1> QED BY <1>1, <1>2, <1>3, <1>4, <1>5, <1>6, <1>7, <1>8, <1>9, <1>10, <1>11, <1>12 DEF Next, Step

(* A query starts with nothing behind it. *)
LEMMA SilentInit == Init => OneMark /\ Silent
<1> SUFFICES ASSUME Init PROVE OneMark /\ Silent
  OBVIOUS
<1>1. OneMark
  BY DEF Init, Consistent, OneMark
<1>2. status = "start"
  BY DEF Init
<1> QED BY <1>1, <1>2 DEF Silent, OnTheWay

(* The marks do not change. *)
LEMMA OneMarkStep == OneMark /\ [Next]_vars => OneMark'
<1> SUFFICES ASSUME OneMark, [Next]_vars PROVE OneMark'
  OBVIOUS
<1>1. UNCHANGED world
  BY DEF Next, Step, vars, PartitionCount, Partitions, NextPartition, PartitionRows, ListFails,
         ReadObject, ReadItem, ItemsEnd, ObjectsEnd, Close, Stop
<1> QED BY <1>1 DEF world, OneMark

(* A query over a table that skips no errors and reaches io.EOF has passed over
   nothing unreadable that was reachable: no repository, object or item. *)
THEOREM NothingIsSkipped == Spec => []NothingSkippedSilently
<1>1. TypeInv /\ OneMark /\ Silent => NothingSkippedSilently
  <2> SUFFICES ASSUME TypeInv, OneMark, Silent, status = "eof", ~skip,
                      NEW x \in marks, x[2] \in Unreadable, Reached(x[1])
               PROVE  FALSE
    BY DEF NothingSkippedSilently
  <2>1. marks \subseteq Marked /\ skip = FALSE
    BY DEF TypeInv, TypeOK
  <2>2. \A r \in 1..Repos : GoodRepo(r)
    BY <2>1, SizesAreNaturals DEF Silent, OnTheWay
  <2>3. Mark(x[1]) \in Unreadable
    BY MarkOf
  <2>4. CASE RepoMarked(x)
    <3>1. PICK r \in 1..Repos : x[1] = <<r>>
      BY <2>4 DEF RepoMarked
    <3> QED BY <2>2, <2>3, <3>1 DEF GoodRepo
  <2>5. CASE ObjectMarked(x)
    <3>1. PICK r \in 1..Repos, o \in Objects : x[1] = <<r, o>>
      BY <2>5 DEF ObjectMarked
    <3>2. Mark(<<r>>) = "none"
      BY <3>1 DEF Reached
    <3> QED BY <2>2, <2>3, <3>1, <3>2 DEF GoodRepo, GoodObject
  <2>6. CASE ItemMarked(x)
    <3>1. PICK r \in 1..Repos, o \in Objects, i \in 1..Width : x[1] = <<r, o, i>>
      BY <2>6 DEF ItemMarked
    <3>2. Mark(<<r>>) = "none" /\ Mark(<<r, o>>) \in {"none", "again"} /\ ~Seen(r, o)
      BY <3>1 DEF Reached
    <3> QED BY <2>2, <2>3, <3>1, <3>2 DEF GoodRepo, GoodObject
  <2> QED BY <2>1, <2>4, <2>5, <2>6, MarksOfThreeKinds
<1> QED BY <1>1, TypeInit, TypeStep, CausedInit, PassedStep, SilentInit, SilentStep,
           OneMarkStep, PTL DEF Spec

-----------------------------------------------------------------------------
(* Which rows have been returned.  A query that may still reach io.EOF has
   returned, of the rows of the table, those that it is past; the position of
   the loops says which are ahead of it. *)
Ahead(x) ==
  \/ x[1] > listed
  \/ status = "open" /\ x[1] = listed
  \/ status = "run" /\ x[1] = listed /\ x[2] > object
  \/ status = "run" /\ x[1] = listed /\ x[2] = object /\ opened = TRUE /\ x[3] > item

Ongoing == status \in {"start", "list", "open", "run"} \/ (status = "closing" /\ stop = "eof")

Delivered ==
  Ongoing => \A x \in Wanted : /\ x \notin Promise!Given => Ahead(x)
                               /\ Ahead(x) => x \notin Promise!Given

(* What was returned is a row of the table, and was so once. *)
GivenOnce ==
  /\ \A i \in DOMAIN out : out[i] \in Wanted
  /\ \A i, j \in DOMAIN out : out[i] = out[j] => i = j

(* The items of an object are not read on after one that drops the rest. *)
NotDropped ==
  status = "run" /\ opened = TRUE /\ Iter.item = "drop" =>
    \A i \in 1..item : Mark(<<listed, object, i>>) # "unread"

Account == NotDropped /\ Delivered /\ GivenOnce

(* The parts of a row. *)
LEMMA RowParts ==
  ASSUME NEW x \in Rows, scan \in DOMAIN Scans
  PROVE  /\ x[1] \in 1..Repos /\ x[2] \in Objects
         /\ Iter.levels = 1 => Len(x) = 2 /\ DOMAIN x = 1..2 /\ x = <<x[1], x[2]>>
         /\ Iter.levels = 2 => Len(x) = 3 /\ DOMAIN x = 1..3 /\ x = <<x[1], x[2], x[3]>>
                               /\ x[3] \in 1..Width
         /\ Iter.levels \in {1, 2}
<1>1. Iter.levels \in {1, 2}
  BY IterIsSound DEF Sound
<1>2. CASE Iter.levels = 1
  <2>1. PICK r \in 1..Repos, o \in Objects : x = <<r, o>>
    BY <1>2 DEF Rows, ObjectsOf
  <2>2. x[1] = r /\ x[2] = o /\ Len(x) = 2 /\ DOMAIN x = 1..2
    BY <2>1
  <2> QED BY <1>2, <2>1, <2>2
<1>3. CASE Iter.levels = 2
  <2>1. PICK r \in 1..Repos, o \in Objects, i \in 1..Width : x = <<r, o, i>>
    BY <1>3 DEF Rows, ItemsOf
  <2>2. x[1] = r /\ x[2] = o /\ x[3] = i /\ Len(x) = 3 /\ DOMAIN x = 1..3
    BY <2>1
  <2> QED BY <1>3, <2>1, <2>2
<1> QED BY <1>1, <1>2, <1>3

(* Only commit_trees drops the rest of an object. *)
LEMMA OnlyCommitTreesDrops ==
  ASSUME scan \in DOMAIN Scans
  PROVE  Iter.item = "drop" <=> Iter = commitTreesRowIter
<1>1. Scans[scan] \in GitTables
  BY ScansAreTables
<1>2. /\ repositoriesTable.iter = repositoriesRowIter
      /\ remotesTable.iter = remotesRowIter
      /\ referencesTable.iter = refRowIter
      /\ commitsTable.iter = commitRowIter
      /\ commitTreesTable.iter = commitTreesRowIter
      /\ commitBlobsTable.iter = commitBlobsRowIter
      /\ commitFilesTable.iter = commitFilesRowIter
      /\ blobsTable.iter = blobRowIter
      /\ treeEntriesTable.iter = treeEntriesRowIter
      /\ filesTable.iter = filesRowIter
  BY DEF repositoriesTable, remotesTable, referencesTable, commitsTable,
         commitTreesTable, commitBlobsTable, commitFilesTable, blobsTable,
         treeEntriesTable, filesTable, TableOf
<1>3. commitTreesRowIter.item = "drop"
  BY DEF commitTreesRowIter, Loop
<1>4. repositoriesRowIter.item # "drop" /\ remotesRowIter.item # "drop"
  BY DEF repositoriesRowIter, remotesRowIter, Loop
<1>5. refRowIter.item # "drop" /\ commitRowIter.item # "drop"
  BY DEF refRowIter, commitRowIter, Loop
<1>6. commitBlobsRowIter.item # "drop" /\ commitFilesRowIter.item # "drop"
  BY DEF commitBlobsRowIter, commitFilesRowIter, Loop
<1>7. blobRowIter.item # "drop" /\ treeEntriesRowIter.item # "drop" /\ filesRowIter.item # "drop"
  BY DEF blobRowIter, treeEntriesRowIter, filesRowIter, Loop
<1>8. Iter \in {repositoriesRowIter, remotesRowIter, refRowIter, commitRowIter,
                commitTreesRowIter, commitBlobsRowIter, commitFilesRowIter, blobRowIter,
                treeEntriesRowIter, filesRowIter}
  BY <1>1, <1>2 DEF GitTables, Iter, Table
<1> QED BY <1>3, <1>4, <1>5, <1>6, <1>7, <1>8

(* The rows that are wanted of a table with one level, and of one with two. *)
LEMMA WantedObjects ==
  ASSUME NEW x \in Rows, scan \in DOMAIN Scans, Iter.levels = 1
  PROVE  x \in Wanted <=> /\ Mark(<<x[1]>>) = "none"
                          /\ Mark(<<x[1], x[2]>>) \in {"none", "again"}
                          /\ ~Seen(x[1], x[2])
<1>1. Len(x) = 2 /\ x = <<x[1], x[2]>>
  BY RowParts
<1>2. ~Dropped(x)
  BY <1>1 DEF Dropped
<1>3. Reached(x) <=> Mark(<<x[1]>>) = "none"
  BY <1>1 DEF Reached
<1> QED BY <1>1, <1>2, <1>3 DEF Wanted

(* An item is wanted if nothing before it drops the rest of its object. *)
LEMMA WantedItems ==
  ASSUME NEW x \in Rows, scan \in DOMAIN Scans, Iter.levels = 2
  PROVE  x \in Wanted <=>
           /\ Mark(<<x[1]>>) = "none"
           /\ Mark(<<x[1], x[2]>>) \in {"none", "again"}
           /\ ~Seen(x[1], x[2])
           /\ Mark(<<x[1], x[2], x[3]>>) \in {"none", "again"}
           /\ Iter.item = "drop" => \A i \in 1..(x[3] - 1) : Mark(<<x[1], x[2], i>>) # "unread"
<1>1. Len(x) = 3 /\ x = <<x[1], x[2], x[3]>>
  BY RowParts
<1>2. Dropped(x) <=> /\ Iter.item = "drop"
                     /\ \E i \in 1..(x[3] - 1) : Mark(<<x[1], x[2], i>>) = "unread"
  BY <1>1, OnlyCommitTreesDrops DEF Dropped
<1>3. Reached(x) <=> /\ Mark(<<x[1]>>) = "none"
                     /\ Mark(<<x[1], x[2]>>) \in {"none", "again"}
                     /\ ~Seen(x[1], x[2])
  BY <1>1 DEF Reached
<1> QED BY <1>1, <1>2, <1>3 DEF Wanted

(* The rows that are wanted do not change. *)
LEMMA WantedStays ==
  ASSUME UNCHANGED world
  PROVE  /\ Wanted' = Wanted
         /\ \A r, o : Seen(r, o)' = Seen(r, o)
<1>1. /\ Iter' = Iter /\ Rows' = Rows
      /\ \A x : Mark(x)' = Mark(x)
  BY WorldStays
<1>2. \A r, o : Seen(r, o)' = Seen(r, o)
  BY <1>1 DEF Seen
<1>3. \A x : Reached(x)' = Reached(x)
  BY <1>1, <1>2 DEF Reached
<1>4. commitTreesRowIter' = commitTreesRowIter
  BY DEF commitTreesRowIter, Loop
<1>5. \A x : Dropped(x)' = Dropped(x)
  BY <1>1, <1>4 DEF Dropped
<1> QED BY <1>1, <1>2, <1>3, <1>5 DEF Wanted

(* A step that returns no row and passes no row that is wanted. *)
LEMMA QuietAccount ==
  ASSUME Delivered, GivenOnce, UNCHANGED <<world, out>>,
         Ongoing' => Ongoing,
         Ongoing' => \A x \in Wanted : /\ Ahead(x) => Ahead(x)'
                                       /\ Ahead(x)' => Ahead(x)
  PROVE  Delivered' /\ GivenOnce'
<1>1. Wanted' = Wanted
  BY WantedStays
<1>2. Promise!Given' = Promise!Given
  BY DEF Promise!Given
<1>3. GivenOnce'
  BY <1>1 DEF GivenOnce
<1>4. Delivered'
  BY <1>1, <1>2 DEF Delivered
<1> QED BY <1>3, <1>4

(* A step that returns a row that is wanted and ahead, and passes that only. *)
LEMMA GivingAccount ==
  ASSUME Delivered, GivenOnce, UNCHANGED world, Ongoing, out \in Seq(Rows),
         NEW x \in Wanted, Ahead(x), out' = Append(out, x),
         \A y \in Wanted : y # x => (Ahead(y) => Ahead(y)') /\ (Ahead(y)' => Ahead(y)),
         ~Ahead(x)'
  PROVE  Delivered' /\ GivenOnce' /\ x \notin Promise!Given
<1>1. Wanted' = Wanted
  BY WantedStays
<1>2. x \notin Promise!Given
  BY DEF Delivered
<1>3. x \in Rows
  BY DEF Wanted
<1>4. PICK n \in Nat : n = Len(out)
  BY LenProperties
<1>5. /\ DOMAIN out = 1..n /\ DOMAIN out' = 1..(n + 1)
      /\ \A i \in 1..n : out'[i] = out[i]
      /\ out'[n + 1] = x
  BY <1>3, <1>4, AppendProperties, LenProperties
<1>6. \A y : y \in Promise!Given' <=> y \in Promise!Given \/ y = x
  <2>1. Promise!Given' = {out'[i] : i \in 1..(n + 1)} /\ Promise!Given = {out[i] : i \in 1..n}
    BY <1>5 DEF Promise!Given
  <2>2. \A i \in 1..(n + 1) : i \in 1..n \/ i = n + 1
    OBVIOUS
  <2>3. 1..n \subseteq 1..(n + 1) /\ n + 1 \in 1..(n + 1)
    OBVIOUS
  <2> QED BY <1>5, <2>1, <2>2, <2>3
<1>7. Delivered'
  BY <1>1, <1>6 DEF Delivered
<1>8. \A i \in 1..n : out[i] # x /\ out[i] \in Wanted
  BY <1>2, <1>5 DEF Promise!Given, GivenOnce
<1>9. \A i \in 1..(n + 1) : i \in 1..n \/ i = n + 1
  OBVIOUS
<1>10. \A i \in DOMAIN out' : out'[i] \in Wanted'
  BY <1>1, <1>5, <1>8, <1>9
<1>11. \A i, j \in DOMAIN out' : out'[i] = out'[j] => i = j
  <2> SUFFICES ASSUME NEW i \in 1..(n + 1), NEW j \in 1..(n + 1), out'[i] = out'[j] PROVE i = j
    BY <1>5
  <2>1. CASE i \in 1..n /\ j \in 1..n
    BY <1>5, <2>1 DEF GivenOnce
  <2>2. CASE i = n + 1 \/ j = n + 1
    BY <1>5, <1>8, <1>9, <2>2
  <2> QED BY <1>9, <2>1, <2>2
<1> QED BY <1>2, <1>7, <1>10, <1>11 DEF GivenOnce

(* Where a row is, when the query is in a repository. *)
LEMMA AheadInRun ==
  ASSUME TypeInv, NEW x \in Rows
  PROVE  /\ x[1] \in Nat /\ x[2] \in Nat \ {0} /\ x[2] \in Objects /\ x[1] \in 1..Repos
         /\ Iter.levels = 2 => x[3] \in Nat \ {0} /\ x[3] \in 1..Width
         /\ listed \in Nat /\ object \in Nat /\ item \in Nat
         /\ opened \in BOOLEAN
         /\ opened = TRUE => Iter.levels = 2
         /\ scan \in DOMAIN Scans
         /\ Iter.levels \in {1, 2}
<1>1. /\ scan \in DOMAIN Scans /\ listed \in 0..Repos /\ object \in 0..Width /\ item \in 0..Width
      /\ opened \in BOOLEAN /\ (opened = TRUE => Iter.levels = 2)
  BY DEF TypeInv, TypeOK, Places
<1>2. /\ x[1] \in 1..Repos /\ x[2] \in Objects /\ Iter.levels \in {1, 2}
      /\ Iter.levels = 2 => x[3] \in 1..Width
  BY <1>1, RowParts
<1>3. x[2] \in 1..Width
  BY <1>2, ObjectsInWidth
<1> QED BY <1>1, <1>2, <1>3, SizesAreNaturals

(* Reading an object of a table with one level returns it, if it is wanted. *)
LEMMA ReadsAnObject ==
  ASSUME TypeInv, Passed, Delivered, GivenOnce, ReadObject, Iter.levels = 1
  PROVE  /\ Delivered' /\ GivenOnce'
         /\ out' # out => \E x \in Wanted : /\ x \notin Promise!Given /\ out' = Append(out, x)
                                            /\ \A y \in Wanted : Ahead(y) => y = x \/ Before(x, y)
<1>1. PICK n : n = object + 1
  OBVIOUS
<1>2. PICK x : x = <<listed, n>>
  OBVIOUS
<1>3. /\ status = "run" /\ UNCHANGED <<world, listed>> /\ object' = n /\ n \in Objects
      /\ opened # TRUE /\ opened' # TRUE /\ Mark(<<listed>>) # "nolist"
  <2>1. opened' = TRUE => Iter.levels = 2
    BY DEF ReadObject
  <2>2. opened' # TRUE
    <3>1. Iter.levels # 2
      OBVIOUS
    <3> QED BY <2>1, <3>1
  <2>3. opened # TRUE
    BY DEF ReadObject
  <2> QED BY <1>1, <2>2, <2>3 DEF ReadObject
<1>4. out' = IF Mark(x) \in {"none", "again"} /\ ~Seen(listed, n) THEN Append(out, x) ELSE out
  BY <1>1, <1>2 DEF ReadObject
<1>5. \/ status' = status /\ stop' = stop
      \/ status' = "panic" /\ stop' = stop
      \/ status' = "closing" /\ stop' = "error"
  BY FailStatus DEF ReadObject, Continue
<1>6. listed \in 1..Repos /\ scan \in DOMAIN Scans /\ out \in Seq(Rows)
  BY <1>3 DEF TypeInv, TypeOK, Places
<1>7. x \in Rows /\ x[1] = listed /\ x[2] = n
  BY <1>2, <1>3, <1>6, ObjectIsRow
<1>8. x \in Wanted <=> Mark(x) \in {"none", "again"} /\ ~Seen(listed, n)
  <2>1. Mark(<<listed>>) = "none"
    BY <1>3 DEF Passed
  <2> QED BY <1>2, <1>6, <1>7, <2>1, WantedObjects
<1>9. Ongoing /\ (Ongoing' => status' = "run")
  BY <1>3, <1>5 DEF Ongoing
<1>10. Ahead(x)
  <2>1. object \in Nat
    BY <1>7, AheadInRun
  <2> QED BY <1>1, <1>3, <1>7, <2>1 DEF Ahead
<1>11. ASSUME NEW y \in Wanted, y # x, status' = "run"
       PROVE  (Ahead(y) => Ahead(y)') /\ (Ahead(y)' => Ahead(y)) /\ (Ahead(y) => Before(x, y))
  <2>1. y \in Rows
    BY DEF Wanted
  <2>2. /\ y = <<y[1], y[2]>> /\ y[1] \in Nat /\ y[2] \in Nat
        /\ listed \in Nat /\ object \in Nat
    BY <1>6, <2>1, AheadInRun, RowParts
  <2>3. y[1] # listed \/ y[2] # n
    BY <1>2, <1>11, <2>2
  <2>4. Ahead(y) <=> y[1] > listed \/ (y[1] = listed /\ y[2] > object)
    BY <1>3 DEF Ahead
  <2>5. Ahead(y)' <=> y[1] > listed \/ (y[1] = listed /\ y[2] > n)
    BY <1>3, <1>11 DEF Ahead
  <2>6. y[2] > object /\ y[2] # n <=> y[2] > n
    BY <1>1, <2>2
  <2>7. Ahead(y) <=> Ahead(y)'
    BY <2>3, <2>4, <2>5, <2>6
  <2>8. ASSUME Ahead(y) PROVE Before(x, y)
    <3>1. DOMAIN x = 1..2
      BY <1>2
    <3>2. CASE y[1] > listed
      <4>1. 1 \in DOMAIN x /\ x[1] < y[1] /\ 1..(1 - 1) = {}
        BY <1>7, <2>2, <3>1, <3>2
      <4> QED BY <4>1 DEF Before
    <3>3. CASE y[1] = listed /\ y[2] > n
      <4>1. 2 \in DOMAIN x /\ x[2] < y[2] /\ 1..(2 - 1) = {1} /\ x[1] = y[1]
        BY <1>1, <1>7, <2>2, <3>1, <3>3
      <4> QED BY <4>1 DEF Before
    <3> QED BY <2>5, <2>7, <2>8, <3>2, <3>3
  <2> QED BY <2>7, <2>8
<1>12. CASE x \in Wanted
  <2>1. status' = "run"
    BY <1>3, <1>2, <1>1, <1>8, <1>12 DEF ReadObject, Continue
  <2>2. ~Ahead(x)'
    <3>1. listed \in Nat /\ object \in Nat
      BY <1>7, AheadInRun
    <3>2. ~(x[1] > listed') /\ ~(x[2] > object') /\ status' # "open"
      BY <1>3, <1>7, <2>1, <3>1, ObjectsInWidth
    <3> QED BY <1>3, <3>2 DEF Ahead
  <2>3. out' = Append(out, x)
    BY <1>4, <1>8, <1>12
  <2>4. \A y \in Wanted : y # x => (Ahead(y) => Ahead(y)') /\ (Ahead(y)' => Ahead(y))
    BY <1>11, <2>1
  <2>5. Delivered' /\ GivenOnce' /\ x \notin Promise!Given
    BY <1>3, <1>6, <1>9, <1>10, <1>12, <2>2, <2>3, <2>4, GivingAccount
  <2>6. \A y \in Wanted : Ahead(y) => y = x \/ Before(x, y)
    BY <1>11, <2>1
  <2> QED BY <1>12, <2>3, <2>5, <2>6
<1>13. CASE x \notin Wanted
  <2>1. out' = out
    BY <1>4, <1>8, <1>13
  <2>2. Ongoing' => \A y \in Wanted : (Ahead(y) => Ahead(y)') /\ (Ahead(y)' => Ahead(y))
    BY <1>9, <1>11, <1>13
  <2> QED BY <1>3, <1>9, <2>1, <2>2, QuietAccount
<1> QED BY <1>12, <1>13

(* Reading an object of a table with two levels passes no item that is wanted:
   its items are open, or none of them is. *)
LEMMA OpensAnObject ==
  ASSUME TypeInv, Passed, Delivered, GivenOnce, ReadObject, Iter.levels = 2
  PROVE  Delivered' /\ GivenOnce' /\ out' = out
<1>1. PICK n : n = object + 1
  OBVIOUS
<1>2. /\ status = "run" /\ UNCHANGED <<world, listed>> /\ object' = n /\ n \in Objects
      /\ item' = 0
  BY <1>1 DEF ReadObject
<1>3. opened # TRUE
  BY DEF ReadObject
<1>4. out' = out
  BY DEF ReadObject
<1>5. \/ status' = status /\ stop' = stop
      \/ status' = "panic" /\ stop' = stop
      \/ status' = "closing" /\ stop' = "error"
  BY FailStatus DEF ReadObject, Continue
<1>6. Mark(<<listed, n>>) \in {"none", "again"} /\ ~Seen(listed, n) => opened' = TRUE
  <2>1. ASSUME Mark(<<listed, n>>) \in {"none", "again"} /\ ~Seen(listed, n)
        PROVE  opened'
    BY <1>1, <2>1 DEF ReadObject
  <2>2. opened' \in BOOLEAN
    BY DEF ReadObject
  <2> QED BY <2>1, <2>2
<1>7. Ongoing /\ (Ongoing' => status' = "run")
  BY <1>2, <1>5 DEF Ongoing
<1>8. ASSUME NEW y \in Wanted, status' = "run"
      PROVE  (Ahead(y) => Ahead(y)') /\ (Ahead(y)' => Ahead(y))
  <2>1. y \in Rows
    BY DEF Wanted
  <2>2. /\ y[1] \in Nat /\ y[2] \in Nat /\ y[3] \in Nat \ {0} /\ scan \in DOMAIN Scans
        /\ listed \in Nat /\ object \in Nat
    BY <2>1, AheadInRun
  <2>3. Ahead(y) <=> y[1] > listed \/ (y[1] = listed /\ y[2] > object)
    BY <1>2, <1>3 DEF Ahead
  <2>4. Ahead(y)' <=> \/ y[1] > listed
                      \/ y[1] = listed /\ y[2] > n
                      \/ y[1] = listed /\ y[2] = n /\ opened' = TRUE /\ y[3] > 0
    BY <1>2, <1>8 DEF Ahead
  <2>5. y[1] = listed /\ y[2] = n => opened' = TRUE
    BY <1>6, <2>1, <2>2, WantedItems
  <2>6. (y[2] > object <=> y[2] > n \/ y[2] = n) /\ y[3] > 0
    BY <1>1, <2>2
  <2> QED BY <2>3, <2>4, <2>5, <2>6
<1> QED BY <1>2, <1>4, <1>7, <1>8, QuietAccount

(* Reading an item returns it, if it is wanted; if it drops the rest of the
   object, none of the rest is wanted. *)
LEMMA ReadsAnItem ==
  ASSUME TypeInv, Passed, NotDropped, Delivered, GivenOnce, ReadItem
  PROVE  /\ Delivered' /\ GivenOnce' /\ NotDropped'
         /\ out' # out => \E x \in Wanted : /\ x \notin Promise!Given /\ out' = Append(out, x)
                                            /\ \A y \in Wanted : Ahead(y) => y = x \/ Before(x, y)
<1>1. PICK n : n = item + 1
  OBVIOUS
<1>2. PICK x : x = <<listed, object, n>>
  OBVIOUS
<1>3. /\ status = "run" /\ UNCHANGED <<world, listed, object>> /\ item' = n
      /\ item < Width
  BY <1>1 DEF ReadItem
<1>4. opened = TRUE
  BY DEF ReadItem, TypeInv, TypeOK
<1>5. out' = IF Mark(x) \in {"none", "again"} THEN Append(out, x) ELSE out
  BY <1>1, <1>2 DEF ReadItem
<1>6. \/ status' = status /\ stop' = stop
      \/ status' = "panic" /\ stop' = stop
      \/ status' = "closing" /\ stop' = "error"
  BY FailStatus DEF ReadItem, Continue
<1>7. /\ listed \in 1..Repos /\ scan \in DOMAIN Scans /\ out \in Seq(Rows)
      /\ object \in Objects /\ Iter.levels = 2 /\ item \in 0..Width
  BY <1>3, <1>4 DEF TypeInv, TypeOK, Places
<1>8. n \in 1..Width
  BY <1>1, <1>3, <1>7, SizesAreNaturals
<1>9. x \in Rows /\ x[1] = listed /\ x[2] = object /\ x[3] = n
  BY <1>2, <1>7, <1>8, ItemIsRow
<1>10. Mark(x) \in {"unread", "nocontent", "none", "again", "passed"}
  BY <1>1, <1>2 DEF ReadItem
<1>11. /\ Mark(<<listed>>) = "none"
       /\ Mark(<<listed, object>>) \in {"none", "again"}
       /\ ~Seen(listed, object)
  BY <1>3, <1>4 DEF Passed
<1>12. Iter.item = "drop" => \A i \in 1..item : Mark(<<listed, object, i>>) # "unread"
  BY <1>3, <1>4 DEF NotDropped
<1>13. x \in Wanted <=> Mark(x) \in {"none", "again"}
  <2>1. n - 1 = item
    BY <1>1, <1>7
  <2> QED BY <1>2, <1>7, <1>9, <1>10, <1>11, <1>12, <2>1, WantedItems
<1>14. Ongoing /\ (Ongoing' => status' = "run")
  BY <1>3, <1>6 DEF Ongoing
<1>15. Ahead(x)
  <2>1. item \in Nat
    BY <1>9, AheadInRun
  <2> QED BY <1>1, <1>3, <1>4, <1>9, <2>1 DEF Ahead
<1>16. opened' = TRUE \/ (opened' # TRUE /\ Mark(x) = "unread" /\ Iter.item = "drop")
  <2>1. opened' = ~(Mark(x) = "unread" /\ Iter.item = "drop")
    BY <1>1, <1>2 DEF ReadItem
  <2> QED BY <2>1
<1>17. ASSUME NEW y \in Wanted, y # x, status' = "run"
       PROVE  (Ahead(y) => Ahead(y)') /\ (Ahead(y)' => Ahead(y)) /\ (Ahead(y) => Before(x, y))
  <2>1. y \in Rows
    BY DEF Wanted
  <2>2. /\ y = <<y[1], y[2], y[3]>> /\ y[1] \in Nat /\ y[2] \in Nat /\ y[3] \in Nat
        /\ listed \in Nat /\ object \in Nat /\ item \in Nat
    BY <1>7, <2>1, AheadInRun, RowParts
  <2>3. y[1] # listed \/ y[2] # object \/ y[3] # n
    BY <1>2, <1>17, <2>2
  <2>4. Ahead(y) <=> \/ y[1] > listed
                     \/ y[1] = listed /\ y[2] > object
                     \/ y[1] = listed /\ y[2] = object /\ y[3] > item
    BY <1>3, <1>4 DEF Ahead
  <2>5. Ahead(y)' <=> \/ y[1] > listed
                      \/ y[1] = listed /\ y[2] > object
                      \/ y[1] = listed /\ y[2] = object /\ opened' = TRUE /\ y[3] > n
    BY <1>3, <1>17 DEF Ahead
  <2>6. y[3] > item /\ y[3] # n <=> y[3] > n
    BY <1>1, <2>2
  <2>7. y[1] = listed /\ y[2] = object /\ y[3] > n => opened' = TRUE
    <3> SUFFICES ASSUME y[1] = listed, y[2] = object, y[3] > n, Mark(x) = "unread", Iter.item = "drop"
                 PROVE  FALSE
      BY <1>16
    <3>1. n \in 1..(y[3] - 1)
      BY <1>8, <2>2
    <3>2. Mark(<<listed, object, n>>) # "unread"
      BY <1>7, <2>1, <3>1, WantedItems
    <3> QED BY <1>2, <3>2
  <2>8. Ahead(y) <=> Ahead(y)'
    BY <2>3, <2>4, <2>5, <2>6, <2>7
  <2>9. ASSUME Ahead(y) PROVE Before(x, y)
    <3>1. DOMAIN x = 1..3
      BY <1>2
    <3>2. CASE y[1] > listed
      <4>1. 1 \in DOMAIN x /\ x[1] < y[1] /\ 1..(1 - 1) = {}
        BY <1>9, <2>2, <3>1, <3>2
      <4> QED BY <4>1 DEF Before
    <3>3. CASE y[1] = listed /\ y[2] > object
      <4>1. 2 \in DOMAIN x /\ x[2] < y[2] /\ 1..(2 - 1) = {1} /\ x[1] = y[1]
        BY <1>9, <2>2, <3>1, <3>3
      <4> QED BY <4>1 DEF Before
    <3>4. CASE y[1] = listed /\ y[2] = object /\ y[3] > n
      <4>1. 3 \in DOMAIN x /\ x[3] < y[3] /\ 1..(3 - 1) = {1, 2} /\ x[1] = y[1] /\ x[2] = y[2]
        BY <1>1, <1>9, <2>2, <3>1, <3>4
      <4> QED BY <4>1 DEF Before
    <3> QED BY <2>5, <2>8, <2>9, <3>2, <3>3, <3>4
  <2> QED BY <2>8, <2>9
<1>18. NotDropped'
  <2> SUFFICES ASSUME opened' = TRUE, Iter.item = "drop"
               PROVE  \A i \in 1..n : Mark(<<listed, object, i>>) # "unread"
    BY <1>3, WorldStays DEF NotDropped
  <2>1. \A i \in 1..n : i \in 1..item \/ i = n
    BY <1>1, <1>7
  <2>2. Mark(x) # "unread"
    <3>1. opened' = ~(Mark(x) = "unread" /\ Iter.item = "drop")
      BY <1>1, <1>2 DEF ReadItem
    <3> QED BY <3>1
  <2> QED BY <1>2, <1>12, <2>1, <2>2
<1>19. CASE x \in Wanted
  <2>1. status' = "run"
    BY <1>1, <1>2, <1>3, <1>13, <1>19 DEF ReadItem, Continue
  <2>2. ~Ahead(x)'
    <3>1. listed \in Nat /\ object \in Nat /\ item \in Nat
      BY <1>9, AheadInRun
    <3>2. ~(x[1] > listed') /\ ~(x[2] > object') /\ ~(x[3] > item') /\ status' # "open"
      BY <1>1, <1>3, <1>9, <2>1, <3>1
    <3> QED BY <1>3, <3>2 DEF Ahead
  <2>3. out' = Append(out, x)
    BY <1>5, <1>13, <1>19
  <2>4. \A y \in Wanted : y # x => (Ahead(y) => Ahead(y)') /\ (Ahead(y)' => Ahead(y))
    BY <1>17, <2>1
  <2>5. Delivered' /\ GivenOnce' /\ x \notin Promise!Given
    BY <1>3, <1>7, <1>14, <1>15, <1>19, <2>2, <2>3, <2>4, GivingAccount
  <2>6. \A y \in Wanted : Ahead(y) => y = x \/ Before(x, y)
    BY <1>17, <2>1
  <2> QED BY <1>18, <1>19, <2>3, <2>5, <2>6
<1>20. CASE x \notin Wanted
  <2>1. out' = out
    BY <1>5, <1>13, <1>20
  <2>2. Ongoing' => \A y \in Wanted : (Ahead(y) => Ahead(y)') /\ (Ahead(y)' => Ahead(y))
    BY <1>14, <1>17, <1>20
  <2>3. Delivered' /\ GivenOnce'
    BY <1>3, <1>14, <2>1, <2>2, QuietAccount
  <2> QED BY <1>18, <2>1, <2>3
<1> QED BY <1>19, <1>20

(* The other steps return nothing and pass no row that is wanted. *)
Quiet ==
  \/ PartitionCount \/ Partitions \/ NextPartition \/ PartitionRows \/ ListFails
  \/ ItemsEnd \/ ObjectsEnd \/ Close \/ Stop \/ UNCHANGED vars

(* A row that is wanted is in a repository that nothing is wrong with. *)
LEMMA WantedRepo ==
  ASSUME TypeInv, NEW x \in Wanted
  PROVE  x \in Rows /\ Mark(<<x[1]>>) = "none"
<1>1. x \in Rows
  BY DEF Wanted
<1> QED BY <1>1, AheadInRun, WantedObjects, WantedItems

(* They keep the account. *)
LEMMA QuietSteps ==
  ASSUME TypeInv, Passed, Account, Quiet
  PROVE  Account' /\ out' = out
<1> USE SizesAreNaturals
<1>a. Delivered /\ GivenOnce /\ NotDropped
  BY DEF Account
<1>w. UNCHANGED <<world, out>>
  BY DEF Quiet, vars, PartitionCount, Partitions, NextPartition, PartitionRows, ListFails,
         ItemsEnd, ObjectsEnd, Close, Stop
<1>m. Iter' = Iter /\ \A x : Mark(x)' = Mark(x)
  BY <1>w, WorldStays
<1>x. ASSUME NEW x \in Wanted
      PROVE  /\ x[1] \in Nat /\ x[2] \in Nat \ {0} /\ x[2] \in Objects
             /\ Iter.levels = 2 => x[3] \in Nat \ {0} /\ x[3] \in 1..Width
             /\ listed \in Nat /\ object \in Nat /\ item \in Nat
             /\ opened = TRUE => Iter.levels = 2
             /\ Mark(<<x[1]>>) = "none"
  BY WantedRepo, AheadInRun
<1>1. (Ongoing' => Ongoing) /\ NotDropped' /\
        (Ongoing' => \A x \in Wanted : (Ahead(x) => Ahead(x)') /\ (Ahead(x)' => Ahead(x)))
  <2>1. CASE PartitionCount \/ Partitions
    <3>1. status = "start" /\ status' \in {"list", "error"} /\ UNCHANGED listed
      BY <2>1 DEF PartitionCount, Partitions
    <3> QED BY <3>1 DEF Ongoing, NotDropped, Ahead
  <2>2. CASE NextPartition
    <3>1. /\ status = "list"
          /\ \/ status' \in {"eof", "error"}
             \/ /\ listed' = listed + 1
                /\ \/ status' = "open"
                   \/ status' = "list" /\ Mark(<<listed + 1>>) = "unlisted"
      BY <2>2 DEF NextPartition
    <3>2. status' \notin {"run", "closing"}
      BY <3>1
    <3>3. Ongoing /\ NotDropped'
      BY <3>1, <3>2 DEF Ongoing, NotDropped
    <3>4. ASSUME Ongoing', NEW x \in Wanted PROVE (Ahead(x) => Ahead(x)') /\ (Ahead(x)' => Ahead(x))
      <4>1. x[1] \in Nat /\ listed \in Nat /\ Mark(<<x[1]>>) = "none"
        BY <1>x
      <4>2. status' \in {"open", "list"}
        BY <3>1, <3>4 DEF Ongoing
      <4>3. Ahead(x) <=> x[1] > listed
        BY <3>1 DEF Ahead
      <4>4. Ahead(x)' <=> x[1] > listed + 1 \/ (status' = "open" /\ x[1] = listed + 1)
        BY <3>1, <4>2 DEF Ahead
      <4>5. x[1] > listed <=> x[1] > listed + 1 \/ x[1] = listed + 1
        BY <4>1
      <4>6. x[1] = listed + 1 => status' = "open"
        BY <3>1, <4>1, <4>2
      <4> QED BY <4>3, <4>4, <4>5, <4>6
    <3> QED BY <3>3, <3>4
  <2>3. CASE PartitionRows
    <3>1. /\ status = "open" /\ listed' = listed /\ object' = 0
          /\ \/ status' = "error"
             \/ status' = "run"
             \/ status' = "list" /\ Mark(<<listed>>) = "rejected"
      BY <2>3 DEF PartitionRows
    <3>2. opened' # TRUE
      BY <2>3 DEF PartitionRows
    <3>3. Ongoing /\ NotDropped'
      BY <3>1, <3>2 DEF Ongoing, NotDropped
    <3>4. ASSUME Ongoing', NEW x \in Wanted PROVE (Ahead(x) => Ahead(x)') /\ (Ahead(x)' => Ahead(x))
      <4>1. x[1] \in Nat /\ listed \in Nat /\ Mark(<<x[1]>>) = "none" /\ x[2] \in Nat \ {0}
        BY <1>x
      <4>2. status' \in {"run", "list"}
        BY <3>1, <3>4 DEF Ongoing
      <4>3. Ahead(x) <=> x[1] > listed \/ x[1] = listed
        BY <3>1 DEF Ahead
      <4>4. Ahead(x)' <=> x[1] > listed \/ (status' = "run" /\ x[1] = listed)
        BY <3>1, <3>2, <4>1, <4>2 DEF Ahead
      <4>5. x[1] = listed => status' = "run"
        BY <3>1, <4>1, <4>2
      <4> QED BY <4>3, <4>4, <4>5
    <3> QED BY <3>3, <3>4
  <2>4. CASE ListFails
    <3>1. status = "run" /\ status' = "closing" /\ listed' = listed /\ Mark(<<listed>>) = "nolist"
      BY <2>4 DEF ListFails, End
    <3>2. \A x \in Wanted : x[1] # listed
      BY <1>x, <3>1
    <3> QED BY <3>1, <3>2 DEF Ongoing, NotDropped, Ahead
  <2>5. CASE ItemsEnd
    <3>1. /\ status = "run" /\ status' = "run" /\ listed' = listed /\ object' = object
          /\ item = Width
      BY <2>5 DEF ItemsEnd
    <3>2. opened' # TRUE
      BY <2>5 DEF ItemsEnd
    <3>3. opened = TRUE
      BY <2>5 DEF ItemsEnd, TypeInv, TypeOK
    <3>4. Iter.levels = 2
      BY <3>3 DEF TypeInv, Places
    <3>5. ASSUME NEW x \in Wanted PROVE ~(x[3] > item)
      <4>1. x[3] \in 1..Width
        BY <1>x, <3>4
      <4> QED BY <3>1, <4>1
    <3> QED BY <3>1, <3>2, <3>5 DEF Ongoing, NotDropped, Ahead
  <2>6. CASE ObjectsEnd
    <3>1. /\ status = "run" /\ status' = "closing" /\ listed' = listed
          /\ object + 1 \notin Objects
      BY <2>6 DEF ObjectsEnd, End
    <3>2. opened # TRUE
      BY <2>6 DEF ObjectsEnd
    <3>3. ASSUME NEW x \in Wanted PROVE ~(x[2] > object)
      <4>1. x[2] \in Objects /\ object \in Nat
        BY <1>x
      <4> QED BY <3>1, <4>1 DEF Objects
    <3> QED BY <3>1, <3>2, <3>3 DEF Ongoing, NotDropped, Ahead
  <2>7. CASE Close
    <3>1. /\ status = "closing" /\ stop \in {"eof", "error", "closed"} /\ UNCHANGED <<listed, stop>>
          /\ status' = "panic" \/ status' = IF stop = "eof" THEN "list" ELSE stop
      BY <2>7 DEF Close, TypeInv, TypeOK, Places
    <3> QED BY <3>1 DEF Ongoing, NotDropped, Ahead
  <2>8. CASE Stop
    <3>1. status' = "closing" /\ stop' = "closed"
      BY <2>8 DEF Stop, End
    <3> QED BY <3>1 DEF Ongoing, NotDropped
  <2>9. CASE UNCHANGED vars
    <3>1. UNCHANGED <<status, listed, object, item, opened, stop>>
      BY <2>9 DEF vars, cursor
    <3> QED BY <1>a, <1>m, <3>1 DEF Ongoing, NotDropped, Ahead
  <2> QED BY <2>1, <2>2, <2>3, <2>4, <2>5, <2>6, <2>7, <2>8, <2>9 DEF Quiet
<1>2. Delivered' /\ GivenOnce'
  BY <1>a, <1>w, <1>1, QuietAccount
<1> QED BY <1>1, <1>2, <1>w DEF Account

(* A step that returns a row returns the first of those that are owed. *)
Gives ==
  \E x \in Wanted : /\ x \notin Promise!Given /\ out' = Append(out, x)
                    /\ \A y \in Wanted : Ahead(y) => y = x \/ Before(x, y)

(* The steps keep the account, and return a row only as they should. *)
LEMMA AccountStep ==
  ASSUME TypeInv, Passed, Account, [Next]_vars
  PROVE  /\ Account'
         /\ out' # out => Gives /\ status = "run"
<1>a. Delivered /\ GivenOnce /\ NotDropped
  BY DEF Account
<1>1. CASE Quiet
  BY <1>1, QuietSteps
<1>2. CASE ReadObject /\ Iter.levels = 1
  <2>1. opened' = TRUE => Iter.levels = 2
    BY <1>2 DEF ReadObject
  <2>2. opened' # TRUE
    <3>1. Iter.levels # 2
      BY <1>2
    <3> QED BY <2>1, <3>1
  <2>3. NotDropped'
    BY <2>2 DEF NotDropped
  <2>4. status = "run"
    BY <1>2 DEF ReadObject
  <2>5. Delivered' /\ GivenOnce' /\ (out' # out => Gives)
    BY <1>a, <1>2, ReadsAnObject DEF Gives
  <2> QED BY <2>3, <2>4, <2>5 DEF Account
<1>3. CASE ReadObject /\ Iter.levels = 2
  <2>1. Delivered' /\ GivenOnce' /\ out' = out
    BY <1>a, <1>3, OpensAnObject
  <2>2. item' = 0 /\ 1..0 = {}
    BY <1>3 DEF ReadObject
  <2>3. NotDropped'
    BY <2>2 DEF NotDropped
  <2> QED BY <2>1, <2>3 DEF Account
<1>4. CASE ReadItem
  <2>1. Delivered' /\ GivenOnce' /\ NotDropped' /\ (out' # out => Gives)
    BY <1>a, <1>4, ReadsAnItem DEF Gives
  <2>2. status = "run"
    BY <1>4 DEF ReadItem
  <2> QED BY <2>1, <2>2 DEF Account
<1>5. Iter.levels \in {1, 2}
  <2>1. scan \in DOMAIN Scans
    BY DEF TypeInv, TypeOK
  <2> QED BY <2>1, IterIsSound DEF Sound
<1> QED BY <1>1, <1>2, <1>3, <1>4, <1>5 DEF Next, Step, Quiet

(* A query starts with nothing returned and all ahead of it. *)
LEMMA AccountInit == Init => Account
<1> SUFFICES ASSUME Init PROVE Account
  OBVIOUS
<1>1. TypeInv
  BY TypeInit
<1>2. status = "start" /\ listed = 0 /\ out = <<>>
  BY DEF Init
<1>3. DOMAIN out = {}
  BY <1>2
<1>4. \A x \in Wanted : x[1] \in 1..Repos
  BY <1>1, WantedRepo, AheadInRun
<1>5. Delivered
  <2>1. \A x \in Wanted : Ahead(x) /\ x \notin Promise!Given
    BY <1>2, <1>3, <1>4, SizesAreNaturals DEF Ahead, Promise!Given
  <2> QED BY <2>1 DEF Delivered
<1>6. GivenOnce
  BY <1>3 DEF GivenOnce
<1>7. NotDropped
  BY <1>2 DEF NotDropped
<1> QED BY <1>5, <1>6, <1>7 DEF Account

-----------------------------------------------------------------------------
(* How the query looks to the engine. *)
Seems == IF Ended THEN status ELSE "run"

(* A step is one that RowSource allows. *)
LEMMA StepRefines ==
  ASSUME TypeInv, Passed, Account, [Next]_vars
  PROVE  [Promise!Next]_<<Wanted, out, Seems>>
<1>1. Wanted' = Wanted
  <2>1. UNCHANGED world
    BY DEF Next, Step, vars, PartitionCount, Partitions, NextPartition, PartitionRows, ListFails,
           ReadObject, ReadItem, ItemsEnd, ObjectsEnd, Close, Stop
  <2> QED BY <2>1, WantedStays
<1>2. CASE out' # out
  <2>1. Gives /\ status = "run"
    BY <1>2, AccountStep
  <2>2. Seems = "run"
    BY <2>1 DEF Seems, Ended
  <2>3. ReadObject \/ ReadItem
    BY <1>2 DEF Next, Step, vars, PartitionCount, Partitions, NextPartition, PartitionRows,
                ListFails, ItemsEnd, ObjectsEnd, Close, Stop
  <2>4. status' = "run"
    <3>1. CASE ReadObject
      <4>1. Mark(<<listed, object + 1>>) \in {"none", "again"}
        BY <1>2, <3>1 DEF ReadObject
      <4> QED BY <2>1, <3>1, <4>1 DEF ReadObject, Continue
    <3>2. CASE ReadItem
      <4>1. Mark(<<listed, object, item + 1>>) \in {"none", "again"}
        BY <1>2, <3>2 DEF ReadItem
      <4> QED BY <2>1, <3>2, <4>1 DEF ReadItem, Continue
    <3> QED BY <2>3, <3>1, <3>2
  <2>5. Seems' = "run"
    BY <2>4 DEF Seems, Ended
  <2>6. PICK x \in Wanted : /\ x \notin Promise!Given /\ out' = Append(out, x)
                            /\ \A y \in Wanted : Ahead(y) => y = x \/ Before(x, y)
    BY <2>1 DEF Gives
  <2>7. \A y \in Wanted \ Promise!Given : y = x \/ Before(x, y)
    BY <2>1, <2>6 DEF Account, Delivered, Ongoing
  <2>8. Promise!Emit
    BY <1>1, <2>2, <2>5, <2>6, <2>7 DEF Promise!Emit, Seems
  <2> QED BY <2>8 DEF Promise!Next
<1>3. CASE out' = out
  <2>1. CASE Seems' = Seems
    BY <1>1, <1>3, <2>1
  <2>2. CASE Seems' \notin {"run", "eof"}
    BY <1>1, <1>3, <2>2 DEF Promise!Next, Promise!Stop, Seems
  <2>3. CASE Seems' # Seems /\ Seems' \in {"run", "eof"}
    <3>1. ~Ended
      <4>1. CASE UNCHANGED vars
        <5>1. Seems' = Seems
          BY <4>1 DEF vars, Seems, Ended
        <5> QED BY <2>3, <5>1
      <4>2. CASE Next
        BY <4>2 DEF Next, Step, PartitionCount, Partitions, NextPartition, PartitionRows, ListFails,
                    ReadObject, ReadItem, ItemsEnd, ObjectsEnd, Close, Stop, Ended
      <4> QED BY <4>1, <4>2
    <3>2. Seems = "run" /\ Seems' = "eof" /\ status' = "eof"
      BY <2>3, <3>1 DEF Seems, Ended
    <3>3. status = "list" /\ listed = Repos
      <4>1. stop \in {"none", "eof", "error", "closed"}
        BY DEF TypeInv, TypeOK
      <4>2. ~ReadObject /\ ~ReadItem
        BY <3>1, <3>2, FailStatus DEF ReadObject, ReadItem, Continue, Ended
      <4>3. ~Close
        BY <3>2, <4>1 DEF Close
      <4>4. ~UNCHANGED vars
        BY <3>1, <3>2 DEF vars, Ended
      <4>5. NextPartition
        BY <3>1, <3>2, <4>2, <4>3, <4>4 DEF Next, Step, PartitionCount, Partitions, PartitionRows,
                    ListFails, ItemsEnd, ObjectsEnd, Stop, End, Ended
      <4> QED BY <3>2, <4>5 DEF NextPartition
    <3>4. \A x \in Wanted : ~Ahead(x)
      <4>1. \A x \in Wanted : x[1] \in 1..Repos
        BY WantedRepo, AheadInRun
      <4> QED BY <3>3, <4>1, SizesAreNaturals DEF Ahead
    <3>5. Wanted \subseteq Promise!Given
      BY <3>3, <3>4 DEF Account, Delivered, Ongoing
    <3> QED BY <1>1, <1>3, <3>2, <3>5 DEF Promise!Next, Promise!EOF, Seems
  <2> QED BY <2>1, <2>2, <2>3
<1> QED BY <1>2, <1>3

(* A query over any table gives the rows of all the repositories of a library
   of any size, each once and in order, and io.EOF only after all of them,
   whatever is wrong in the library and is skipped on the way. *)
THEOREM Scan == Spec => ImplementsScan
<1>1. Init => Promise!Init
  BY DEF Init, Promise!Init, Ended
<1>2. ASSUME TypeInv, Passed, Account, [Next]_vars
      PROVE  [Promise!Next]_<<Wanted, out, IF Ended THEN status ELSE "run">>
  BY <1>2, StepRefines DEF Seems
<1>3. TypeInv /\ Passed /\ Account /\ [Next]_vars => Account'
  BY AccountStep
<1> QED
  BY <1>1, <1>2, <1>3, TypeInit, TypeStep, CausedInit, PassedStep, AccountInit, PTL
     DEF Spec, ImplementsScan, Promise!Spec

-----------------------------------------------------------------------------
(* The mark of an object is one of those it may have. *)
LEMMA ObjectMark ==
  ASSUME TypeInv, NEW r, NEW o, Mark(<<r, o>>) # "none"
  PROVE  o \in Objects /\ o \in Nat /\ Mark(<<r, o>>) \in ObjectMarks(o)
<1>1. PICK y \in marks : y[1] = <<r, o>> /\ y[2] = Mark(<<r, o>>)
  BY MarkIsThere
<1>2. y \in Marked
  BY DEF TypeInv, TypeOK
<1>3. \A a, b, c : Len(<<r, o>>) # Len(<<a>>) /\ Len(<<r, o>>) # Len(<<a, b, c>>)
  OBVIOUS
<1>4. \A a, b, c, m : <<<<a>>, m>>[1] = <<a>> /\ <<<<a, b, c>>, m>>[1] = <<a, b, c>>
  OBVIOUS
<1>5. ~RepoMarked(y) /\ ~ItemMarked(y)
  BY <1>1, <1>3, <1>4 DEF RepoMarked, ItemMarked
<1>6. ObjectMarked(y)
  BY <1>2, <1>5, MarksOfThreeKinds
<1>7. PICK a \in 1..Repos, b \in Objects : \E m \in ObjectMarks(b) : y = <<<<a, b>>, m>>
  BY <1>6 DEF ObjectMarked
<1>8. PICK m \in ObjectMarks(b) : y = <<<<a, b>>, m>>
  BY <1>7
<1>9. b = o /\ m = Mark(<<r, o>>)
  BY <1>1, <1>8
<1>10. b \in Nat
  BY <1>7, ObjectsInWidth, SizesAreNaturals
<1> QED BY <1>7, <1>8, <1>9, <1>10

(* An object that names the same as the first one comes after it. *)
LEMMA AgainMark ==
  ASSUME TypeInv, NEW r, NEW o, Mark(<<r, o>>) = "again"
  PROVE  o \in Objects /\ o \in Nat /\ o > 1
<1>1. o \in Objects /\ o \in Nat /\ "again" \in ObjectMarks(o)
  BY ObjectMark
<1>2. o > 1
  BY <1>1 DEF ObjectMarks
<1> QED BY <1>1, <1>2

(* Rows of files that are wanted are about different things: of the commits that
   name the same tree one is read. *)
LEMMA NamesDiffer ==
  ASSUME TypeInv, Iter.seen, NEW x \in Wanted, NEW y \in Wanted, Named(x) = Named(y)
  PROVE  x = y
<1>1. x \in Rows /\ y \in Rows
  BY DEF Wanted
<1>2. /\ scan \in DOMAIN Scans /\ Iter.levels \in {1, 2}
      /\ x[2] \in Nat \ {0} /\ y[2] \in Nat \ {0}
  BY <1>1, AheadInRun
<1>3. \/ /\ x = <<x[1], x[2]>> /\ y = <<y[1], y[2]>>
         /\ DOMAIN x = 1..2 /\ DOMAIN y = 1..2
      \/ /\ x = <<x[1], x[2], x[3]>> /\ y = <<y[1], y[2], y[3]>>
         /\ DOMAIN x = 1..3 /\ DOMAIN y = 1..3
  BY <1>1, <1>2, RowParts
<1>4. /\ Mark(<<x[1], x[2]>>) \in {"none", "again"} /\ ~Seen(x[1], x[2])
      /\ Mark(<<y[1], y[2]>>) \in {"none", "again"} /\ ~Seen(y[1], y[2])
  BY <1>1, <1>2, WantedObjects, WantedItems
<1>5. ASSUME NEW z, 1 \in DOMAIN z, 2 \in DOMAIN z
      PROVE  /\ Named(z)[1] = z[1]
             /\ 3 \in DOMAIN z => Named(z)[3] = z[3]
             /\ Named(z)[2] = IF Mark(<<z[1], z[2]>>) = "again" THEN 1 ELSE z[2]
  BY <1>5 DEF Named
<1>6. 1 \in DOMAIN x /\ 2 \in DOMAIN x /\ 1 \in DOMAIN y /\ 2 \in DOMAIN y
  BY <1>3
<1>x. /\ Named(x)[1] = x[1]
      /\ 3 \in DOMAIN x => Named(x)[3] = x[3]
  BY <1>5, <1>6
<1>y. /\ Named(y)[1] = y[1]
      /\ 3 \in DOMAIN y => Named(y)[3] = y[3]
  BY <1>5, <1>6
<1>7. x[1] = y[1]
  BY <1>x, <1>y
<1>8. ASSUME x[2] = y[2] PROVE x = y
  <2>1. CASE DOMAIN x = 1..3
    <3>1. 3 \in DOMAIN x /\ 3 \in DOMAIN y
      BY <1>3, <2>1
    <3>2. x[3] = y[3]
      BY <1>x, <1>y, <3>1
    <3> QED BY <1>3, <1>7, <1>8, <3>2
  <2>2. CASE DOMAIN x # 1..3
    BY <1>3, <1>7, <1>8, <2>2
  <2> QED BY <2>1, <2>2
<1>9. ASSUME NEW r, NEW a \in Nat, NEW b \in Nat, b > 0, b < a,
             Mark(<<r, a>>) = "again", ~Seen(r, a)
      PROVE  Mark(<<r, b>>) # "again" /\ (b = 1 => Mark(<<r, b>>) = "unread")
  <2>1. b \in 1..(a - 1)
    BY <1>9
  <2> QED BY <1>9, <2>1 DEF Seen
<1>10. CASE Mark(<<x[1], x[2]>>) = "again" /\ Mark(<<y[1], y[2]>>) = "again"
  <2>1. ~(x[2] < y[2])
    BY <1>2, <1>4, <1>7, <1>9, <1>10
  <2>2. ~(y[2] < x[2])
    BY <1>2, <1>4, <1>7, <1>9, <1>10
  <2>3. x[2] = y[2]
    BY <1>2, <2>1, <2>2
  <2> QED BY <1>8, <2>3
<1>11. CASE Mark(<<x[1], x[2]>>) = "again" /\ Mark(<<y[1], y[2]>>) = "none"
  <2>1. y[2] = 1
    BY <1>5, <1>6, <1>11
  <2>2. x[2] > 1
    BY <1>11, AgainMark
  <2>3. Mark(<<x[1], 1>>) = "unread"
    BY <1>2, <1>4, <1>9, <1>11, <2>2
  <2> QED BY <1>7, <1>11, <2>1, <2>3
<1>12. CASE Mark(<<x[1], x[2]>>) = "none" /\ Mark(<<y[1], y[2]>>) = "again"
  <2>1. x[2] = 1
    BY <1>5, <1>6, <1>12
  <2>2. y[2] > 1
    BY <1>12, AgainMark
  <2>3. Mark(<<y[1], 1>>) = "unread"
    BY <1>2, <1>4, <1>9, <1>12, <2>2
  <2> QED BY <1>7, <1>12, <2>1, <2>3
<1>13. CASE Mark(<<x[1], x[2]>>) = "none" /\ Mark(<<y[1], y[2]>>) = "none"
  <2>1. x[2] = y[2]
    BY <1>5, <1>6, <1>13
  <2> QED BY <1>8, <2>1
<1> QED BY <1>4, <1>10, <1>11, <1>12, <1>13

(* A set of naturals that is not empty has a least element. *)
LEMMA LeastElement ==
  ASSUME NEW T, T \subseteq Nat, T # {}
  PROVE  \E n \in T : \A m \in T : n <= m
<1> DEFINE R == OpToRel(<, Nat)
<1>1. IsWellFoundedOn(R, Nat)
  BY NatLessThanWellFounded
<1>2. PICK n \in T : \A m \in T : <<m, n>> \notin R
  <2> HIDE DEF R
  <2> QED
    BY <1>1, WFMin
<1>3. \A m \in T : ~(m < n)
  BY <1>2 DEF OpToRel
<1> QED
  BY <1>3

(* The library stays as it is. *)
Fixed == Consistent(marks)

(* A query that has reached io.EOF has returned all that is wanted. *)
AllGiven == status = "eof" => \A x \in Wanted : x \in Promise!Given

(* The library is consistent at first, and does not change. *)
LEMMA FixedInit == Init => Fixed /\ AllGiven
BY DEF Init, Fixed, AllGiven

(* No step changes it. *)
LEMMA FixedStep == Fixed /\ [Next]_vars => Fixed'
<1> SUFFICES ASSUME Fixed, [Next]_vars PROVE Fixed'
  OBVIOUS
<1>1. UNCHANGED world
  BY DEF Next, Step, vars, PartitionCount, Partitions, NextPartition, PartitionRows, ListFails,
         ReadObject, ReadItem, ItemsEnd, ObjectsEnd, Close, Stop
<1> QED BY <1>1 DEF world, Fixed, Consistent, Iter, Table, First, MarksAt

(* The last row is returned before io.EOF. *)
LEMMA AllGivenStep ==
  ASSUME TypeInv, Passed, Account, AllGiven, [Next]_vars
  PROVE  AllGiven'
<1> SUFFICES ASSUME status' = "eof"
             PROVE  \A x \in Wanted' : x \in (Promise!Given)'
  BY DEF AllGiven
<1>1. Wanted' = Wanted
  <2>1. UNCHANGED world
    BY DEF Next, Step, vars, PartitionCount, Partitions, NextPartition, PartitionRows, ListFails,
           ReadObject, ReadItem, ItemsEnd, ObjectsEnd, Close, Stop
  <2> QED BY <2>1, WantedStays
<1>2. Seems' = "eof"
  BY DEF Seems, Ended
<1>3. \/ Promise!EOF
      \/ UNCHANGED <<out, Seems>>
  BY <1>2, StepRefines DEF Promise!Next, Promise!Emit, Promise!Stop, Seems
<1>4. CASE Promise!EOF
  BY <1>1, <1>4 DEF Promise!EOF, Promise!Given
<1>5. CASE UNCHANGED <<out, Seems>>
  <2>1. status = "eof"
    BY <1>2, <1>5 DEF Seems
  <2> QED BY <1>1, <1>5, <2>1 DEF AllGiven, Promise!Given
<1> QED BY <1>3, <1>4, <1>5

(* The items of a commit that comes again are those of the first one. *)
LEMMA SameItems ==
  ASSUME marks \subseteq Marked, Fixed, OneMark, NEW r, NEW o, Mark(<<r, o>>) = "again",
         NEW i \in 1..Width
  PROVE  Mark(<<r, o, i>>) = "none" <=> Mark(<<r, 1, i>>) = "none"
<1>1. PICK x \in marks : x[1] = <<r, o>> /\ x[2] = "again"
  BY MarkIsThere
<1>2. Len(x[1]) = 2 /\ x[1][1] = r /\ x[1][2] = o
  BY <1>1
<1>3. MarksAt(marks, <<r, o, i>>) = MarksAt(marks, <<r, 1, i>>)
  BY <1>1, <1>2 DEF Fixed, Consistent
<1>4. ASSUME NEW u, Mark(u) # "none"
      PROVE  MarksAt(marks, u) # {}
  BY <1>4, MarkIsThere DEF MarksAt
<1>5. ASSUME NEW u, MarksAt(marks, u) # {}
      PROVE  Mark(u) # "none"
  <2>1. PICK z \in marks : z[1] = u
    BY <1>5 DEF MarksAt
  <2>2. Mark(u) = z[2]
    BY <2>1, MarkOf
  <2> QED BY <2>1, <2>2, NoneIsNoMark
<1> QED BY <1>3, <1>4, <1>5

(* The first commit is not passed over if another has its tree. *)
LEMMA FirstMark ==
  ASSUME TypeInv, Fixed, Iter.seen = TRUE, NEW r, NEW o, Mark(<<r, o>>) = "again",
         Mark(<<r, 1>>) \notin {"unread", "noopen"}
  PROVE  Mark(<<r, 1>>) = "none"
<1>1. SUFFICES ASSUME Mark(<<r, 1>>) # "none" PROVE FALSE
  OBVIOUS
<1>2. PICK y \in marks : y[1] = <<r, 1>> /\ y[2] = Mark(<<r, 1>>)
  BY <1>1, MarkIsThere
<1>3. PICK x \in marks : x[1] = <<r, o>> /\ x[2] = "again"
  BY MarkIsThere
<1>4. First(x[1]) = <<r, 1>>
  BY <1>3 DEF First
<1>5. y[2] # "passed"
  BY <1>2, <1>3, <1>4 DEF Fixed, Consistent
<1>6. y[2] # "again"
  BY <1>2, AgainMark
<1>7. Iter.levels = 2
  <2>1. Sound(Iter)
    BY IterIsSound DEF TypeInv, TypeOK
  <2> QED BY <2>1 DEF Sound
<1>8. y[2] \in ObjectMarks(1)
  BY <1>1, <1>2, ObjectMark
<1> QED BY <1>2, <1>5, <1>6, <1>7, <1>8 DEF ObjectMarks

(* The commit that a row of files is named for. *)
LEMMA NameOfItem ==
  ASSUME NEW r, NEW o, NEW i
  PROVE  Named(<<r, o, i>>) = IF Mark(<<r, o>>) = "again" THEN <<r, 1, i>> ELSE <<r, o, i>>
<1> DEFINE x == <<r, o, i>>
<1>1. x[1] = r /\ x[2] = o
  OBVIOUS
<1>2. [x EXCEPT ![2] = 1] = <<r, 1, i>>
  OBVIOUS
<1> HIDE DEF x
<1>3. Named(x) = IF Mark(<<r, o>>) = "again" THEN <<r, 1, i>> ELSE x
  BY <1>1, <1>2 DEF Named
<1> QED BY <1>3 DEF x

(* A file that can be read is read with one of the commits that have its tree:
   with the first of them that can be read itself. *)
LEMMA SomeCommitStands ==
  ASSUME TypeInv, Fixed, OneMark, Iter.seen = TRUE, NEW x \in Rows, Readable(x)
  PROVE  \E y \in Wanted : Named(y) = Named(x)
<1>1. scan \in DOMAIN Scans /\ Iter.levels = 2 /\ Iter.item # "drop" /\ marks \subseteq Marked
  <2>1. Sound(Iter) /\ scan \in DOMAIN Scans /\ marks \subseteq Marked
    BY IterIsSound DEF TypeInv, TypeOK
  <2> QED BY <2>1 DEF Sound
<1>2. PICK r \in 1..Repos, o \in Objects, i \in 1..Width : x = <<r, o, i>>
  BY <1>1, RowParts
<1>3. x[1] = r /\ x[2] = o /\ x[3] = i
  BY <1>2
<1>4. /\ Mark(<<r>>) = "none"
      /\ Mark(<<r, o>>) \in {"none", "again"}
      /\ Mark(<<r, o>>) = "again" => Mark(<<r, 1>>) # "noopen"
      /\ Mark(<<r, o, i>>) = "none"
  <2>1. Len(<<r, o>>) = 2 /\ <<r, o>>[1] = r
    OBVIOUS
  <2> QED BY <1>2, <1>3, <2>1 DEF Readable, Reached
<1>5. CASE Mark(<<r, o>>) = "none"
  <2>1. ~Seen(r, o)
    BY <1>5 DEF Seen
  <2>2. /\ Mark(<<x[1]>>) = "none" /\ Mark(<<x[1], x[2]>>) \in {"none", "again"}
        /\ ~Seen(x[1], x[2]) /\ Mark(<<x[1], x[2], x[3]>>) \in {"none", "again"}
    BY <1>3, <1>4, <2>1
  <2>3. x \in Wanted
    BY <1>1, <2>2, WantedItems
  <2> QED BY <2>3
<1>6. CASE Mark(<<r, o>>) = "again"
  <2>1. Named(x) = <<r, 1, i>>
    BY <1>2, <1>6, NameOfItem
  <2>2. o \in Nat /\ o > 1
    BY <1>6, AgainMark
  <2>3. Mark(<<r, 1, i>>) = "none"
    BY <1>1, <1>4, <1>6, SameItems
  <2>4. ASSUME NEW q \in Objects, Mark(<<r, q>>) \in {"none", "again"}, ~Seen(r, q),
               Mark(<<r, q, i>>) = "none", Mark(<<r, q>>) = "again" \/ q = 1
        PROVE  \E y \in Wanted : Named(y) = Named(x)
    <3>1. PICK y : y = <<r, q, i>>
      OBVIOUS
    <3>2. y[1] = r /\ y[2] = q /\ y[3] = i
      BY <3>1
    <3>3. y \in Rows
      BY <1>1, <3>1, ItemIsRow
    <3>a. /\ Mark(<<y[1]>>) = "none" /\ Mark(<<y[1], y[2]>>) \in {"none", "again"}
          /\ ~Seen(y[1], y[2]) /\ Mark(<<y[1], y[2], y[3]>>) \in {"none", "again"}
      BY <1>4, <2>4, <3>2
    <3>4. y \in Wanted
      BY <1>1, <3>3, <3>a, WantedItems
    <3>5. Named(y) = <<r, 1, i>>
      BY <2>4, <3>1, NameOfItem
    <3> QED BY <2>1, <3>4, <3>5
  <2>5. CASE Mark(<<r, 1>>) = "unread"
    <3> DEFINE T == {q \in Nat : q <= o /\ Mark(<<r, q>>) = "again"}
    <3>1. PICK q \in T : \A m \in T : q <= m
      <4>1. o \in T
        BY <1>6, <2>2
      <4>2. T \subseteq Nat /\ T # {}
        BY <4>1
      <4> HIDE DEF T
      <4> QED BY <4>2, LeastElement
    <3>2. q \in Objects /\ q \in Nat
      BY <3>1, AgainMark
    <3>3. ~Seen(r, q)
      <4>1. ASSUME NEW p \in 1..(q - 1) PROVE Mark(<<r, p>>) # "again"
        <5>1. p \in Nat /\ p < q /\ p <= o
          BY <2>2, <3>1, <3>2
        <5>2. p \notin T
          BY <3>1, <3>2, <5>1
        <5> QED BY <5>1, <5>2
      <4> QED BY <2>5, <4>1 DEF Seen
    <3>4. Mark(<<r, q, i>>) = "none"
      BY <1>1, <2>3, <3>1, SameItems
    <3> QED BY <2>4, <3>1, <3>2, <3>3, <3>4
  <2>6. CASE Mark(<<r, 1>>) # "unread"
    <3>1. Mark(<<r, 1>>) = "none"
      BY <1>4, <1>6, <2>6, FirstMark
    <3>2. ~Seen(r, 1)
      BY <3>1 DEF Seen
    <3>3. 1 \in Objects
      BY SizesAreNaturals DEF Objects
    <3> QED BY <2>3, <2>4, <3>1, <3>2, <3>3
  <2> QED BY <2>5, <2>6
<1> QED BY <1>4, <1>5, <1>6

(* The table files returns the files of every tree that can be read exactly once,
   for any number of commits that have the tree and whatever else cannot be
   read. *)
THEOREM FilesOnce == Spec => []FilesOfATreeOnce
<1>1. ASSUME TypeInv, Account, OneMark, Fixed, AllGiven
      PROVE  FilesOfATreeOnce
  <2>0. Iter.seen \in BOOLEAN
    <3>1. Sound(Iter)
      BY <1>1, IterIsSound DEF TypeInv, TypeOK
    <3> QED BY <3>1 DEF Sound
  <2>1. ASSUME Iter.seen, NEW i \in DOMAIN out, NEW j \in DOMAIN out,
               Named(out[i]) = Named(out[j])
        PROVE  i = j
    <3>1. out[i] \in Wanted /\ out[j] \in Wanted
      BY <1>1 DEF Account, GivenOnce
    <3>2. out[i] = out[j]
      BY <1>1, <2>1, <3>1, NamesDiffer
    <3> QED BY <1>1, <3>2 DEF Account, GivenOnce
  <2>2. ASSUME Iter.seen, status = "eof", NEW x \in Rows, Readable(x)
        PROVE  \E i \in DOMAIN out : Named(out[i]) = Named(x)
    <3>1. Iter.seen = TRUE
      BY <2>0, <2>2
    <3>2. PICK y \in Wanted : Named(y) = Named(x)
      BY <1>1, <2>2, <3>1, SomeCommitStands
    <3>3. y \in Promise!Given
      BY <1>1, <2>2 DEF AllGiven
    <3> QED BY <3>2, <3>3 DEF Promise!Given
  <2> QED BY <2>1, <2>2 DEF FilesOfATreeOnce
<1>2. TypeInv /\ Account /\ OneMark /\ Fixed /\ AllGiven => FilesOfATreeOnce
  BY <1>1
<1>3. TypeInv /\ Passed /\ Account /\ [Next]_vars => Account'
  BY AccountStep
<1>4. TypeInv /\ Passed /\ Account /\ AllGiven /\ [Next]_vars => AllGiven'
  BY AllGivenStep
<1> QED
  BY <1>2, <1>3, <1>4, TypeInit, TypeStep, CausedInit, PassedStep, AccountInit, SilentInit,
     OneMarkStep, FixedInit, FixedStep, PTL
     DEF Spec

-----------------------------------------------------------------------------
(***************************************************************************)
(* The filters that the engine pushes down to the tables (Selectors), for  *)
(* every table, set of handled columns and list of filters.  The invariant *)
(* says that each filter classified so far is among the selectors of its   *)
(* column or among the conditions, and that nothing else is.               *)
(***************************************************************************)
(* What the loop of handledFilters has kept of n filters. *)
Keeps(g, fs, n) ==
  g = [i \in 0..n |-> IF i = 0 THEN <<>>
                      ELSE IF fs[i].own THEN Append(g[i - 1], fs[i]) ELSE g[i - 1]]

(* The loop of handledFilters defines a function: a shortest list of filters
   without one would have one. *)
LEMMA SomeFunctionKeeps ==
  ASSUME NEW fs
  PROVE  \A n \in Nat : \E g : Keeps(g, fs, n)
<1> DEFINE T == {n \in Nat : ~ \E g : Keeps(g, fs, n)}
<1> SUFFICES ASSUME T # {} PROVE FALSE
  OBVIOUS
<1>1. PICK n \in T : \A m \in T : n <= m
  BY LeastElement
<1>2. n # 0
  <2> DEFINE f == [i \in 0..0 |-> <<>>]
  <2>1. f = [i \in 0..0 |-> IF i = 0 THEN <<>>
                      ELSE IF fs[i].own THEN Append(f[i - 1], fs[i]) ELSE f[i - 1]]
    OBVIOUS
  <2> QED
    BY <2>1 DEF Keeps
<1>3. n - 1 \in Nat /\ n - 1 \notin T
  BY <1>1, <1>2
<1>4. PICK f : Keeps(f, fs, n - 1)
  BY <1>3
<1> DEFINE e == IF fs[n].own THEN Append(f[n - 1], fs[n]) ELSE f[n - 1]
           g == [i \in 0..n |-> IF i = n THEN e ELSE f[i]]
<1>5. \A i \in 0..(n - 1) : f[i] = IF i = 0 THEN <<>>
                      ELSE IF fs[i].own THEN Append(f[i - 1], fs[i]) ELSE f[i - 1]
  BY <1>4 DEF Keeps
<1>6. \A i \in 0..n : g[i] = IF i = 0 THEN <<>>
                      ELSE IF fs[i].own THEN Append(g[i - 1], fs[i]) ELSE g[i - 1]
  <2> SUFFICES ASSUME NEW i \in 0..n
               PROVE g[i] = IF i = 0 THEN <<>>
                      ELSE IF fs[i].own THEN Append(g[i - 1], fs[i]) ELSE g[i - 1]
    OBVIOUS
  <2>1. CASE i = n
    <3>1. g[n] = e /\ g[n - 1] = f[n - 1]
      BY <1>2, <1>3
    <3> QED
      BY <1>2, <2>1, <3>1
  <2>2. CASE i # n
    <3>1. g[i] = f[i] /\ (i # 0 => g[i - 1] = f[i - 1])
      BY <1>2, <1>3, <2>2
    <3> HIDE DEF g
    <3> QED
      BY <1>3, <1>5, <2>2, <3>1
  <2> QED
    BY <2>1, <2>2
<1>7. g = [i \in 0..n |-> g[i]]
  OBVIOUS
<1> HIDE DEF g
<1>8. Keeps(g, fs, n)
  BY <1>6, <1>7 DEF Keeps
<1> QED
  BY <1>1, <1>8

(* The elements of a sequence, and those of the first n filters that are of
   this table. *)
Items(s) == {s[i] : i \in 1..Len(s)}

OwnAmong(fs, n) == {f \in {fs[j] : j \in 1..n} : f.own}

(* Appending adds one element. *)
LEMMA AppendedItems ==
  ASSUME NEW F, NEW s \in Seq(F), NEW e \in F
  PROVE  Append(s, e) \in Seq(F) /\ Items(Append(s, e)) = Items(s) \union {e}
<1> DEFINE t == Append(s, e)
<1>1. /\ t \in Seq(F) /\ Len(t) = Len(s) + 1 /\ Len(s) \in Nat
      /\ t[Len(s) + 1] = e /\ \A i \in 1..Len(s) : t[i] = s[i]
  OBVIOUS
<1> HIDE DEF t
<1>2. Items(t) \subseteq Items(s) \union {e}
  BY <1>1 DEF Items
<1>3. Items(s) \subseteq Items(t) /\ e \in Items(t)
  BY <1>1 DEF Items
<1> QED
  BY <1>1, <1>2, <1>3 DEF t

(* The loop of handledFilters keeps the filters of the table. *)
LEMMA KeptFilters ==
  ASSUME NEW F, NEW fs \in Seq(F), NEW g, Keeps(g, fs, Len(fs))
  PROVE  g[Len(fs)] \in Seq(F) /\ Items(g[Len(fs)]) = OwnAmong(fs, Len(fs))
<1> DEFINE Right(n) == g[n] \in Seq(F) /\ Items(g[n]) = OwnAmong(fs, n)
           T == {n \in 0..Len(fs) : ~Right(n)}
<1>1. Len(fs) \in Nat /\ \A i \in 1..Len(fs) : fs[i] \in F
  OBVIOUS
<1>2. g[0] = <<>>
      /\ \A i \in 1..Len(fs) : g[i] = IF fs[i].own THEN Append(g[i - 1], fs[i]) ELSE g[i - 1]
  <2>1. \A i \in 0..Len(fs) :
          g[i] = IF i = 0 THEN <<>>
                 ELSE IF fs[i].own THEN Append(g[i - 1], fs[i]) ELSE g[i - 1]
    BY DEF Keeps
  <2> QED
    BY <1>1, <2>1
<1>3. ASSUME T # {} PROVE FALSE
  <2>0. T \subseteq Nat
    <3> HIDE DEF Right
    <3> QED
      BY <1>1
  <2>1. PICK n \in T : \A m \in T : n <= m
    <3> HIDE DEF T
    <3> QED
      BY <1>3, <2>0, LeastElement
  <2>2. n # 0
    <3>1. Right(0)
      BY <1>2 DEF Items, OwnAmong
    <3> HIDE DEF Right
    <3> QED
      BY <2>1, <3>1
  <2>3. n \in 1..Len(fs) /\ n - 1 \in Nat /\ Right(n - 1)
    <3> HIDE DEF Right
    <3> QED
      BY <1>1, <2>1, <2>2
  <2> DEFINE A == {fs[j] : j \in 1..n}
             B == {fs[j] : j \in 1..(n - 1)}
  <2>4. A = B \union {fs[n]}
    BY <2>3
  <2>5. OwnAmong(fs, n) = {f \in A : f.own} /\ OwnAmong(fs, n - 1) = {f \in B : f.own}
    BY DEF OwnAmong
  <2> HIDE DEF A, B
  <2>6. CASE ~fs[n].own
    <3>1. g[n] = g[n - 1]
      BY <1>2, <2>3, <2>6
    <3>2. {f \in A : f.own} = {f \in B : f.own}
      BY <2>4, <2>6, Zenon
    <3>3. Right(n)
      BY <2>3, <2>5, <3>1, <3>2
    <3> QED
      BY <2>1, <3>3
  <2>7. CASE fs[n].own
    <3>1. g[n] = Append(g[n - 1], fs[n]) /\ fs[n] \in F
      BY <1>1, <1>2, <2>3, <2>7
    <3>2. {f \in A : f.own} = {f \in B : f.own} \union {fs[n]}
      BY <2>4, <2>7, Zenon
    <3>3. g[n] \in Seq(F) /\ Items(g[n]) = Items(g[n - 1]) \union {fs[n]}
      BY <2>3, <3>1, AppendedItems
    <3>4. Right(n)
      BY <2>3, <2>5, <3>2, <3>3
    <3> QED
      BY <2>1, <3>4
  <2> QED
    BY <2>6, <2>7
<1>4. Right(Len(fs))
  <2> SUFFICES ASSUME ~Right(Len(fs)) PROVE FALSE
    OBVIOUS
  <2>1. Len(fs) \in 0..Len(fs)
    BY <1>1
  <2> HIDE DEF Right
  <2> QED
    BY <1>3, <2>1
<1> QED
  BY <1>4

(* The filters that the engine gives up are those of the table. *)
LEMMA HandledAreOwn ==
  ASSUME filters \in Seq(Filter)
  PROVE  /\ handledFilters(filters) \in Seq(Filter)
         /\ Items(handledFilters(filters)) = OwnFilters
<1> DEFINE g == CHOOSE h : Keeps(h, filters, Len(filters))
<1>1. Len(filters) \in Nat /\ DOMAIN filters = 1..Len(filters)
  OBVIOUS
<1>2. Keeps(g, filters, Len(filters))
  BY <1>1, SomeFunctionKeeps
<1>3. handledFilters(filters) = g[Len(filters)]
  BY DEF handledFilters, Keeps
<1> HIDE DEF g
<1>4. g[Len(filters)] \in Seq(Filter) /\ Items(g[Len(filters)]) = OwnAmong(filters, Len(filters))
  BY <1>2, KeptFilters
<1>5. OwnFilters = OwnAmong(filters, Len(filters))
  BY <1>1 DEF OwnFilters, ToSet, OwnAmong
<1> QED
  BY <1>3, <1>4, <1>5

-----------------------------------------------------------------------------
Handled == handledFilters(filters)

SelectorsTyped ==
  /\ filters \in Seq(Filter)
  /\ phase \in {"classify", "done"}
  /\ pos \in 0..Len(Handled)
  /\ selectors \in [Column -> Seq(Seq(Value) \ {<<>>})]
  /\ conditions \in Seq(Filter)

(* A filter has its place: among the selectors of its column, or among the
   conditions. *)
Placed(f) ==
  IF IsSelector(f) THEN f.values \in Items(selectors[f.column]) ELSE f \in Items(conditions)

(* The filters classified so far have their places, and nothing else does. *)
SplitInTwo ==
  /\ \A i \in 1..pos : Placed(Handled[i])
  /\ \A c \in Column : \A v \in Items(selectors[c]) :
       \E f \in Items(Handled) : IsSelector(f) /\ f.column = c /\ f.values = v
  /\ Items(conditions) \subseteq Items(Handled)

Returned(r) == Chosen(r) /\ \A f \in ToSet(conditions) : Holds(f, r)

ReadAtTheEnd ==
  phase = "done" => pos = Len(Handled) /\ rows = {r \in Row : Returned(r)}

SelectorsInv == SelectorsTyped /\ SplitInTwo /\ ReadAtTheEnd

(* The invariant holds before the first filter. *)
LEMMA SelectorsInit ==
  ASSUME FilterInit
  PROVE  SelectorsInv
<1>1. filters \in Seq(Filter)
  BY FiltersAreFilters DEF FilterInit
<1>2. Handled \in Seq(Filter)
  BY <1>1, HandledAreOwn DEF Handled
<1>3. Len(Handled) \in Nat
  BY <1>2
<1>4. pos = 0 /\ phase = "classify" /\ selectors = [c \in Column |-> <<>>] /\ conditions = <<>>
  BY DEF FilterInit, Unclassified
<1>5. SelectorsTyped
  <2>1. selectors \in [Column -> Seq(Seq(Value) \ {<<>>})]
    BY <1>4
  <2>2. conditions \in Seq(Filter)
    BY <1>4
  <2> QED
    BY <1>1, <1>3, <1>4, <2>1, <2>2 DEF SelectorsTyped
<1>6. SplitInTwo
  <2>1. Items(conditions) = {} /\ \A c \in Column : Items(selectors[c]) = {}
    BY <1>4 DEF Items
  <2>2. 1..pos = {}
    BY <1>4
  <2> QED
    BY <2>1, <2>2 DEF SplitInTwo
<1> QED
  BY <1>4, <1>5, <1>6 DEF SelectorsInv, ReadAtTheEnd

(* The invariant is kept by classifyFilters and by the reading of the rows. *)
LEMMA SelectorsStep ==
  ASSUME SelectorsInv, [FilterNext]_filterVars
  PROVE  SelectorsInv'
<1>1. Handled \in Seq(Filter) /\ Len(Handled) \in Nat
  <2>1. Handled \in Seq(Filter)
    BY HandledAreOwn DEF Handled, SelectorsInv, SelectorsTyped
  <2> QED
    BY <2>1
<1>2. CASE classifyFilters
  <2>1. /\ phase = "classify" /\ phase' = phase /\ pos' = pos + 1 /\ pos \in Nat
        /\ filters' = filters /\ pos + 1 \in 1..Len(Handled)
    BY <1>1, <1>2 DEF classifyFilters, Handled, SelectorsInv, SelectorsTyped
  <2>2. Handled' = Handled
    BY <2>1 DEF Handled
  <2>3. PICK f : f = Handled[pos + 1]
    OBVIOUS
  <2>4. f \in Filter /\ f \in Items(Handled)
    BY <1>1, <2>1, <2>3 DEF Items
  <2>5. f.column \in Column /\ f.values \in Seq(Value) \ {<<>>}
    BY <2>4 DEF Filter
  <2>6. Classify(f)
    BY <1>2, <2>3 DEF classifyFilters, Handled
  <2>7. /\ \A c \in Column : Items(selectors[c]) \subseteq Items(selectors'[c])
        /\ \A c \in Column : \A v \in Items(selectors'[c]) :
             v \in Items(selectors[c]) \/ (IsSelector(f) /\ f.column = c /\ f.values = v)
        /\ Items(conditions) \subseteq Items(conditions')
        /\ Items(conditions') \subseteq Items(conditions) \union {f}
        /\ selectors' \in [Column -> Seq(Seq(Value) \ {<<>>})]
        /\ conditions' \in Seq(Filter)
        /\ Placed(f)'
    <3>1. selectors \in [Column -> Seq(Seq(Value) \ {<<>>})] /\ conditions \in Seq(Filter)
      BY DEF SelectorsInv, SelectorsTyped
    <3>2. CASE IsSelector(f)
      <4>1. /\ selectors' = [selectors EXCEPT ![f.column] = Append(selectors[f.column], f.values)]
            /\ conditions' = conditions
        BY <2>6, <3>2 DEF Classify
      <4>2. PICK s : s = selectors[f.column]
        OBVIOUS
      <4>3. s \in Seq(Seq(Value) \ {<<>>})
        BY <2>5, <3>1, <4>2
      <4>4. /\ Append(s, f.values) \in Seq(Seq(Value) \ {<<>>})
            /\ Items(Append(s, f.values)) = Items(s) \union {f.values}
        BY <2>5, <4>3, AppendedItems
      <4>5. /\ selectors'[f.column] = Append(s, f.values)
            /\ \A c \in Column : c # f.column => selectors'[c] = selectors[c]
            /\ selectors' \in [Column -> Seq(Seq(Value) \ {<<>>})]
        BY <2>5, <3>1, <4>1, <4>2, <4>4
      <4>6. f.values \in Items(selectors'[f.column])
        BY <4>4, <4>5
      <4>7. Placed(f)'
        BY <3>2, <4>6 DEF Placed, IsSelector
      <4>8. ASSUME NEW c \in Column
            PROVE  /\ Items(selectors[c]) \subseteq Items(selectors'[c])
                   /\ \A v \in Items(selectors'[c]) :
                        v \in Items(selectors[c]) \/ (f.column = c /\ f.values = v)
        BY <4>2, <4>4, <4>5
      <4> QED
        BY <3>1, <3>2, <4>1, <4>5, <4>7, <4>8
    <3>3. CASE ~IsSelector(f)
      <4>1. conditions' = Append(conditions, f) /\ selectors' = selectors
        BY <2>6, <3>3 DEF Classify
      <4>2. conditions' \in Seq(Filter) /\ Items(conditions') = Items(conditions) \union {f}
        BY <2>4, <3>1, <4>1, AppendedItems
      <4>3. Placed(f)'
        BY <3>3, <4>2 DEF Placed, IsSelector
      <4> QED
        BY <3>1, <4>1, <4>2, <4>3
    <3> QED
      BY <3>2, <3>3
  <2>8. SelectorsTyped'
    BY <1>1, <2>1, <2>2, <2>7 DEF SelectorsInv, SelectorsTyped
  <2>9. \A i \in 1..pos' : Placed(Handled[i])'
    <3> SUFFICES ASSUME NEW i \in 1..(pos + 1) PROVE Placed(Handled[i])'
      BY <2>1
    <3>1. CASE i = pos + 1
      BY <2>2, <2>3, <2>7, <3>1 DEF Placed, IsSelector
    <3>2. CASE i # pos + 1
      <4>1. i \in 1..pos /\ i \in 1..Len(Handled)
        BY <2>1, <3>2
      <4>2. PICK e : e = Handled[i]
        OBVIOUS
      <4>3. Placed(e) /\ e.column \in Column
        <5>1. Placed(e)
          BY <4>1, <4>2 DEF SelectorsInv, SplitInTwo
        <5>2. e \in Filter
          BY <1>1, <4>1, <4>2
        <5> QED
          BY <5>1, <5>2 DEF Filter
      <4>4. Placed(e)'
        BY <2>7, <4>3 DEF Placed, IsSelector
      <4> QED
        BY <2>2, <4>2, <4>4 DEF Placed, IsSelector
    <3> QED
      BY <3>1, <3>2
  <2>10. SplitInTwo'
    <3>1. ASSUME NEW c \in Column, NEW v \in Items(selectors'[c])
          PROVE  \E g \in Items(Handled) : IsSelector(g) /\ g.column = c /\ g.values = v
      <4>1. CASE v \in Items(selectors[c])
        BY <4>1 DEF SelectorsInv, SplitInTwo
      <4>2. CASE v \notin Items(selectors[c])
        BY <2>4, <2>7, <4>2
      <4> QED
        BY <4>1, <4>2
    <3>2. Items(conditions') \subseteq Items(Handled)
      BY <2>4, <2>7 DEF SelectorsInv, SplitInTwo
    <3> QED
      BY <2>2, <2>9, <3>1, <3>2 DEF SplitInTwo, IsSelector
  <2>11. ReadAtTheEnd'
    BY <2>1 DEF ReadAtTheEnd
  <2> QED
    BY <2>8, <2>10, <2>11 DEF SelectorsInv
<1>3. CASE rowIterWithSelectors
  <2>1. /\ phase' = "done" /\ pos' = pos /\ selectors' = selectors /\ conditions' = conditions
        /\ filters' = filters /\ pos = Len(Handled)
        /\ rows' = {r \in Row : Returned(r)}
    BY <1>3 DEF rowIterWithSelectors, Handled, Returned
  <2>2. Handled' = Handled /\ \A r \in Row : Returned(r)' <=> Returned(r)
    BY <2>1 DEF Handled, Returned, Chosen, textValues, isValid
  <2>3. SelectorsTyped' /\ SplitInTwo'
    BY <2>1, <2>2 DEF SelectorsInv, SelectorsTyped, SplitInTwo, Placed, IsSelector
  <2>4. ReadAtTheEnd'
    BY <2>1, <2>2 DEF ReadAtTheEnd
  <2> QED
    BY <2>3, <2>4 DEF SelectorsInv
<1>4. CASE UNCHANGED filterVars
  <2>1. /\ phase' = phase /\ pos' = pos /\ selectors' = selectors /\ conditions' = conditions
        /\ filters' = filters /\ rows' = rows
    BY <1>4 DEF filterVars
  <2>2. Handled' = Handled /\ \A r \in Row : Returned(r)' <=> Returned(r)
    BY <2>1 DEF Handled, Returned, Chosen, textValues, isValid
  <2>3. SelectorsTyped' /\ SplitInTwo'
    BY <2>1, <2>2 DEF SelectorsInv, SelectorsTyped, SplitInTwo, Placed, IsSelector
  <2>4. ReadAtTheEnd'
    BY <2>1, <2>2 DEF SelectorsInv, ReadAtTheEnd
  <2> QED
    BY <2>3, <2>4 DEF SelectorsInv
<1> QED
  BY <1>2, <1>3, <1>4 DEF FilterNext

(* A filter of the table has its place once all are classified. *)
LEMMA OwnArePlaced ==
  ASSUME SelectorsInv, phase = "done"
  PROVE  /\ \A f \in OwnFilters : Placed(f) /\ f \in Filter
         /\ Items(Handled) = OwnFilters
<1>1. Handled \in Seq(Filter) /\ Items(Handled) = OwnFilters
  BY HandledAreOwn DEF Handled, SelectorsInv, SelectorsTyped
<1>2. pos = Len(Handled)
  BY DEF SelectorsInv, ReadAtTheEnd
<1>3. ASSUME NEW f \in OwnFilters
      PROVE  Placed(f) /\ f \in Filter
  <2>1. PICK i \in 1..Len(Handled) : f = Handled[i]
    BY <1>1 DEF Items
  <2> QED
    BY <1>1, <1>2, <2>1 DEF SelectorsInv, SplitInTwo
<1> QED
  BY <1>1, <1>3

(* textValues, on a column that has selectors and they are all equal. *)
LEMMA ValuesOfSelectors ==
  ASSUME SelectorsInv, NEW c \in Column
  PROVE  /\ textValues(c) # {} => \E v \in Items(selectors[c]) : textValues(c) = Items(v)
         /\ isValid(c) =>
              \A v \in Items(selectors[c]) : textValues(c) = Items(v) /\ Items(v) # {}
<1>1. PICK s : s = selectors[c]
  OBVIOUS
<1>2. s \in Seq(Seq(Value) \ {<<>>})
  BY <1>1 DEF SelectorsInv, SelectorsTyped
<1>3. DOMAIN s = 1..Len(s) /\ Len(s) \in Nat /\ \A i \in 1..Len(s) : s[i] \in Seq(Value) \ {<<>>}
  BY <1>2
<1>4. ASSUME NEW i \in 1..Len(s)
      PROVE  ToSet(s[i]) = Items(s[i]) /\ Items(s[i]) # {}
  <2>1. PICK t : t = s[i]
    OBVIOUS
  <2>2. t \in Seq(Value) /\ t # <<>>
    BY <1>3, <2>1
  <2>3. DOMAIN t = 1..Len(t) /\ Len(t) \in Nat /\ Len(t) # 0
    BY <2>2
  <2>4. ToSet(t) = Items(t)
    BY <2>3 DEF ToSet, Items
  <2>5. t[1] \in Items(t)
    BY <2>3 DEF Items
  <2> QED
    BY <2>1, <2>4, <2>5
<1>5. s # <<>> => 1 \in 1..Len(s) /\ s[1] \in Items(s)
  BY <1>2, <1>3 DEF Items
<1>6. ToSet(s) = Items(s)
  BY <1>3 DEF ToSet, Items
<1>7. ASSUME textValues(c) # {}
      PROVE  \E v \in Items(selectors[c]) : textValues(c) = Items(v)
  <2>1. s # <<>> /\ textValues(c) = ToSet(s[1])
    BY <1>1, <1>7 DEF textValues
  <2> QED
    BY <1>1, <1>4, <1>5, <2>1
<1>8. ASSUME isValid(c), NEW v \in Items(selectors[c])
      PROVE  textValues(c) = Items(v) /\ Items(v) # {}
  <2>1. PICK i \in 1..Len(s) : v = s[i]
    BY <1>1 DEF Items
  <2>2. s # <<>>
    BY <2>1
  <2>3. v = s[1]
    BY <1>1, <1>6, <1>8 DEF isValid
  <2>4. textValues(c) = ToSet(s[1])
    BY <1>1, <1>8, <2>2 DEF textValues
  <2> QED
    BY <1>4, <1>5, <2>2, <2>3, <2>4
<1> QED
  BY <1>7, <1>8

(* Holds of a filter that is a selector of this table. *)
LEMMA SelectorHolds ==
  ASSUME NEW f \in Filter, IsSelector(f), NEW r
  PROVE  Holds(f, r) <=> r[f.column] \in Items(f.values)
<1>1. f.kind # "other"
  BY DEF IsSelector
<1>2. f.values \in Seq(Value)
  BY DEF Filter
<1>3. ToSet(f.values) = Items(f.values)
  <2>1. DOMAIN f.values = 1..Len(f.values)
    BY <1>2
  <2> QED
    BY <2>1 DEF ToSet, Items
<1> QED
  BY <1>1, <1>3 DEF Holds

(* The invariant gives the two properties.  A row that satisfies the filters
   satisfies the selectors among them ... *)
LEMMA NoRowIsLost ==
  ASSUME SelectorsInv
  PROVE  NoRowLost
<1> SUFFICES ASSUME phase = "done", NEW r \in Row,
                    \A f \in OwnFilters : Holds(f, r)
             PROVE  r \in rows
  BY DEF NoRowLost
<1>1. Items(Handled) = OwnFilters /\ \A f \in OwnFilters : f \in Filter
  BY OwnArePlaced
<1>2. Chosen(r)
  <2> SUFFICES ASSUME NEW c \in handledCols, textValues(c) # {}
               PROVE  Norm[r[c]] \in {Norm[v] : v \in textValues(c)}
    BY DEF Chosen
  <2>1. c \in Column
    BY HandledAreColumns
  <2>2. PICK v \in Items(selectors[c]) : textValues(c) = Items(v)
    BY <2>1, ValuesOfSelectors
  <2>3. PICK f \in Items(Handled) : IsSelector(f) /\ f.column = c /\ f.values = v
    BY <2>1, <2>2 DEF SelectorsInv, SplitInTwo
  <2>4. r[c] \in Items(v)
    BY <1>1, <2>3, SelectorHolds
  <2> QED
    BY <2>2, <2>4
<1>3. \A f \in ToSet(conditions) : Holds(f, r)
  <2>1. ToSet(conditions) = Items(conditions)
    <3>1. DOMAIN conditions = 1..Len(conditions)
      BY DEF SelectorsInv, SelectorsTyped
    <3> QED
      BY <3>1 DEF ToSet, Items
  <2> QED
    BY <1>1, <2>1 DEF SelectorsInv, SplitInTwo
<1> QED
  BY <1>2, <1>3 DEF SelectorsInv, ReadAtTheEnd, Returned

(* ... and a row that satisfies the selectors satisfies the filters they were. *)
LEMMA OnlyRowsThatMatch ==
  ASSUME SelectorsInv
  PROVE  OnlyMatchingRows
<1> SUFFICES ASSUME phase = "done", \A c \in Column : isValid(c),
                    NEW r \in rows, NEW f \in OwnFilters
             PROVE  \/ Holds(f, r)
                    \/ /\ IsSelector(f)
                       /\ Norm[r[f.column]] \in {Norm[v] : v \in ToSet(f.values)}
  BY DEF OnlyMatchingRows
<1>1. Placed(f) /\ f \in Filter
  BY OwnArePlaced
<1>2. Chosen(r) /\ \A e \in ToSet(conditions) : Holds(e, r)
  BY DEF SelectorsInv, ReadAtTheEnd, Returned
<1>3. f.column \in Column /\ f.values \in Seq(Value)
  BY <1>1 DEF Filter
<1>4. CASE IsSelector(f)
  <2>1. f.values \in Items(selectors[f.column]) /\ f.column \in handledCols
    BY <1>1, <1>4 DEF Placed, IsSelector
  <2>2. textValues(f.column) = Items(f.values) /\ Items(f.values) # {}
    BY <1>3, <2>1, ValuesOfSelectors
  <2>3. Norm[r[f.column]] \in {Norm[v] : v \in Items(f.values)}
    BY <1>2, <2>1, <2>2 DEF Chosen
  <2>4. ToSet(f.values) = Items(f.values)
    <3>1. DOMAIN f.values = 1..Len(f.values)
      BY <1>3
    <3> QED
      BY <3>1 DEF ToSet, Items
  <2> QED
    BY <1>4, <2>3, <2>4
<1>5. CASE ~IsSelector(f)
  <2>1. f \in Items(conditions)
    BY <1>1, <1>5 DEF Placed
  <2>2. DOMAIN conditions = 1..Len(conditions)
    BY DEF SelectorsInv, SelectorsTyped
  <2>3. f \in ToSet(conditions)
    BY <2>1, <2>2 DEF ToSet, Items
  <2> QED
    BY <1>2, <2>3
<1> QED
  BY <1>4, <1>5

(* No row is lost to the filters: a row that satisfies all the filters of the
   table is returned, however classifyFilters has split them into selectors and
   conditions. *)
THEOREM FiltersLoseNoRow == FilterSpec => []NoRowLost
<1>1. FilterInit => SelectorsInv
  BY SelectorsInit
<1>2. SelectorsInv /\ [FilterNext]_filterVars => SelectorsInv'
  BY SelectorsStep
<1>3. SelectorsInv => NoRowLost
  BY NoRowIsLost
<1> QED
  BY <1>1, <1>2, <1>3, PTL DEF FilterSpec

(* A row that is returned satisfies the filters of the table, up to the
   spelling of hashes and names, unless selectors of a column differ. *)
THEOREM FiltersReturnMatches == FilterSpec => []OnlyMatchingRows
<1>1. FilterInit => SelectorsInv
  BY SelectorsInit
<1>2. SelectorsInv /\ [FilterNext]_filterVars => SelectorsInv'
  BY SelectorsStep
<1>3. SelectorsInv => OnlyMatchingRows
  BY OnlyRowsThatMatch
<1> QED
  BY <1>1, <1>2, <1>3, PTL DEF FilterSpec
=============================================================================
