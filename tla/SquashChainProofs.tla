-------------------------- MODULE SquashChainProofs --------------------------
(***************************************************************************)
(* Proofs about SquashChain: for every chain of iterators, the join of the *)
(* squashed tables is what the chain returns, an error has a cause, and an *)
(* iterator that has ended is left alone.                                  *)
(*                                                                         *)
(* The chain keeps no account of the rows it has to return; it is in the   *)
(* cursors.  A row is pending while it lies ahead of the cursor of an open *)
(* inner iterator, or has just been handed to the next level.  Each step   *)
(* takes one row at most out of that state, and the proof follows it:      *)
(* given to the engine, filtered, failed or skipped.                       *)
(***************************************************************************)
EXTENDS SquashChain, SequenceTheorems, TLAPS

(* The row that level l reads for: the one of the level before it. *)
ParentRow(l) == IF l = 1 THEN <<>> ELSE row[l - 1]

(* The join comes to a row when nothing is wrong with the rows it extends. *)
Reached(r) == \A k \in 0..(Len(r) - 1) : Mark(SubSeq(r, 1, k)) = "none"

(* The levels before l stand where the row that l reads for was read. *)
Follows(l) ==
  \A i \in 1..(l - 1) :
    ParentRow(i) = SubSeq(ParentRow(l), 1, i - 1) /\ ParentRow(l)[i] = cursor[i]

(* What a repository may hold: a row has one mark at most, and one that the
   level of the row allows. *)
World ==
  /\ plan \in DOMAIN Plans
  /\ skip \in BOOLEAN
  /\ \A x \in marks : x[2] = Mark(x[1]) /\ \E k \in 0..Depth(plan) : x[1] \in Rows(plan, k)
  /\ Mark(<<>>) \in {"none", "norepo", "noopen", "nocommit"}
  /\ \A k \in Levels : \A r \in Rows(plan, k) : Mark(r) # "norepo"
  /\ \A r \in Rows(plan, Depth(plan)) : Mark(r) \notin {"noopen", "nocommit"}

Typed ==
  /\ status \in {"run", "eof", "error", "canceled", "panic", "closed"}
  /\ canceled \in BOOLEAN
  /\ at \in 0..Engine
  /\ ret \in {"none", "row", "eof", "error", "canceled"}
  /\ open \in [Levels -> BOOLEAN]
  /\ cursor \in [Levels -> Nat]
  /\ row \in [Levels -> Seq(Nat)]
  /\ ended \in [Levels -> BOOLEAN]
  /\ out \in Seq(Seq(Nat))

(* A level asks its parent only when it has no inner iterator. *)
Nested ==
  /\ \A l \in Levels : at < l => open[l] # TRUE
  /\ ret # "none" => at >= 2 /\ (at \in Levels => open[at] # TRUE)
  /\ at = 0 => out = <<>> /\ cursor[1] = 0

(* Level l reads, or is about to read, for a row the join comes to. *)
Fits(l) ==
  /\ ParentRow(l) \in Rows(plan, l - 1)
  /\ Reached(ParentRow(l))
  /\ Follows(l)

(* An inner iterator was opened for a row the join continues with, ... *)
Opened == \A l \in Levels : open[l] = TRUE => Fits(l) /\ Mark(ParentRow(l)) = "none"

(* ... and a row just returned is one the join comes to. *)
Handed ==
  \A l \in 2..Engine : ret = "row" /\ at = l =>
    Fits(l) /\ Mark(ParentRow(l)) \in {"none", "noopen", "nocommit"}

(* Row r, or a row it extends, is an item that level i has still to read, ... *)
Ahead(r, i) ==
  open[i] = TRUE /\ SubSeq(r, 1, i - 1) = ParentRow(i) /\ cursor[i] < r[i]

(* ... or has just been returned to level l. *)
InHand(r, l) ==
  ret = "row" /\ at = l /\ SubSeq(r, 1, l - 1) = ParentRow(l)

(* The chain has not done with row r. *)
Pending(r) ==
  \/ at = 0 /\ status = "run"
  \/ \E i \in 1..Len(r) : Ahead(r, i)
  \/ \E l \in 2..(Len(r) + 1) : InHand(r, l)

Alive == status \in {"run", "eof"}

(* Every row of the join is given or will be, ... *)
Delivered == Alive => \A r \in Joined : r \in Promise!Given \/ Pending(r)

(* ... and not both. *)
GivenOnce == \A r \in Joined : Pending(r) => r \notin Promise!Given

(* Without skipping, what was passed could be read. *)
Examined ==
  Alive /\ skip # TRUE /\ ret # "error" =>
    \A k \in Levels : \A r \in Rows(plan, k) :
      Reached(r) /\ ~Pending(r) => Mark(r) \notin {"unread", "lost", "noopen"}

Began ==
  skip # TRUE /\ (at # 0 \/ status = "eof") => Mark(<<>>) \notin {"norepo", "noopen"}

(* io.EOF travels up a chain with nothing left to read. *)
Drained ==
  /\ status = "eof" => ret = "none"
  /\ ret = "eof" \/ status = "eof" =>
       \A l \in Levels : open[l] = TRUE => cursor[l] + 1 \notin Items(plan, l)

(* There is a row to blame for an error that travels up. *)
Caused ==
  \E x \in marks :
    x[2] \in {"norepo", "noopen", "unread", "lost", "fatal"} /\ Reached(x[1])

Blamed == ret = "error" \/ status \in {"error", "panic"} => Caused

SkippedAbove(l) == skip = TRUE /\ \E m \in Levels : m > l /\ Iter(m).parent = "skip"

(* A level that has ended is not asked again. *)
Silent ==
  \A l \in Levels : ended[l] = TRUE =>
    \/ SkippedAbove(l)
    \/ l < at /\ ret \in {"eof", "error", "canceled"}
    \/ status # "run"

IInv ==
  /\ World /\ Typed /\ Nested /\ Opened /\ Handed /\ Drained
  /\ Delivered /\ GivenOnce /\ Examined /\ Began
  /\ Blamed /\ Silent

-----------------------------------------------------------------------------
(* Iterators and rows. *)

(* Of all the iterators squashCommitFilesIter alone takes an error of its
   parent for one to be skipped. *)
LEMMA OnlyCommitFilesSkips ==
  ASSUME NEW it \in Iterators, it.parent = "skip"
  PROVE  it = squashCommitFilesIter
<1>1. /\ squashReposIter.parent = "return"
     /\ squashRemoteIter.parent = "return"
     /\ squashRepoRemotesIter.parent = "return"
     /\ squashRefIter.parent = "return"
     /\ squashRefIndexIter.parent = "return"
     /\ squashRepoRefsIter.parent = "return"
  BY DEF Chained, All, Indexed, Mapped, squashReposIter, squashRemoteIter,
     squashRepoRemotesIter, squashRefIter, squashRefIndexIter,
     squashRepoRefsIter
<1>2. /\ squashRemoteRefsIter.parent = "return"
     /\ squashRefRefCommitsIter.parent = "return"
     /\ squashRefHeadRefCommitsIter.parent = "return"
     /\ squashRefCommitsIndexIter.parent = "return"
     /\ squashRefCommitCommitsIter.parent = "return"
     /\ squashCommitsIter.parent = "return"
  BY DEF Chained, All, Indexed, Mapped, squashRemoteRefsIter,
     squashRefRefCommitsIter, squashRefHeadRefCommitsIter,
     squashRefCommitsIndexIter, squashRefCommitCommitsIter, squashCommitsIter,
     squashRepoRefsIter
<1>3. /\ squashCommitsIndexIter.parent = "return"
     /\ squashRepoCommitsIter.parent = "return"
     /\ squashRefHeadCommitsIter.parent = "return"
     /\ squashCommitTreesIndexIter.parent = "return"
     /\ squashCommitTreesIter.parent = "return"
     /\ squashRepoTreeEntriesIter.parent = "return"
  BY DEF Chained, All, Indexed, Mapped, squashCommitsIndexIter,
     squashRepoCommitsIter, squashRefHeadCommitsIter, squashCommitTreesIndexIter,
     squashCommitTreesIter, squashRepoTreeEntriesIter
<1>4. /\ squashCommitMainTreeIter.parent = "return"
     /\ squashTreeEntriesIter.parent = "return"
     /\ squashTreeEntriesIndexIter.parent = "return"
     /\ squashTreeTreeEntriesIter.parent = "return"
     /\ squashCommitBlobsIndexIter.parent = "return"
     /\ squashCommitBlobsIter.parent = "return"
  BY DEF Chained, All, Indexed, Mapped, squashCommitMainTreeIter,
     squashTreeEntriesIter, squashTreeEntriesIndexIter,
     squashTreeTreeEntriesIter, squashCommitBlobsIndexIter,
     squashCommitBlobsIter
<1>5. /\ squashRepoBlobsIter.parent = "return"
     /\ squashTreeEntryBlobsIter.parent = "return"
     /\ squashCommitBlobBlobsIter.parent = "return"
     /\ squashIndexCommitFilesIter.parent = "return"
     /\ squashCommitFileFilesIter.parent = "return"
     /\ squashCommitFileBlobsIter.parent = "return"
  BY DEF Chained, All, Indexed, Mapped, squashRepoBlobsIter,
     squashTreeEntryBlobsIter, squashCommitBlobBlobsIter,
     squashIndexCommitFilesIter, squashCommitFileFilesIter,
     squashCommitFileBlobsIter
<1> QED
  BY <1>1, <1>2, <1>3, <1>4, <1>5 DEF Iterators

(* A chain has at least one iterator. *)
LEMMA ChainsHaveLevels ==
  ASSUME NEW p \in DOMAIN Plans
  PROVE  /\ Depth(p) \in Nat \ {0}
         /\ \A l \in 1..Depth(p) : Plans[p][l] \in Iterators
  BY PlansAreChains DEF Depth

(* The items of an inner iterator are numbered from 1. *)
LEMMA ItemsAreNumbered ==
  ASSUME NEW p, NEW l
  PROVE  /\ Items(p, l) \subseteq 1..Width
         /\ \A c \in Nat, d \in Items(p, l) : c < d => c + 1 \in Items(p, l)
         /\ ~Plans[p][l].many => Items(p, l) = {1}
  BY WidthIsPositive DEF Items

(* A row of level l is a sequence of l items. *)
LEMMA RowsAreSequences ==
  ASSUME NEW p, NEW l \in Nat, NEW r \in Rows(p, l)
  PROVE  /\ r \in Seq(Nat)
         /\ Len(r) = l
         /\ \A i \in 1..l : r[i] \in Items(p, i) /\ r[i] \in Nat /\ r[i] > 0
<1>1. r \in [1..l -> 1..Width] /\ \A i \in 1..l : r[i] \in Items(p, i)
  BY DEF Rows
<1>2. r \in Seq(1..Width)
  BY <1>1, SeqDef, Zenon
<1>3. Len(r) = l
  BY <1>1, <1>2, LenProperties
<1>4. 1..Width \subseteq Nat
  BY WidthIsPositive
<1>5. r \in Seq(Nat)
  BY <1>2, <1>4, SeqMonotonic, Zenon
<1> QED
  BY <1>1, <1>3, <1>5, WidthIsPositive

(* The empty row is the one of no level. *)
LEMMA NoLevels ==
  ASSUME NEW p
  PROVE  <<>> \in Rows(p, 0) /\ \A r \in Rows(p, 0) : r = <<>>
  BY DEF Rows

(* What the first items of a row are. *)
LEMMA Prefixes ==
  ASSUME NEW p, NEW l \in Nat, NEW r \in Rows(p, l), NEW k \in 0..l
  PROVE  /\ SubSeq(r, 1, k) \in Rows(p, k)
         /\ Len(SubSeq(r, 1, k)) = k
         /\ \A i \in 1..k : SubSeq(r, 1, k)[i] = r[i]
         /\ k = l => SubSeq(r, 1, k) = r
         /\ k = 0 => SubSeq(r, 1, k) = <<>>
         /\ \A j \in 0..k : SubSeq(SubSeq(r, 1, k), 1, j) = SubSeq(r, 1, j)
<1>1. r \in Seq(Nat) /\ Len(r) = l /\ r \in [1..l -> 1..Width]
  BY RowsAreSequences DEF Rows
<1>2. SubSeq(r, 1, k) = [i \in 1..k |-> r[i]]
  BY <1>1
<1>3. SubSeq(r, 1, k) \in Rows(p, k)
  <2>1. [i \in 1..k |-> r[i]] \in [1..k -> 1..Width]
    BY <1>1
  <2>2. \A i \in 1..k : r[i] \in Items(p, i)
    BY RowsAreSequences
  <2> QED
    BY <1>2, <2>1, <2>2 DEF Rows
<1>4. \A j \in 0..k : SubSeq(SubSeq(r, 1, k), 1, j) = SubSeq(r, 1, j)
  BY <1>1, <1>2
<1>5. k = l => SubSeq(r, 1, k) = r
  BY <1>1, <1>2
<1>6. k = 0 => SubSeq(r, 1, k) = <<>>
  BY <1>2
<1> QED
  BY <1>2, <1>3, <1>4, <1>5, <1>6, RowsAreSequences

(* A row followed by an item. *)
LEMMA Extensions ==
  ASSUME NEW p, NEW l \in Nat, NEW r \in Rows(p, l), NEW c \in Items(p, l + 1)
  PROVE  /\ Append(r, c) \in Rows(p, l + 1)
         /\ Append(r, c)[l + 1] = c
         /\ \A i \in 1..l : Append(r, c)[i] = r[i]
         /\ \A k \in 0..l : SubSeq(Append(r, c), 1, k) = SubSeq(r, 1, k)
         /\ SubSeq(Append(r, c), 1, l) = r
<1>1. r \in Seq(Nat) /\ Len(r) = l /\ r \in [1..l -> 1..Width] /\ c \in 1..Width
  BY RowsAreSequences, ItemsAreNumbered DEF Rows
<1> DEFINE q == Append(r, c)
<1>2. q \in Seq(Nat) /\ Len(q) = l + 1 /\ q[l + 1] = c /\ \A i \in 1..l : q[i] = r[i]
  BY <1>1
<1>3. q \in Rows(p, l + 1)
  <2>1. q \in [1..(l + 1) -> 1..Width]
    <3>1. q \in [1..(l + 1) -> Nat]
      BY <1>2, LenProperties
    <3>2. \A i \in 1..(l + 1) : q[i] \in 1..Width
      BY <1>1, <1>2
    <3> QED
      BY <3>1, <3>2
  <2>2. \A i \in 1..(l + 1) : q[i] \in Items(p, i)
    BY <1>2, RowsAreSequences
  <2> QED
    BY <2>1, <2>2 DEF Rows
<1>4. \A k \in 0..l : SubSeq(q, 1, k) = SubSeq(r, 1, k)
  BY <1>1, <1>2
<1>5. SubSeq(r, 1, l) = r
  BY Prefixes
<1> QED
  BY <1>2, <1>3, <1>4, <1>5

(* Two rows that agree are one. *)
LEMMA SameRow ==
  ASSUME NEW p, NEW l \in Nat \ {0}, NEW r \in Rows(p, l), NEW q \in Rows(p, l),
         SubSeq(r, 1, l - 1) = SubSeq(q, 1, l - 1), r[l] = q[l]
  PROVE  r = q
<1>1. r \in [1..l -> 1..Width] /\ q \in [1..l -> 1..Width]
  BY DEF Rows
<1>2. \A i \in 1..(l - 1) : SubSeq(r, 1, l - 1)[i] = r[i] /\ SubSeq(q, 1, l - 1)[i] = q[i]
  BY Prefixes
<1> QED
  BY <1>1, <1>2

(* A row with a mark is marked by some element of marks. *)
LEMMA MarksAreThere ==
  ASSUME NEW r, Mark(r) # "none"
  PROVE  \E x \in marks : x[1] = r /\ x[2] = Mark(r)
  BY DEF Mark

-----------------------------------------------------------------------------
(* The start. *)

(* The marks of a row are of its level. *)
LEMMA MarksFit ==
  ASSUME NEW p \in DOMAIN Plans, NEW k \in 0..Depth(p), NEW r \in Rows(p, k),
         NEW m \in MarksOf(p, r)
  PROVE  /\ m # "none"
         /\ k = 0 => m \in {"norepo", "noopen", "nocommit"}
         /\ k > 0 => m # "norepo"
         /\ k = Depth(p) => m \notin {"noopen", "nocommit"}
<1>1. Len(r) = k /\ Depth(p) \in Nat \ {0}
  BY RowsAreSequences, ChainsHaveLevels
<1> QED
  BY <1>1 DEF MarksOf

(* The repositories the chain starts with are as World says. *)
LEMMA StartWorld == Init => World
<1> SUFFICES ASSUME Init PROVE World
  OBVIOUS
<1>1. plan \in DOMAIN Plans /\ skip \in BOOLEAN /\ Depth(plan) \in Nat \ {0}
  BY ChainsHaveLevels DEF Init
<1>2. \A x \in marks : x \in Marked(plan)
  BY DEF Init
<1>3. \A x, y \in marks : x[1] = y[1] => x = y
  BY DEF Init
<1>4. \A x \in marks :
        /\ x[2] = Mark(x[1])
        /\ x[2] \in MarksOf(plan, x[1])
        /\ \E k \in 0..Depth(plan) : x[1] \in Rows(plan, k)
  <2> TAKE x \in marks
  <2>1. x[2] \in MarksOf(plan, x[1]) /\ x[1] \in AllRows(plan)
    BY <1>2 DEF Marked
  <2>2. x[2] = Mark(x[1])
    BY <1>3 DEF Mark
  <2> QED
    BY <2>1, <2>2 DEF AllRows
<1>5. ASSUME NEW k \in 0..Depth(plan), NEW r \in Rows(plan, k), Mark(r) # "none"
      PROVE  Mark(r) \in MarksOf(plan, r)
  BY <1>4, <1>5, MarksAreThere
<1>6. Mark(<<>>) \in {"none", "norepo", "noopen", "nocommit"}
  BY <1>1, <1>5, MarksFit, NoLevels
<1>7. \A k \in Levels : \A r \in Rows(plan, k) : Mark(r) # "norepo"
  BY <1>1, <1>5, MarksFit DEF Levels
<1>8. \A r \in Rows(plan, Depth(plan)) : Mark(r) \notin {"noopen", "nocommit"}
  BY <1>1, <1>5, MarksFit
<1> QED
  BY <1>1, <1>4, <1>6, <1>7, <1>8 DEF World

(* The inductive invariant holds before the repository is opened. *)
LEMMA Start == Init => IInv
<1> SUFFICES ASSUME Init PROVE IInv
  OBVIOUS
<1>1. World /\ Depth(plan) \in Nat \ {0}
  BY StartWorld, ChainsHaveLevels DEF Init
<1>2. status = "run" /\ at = 0 /\ ret = "none" /\ out = <<>>
  BY DEF Init
<1>3. /\ open = [l \in Levels |-> FALSE] /\ ended = [l \in Levels |-> FALSE]
      /\ cursor = [l \in Levels |-> 0] /\ row = [l \in Levels |-> <<>>]
      /\ 1 \in Levels
  BY <1>1 DEF Init, Levels
<1>4. Typed
  <2>1. canceled = FALSE /\ at \in 0..Engine
    BY <1>1, <1>2 DEF Init, Engine
  <2>2. <<>> \in Seq(Nat) /\ <<>> \in Seq(Seq(Nat))
    BY EmptySeq, Zenon
  <2>3. row \in [Levels -> Seq(Nat)] /\ out \in Seq(Seq(Nat))
    BY <1>2, <1>3, <2>2
  <2>4. open \in [Levels -> BOOLEAN] /\ ended \in [Levels -> BOOLEAN]
    BY <1>3
  <2>5. cursor \in [Levels -> Nat]
    BY <1>3
  <2> QED
    BY <1>2, <2>1, <2>3, <2>4, <2>5 DEF Typed
<1>5. Nested /\ Opened /\ Handed /\ Drained
  BY <1>2, <1>3 DEF Nested, Opened, Handed, Drained
<1>6. Promise!Given = {}
  BY <1>2 DEF Promise!Given
<1>7. Delivered /\ GivenOnce
  BY <1>2, <1>6 DEF Delivered, GivenOnce, Pending
<1>8. Examined /\ Began
  BY <1>2 DEF Examined, Began, Pending
<1>9. Blamed /\ Silent
  BY <1>2, <1>3 DEF Blamed, Silent
<1> QED
  BY <1>1, <1>4, <1>5, <1>7, <1>8, <1>9 DEF IInv

-----------------------------------------------------------------------------
(* Types and nesting. *)

(* The repository does not change while it is read. *)
LEMMA WorldStays ==
  ASSUME World, UNCHANGED world
  PROVE  /\ World'
         /\ Levels' = Levels /\ Engine' = Engine /\ Depth(plan)' = Depth(plan)
         /\ Joined' = Joined
         /\ \A r : Mark(r)' = Mark(r) /\ Reached(r)' = Reached(r)
<1>1. plan' = plan /\ skip' = skip /\ marks' = marks
  BY DEF world
<1>2. \A r : Mark(r)' = Mark(r)
  BY <1>1 DEF Mark
<1>3. Levels' = Levels /\ Engine' = Engine /\ Depth(plan)' = Depth(plan)
  BY <1>1 DEF Levels, Engine, Depth
<1>4. Joined' = Joined
  BY <1>1, <1>2, <1>3 DEF Joined, Rows, Items
<1>5. \A r : Reached(r)' = Reached(r)
  BY <1>2 DEF Reached
<1>6. World'
  BY <1>1, <1>2, <1>3 DEF World, Rows, Items
<1> QED
  BY <1>2, <1>3, <1>4, <1>5, <1>6

(* The levels are those of the chain, and the engine comes after them. *)
LEMMA LevelsAre ==
  ASSUME World
  PROVE  /\ Depth(plan) \in Nat \ {0}
         /\ Levels = 1..Depth(plan) /\ Engine = Depth(plan) + 1
         /\ 1 \in Levels
         /\ \A l \in Levels : Iter(l) \in Iterators
  BY ChainsHaveLevels DEF World, Levels, Engine, Iter

(* A step of a level ends in one of three ways: in a return to its caller,
   in another turn of its loop, or in a crash. *)
Returns ==
  /\ at' = at + 1
  /\ ret' \in {"row", "eof", "error", "canceled"}
  /\ ended' = [ended EXCEPT ![at] = @ \/ ret' # "row"]
  /\ UNCHANGED status

Crashes ==
  /\ status' = "panic"
  /\ UNCHANGED <<at, ret, ended>>

(* Each of them keeps the types of what it changes. *)
LEMMA Moves ==
  ASSUME World, Typed, UNCHANGED world, at \in Levels, Returns \/ Continue \/ Crashes
  PROVE  /\ at' \in 0..Engine
         /\ ret' \in {"none", "row", "eof", "error", "canceled"}
         /\ ended' \in [Levels -> BOOLEAN]
         /\ status' \in {"run", "eof", "error", "canceled", "panic", "closed"}
<1>1. CASE Returns
  <2>1. at' \in 0..Engine
    BY <1>1, LevelsAre DEF Returns
  <2>2. ended' \in [Levels -> BOOLEAN]
    <3>1. ended' = [ended EXCEPT ![at] = ended[at] \/ ret' # "row"]
      BY <1>1 DEF Returns
    <3>2. (ended[at] \/ ret' # "row") \in BOOLEAN
      OBVIOUS
    <3> QED
      BY <3>1, <3>2 DEF Typed
  <2> QED
    BY <1>1, <2>1, <2>2 DEF Returns, Typed
<1>2. CASE Continue
  BY <1>2 DEF Continue, Typed
<1>3. CASE Crashes
  BY <1>3 DEF Crashes, Typed
<1> QED
  BY <1>1, <1>2, <1>3

(* The item a level reads is one of its inner iterator, and the row it makes
   is one of the level. *)
LEMMA ItemsMakeRows ==
  ASSUME World, Typed, Opened, NEW l \in Levels, open[l] = TRUE,
         cursor[l] + 1 \in Items(plan, l)
  PROVE  /\ l \in Nat \ {0} /\ l - 1 \in Nat /\ l = (l - 1) + 1
         /\ cursor[l] \in Nat
         /\ ParentRow(l) \in Rows(plan, l - 1)
         /\ NewRow(l) = Append(ParentRow(l), cursor[l] + 1)
         /\ NewRow(l) \in Rows(plan, l)
         /\ NewRow(l) \in Seq(Nat)
         /\ NewRow(l)[l] = cursor[l] + 1
         /\ \A i \in 1..(l - 1) : NewRow(l)[i] = ParentRow(l)[i]
         /\ \A k \in 0..(l - 1) : SubSeq(NewRow(l), 1, k) = SubSeq(ParentRow(l), 1, k)
         /\ SubSeq(NewRow(l), 1, l - 1) = ParentRow(l)
         /\ Reached(NewRow(l))
<1>1. l \in Nat \ {0} /\ l - 1 \in Nat /\ l = (l - 1) + 1 /\ cursor[l] \in Nat
  BY LevelsAre DEF Typed
<1>2. ParentRow(l) \in Rows(plan, l - 1) /\ Reached(ParentRow(l)) /\ Mark(ParentRow(l)) = "none"
  BY DEF Opened, Fits
<1>3. NewRow(l) = Append(ParentRow(l), cursor[l] + 1)
  BY DEF NewRow, ParentRow
<1>4. PICK j \in Nat : j = l - 1
  BY <1>1
<1>5. PICK r \in Rows(plan, j) : r = ParentRow(l)
  BY <1>2, <1>4
<1>6. PICK c \in Items(plan, j + 1) : c = cursor[l] + 1
  BY <1>1, <1>4
<1>7. PICK q \in Rows(plan, j + 1) : q = Append(r, c)
  BY Extensions
<1>8. /\ q[j + 1] = c
      /\ \A i \in 1..j : q[i] = r[i]
      /\ \A k \in 0..j : SubSeq(q, 1, k) = SubSeq(r, 1, k)
      /\ SubSeq(q, 1, j) = r
  BY <1>7, Extensions
<1>9. q \in Seq(Nat) /\ Len(q) = j + 1 /\ Len(r) = j
  BY RowsAreSequences
<1>10. Reached(q)
  <2>1. \A k \in 0..(j - 1) : Mark(SubSeq(r, 1, k)) = "none"
    BY <1>2, <1>5, <1>9 DEF Reached
  <2>2. \A k \in 0..j : Mark(SubSeq(q, 1, k)) = "none"
    <3> TAKE k \in 0..j
    <3>1. CASE k \in 0..(j - 1)
      BY <1>8, <2>1, <3>1
    <3>2. CASE k = j
      BY <1>2, <1>5, <1>8, <3>2
    <3> QED
      BY <3>1, <3>2
  <2> QED
    BY <1>9, <2>2 DEF Reached
<1> QED
  BY <1>1, <1>2, <1>3, <1>4, <1>5, <1>6, <1>7, <1>8, <1>9, <1>10

(* The types of the variables are kept. *)
LEMMA Typing ==
  ASSUME World, Typed, Nested, Opened, [Next]_vars
  PROVE  UNCHANGED world /\ Typed'
<1>1. UNCHANGED world
  BY DEF Next, Step, PartitionRows, AskParent, Open, ParentEnds, Poll, ReadItem,
         Exhausted, FirstEnds, Deliver, Cancel, Close, vars
<1>2. Levels' = Levels /\ Engine' = Engine
  BY <1>1, WorldStays
<1>3. Depth(plan) \in Nat \ {0} /\ Levels = 1..Depth(plan) /\ Engine = Depth(plan) + 1 /\ 1 \in Levels
  BY LevelsAre
<1>4. CASE PartitionRows
  <2>1. open' \in [Levels -> BOOLEAN]
    BY <1>4 DEF PartitionRows, Typed
  <2>2. at' \in 0..Engine /\ status' \in {"run", "eof", "error", "canceled", "panic", "closed"}
    BY <1>3, <1>4 DEF PartitionRows, Typed
  <2> QED
    BY <1>2, <1>4, <2>1, <2>2 DEF PartitionRows, Typed
<1>5. CASE AskParent
  <2>1. at' \in 0..Engine
    BY <1>3, <1>5 DEF AskParent, Running, Typed
  <2> QED
    BY <1>2, <1>5, <2>1 DEF AskParent, Typed, iters
<1>6. CASE Open
  <2>1. at \in Levels /\ UNCHANGED <<canceled, row, out>>
    BY <1>6 DEF Open
  <2>2. Returns \/ Continue \/ Crashes
    BY <1>6 DEF Open, Fail, Return, Returns, Crashes
  <2>3. /\ \/ UNCHANGED open
           \/ open' = [open EXCEPT ![at] = TRUE]
        /\ \/ UNCHANGED cursor
           \/ cursor' = [cursor EXCEPT ![at] = 0]
    BY <1>6 DEF Open
  <2>4. open' \in [Levels -> BOOLEAN] /\ cursor' \in [Levels -> Nat]
    <3>1. open \in [Levels -> BOOLEAN] /\ cursor \in [Levels -> Nat]
      BY DEF Typed
    <3>2. open' \in [Levels -> BOOLEAN]
      BY <2>3, <3>1
    <3>3. cursor' \in [Levels -> Nat]
      BY <2>3, <3>1
    <3> QED
      BY <3>2, <3>3
  <2>5. /\ at' \in 0..Engine
        /\ ret' \in {"none", "row", "eof", "error", "canceled"}
        /\ ended' \in [Levels -> BOOLEAN]
        /\ status' \in {"run", "eof", "error", "canceled", "panic", "closed"}
    BY <1>1, <2>1, <2>2, Moves
  <2> QED
    BY <1>1, <1>2, <2>1, <2>4, <2>5 DEF Typed
<1>7. CASE ParentEnds \/ Poll \/ FirstEnds
  <2>1. at \in Levels /\ UNCHANGED <<canceled, open, cursor, row, out>>
    BY <1>3, <1>7 DEF ParentEnds, Poll, FirstEnds, Running, iters
  <2>2. Returns \/ Continue
    BY <1>7 DEF ParentEnds, Poll, FirstEnds, Return, Returns
  <2>3. /\ at' \in 0..Engine
        /\ ret' \in {"none", "row", "eof", "error", "canceled"}
        /\ ended' \in [Levels -> BOOLEAN]
        /\ status' \in {"run", "eof", "error", "canceled", "panic", "closed"}
    BY <1>1, <2>1, <2>2, Moves
  <2> QED
    BY <1>1, <1>2, <2>1, <2>3 DEF Typed
<1>8. CASE ReadItem
  <2>1. PICK l \in Levels :
          /\ Reading(l) /\ cursor[l] + 1 \in Items(plan, l)
          /\ cursor' = [cursor EXCEPT ![l] = @ + 1]
          /\ open' = [open EXCEPT ![l] = Iter(l).many \/ l = 1]
          /\ row' = [row EXCEPT ![l] = IF Mark(NewRow(l)) \in {"unread", "lost", "passed"}
                                         THEN @ ELSE NewRow(l)]
          /\ Returns \/ Continue \/ Crashes
    BY <1>8 DEF ReadItem, Fail, Return, Returns, Crashes
  <2>2. at = l /\ open[l] = TRUE /\ UNCHANGED <<canceled, out>>
    BY <1>8, <2>1 DEF Reading, Running, ReadItem, Typed
  <2>3. NewRow(l) \in Seq(Nat) /\ cursor[l] + 1 \in Nat
    <3>1. NewRow(l) \in Seq(Nat) /\ cursor[l] \in Nat
      BY <2>1, <2>2, ItemsMakeRows
    <3> QED
      BY <3>1
  <2>4. row' \in [Levels -> Seq(Nat)] /\ cursor' \in [Levels -> Nat]
    BY <2>1, <2>3 DEF Typed
  <2>5. open' \in [Levels -> BOOLEAN]
    <3>1. (Iter(l).many \/ l = 1) \in BOOLEAN
      OBVIOUS
    <3> QED
      BY <2>1, <3>1 DEF Typed
  <2>6. /\ at' \in 0..Engine
        /\ ret' \in {"none", "row", "eof", "error", "canceled"}
        /\ ended' \in [Levels -> BOOLEAN]
        /\ status' \in {"run", "eof", "error", "canceled", "panic", "closed"}
    BY <1>1, <2>1, <2>2, Moves
  <2> QED
    BY <1>1, <1>2, <2>2, <2>4, <2>5, <2>6 DEF Typed
<1>9. CASE Exhausted
  <2>1. open' \in [Levels -> BOOLEAN]
    BY <1>9 DEF Exhausted, Typed
  <2> QED
    BY <1>2, <1>9, <2>1 DEF Exhausted, Typed
<1>10. CASE Deliver
  <2>1. UNCHANGED <<canceled, at, open, cursor, row, ended>> /\ ret' = "none"
    BY <1>10 DEF Deliver, iters
  <2>2. status' \in {"run", "eof", "error", "canceled", "panic", "closed"}
    BY <1>10 DEF Deliver, Typed
  <2>3. row[Depth(plan)] \in Seq(Nat)
    BY <1>3 DEF Typed
  <2>4. out' \in Seq(Seq(Nat))
    <3>1. out \in Seq(Seq(Nat)) /\ Append(out, row[Depth(plan)]) \in Seq(Seq(Nat))
      BY <2>3, AppendProperties DEF Typed
    <3>2. out' = out \/ out' = Append(out, row[Depth(plan)])
      BY <1>10 DEF Deliver
    <3> QED
      BY <3>1, <3>2
  <2> QED
    BY <1>1, <1>2, <2>1, <2>2, <2>4 DEF Typed
<1>11. CASE Cancel \/ Close \/ UNCHANGED vars
  BY <1>2, <1>11 DEF Cancel, Close, vars, Typed, iters
<1> QED
  BY <1>1, <1>4, <1>5, <1>6, <1>7, <1>8, <1>9, <1>10, <1>11 DEF Next, Step

(* A step of a level keeps the levels after it without an inner iterator. *)
LEMMA NestedMoves ==
  ASSUME World, Typed, Nested, UNCHANGED world, at \in Levels,
         \A l \in Levels : at < l => open'[l] = open[l],
         Returns \/ Continue \/ (Crashes /\ (ret = "none" \/ open' = open))
  PROVE  Nested'
<1>1. Levels' = Levels /\ Engine' = Engine /\ Depth(plan) \in Nat \ {0} /\ Levels = 1..Depth(plan)
  BY WorldStays, LevelsAre
<1>2. /\ at \in Nat \ {0} /\ (at' = at \/ at' = at + 1)
      /\ \A l \in Levels : l \in Nat
      /\ \A l \in Levels : at < l => open'[l] # TRUE
  <2>1. \A l \in Levels : at < l => open'[l] # TRUE
    BY DEF Nested
  <2>2. at \in Nat \ {0} /\ \A l \in Levels : l \in Nat
    BY <1>1
  <2>3. at' = at \/ at' = at + 1
    BY DEF Returns, Continue, Crashes
  <2> QED
    BY <2>1, <2>2, <2>3
<1>3. ret' # "none" => at' >= 2 /\ (at' \in Levels => open'[at'] # TRUE)
  <2>1. CASE Returns
    <3>1. at' = at + 1
      BY <2>1 DEF Returns
    <3>2. at' >= 2 /\ at < at'
      BY <1>2, <3>1
    <3>3. at' \in Levels => open'[at'] # TRUE
      BY <1>2, <3>2
    <3> QED
      BY <3>2, <3>3
  <2>2. CASE Continue
    BY <2>2 DEF Continue
  <2>3. CASE Crashes /\ (ret = "none" \/ open' = open)
    BY <2>3 DEF Crashes, Nested
  <2> QED
    BY <2>1, <2>2, <2>3
<1>4. \A l \in Levels : at' < l => open'[l] # TRUE
  <2> TAKE l \in Levels
  <2>1. at' < l => at < l
    BY <1>2
  <2> QED
    BY <1>2, <2>1
<1>5. at' # 0
  BY <1>2
<1> QED
  BY <1>1, <1>3, <1>4, <1>5 DEF Nested

(* What reading an item does. *)
LEMMA Reads ==
  ASSUME World, Typed, Nested, Opened, ReadItem
  PROVE  \E l \in Levels :
           /\ status = "run" /\ at = l /\ ret = "none" /\ open[l] = TRUE
           /\ cursor[l] + 1 \in Items(plan, l)
           /\ cursor' = [cursor EXCEPT ![l] = cursor[l] + 1]
           /\ open' = [open EXCEPT ![l] = Iter(l).many \/ l = 1]
           /\ row' = [row EXCEPT ![l] = IF Mark(NewRow(l)) \in {"unread", "lost", "passed"}
                                          THEN row[l] ELSE NewRow(l)]
           /\ UNCHANGED <<world, canceled, out>>
           /\ Returns \/ Continue \/ Crashes
           /\ Crashes => Mark(NewRow(l)) \in {"unread", "lost"}
           /\ Returns /\ ret' = "row" <=> Mark(NewRow(l)) \in {"none", "noopen", "nocommit"}
           /\ Returns /\ ret' # "row" =>
                /\ Mark(NewRow(l)) \in {"unread", "lost", "fatal"}
                /\ ret' = "error"
           /\ Continue => Mark(NewRow(l)) \in {"passed", "dropped"} \/ skip = TRUE
<1>1. PICK l \in Levels :
        /\ Reading(l) /\ cursor[l] + 1 \in Items(plan, l)
        /\ cursor' = [cursor EXCEPT ![l] = @ + 1]
        /\ open' = [open EXCEPT ![l] = Iter(l).many \/ l = 1]
        /\ row' = [row EXCEPT ![l] = IF Mark(NewRow(l)) \in {"unread", "lost", "passed"}
                                       THEN @ ELSE NewRow(l)]
        /\ \/ Mark(NewRow(l)) = "unread" /\ Fail(Iter(l).next)
           \/ Mark(NewRow(l)) = "lost" /\ Fail(Iter(l).lookup)
           \/ Mark(NewRow(l)) \in {"passed", "dropped"} /\ Continue
           \/ Mark(NewRow(l)) = "fatal" /\ Return("error")
           \/ Mark(NewRow(l)) \in {"none", "noopen", "nocommit"} /\ Return("row")
  BY DEF ReadItem
<1>2. status = "run" /\ at = l /\ ret = "none" /\ open[l] = TRUE /\ UNCHANGED <<world, canceled, out>>
  BY <1>1 DEF Reading, Running, ReadItem, Typed
<1>3. at + 1 # at
  BY DEF Typed
<1>4. PICK m : m = Mark(NewRow(l))
  OBVIOUS
<1>5. /\ Returns \/ Continue \/ Crashes
      /\ Crashes => m \in {"unread", "lost"}
      /\ (Returns /\ ret' = "row") <=> m \in {"none", "noopen", "nocommit"}
      /\ Returns /\ ret' # "row" => m \in {"unread", "lost", "fatal"} /\ ret' = "error"
      /\ Continue => m \in {"passed", "dropped"} \/ skip = TRUE
  <2>1. CASE m \in {"unread", "lost"}
    BY <1>1, <1>2, <1>3, <1>4, <2>1 DEF Fail, Skipped, Return, Returns, Continue, Crashes
  <2>2. CASE m \in {"passed", "dropped"} /\ Continue
    BY <1>2, <1>3, <2>2 DEF Returns, Continue, Crashes
  <2>3. CASE m = "fatal" /\ Return("error")
    BY <1>2, <1>3, <2>3 DEF Return, Returns, Continue, Crashes
  <2>4. CASE m \in {"none", "noopen", "nocommit"} /\ Return("row")
    BY <1>2, <1>3, <2>4 DEF Return, Returns, Continue, Crashes
  <2> QED
    BY <1>1, <1>4, <2>1, <2>2, <2>3, <2>4
<1> QED
  BY <1>1, <1>2, <1>4, <1>5

(* What opening an inner iterator does. *)
LEMMA Opens ==
  ASSUME World, Typed, Nested, Open
  PROVE  \E l \in Levels \ {1} :
           /\ status = "run" /\ at = l /\ ret = "row" /\ open[l] # TRUE
           /\ UNCHANGED <<world, canceled, row, out>>
           /\ \/ /\ Mark(ParentRow(l)) = "none" /\ Continue
                 /\ open' = [open EXCEPT ![l] = TRUE]
                 /\ cursor' = [cursor EXCEPT ![l] = 0]
              \/ /\ Mark(ParentRow(l)) = "nocommit" /\ Continue
                 /\ UNCHANGED <<open, cursor>>
              \/ /\ Mark(ParentRow(l)) = "noopen"
                 /\ UNCHANGED <<open, cursor>>
                 /\ (Continue /\ skip = TRUE) \/ Crashes \/ (Returns /\ ret' = "error")
<1>1. PICK l \in Levels : at = l
  BY DEF Open
<1>2. status = "run" /\ ret = "row" /\ UNCHANGED <<world, canceled, row, out>>
  BY DEF Open
<1>3. l # 1 /\ open[l] # TRUE
  <2>1. ret # "none"
    BY <1>2
  <2>2. at >= 2
    BY <2>1 DEF Nested
  <2>3. open[at] # TRUE
    BY <1>1, <2>1 DEF Nested
  <2>4. ~(1 >= 2)
    OBVIOUS
  <2> QED
    BY <1>1, <2>2, <2>3, <2>4, Zenon
<1>4. ParentRow(l) = row[l - 1]
  BY <1>3 DEF ParentRow
<1>5. PICK m : m = Mark(row[l - 1])
  OBVIOUS
<1>6. \/ /\ m = "none" /\ Continue
         /\ open' = [open EXCEPT ![l] = TRUE]
         /\ cursor' = [cursor EXCEPT ![l] = 0]
      \/ /\ m = "nocommit" /\ Continue
         /\ UNCHANGED <<open, cursor>>
      \/ /\ m = "noopen"
         /\ UNCHANGED <<open, cursor>>
         /\ (Continue /\ skip = TRUE) \/ Crashes \/ (Returns /\ ret' = "error")
  BY <1>1, <1>5 DEF Open, Fail, Skipped, Return, Returns, Crashes
<1> QED
  BY <1>1, <1>2, <1>3, <1>4, <1>5, <1>6

(* What opening the repository does. *)
LEMMA Partitions ==
  ASSUME World, Typed, Nested, PartitionRows
  PROVE  /\ status = "run" /\ at = 0 /\ ret = "none" /\ out = <<>> /\ cursor[1] = 0
         /\ UNCHANGED <<world, canceled, ret, cursor, row, ended, out>>
         /\ \/ /\ UNCHANGED <<at, open>>
               /\ Mark(<<>>) \in {"norepo", "noopen"}
               /\ status' = "error" \/ (status' = "eof" /\ skip = TRUE)
            \/ /\ UNCHANGED status
               /\ at' = Engine
               /\ open' = [open EXCEPT ![1] = (Mark(<<>>) = "none")]
               /\ Mark(<<>>) \in {"norepo", "noopen"} => skip = TRUE
<1>1. status = "run" /\ at = 0 /\ UNCHANGED <<world, canceled, ret, cursor, row, ended, out>>
  BY DEF PartitionRows
<1>2. ret = "none" /\ out = <<>> /\ cursor[1] = 0
  BY <1>1 DEF Nested
<1> QED
  BY <1>1, <1>2 DEF PartitionRows, Skipped, World

(* The steps that neither move an inner iterator nor return a row. *)
Quiet ==
  /\ UNCHANGED <<world, open, cursor, row, out>>
  /\ ret = "row" <=> ret' = "row"
  /\ ret = "row" => at' = at
  /\ at = 0 <=> at' = 0
  /\ at = 0 /\ status = "run" => status' = "run"
  /\ status' = "run" => status = "run"
  /\ status' = "eof" => status = "eof" \/ (at # 0 /\ ret = "eof")
  /\ status' \in {"error", "panic"} => status \in {"error", "panic"} \/ ret = "error"
  /\ ret' = "error" => ret = "error"
  /\ ret = "error" /\ ret' # "error" => skip = TRUE \/ status' \notin {"run", "eof"}

(* Every other step is of one of five kinds. *)
LEMMA Kinds ==
  ASSUME World, Typed, Nested, Opened, [Next]_vars
  PROVE  PartitionRows \/ Open \/ ReadItem \/ Exhausted \/ (Deliver /\ ret = "row") \/ Quiet
<1>1. Depth(plan) \in Nat \ {0} /\ Levels = 1..Depth(plan) /\ Engine = Depth(plan) + 1
  BY LevelsAre
<1>2. ASSUME AskParent PROVE Quiet
  <2>1. at \in Nat /\ at >= 2 /\ ret = "none" /\ at' = at - 1 /\ UNCHANGED <<status, ret>>
    BY <1>1, <1>2 DEF AskParent, Running, Typed
  <2>2. at # 0 /\ at' # 0
    BY <2>1
  <2> QED
    BY <1>2, <2>1, <2>2 DEF AskParent, Quiet, iters
<1>3. ASSUME ParentEnds \/ Poll \/ FirstEnds PROVE Quiet
  <2>1. at \in Nat \ {0} /\ ret # "row" /\ UNCHANGED <<world, open, cursor, row, out>>
    BY <1>1, <1>3 DEF ParentEnds, Poll, FirstEnds, Running, iters
  <2>2. /\ (at' = at \/ at' = at + 1) /\ UNCHANGED status /\ ret' # "row"
        /\ ret' = "error" => ret = "error"
        /\ ret = "error" /\ ret' # "error" => skip = TRUE
    BY <1>3 DEF ParentEnds, Poll, FirstEnds, Running, Return, Continue, Skipped
  <2>3. at # 0 /\ at' # 0
    BY <2>1, <2>2
  <2> QED
    BY <2>1, <2>2, <2>3 DEF Quiet
<1>4. ASSUME Deliver, ret # "row" PROVE Quiet
  <2>1. at # 0 /\ UNCHANGED <<world, open, cursor, row, out, at>> /\ status = "run"
    BY <1>1, <1>4 DEF Deliver, iters
  <2>2. ret' = "none" /\ status' = ret /\ ret \in {"eof", "error", "canceled"}
    BY <1>4 DEF Deliver, Typed
  <2> QED
    BY <1>4, <2>1, <2>2 DEF Quiet
<1>5. ASSUME Cancel \/ Close \/ UNCHANGED vars PROVE Quiet
  <2>1. UNCHANGED <<world, open, cursor, row, out, at, ret>>
    BY <1>5 DEF Cancel, Close, vars, iters
  <2>2. \/ UNCHANGED status
        \/ status' = "closed" /\ (status = "run" => at = Engine)
    BY <1>5 DEF Cancel, Close, vars
  <2>3. Engine # 0
    BY <1>1
  <2> QED
    BY <2>1, <2>2, <2>3 DEF Quiet
<1> QED
  BY <1>2, <1>3, <1>4, <1>5 DEF Next, Step

(* Every step keeps the levels nested. *)
LEMMA Nesting ==
  ASSUME World, Typed, Nested, Opened, Handed, [Next]_vars
  PROVE  Nested'
<1>1. Depth(plan) \in Nat \ {0} /\ Levels = 1..Depth(plan) /\ Engine = Depth(plan) + 1
  BY LevelsAre
<1>2. UNCHANGED world /\ Levels' = Levels /\ Engine' = Engine
  BY Typing, WorldStays
<1>3. CASE PartitionRows
  <2>1. CASE UNCHANGED <<at, open>>
    BY <1>2, <1>3, <2>1, Partitions DEF Nested
  <2>2. CASE at' = Engine
    <3>1. at' # 0 /\ \A l \in Levels : ~(at' < l)
      BY <1>1, <2>2
    <3>2. ret' = "none"
      BY <1>3, Partitions
    <3> QED
      BY <1>2, <3>1, <3>2 DEF Nested
  <2> QED
    BY <1>3, <2>1, <2>2, Partitions
<1>4. CASE AskParent
  <2>1. at \in Nat /\ at >= 2 /\ at' = at - 1
    BY <1>1, <1>4 DEF AskParent, Running, Typed
  <2>2. at \in Levels => open[at] # TRUE
    BY <1>4 DEF AskParent, Running
  <2>3. UNCHANGED <<open, out, cursor, ret>> /\ ret = "none"
    BY <1>4 DEF AskParent, iters, Running
  <2>4. at' # 0
    BY <2>1
  <2>5. \A l \in Levels : at' < l => open[l] # TRUE
    <3> TAKE l \in Levels
    <3>1. at' < l => l = at \/ at < l
      BY <1>1, <2>1
    <3> QED
      BY <2>2, <3>1 DEF Nested
  <2> QED
    BY <1>2, <2>3, <2>4, <2>5 DEF Nested
<1>5. CASE Open
  <2>1. PICK j \in Levels \ {1} :
          /\ at = j
          /\ open' = open \/ open' = [open EXCEPT ![j] = TRUE]
          /\ Returns \/ Continue \/ (Crashes /\ open' = open)
    BY <1>5, Opens
  <2>2. \A l \in Levels : at < l => open'[l] = open[l]
    <3>1. DOMAIN open = Levels /\ \A l \in Levels : l \in Nat
      BY <1>1 DEF Typed
    <3>2. \A l \in Levels : j < l => l # j
      BY <3>1
    <3> QED
      BY <2>1, <3>1, <3>2
  <2> QED
    BY <1>2, <2>1, <2>2, NestedMoves
<1>6. CASE ParentEnds \/ Poll \/ FirstEnds
  <2>1. at \in Levels /\ UNCHANGED open
    BY <1>1, <1>6 DEF ParentEnds, Poll, FirstEnds, Running, iters
  <2>2. Returns \/ Continue
    BY <1>6 DEF ParentEnds, Poll, FirstEnds, Return, Returns
  <2>3. \A l \in Levels : at < l => open'[l] = open[l]
    BY <2>1
  <2> QED
    BY <1>2, <2>1, <2>2, <2>3, NestedMoves
<1>7. CASE ReadItem
  <2>1. PICK l \in Levels :
          /\ at = l /\ ret = "none"
          /\ open' = [open EXCEPT ![l] = Iter(l).many \/ l = 1]
          /\ Returns \/ Continue \/ Crashes
    BY <1>7, Reads
  <2>2. \A k \in Levels : at < k => open'[k] = open[k]
    BY <1>1, <2>1 DEF Typed
  <2> QED
    BY <1>2, <2>1, <2>2, NestedMoves
<1>8. CASE Exhausted
  <2>1. PICK l \in Levels : open' = [open EXCEPT ![l] = FALSE] /\ ret = "none"
    BY <1>8 DEF Exhausted, Reading, Running
  <2>2. \A k \in Levels : open[k] # TRUE => open'[k] # TRUE
    BY <2>1 DEF Typed
  <2>3. UNCHANGED <<at, ret, cursor, out>>
    BY <1>8 DEF Exhausted
  <2> QED
    BY <1>2, <2>1, <2>2, <2>3 DEF Nested
<1>9. CASE Deliver
  <2>1. UNCHANGED <<open, at>> /\ at # 0 /\ ret' = "none"
    BY <1>1, <1>9 DEF Deliver, iters
  <2> QED
    BY <1>2, <2>1 DEF Nested
<1>10. CASE Cancel \/ Close \/ UNCHANGED vars
  <2>1. UNCHANGED <<open, at, ret, cursor, out>>
    BY <1>10 DEF Cancel, Close, vars, iters
  <2> QED
    BY <1>2, <2>1 DEF Nested
<1> QED
  BY <1>3, <1>4, <1>5, <1>6, <1>7, <1>8, <1>9, <1>10 DEF Next, Step

-----------------------------------------------------------------------------
(* The rows that are read for. *)

(* A level reads for the same row while the rows before it stay. *)
LEMMA FitsStay ==
  ASSUME World, UNCHANGED world, NEW l \in Nat, l > 0, Fits(l),
         \A i \in 1..(l - 1) : row'[i] = row[i] /\ cursor'[i] = cursor[i]
  PROVE  /\ Fits(l)'
         /\ ParentRow(l)' = ParentRow(l)
         /\ Mark(ParentRow(l))' = Mark(ParentRow(l))
<1>1. \A r : Mark(r)' = Mark(r) /\ Reached(r)' = Reached(r)
  BY WorldStays
<1>2. plan' = plan /\ \A k : Rows(plan, k)' = Rows(plan, k)
  BY DEF world, Rows, Items
<1>3. \A i \in 1..l : ParentRow(i)' = ParentRow(i)
  BY DEF ParentRow
<1>4. ParentRow(l)' = ParentRow(l)
  BY <1>3
<1>5. Mark(ParentRow(l)') = Mark(ParentRow(l)) /\ Mark(ParentRow(l))' = Mark(ParentRow(l))
  <2>1. PICK r : r = ParentRow(l)
    OBVIOUS
  <2> QED
    BY <1>1, <1>4, <2>1 DEF Mark, world
<1>6. Reached(ParentRow(l))'
  <2>1. PICK r : r = ParentRow(l)
    OBVIOUS
  <2>2. Reached(r) /\ ParentRow(l)' = r
    BY <1>4, <2>1 DEF Fits
  <2>3. \A k \in 0..(Len(r) - 1) : Mark(SubSeq(r, 1, k))' = "none"
    BY <1>1, <2>2 DEF Reached
  <2> QED
    BY <2>2, <2>3 DEF Reached, Mark
<1>7. Follows(l)'
  <2> SUFFICES ASSUME NEW i \in 1..(l - 1)
               PROVE  /\ ParentRow(i)' = SubSeq(ParentRow(l)', 1, i - 1)
                      /\ ParentRow(l)'[i] = cursor'[i]
    BY DEF Follows
  <2>1. ParentRow(i)' = ParentRow(i) /\ cursor'[i] = cursor[i]
    BY <1>3
  <2> QED
    BY <1>4, <2>1 DEF Fits, Follows
<1>8. ParentRow(l)' \in Rows(plan, l - 1)'
  BY <1>2, <1>4 DEF Fits
<1> QED
  BY <1>4, <1>5, <1>6, <1>7, <1>8 DEF Fits

(* A level that has read an item returns a row that follows the cursors. *)
LEMMA ReadRowFits ==
  ASSUME World, Typed, Nested, Opened, NEW l \in Levels, NEW l1 \in Nat, l1 = l + 1,
         UNCHANGED world, open[l] = TRUE, cursor[l] + 1 \in Items(plan, l),
         cursor' = [cursor EXCEPT ![l] = cursor[l] + 1],
         row' = [row EXCEPT ![l] = NewRow(l)]
  PROVE  Fits(l1)' /\ ParentRow(l1)' = NewRow(l)
<1>1. /\ l \in Nat \ {0} /\ l - 1 \in Nat /\ cursor[l] \in Nat
      /\ NewRow(l) \in Rows(plan, l)
      /\ NewRow(l)[l] = cursor[l] + 1
      /\ \A i \in 1..(l - 1) : NewRow(l)[i] = ParentRow(l)[i]
      /\ \A k \in 0..(l - 1) : SubSeq(NewRow(l), 1, k) = SubSeq(ParentRow(l), 1, k)
      /\ SubSeq(NewRow(l), 1, l - 1) = ParentRow(l)
      /\ Reached(NewRow(l))
  BY ItemsMakeRows
<1>2. DOMAIN row = Levels /\ DOMAIN cursor = Levels /\ Levels = 1..Depth(plan) /\ Depth(plan) \in Nat
  BY LevelsAre DEF Typed
<1>3. PICK q : q = NewRow(l)
  OBVIOUS
<1>4. row'[l] = q /\ cursor'[l] = q[l] /\ \A i \in 1..(l - 1) : row'[i] = row[i] /\ cursor'[i] = cursor[i]
  BY <1>1, <1>2, <1>3
<1>5. ParentRow(l1)' = q
  BY <1>1, <1>4 DEF ParentRow
<1>6. \A i \in 1..l : ParentRow(i)' = ParentRow(i)
  BY <1>1, <1>4 DEF ParentRow
<1>7. Follows(l1)'
  <2> SUFFICES ASSUME NEW i \in 1..(l1 - 1)
               PROVE  /\ ParentRow(i)' = SubSeq(ParentRow(l1)', 1, i - 1)
                      /\ ParentRow(l1)'[i] = cursor'[i]
    BY DEF Follows
  <2>1. CASE i = l
    BY <1>1, <1>3, <1>4, <1>5, <1>6, <2>1
  <2>2. CASE i \in 1..(l - 1)
    <3>1. ParentRow(i) = SubSeq(ParentRow(l), 1, i - 1) /\ ParentRow(l)[i] = cursor[i]
      BY <2>2 DEF Opened, Fits, Follows
    <3>2. i - 1 \in 0..(l - 1) /\ i \in 1..l
      BY <1>1, <2>2
    <3>3. SubSeq(q, 1, i - 1) = SubSeq(ParentRow(l), 1, i - 1) /\ q[i] = ParentRow(l)[i]
      BY <1>1, <1>3, <2>2, <3>2
    <3> QED
      BY <1>4, <1>5, <1>6, <2>2, <3>1, <3>2, <3>3
  <2> QED
    BY <1>1, <2>1, <2>2
<1>8. Reached(q)'
  BY <1>1, <1>3, WorldStays
<1>9. Reached(ParentRow(l1))'
  BY <1>5, <1>8 DEF Reached, Mark
<1>10. l1 - 1 = l /\ q \in Rows(plan, l) /\ plan' = plan
  BY <1>1, <1>3 DEF world
<1>11. ParentRow(l1)' \in Rows(plan, l1 - 1)'
  BY <1>5, <1>10 DEF Rows, Items
<1> QED
  BY <1>3, <1>5, <1>7, <1>9, <1>11 DEF Fits

(* Reading an item keeps what is known of the rows that are read for. *)
LEMMA ReadingFits ==
  ASSUME World, Typed, Nested, Opened, ReadItem
  PROVE  Opened' /\ Handed'
<1>1. PICK l \in Levels :
        /\ at = l /\ ret = "none" /\ open[l] = TRUE
        /\ cursor[l] + 1 \in Items(plan, l)
        /\ cursor' = [cursor EXCEPT ![l] = cursor[l] + 1]
        /\ open' = [open EXCEPT ![l] = Iter(l).many \/ l = 1]
        /\ row' = [row EXCEPT ![l] = IF Mark(NewRow(l)) \in {"unread", "lost", "passed"}
                                       THEN row[l] ELSE NewRow(l)]
        /\ UNCHANGED world
        /\ Returns \/ Continue \/ Crashes
        /\ Returns /\ ret' = "row" <=> Mark(NewRow(l)) \in {"none", "noopen", "nocommit"}
  BY Reads
<1>2. /\ Levels' = Levels /\ Engine' = Engine
      /\ Levels = 1..Depth(plan) /\ Depth(plan) \in Nat
      /\ \A r : Mark(r)' = Mark(r)
  BY <1>1, WorldStays, LevelsAre
<1>3. DOMAIN open = Levels /\ DOMAIN cursor = Levels /\ DOMAIN row = Levels
  BY DEF Typed
<1>4. Opened'
  <2> SUFFICES ASSUME NEW k \in Levels, open'[k] = TRUE
               PROVE  Fits(k)' /\ Mark(ParentRow(k))' = "none"
    BY <1>2 DEF Opened
  <2>1. k \in Nat /\ k > 0 /\ l \in Nat
    BY <1>2
  <2>2. open[k] = TRUE
    BY <1>1, <1>3
  <2>3. ~(l < k)
    BY <1>1, <2>2 DEF Nested
  <2>4. \A i \in 1..(k - 1) : row'[i] = row[i] /\ cursor'[i] = cursor[i]
    <3> TAKE i \in 1..(k - 1)
    <3>1. i # l
      BY <2>1, <2>3
    <3> QED
      BY <1>1, <3>1
  <2>5. Fits(k) /\ Mark(ParentRow(k)) = "none"
    BY <2>2 DEF Opened
  <2> QED
    BY <1>1, <2>1, <2>4, <2>5, FitsStay
<1>5. Handed'
  <2> SUFFICES ASSUME NEW k \in 2..Engine, ret' = "row", at' = k
               PROVE  Fits(k)' /\ Mark(ParentRow(k))' \in {"none", "noopen", "nocommit"}
    BY <1>2 DEF Handed
  <2>1. Returns
    BY <1>1 DEF Continue, Crashes
  <2>2. k \in Nat /\ k = l + 1
    BY <1>1, <1>2, <2>1 DEF Returns
  <2>3. Mark(NewRow(l)) \in {"none", "noopen", "nocommit"}
    BY <1>1, <2>1
  <2>4. row' = [row EXCEPT ![l] = NewRow(l)]
    BY <1>1, <2>3
  <2>5. Fits(k)' /\ ParentRow(k)' = NewRow(l)
    BY <1>1, <2>2, <2>4, ReadRowFits
  <2>6. Mark(ParentRow(k))' = Mark(NewRow(l))
    <3>1. PICK q : q = NewRow(l)
      OBVIOUS
    <3> QED
      BY <1>2, <2>5, <3>1 DEF Mark
  <2> QED
    BY <2>3, <2>5, <2>6
<1> QED
  BY <1>4, <1>5

(* A step that moves no inner iterator and returns no new row keeps it too. *)
LEMMA NoNewRow ==
  ASSUME World, Typed, Opened, Handed, UNCHANGED <<world, cursor, row>>,
         \A l \in Levels : open'[l] = TRUE => open[l] = TRUE,
         ret' = "row" => ret = "row" /\ at' = at
  PROVE  Opened' /\ Handed'
<1>1. /\ Levels' = Levels /\ Engine' = Engine
      /\ Levels = 1..Depth(plan) /\ Depth(plan) \in Nat /\ Engine = Depth(plan) + 1
  BY WorldStays, LevelsAre
<1>2. Opened'
  <2> SUFFICES ASSUME NEW l \in Levels, open'[l] = TRUE
               PROVE  Fits(l)' /\ Mark(ParentRow(l))' = "none"
    BY <1>1 DEF Opened
  <2>1. Fits(l) /\ Mark(ParentRow(l)) = "none" /\ l \in Nat /\ l > 0
    BY <1>1 DEF Opened
  <2> QED
    BY <2>1, FitsStay
<1>3. Handed'
  <2> SUFFICES ASSUME NEW l \in 2..Engine, ret' = "row", at' = l
               PROVE  Fits(l)' /\ Mark(ParentRow(l))' \in {"none", "noopen", "nocommit"}
    BY <1>1 DEF Handed
  <2>1. Fits(l) /\ Mark(ParentRow(l)) \in {"none", "noopen", "nocommit"}
    BY DEF Handed
  <2>2. l \in Nat /\ l > 0
    BY <1>1
  <2> QED
    BY <2>1, <2>2, FitsStay
<1> QED
  BY <1>2, <1>3

(* Opening an inner iterator keeps it. *)
LEMMA OpeningFits ==
  ASSUME World, Typed, Nested, Opened, Handed, Open
  PROVE  Opened' /\ Handed'
<1>1. PICK j \in Levels \ {1} :
        /\ at = j /\ ret = "row" /\ open[j] # TRUE
        /\ UNCHANGED <<world, row>>
        /\ \/ /\ Mark(ParentRow(j)) = "none" /\ Continue
              /\ open' = [open EXCEPT ![j] = TRUE]
              /\ cursor' = [cursor EXCEPT ![j] = 0]
           \/ /\ UNCHANGED <<open, cursor>>
              /\ Continue \/ Crashes \/ (Returns /\ ret' = "error")
  BY Opens
<1>2. /\ Levels' = Levels /\ Engine' = Engine
      /\ Levels = 1..Depth(plan) /\ Depth(plan) \in Nat /\ Engine = Depth(plan) + 1
  BY <1>1, WorldStays, LevelsAre
<1>3. CASE UNCHANGED <<open, cursor>>
  <2>1. ret' = "row" => ret = "row" /\ at' = at
    BY <1>1 DEF Continue, Crashes
  <2> QED
    BY <1>1, <1>3, <2>1, NoNewRow
<1>4. CASE /\ Mark(ParentRow(j)) = "none" /\ Continue
           /\ open' = [open EXCEPT ![j] = TRUE]
           /\ cursor' = [cursor EXCEPT ![j] = 0]
  <2>1. DOMAIN open = Levels /\ DOMAIN cursor = Levels
    BY DEF Typed
  <2>2. Opened'
    <3> SUFFICES ASSUME NEW l \in Levels, open'[l] = TRUE
                 PROVE  Fits(l)' /\ Mark(ParentRow(l))' = "none"
      BY <1>2 DEF Opened
    <3>1. l \in Nat /\ l > 0 /\ j \in Nat /\ j \in 2..Engine
      BY <1>2
    <3>2. Fits(l) /\ Mark(ParentRow(l)) = "none"
      <4>1. CASE l = j
        BY <1>1, <1>4, <3>1, <4>1 DEF Handed
      <4>2. CASE l # j
        <5>1. open[l] = TRUE
          BY <1>4, <2>1, <4>2
        <5> QED
          BY <5>1 DEF Opened
      <4> QED
        BY <4>1, <4>2
    <3>3. ~(j < l)
      <4>1. CASE l = j
        BY <3>1, <4>1
      <4>2. CASE l # j
        <5>1. open[l] = TRUE
          BY <1>4, <2>1, <4>2
        <5> QED
          BY <1>1, <5>1 DEF Nested
      <4> QED
        BY <4>1, <4>2
    <3>4. \A i \in 1..(l - 1) : row'[i] = row[i] /\ cursor'[i] = cursor[i]
      <4> TAKE i \in 1..(l - 1)
      <4>1. i # j
        BY <3>1, <3>3
      <4> QED
        BY <1>1, <1>4, <4>1
    <3> QED
      BY <1>1, <3>1, <3>2, <3>4, FitsStay
  <2>3. Handed'
    BY <1>4 DEF Continue, Handed
  <2> QED
    BY <2>2, <2>3
<1> QED
  BY <1>1, <1>3, <1>4

(* Every step keeps what is known of the rows that are read for. *)
LEMMA FitsStep ==
  ASSUME World, Typed, Nested, Opened, Handed, [Next]_vars
  PROVE  Opened' /\ Handed'
<1>1. UNCHANGED world /\ 1 \in Levels /\ DOMAIN open = Levels
  BY Typing, LevelsAre DEF Typed
<1>2. CASE PartitionRows
  <2>1. /\ ret' = "none" /\ UNCHANGED <<cursor, row>>
        /\ open' = open \/ open' = [open EXCEPT ![1] = (Mark(<<>>) = "none")]
    BY <1>2, Partitions
  <2>2. Handed'
    BY <2>1 DEF Handed
  <2>3. Opened'
    <3>1. Levels' = Levels /\ Levels = 1..Depth(plan) /\ Depth(plan) \in Nat
      BY <1>1, WorldStays, LevelsAre
    <3> SUFFICES ASSUME NEW l \in Levels, open'[l] = TRUE
                 PROVE  Fits(l)' /\ Mark(ParentRow(l))' = "none"
      BY <3>1 DEF Opened
    <3>2. Fits(l) /\ Mark(ParentRow(l)) = "none"
      <4>1. CASE open[l] = TRUE
        BY <4>1 DEF Opened
      <4>2. CASE open[l] # TRUE
        <5>1. l = 1 /\ Mark(<<>>) = "none"
          BY <1>1, <2>1, <4>2
        <5>2. ParentRow(l) = <<>> /\ <<>> \in Rows(plan, 0) /\ l - 1 = 0
          BY <5>1, NoLevels DEF ParentRow
        <5>3. Reached(<<>>)
          BY DEF Reached
        <5>4. Follows(l)
          BY <5>1 DEF Follows
        <5> QED
          BY <5>1, <5>2, <5>3, <5>4 DEF Fits
      <4> QED
        BY <4>1, <4>2
    <3>3. l \in Nat /\ l > 0
      BY <3>1
    <3> QED
      BY <1>1, <2>1, <3>2, <3>3, FitsStay
  <2> QED
    BY <2>2, <2>3
<1>3. CASE Exhausted
  <2>1. PICK l \in Levels : open' = [open EXCEPT ![l] = FALSE]
    BY <1>3 DEF Exhausted
  <2>2. \A k \in Levels : open'[k] = TRUE => open[k] = TRUE
    BY <1>1, <2>1
  <2>3. UNCHANGED <<at, ret, cursor, row>>
    BY <1>3 DEF Exhausted
  <2> QED
    BY <1>1, <2>2, <2>3, NoNewRow
<1>4. CASE Deliver
  <2>1. UNCHANGED <<open, cursor, row>> /\ ret' = "none"
    BY <1>4 DEF Deliver, iters
  <2> QED
    BY <1>1, <2>1, NoNewRow
<1>5. CASE Quiet
  <2>1. UNCHANGED <<open, cursor, row>> /\ (ret' = "row" => ret = "row" /\ at' = at)
    BY <1>5 DEF Quiet
  <2> QED
    BY <1>1, <2>1, NoNewRow
<1> QED
  BY <1>2, <1>3, <1>4, <1>5, Kinds, OpeningFits, ReadingFits

-----------------------------------------------------------------------------
(* The rows that are pending. *)

(* What may be said of a row once the chain has done with it. *)
DoneWith(r) ==
  Mark(r) \in {"unread", "lost", "noopen"} => skip = TRUE \/ ret = "error"

(* The facts about a row that the lemmas below need. *)
LEMMA RowFacts ==
  ASSUME World, NEW k \in Levels, NEW r \in Rows(plan, k)
  PROVE  /\ Depth(plan) \in Nat \ {0} /\ Levels = 1..Depth(plan) /\ Engine = Depth(plan) + 1
         /\ k \in Nat \ {0} /\ Len(r) = k
         /\ \A i \in 1..k : i \in Levels /\ r[i] \in Items(plan, i) /\ r[i] \in Nat /\ r[i] > 0
         /\ SubSeq(r, 1, k) = r /\ SubSeq(r, 1, 0) = <<>>
<1>1. Depth(plan) \in Nat \ {0} /\ Levels = 1..Depth(plan) /\ Engine = Depth(plan) + 1
  BY LevelsAre
<1>2. k \in Nat \ {0} /\ \A i \in 1..k : i \in Levels
  BY <1>1
<1>3. Len(r) = k /\ \A i \in 1..k : r[i] \in Items(plan, i) /\ r[i] \in Nat /\ r[i] > 0
  BY <1>2, RowsAreSequences
<1>4. SubSeq(r, 1, k) = r /\ SubSeq(r, 1, 0) = <<>>
  BY <1>2, Prefixes
<1> QED
  BY <1>1, <1>2, <1>3, <1>4

(* A quiet step changes nothing. *)
LEMMA QuietPending ==
  ASSUME Quiet, NEW r
  PROVE  Pending(r)' <=> Pending(r)
<1>1. \A i : Ahead(r, i)' <=> Ahead(r, i)
  BY DEF Quiet, Ahead, ParentRow
<1>2. \A l : InHand(r, l)' <=> InHand(r, l)
  <2> TAKE l
  <2>1. ParentRow(l)' = ParentRow(l)
    BY DEF Quiet, ParentRow
  <2> QED
    BY <2>1 DEF Quiet, InHand
<1>3. (at' = 0 /\ status' = "run") <=> (at = 0 /\ status = "run")
  BY DEF Quiet
<1> QED
  BY <1>1, <1>2, <1>3 DEF Pending

(* Opening the repository makes every row pending that the join comes to. *)
LEMMA PartitionPending ==
  ASSUME World, Typed, Nested, PartitionRows,
         NEW k \in Levels, NEW r \in Rows(plan, k), Reached(r)
  PROVE  Pending(r) /\ Pending(r)'
<1>1. /\ k \in Nat \ {0} /\ Len(r) = k /\ 1 \in 1..Len(r) /\ 1 \in Levels
      /\ r[1] \in Nat /\ r[1] > 0 /\ SubSeq(r, 1, 0) = <<>>
  BY RowFacts, LevelsAre
<1>2. Mark(<<>>) = "none"
  <2>1. 0 \in 0..(Len(r) - 1)
    BY <1>1
  <2>2. Mark(SubSeq(r, 1, 0)) = "none"
    BY <2>1 DEF Reached
  <2> QED
    BY <1>1, <2>2, Zenon
<1>3. open' = [open EXCEPT ![1] = (Mark(<<>>) = "none")] /\ cursor'[1] = 0
  BY <1>2, Partitions
<1>4. open'[1] = TRUE
  BY <1>1, <1>2, <1>3 DEF Typed
<1>5. Ahead(r, 1)'
  BY <1>1, <1>3, <1>4 DEF Ahead, ParentRow
<1>6. Pending(r)
  BY Partitions DEF Pending
<1> QED
  BY <1>1, <1>5, <1>6 DEF Pending

(* Exhausting an inner iterator changes nothing. *)
LEMMA ExhaustedPending ==
  ASSUME World, Typed, Exhausted, NEW k \in Levels, NEW r \in Rows(plan, k)
  PROVE  Pending(r)' <=> Pending(r)
<1>1. PICK l \in Levels : open' = [open EXCEPT ![l] = FALSE] /\ cursor[l] + 1 \notin Items(plan, l)
  BY DEF Exhausted
<1>2. UNCHANGED <<status, at, ret, cursor, row>> /\ DOMAIN open = Levels /\ cursor[l] \in Nat
  BY DEF Exhausted, Typed
<1>3. \A i \in 1..k : i \in Levels /\ r[i] \in Items(plan, i)
  BY RowFacts
<1>4. Len(r) = k
  BY RowFacts
<1>5. \A i \in 1..k : Ahead(r, i)' <=> Ahead(r, i)
  <2> TAKE i \in 1..k
  <2>1. CASE i # l
    BY <1>1, <1>2, <1>3, <2>1 DEF Ahead, ParentRow
  <2>2. CASE i = l
    <3>1. ~(cursor[l] < r[l])
      BY <1>1, <1>2, <1>3, <2>2, ItemsAreNumbered
    <3> QED
      BY <1>2, <2>2, <3>1 DEF Ahead
  <2> QED
    BY <2>1, <2>2
<1>6. \A j : InHand(r, j)' <=> InHand(r, j)
  <2> TAKE j
  <2>1. ParentRow(j)' = ParentRow(j)
    BY <1>2 DEF ParentRow
  <2> QED
    BY <1>2, <2>1 DEF InHand
<1> QED
  BY <1>2, <1>4, <1>5, <1>6 DEF Pending

(* Giving a row to the engine does with that row and no other. *)
LEMMA DeliverPending ==
  ASSUME World, Typed, Nested, Handed, Deliver, ret = "row",
         NEW k \in Levels, NEW r \in Rows(plan, k)
  PROVE  /\ Pending(r)' => Pending(r)
         /\ Pending(r)' => r # row[Depth(plan)]
         /\ Pending(r) /\ ~Pending(r)' => k = Depth(plan) /\ r = row[Depth(plan)]
<1>1. /\ Depth(plan) \in Nat \ {0} /\ Engine = Depth(plan) + 1 /\ Levels = 1..Depth(plan)
      /\ k \in Nat \ {0} /\ Len(r) = k /\ SubSeq(r, 1, k) = r
      /\ \A i \in 1..k : r[i] \in Nat /\ i \in Levels
  BY RowFacts
<1>2. at = Engine /\ at' = at /\ ret' = "none" /\ UNCHANGED <<open, cursor, row>>
  BY DEF Deliver, iters
<1>3. \A i : Ahead(r, i)' <=> Ahead(r, i)
  BY <1>2 DEF Ahead, ParentRow
<1>4. (at # 0 /\ at' # 0) /\ \A l : ~InHand(r, l)'
  BY <1>1, <1>2 DEF InHand
<1>5. PICK e \in Nat : e = Engine
  BY <1>1
<1>6. ParentRow(e) = row[Depth(plan)]
  BY <1>1, <1>5 DEF ParentRow
<1>7. Pending(r)' => r # row[Depth(plan)]
  <2> SUFFICES ASSUME r = row[Depth(plan)], NEW i \in 1..Len(r), Ahead(r, i) PROVE FALSE
    BY <1>3, <1>4 DEF Pending
  <2>1. Follows(e)
    BY <1>1, <1>2, <1>5 DEF Handed, Fits
  <2>2. k <= Depth(plan) /\ i \in 1..(e - 1)
    BY <1>1, <1>5
  <2>3. r[i] = cursor[i]
    BY <1>6, <2>1, <2>2 DEF Follows
  <2>4. cursor[i] < r[i] /\ r[i] \in Nat
    BY <1>1 DEF Ahead
  <2> QED
    BY <2>3, <2>4
<1>8. ASSUME NEW l \in 2..(Len(r) + 1), InHand(r, l) PROVE k = Depth(plan) /\ r = row[Depth(plan)]
  <2>1. l = e
    BY <1>2, <1>5, <1>8 DEF InHand
  <2>2. k = Depth(plan)
    BY <1>1, <1>5, <2>1
  <2>3. l - 1 = k
    BY <1>1, <1>5, <2>1, <2>2
  <2>4. SubSeq(r, 1, k) = ParentRow(e)
    BY <1>8, <2>1, <2>3 DEF InHand
  <2> QED
    BY <1>1, <1>6, <2>2, <2>4
<1> QED
  BY <1>3, <1>4, <1>7, <1>8 DEF Pending

(* Opening an inner iterator does at most with the row it is opened for. *)
LEMMA OpenPending ==
  ASSUME World, Typed, Nested, Handed, Open,
         NEW k \in Levels, NEW r \in Rows(plan, k), Reached(r)
  PROVE  /\ Pending(r)' => Pending(r)
         /\ Pending(r) /\ ~Pending(r)' => k < Depth(plan) /\ (Alive' => DoneWith(r)')
<1>1. PICK j \in Levels \ {1} :
        /\ at = j /\ ret = "row" /\ open[j] # TRUE
        /\ UNCHANGED <<world, row>>
        /\ \/ /\ Mark(ParentRow(j)) = "none" /\ Continue
              /\ open' = [open EXCEPT ![j] = TRUE]
              /\ cursor' = [cursor EXCEPT ![j] = 0]
           \/ /\ Mark(ParentRow(j)) = "nocommit" /\ Continue
              /\ UNCHANGED <<open, cursor>>
           \/ /\ Mark(ParentRow(j)) = "noopen"
              /\ UNCHANGED <<open, cursor>>
              /\ (Continue /\ skip = TRUE) \/ Crashes \/ (Returns /\ ret' = "error")
  BY Opens
<1>2. /\ Depth(plan) \in Nat \ {0} /\ Levels = 1..Depth(plan)
      /\ k \in Nat \ {0} /\ Len(r) = k /\ SubSeq(r, 1, k) = r
  BY RowFacts
<1>3. \A i \in 1..k : i \in Levels /\ r[i] \in Nat /\ r[i] > 0
  BY RowFacts
<1>4. j \in Nat /\ j >= 2 /\ j <= Depth(plan) /\ DOMAIN open = Levels /\ DOMAIN cursor = Levels
  BY <1>2 DEF Typed
<1>5. \A i : ParentRow(i)' = ParentRow(i)
  BY <1>1 DEF ParentRow
<1>6. at # 0 /\ at' # 0
  <2>1. at' = j \/ at' = j + 1
    BY <1>1 DEF Continue, Crashes, Returns
  <2> QED
    BY <1>1, <1>4, <2>1
<1>7. \A i \in 1..k : i # j => (Ahead(r, i)' <=> Ahead(r, i))
  <2> TAKE i \in 1..k
  <2> SUFFICES ASSUME i # j PROVE Ahead(r, i)' <=> Ahead(r, i)
    OBVIOUS
  <2>1. open'[i] = open[i] /\ cursor'[i] = cursor[i]
    BY <1>1, <1>3, <1>4
  <2> QED
    BY <1>5, <2>1 DEF Ahead
<1>8. \A i : InHand(r, i)' => InHand(r, i)
  <2> TAKE i
  <2>1. ret' = "row" => at' = at
    BY <1>1 DEF Continue, Crashes
  <2> QED
    BY <1>1, <1>5, <2>1 DEF InHand
<1>9. ~Ahead(r, j)
  BY <1>1 DEF Ahead
<1>10. ASSUME NEW l \in 2..(Len(r) + 1), InHand(r, l)
       PROVE  l = j /\ SubSeq(r, 1, j - 1) = ParentRow(j)
  BY <1>1, <1>10 DEF InHand
<1>11. ASSUME Pending(r)' PROVE Pending(r)
  <2>1. CASE \E i \in 1..k : i # j /\ Ahead(r, i)'
    BY <1>2, <1>7, <2>1 DEF Pending
  <2>2. CASE j \in 1..k /\ Ahead(r, j)'
    <3>1. InHand(r, j)
      BY <1>1, <1>5, <2>2 DEF InHand, Ahead
    <3>2. j \in 2..(Len(r) + 1)
      BY <1>2, <1>4, <2>2
    <3> QED
      BY <3>1, <3>2 DEF Pending
  <2>3. CASE \E l \in 2..(Len(r) + 1) : InHand(r, l)'
    BY <1>8, <2>3 DEF Pending
  <2>4. \/ \E i \in 1..k : Ahead(r, i)'
        \/ \E l \in 2..(Len(r) + 1) : InHand(r, l)'
    BY <1>2, <1>6, <1>11 DEF Pending
  <2> QED
    BY <2>1, <2>2, <2>3, <2>4
<1>12. ASSUME Pending(r), ~Pending(r)' PROVE k < Depth(plan) /\ (Alive' => DoneWith(r)')
  <2>1. \A i \in 1..k : ~Ahead(r, i)
    BY <1>2, <1>7, <1>9, <1>12 DEF Pending
  <2>2. j \in 2..(Len(r) + 1) /\ SubSeq(r, 1, j - 1) = ParentRow(j)
    BY <1>2, <1>6, <1>10, <1>12, <2>1 DEF Pending
  <2>3. ~(j <= k)
    <3> SUFFICES ASSUME j <= k PROVE FALSE
      OBVIOUS
    <3>1. j - 1 \in 0..(Len(r) - 1) /\ j \in 1..k
      BY <1>2, <1>4
    <3>2. Mark(ParentRow(j)) = "none"
      BY <2>2, <3>1 DEF Reached
    <3>3. open' = [open EXCEPT ![j] = TRUE] /\ cursor' = [cursor EXCEPT ![j] = 0]
      BY <1>1, <3>2
    <3>4. open'[j] = TRUE /\ cursor'[j] = 0
      BY <1>4, <3>3
    <3>5. Ahead(r, j)'
      BY <1>3, <1>5, <2>2, <3>1, <3>4 DEF Ahead
    <3> QED
      BY <1>2, <1>12, <3>1, <3>5 DEF Pending
  <2>4. k = j - 1
    BY <1>2, <1>4, <2>2, <2>3
  <2>5. r = ParentRow(j) /\ k < Depth(plan)
    BY <1>2, <1>4, <2>2, <2>4
  <2>6. Alive' => DoneWith(r)'
    <3>1. Mark(r)' = Mark(ParentRow(j)) /\ skip' = skip
      BY <1>1, <2>5, WorldStays DEF world
    <3> QED
      BY <1>1, <3>1 DEF DoneWith, Alive, Crashes
  <2> QED
    BY <2>5, <2>6
<1> QED
  BY <1>11, <1>12

(* Reading an item does at most with the row it makes. *)
LEMMA ReadPending ==
  ASSUME World, Typed, Nested, Opened, ReadItem,
         NEW k \in Levels, NEW r \in Rows(plan, k), Reached(r)
  PROVE  /\ Pending(r)' => Pending(r)
         /\ Pending(r) /\ ~Pending(r)' => Mark(r) # "none" /\ (Alive' => DoneWith(r)')
<1>1. PICK l \in Levels :
        /\ at = l /\ ret = "none" /\ open[l] = TRUE
        /\ cursor[l] + 1 \in Items(plan, l)
        /\ cursor' = [cursor EXCEPT ![l] = cursor[l] + 1]
        /\ open' = [open EXCEPT ![l] = Iter(l).many \/ l = 1]
        /\ row' = [row EXCEPT ![l] = IF Mark(NewRow(l)) \in {"unread", "lost", "passed"}
                                       THEN row[l] ELSE NewRow(l)]
        /\ UNCHANGED world
        /\ Returns \/ Continue \/ Crashes
        /\ Crashes => Mark(NewRow(l)) \in {"unread", "lost"}
        /\ Returns /\ ret' = "row" <=> Mark(NewRow(l)) \in {"none", "noopen", "nocommit"}
        /\ Returns /\ ret' # "row" => ret' = "error"
        /\ Continue => Mark(NewRow(l)) \in {"passed", "dropped"} \/ skip = TRUE
  BY Reads
<1>2. /\ Depth(plan) \in Nat \ {0} /\ Levels = 1..Depth(plan)
      /\ k \in Nat \ {0} /\ Len(r) = k /\ SubSeq(r, 1, k) = r
  BY RowFacts
<1>3. \A i \in 1..k : i \in Levels /\ r[i] \in Items(plan, i) /\ r[i] \in Nat /\ r[i] > 0
  BY RowFacts
<1>4. /\ l \in Nat \ {0} /\ l <= Depth(plan) /\ cursor[l] \in Nat
      /\ DOMAIN open = Levels /\ DOMAIN cursor = Levels /\ DOMAIN row = Levels
  <2>1. l \in Nat \ {0} /\ l <= Depth(plan)
    BY <1>2
  <2>2. cursor[l] \in Nat /\ DOMAIN open = Levels /\ DOMAIN cursor = Levels /\ DOMAIN row = Levels
    BY DEF Typed
  <2> QED
    BY <2>1, <2>2
<1>5. PICK q \in Rows(plan, l) : q = NewRow(l)
  BY <1>1, ItemsMakeRows
<1>6. q[l] = cursor[l] + 1 /\ SubSeq(q, 1, l - 1) = ParentRow(l)
  BY <1>1, <1>5, ItemsMakeRows
<1>7. \A i \in 1..l : ParentRow(i)' = ParentRow(i)
  <2> TAKE i \in 1..l
  <2>1. i # 1 => i - 1 \in Levels /\ i - 1 # l
    BY <1>2, <1>4
  <2> QED
    BY <1>1, <1>4, <2>1 DEF ParentRow
<1>8. PICK l1 \in Nat : l1 = l + 1
  BY <1>4
<1>9. ret' = "row" => at' = l1 /\ ParentRow(l1)' = q /\ Mark(q) \in {"none", "noopen", "nocommit"}
  <2> SUFFICES ASSUME ret' = "row"
               PROVE  at' = l1 /\ ParentRow(l1)' = q /\ Mark(q) \in {"none", "noopen", "nocommit"}
    OBVIOUS
  <2>1. Returns
    BY <1>1 DEF Continue, Crashes
  <2>2. Mark(q) \in {"none", "noopen", "nocommit"}
    BY <1>1, <1>5, <2>1
  <2>3. row' = [row EXCEPT ![l] = NewRow(l)]
    BY <1>1, <1>5, <2>2
  <2>4. ParentRow(l1)' = NewRow(l)
    BY <1>1, <1>8, <2>3, ReadRowFits
  <2> QED
    BY <1>1, <1>5, <1>8, <2>1, <2>2, <2>4 DEF Returns
<1>10. at # 0 /\ at' # 0
  <2>1. at' = l \/ at' = l + 1
    BY <1>1 DEF Continue, Crashes, Returns
  <2> QED
    BY <1>1, <1>4, <2>1
<1>11. \A i : ~InHand(r, i)
  BY <1>1 DEF InHand
<1>12. \A i \in 1..k : i # l => (Ahead(r, i)' <=> Ahead(r, i))
  <2> TAKE i \in 1..k
  <2> SUFFICES ASSUME i # l PROVE Ahead(r, i)' <=> Ahead(r, i)
    OBVIOUS
  <2>1. open'[i] = open[i] /\ cursor'[i] = cursor[i]
    BY <1>1, <1>3, <1>4
  <2>2. CASE l < i
    <3>1. open[i] # TRUE
      BY <1>1, <1>3, <2>2 DEF Nested
    <3> QED
      BY <2>1, <3>1 DEF Ahead
  <2>3. CASE i \in 1..l
    <3>1. ParentRow(i)' = ParentRow(i)
      BY <1>7, <2>3
    <3> QED
      BY <2>1, <3>1 DEF Ahead
  <2> QED
    BY <1>2, <1>4, <2>2, <2>3
<1>13. l \in 1..k /\ SubSeq(r, 1, l) = q => Ahead(r, l)
  <2> SUFFICES ASSUME l \in 1..k, SubSeq(r, 1, l) = q PROVE Ahead(r, l)
    OBVIOUS
  <2>1. /\ SubSeq(r, 1, l)[l] = r[l]
        /\ SubSeq(SubSeq(r, 1, l), 1, l - 1) = SubSeq(r, 1, l - 1)
    BY <1>2, <1>4, Prefixes
  <2>2. r[l] = cursor[l] + 1 /\ SubSeq(r, 1, l - 1) = ParentRow(l)
    BY <1>6, <2>1
  <2> QED
    BY <1>1, <1>4, <2>2 DEF Ahead
<1>14. ASSUME Pending(r)' PROVE Pending(r)
  <2>1. CASE \E i \in 1..k : i # l /\ Ahead(r, i)'
    BY <1>2, <1>12, <2>1 DEF Pending
  <2>2. CASE l \in 1..k /\ Ahead(r, l)'
    <3>1. ParentRow(l)' = ParentRow(l) /\ cursor'[l] = cursor[l] + 1 /\ r[l] \in Nat
      BY <1>1, <1>3, <1>4, <1>7, <2>2
    <3>2. Ahead(r, l)
      BY <1>1, <1>4, <2>2, <3>1 DEF Ahead
    <3> QED
      BY <1>2, <2>2, <3>2 DEF Pending
  <2>3. CASE \E i \in 2..(Len(r) + 1) : InHand(r, i)'
    <3>1. l1 \in 2..(k + 1) /\ InHand(r, l1)'
      BY <1>2, <1>9, <2>3 DEF InHand
    <3>2. l \in 1..k /\ l1 - 1 = l
      BY <1>2, <1>4, <1>8, <3>1
    <3>3. SubSeq(r, 1, l) = q
      BY <1>9, <3>1, <3>2 DEF InHand
    <3> QED
      BY <1>2, <1>13, <3>2, <3>3 DEF Pending
  <2>4. \/ \E i \in 1..k : Ahead(r, i)'
        \/ \E i \in 2..(Len(r) + 1) : InHand(r, i)'
    BY <1>2, <1>10, <1>14 DEF Pending
  <2> QED
    BY <2>1, <2>2, <2>3, <2>4
<1>15. ASSUME Pending(r), ~Pending(r)' PROVE Mark(r) # "none" /\ (Alive' => DoneWith(r)')
  <2>1. l \in 1..k /\ Ahead(r, l)
    <3>1. \A i \in 1..k : i # l => ~Ahead(r, i)
      BY <1>2, <1>12, <1>15 DEF Pending
    <3> QED
      BY <1>2, <1>10, <1>11, <1>15, <3>1 DEF Pending
  <2>2. cursor'[l] = cursor[l] + 1 /\ ParentRow(l)' = ParentRow(l) /\ r[l] \in Nat /\ r[l] \in Items(plan, l)
    BY <1>1, <1>3, <1>4, <1>7, <2>1
  <2>3. r[l] = cursor[l] + 1
    <3> SUFFICES ASSUME r[l] # cursor[l] + 1 PROVE FALSE
      OBVIOUS
    <3>1. cursor[l] + 1 < r[l]
      BY <1>4, <2>1, <2>2 DEF Ahead
    <3>2. Iter(l).many
      <4>1. r[l] # 1
        BY <1>4, <3>1
      <4> QED
        BY <2>2, <4>1, ItemsAreNumbered DEF Iter
    <3>3. open'[l] = TRUE
      BY <1>1, <1>4, <3>2
    <3>4. Ahead(r, l)'
      BY <2>1, <2>2, <3>1, <3>3 DEF Ahead
    <3> QED
      BY <1>2, <1>15, <2>1, <3>4 DEF Pending
  <2>4. SubSeq(r, 1, l) = q
    <3>1. PICK s : s = SubSeq(r, 1, l)
      OBVIOUS
    <3>2. l \in 0..k /\ l - 1 \in 0..l /\ l \in 1..l
      BY <1>2, <1>4, <2>1
    <3>3. SubSeq(r, 1, l) \in Rows(plan, l) /\ SubSeq(r, 1, l)[l] = r[l]
      BY <1>2, <3>2, Prefixes
    <3>4. SubSeq(SubSeq(r, 1, l), 1, l - 1) = SubSeq(r, 1, l - 1)
      BY <1>2, <3>2, Prefixes
    <3>5. s[l] = q[l] /\ SubSeq(s, 1, l - 1) = SubSeq(q, 1, l - 1)
      BY <1>6, <2>1, <2>3, <3>1, <3>3, <3>4 DEF Ahead
    <3>6. s = q
      BY <1>4, <3>1, <3>3, <3>5, SameRow
    <3> QED
      BY <3>1, <3>6
  <2>5. ret' # "row"
    <3> SUFFICES ASSUME ret' = "row" PROVE FALSE
      OBVIOUS
    <3>1. l1 \in 2..(Len(r) + 1) /\ l1 - 1 = l
      BY <1>2, <1>4, <1>8, <2>1
    <3>2. InHand(r, l1)'
      BY <1>9, <2>4, <3>1 DEF InHand
    <3> QED
      BY <1>15, <3>1, <3>2 DEF Pending
  <2>6. Mark(q) \notin {"none", "noopen", "nocommit"}
    BY <1>1, <1>5, <2>5
  <2>7. r = q
    <3>1. CASE l = k
      BY <1>2, <2>4, <3>1
    <3>2. CASE l # k
      <4>1. l \in 0..(Len(r) - 1)
        BY <1>2, <1>4, <2>1, <3>2
      <4>2. Mark(q) = "none"
        BY <2>4, <4>1 DEF Reached
      <4> QED
        BY <2>6, <4>2
    <3> QED
      BY <3>1, <3>2
  <2>8. Alive' => DoneWith(r)'
    <3>1. Mark(r)' = Mark(q) /\ skip' = skip
      BY <1>1, <2>7, WorldStays DEF world
    <3> QED
      BY <1>1, <1>5, <2>5, <3>1 DEF DoneWith, Alive, Crashes
  <2> QED
    BY <2>6, <2>7, <2>8
<1> QED
  BY <1>14, <1>15

(* A row of the join is one of the last level that the join comes to. *)
LEMMA JoinedRows ==
  ASSUME World
  PROVE  /\ Depth(plan) \in Levels
         /\ \A r : r \in Joined <=> r \in Rows(plan, Depth(plan)) /\ Reached(r) /\ Mark(r) = "none"
<1>1. Depth(plan) \in Nat \ {0} /\ Depth(plan) \in Levels
  BY LevelsAre
<1>2. ASSUME NEW r \in Rows(plan, Depth(plan))
      PROVE  (\A l \in 0..Depth(plan) : Mark(SubSeq(r, 1, l)) = "none") <=> Reached(r) /\ Mark(r) = "none"
  <2>1. Len(r) = Depth(plan) /\ SubSeq(r, 1, Depth(plan)) = r
    BY <1>1, RowFacts
  <2>2. \A l \in 0..Depth(plan) : l = Depth(plan) \/ l \in 0..(Len(r) - 1)
    BY <1>1, <2>1
  <2>3. \A l \in 0..(Len(r) - 1) : l \in 0..Depth(plan)
    BY <1>1, <2>1
  <2>4. Depth(plan) \in 0..Depth(plan)
    BY <1>1
  <2> QED
    BY <2>1, <2>2, <2>3, <2>4 DEF Reached
<1> QED
  BY <1>1, <1>2 DEF Joined

(* The chain does with a row once, and gives it to the engine if it is one of
   the join. *)
LEMMA Passing ==
  ASSUME World, Typed, Nested, Opened, Handed, [Next]_vars,
         NEW k \in Levels, NEW r \in Rows(plan, k), Reached(r)
  PROVE  /\ Pending(r)' => Pending(r)
         /\ Pending(r) /\ ~Pending(r)' /\ Alive' => DoneWith(r)'
         /\ Pending(r) /\ ~Pending(r)' =>
              k < Depth(plan) \/ Mark(r) # "none" \/ (Deliver /\ ret = "row" /\ r = row[Depth(plan)])
<1>1. CASE PartitionRows
  BY <1>1, PartitionPending
<1>2. CASE Open
  BY <1>2, OpenPending
<1>3. CASE ReadItem
  BY <1>3, ReadPending
<1>4. CASE Exhausted
  BY <1>4, ExhaustedPending
<1>5. CASE Deliver /\ ret = "row"
  <2>1. /\ Pending(r)' => Pending(r)
        /\ Pending(r) /\ ~Pending(r)' => k = Depth(plan) /\ r = row[Depth(plan)]
    BY <1>5, DeliverPending
  <2>2. ASSUME k = Depth(plan), r = row[Depth(plan)] PROVE DoneWith(r)'
    <3>1. PICK e \in Nat : e = Engine /\ e \in 2..Engine /\ e # 1 /\ e - 1 = Depth(plan)
      BY LevelsAre
    <3>2. ParentRow(e) = r
      BY <2>2, <3>1 DEF ParentRow
    <3>3. at = e
      BY <1>5, <3>1 DEF Deliver
    <3>4. Mark(r) \in {"none", "noopen", "nocommit"}
      BY <1>5, <3>1, <3>2, <3>3 DEF Handed
    <3>5. Mark(r) \notin {"noopen", "nocommit"}
      BY <2>2 DEF World
    <3>6. Mark(r)' = Mark(r)
      BY Typing, WorldStays
    <3> QED
      BY <3>4, <3>5, <3>6 DEF DoneWith
  <2> QED
    BY <1>5, <2>1, <2>2
<1>6. CASE Quiet
  BY <1>6, QuietPending
<1> QED
  BY <1>1, <1>2, <1>3, <1>4, <1>5, <1>6, Kinds

(* The rows given grow by the row that is delivered. *)
LEMMA Giving ==
  ASSUME World, Typed, Nested, Opened, Handed, [Next]_vars
  PROVE  /\ Deliver /\ ret = "row" => Promise!Given' = Promise!Given \union {row[Depth(plan)]}
         /\ ~(Deliver /\ ret = "row") => out' = out /\ Promise!Given' = Promise!Given
<1>1. CASE Deliver /\ ret = "row"
  <2>1. out' = Append(out, row[Depth(plan)]) /\ out \in Seq(Seq(Nat)) /\ row[Depth(plan)] \in Seq(Nat)
    BY <1>1, LevelsAre DEF Deliver, Typed
  <2>2. PICK x \in Seq(Nat) : x = row[Depth(plan)]
    BY <2>1
  <2>3. /\ Len(out) \in Nat /\ DOMAIN out = 1..Len(out) /\ DOMAIN out' = 1..(Len(out) + 1)
        /\ \A i \in 1..Len(out) : out'[i] = out[i]
        /\ out'[Len(out) + 1] = x
    BY <2>1, <2>2
  <2>4. Promise!Given' = Promise!Given \union {x}
    BY <2>3 DEF Promise!Given
  <2> QED
    BY <1>1, <2>2, <2>4
<1>2. CASE ~(Deliver /\ ret = "row")
  <2>1. out' = out
    BY <1>2, Kinds, Partitions, Opens, Reads DEF Exhausted, Quiet
  <2> QED
    BY <1>2, <2>1 DEF Promise!Given
<1> QED
  BY <1>1, <1>2

(* A query that has ended stays so. *)
LEMMA EndsAreFinal ==
  ASSUME [Next]_vars
  PROVE  status' = status \/ status = "run" \/ status' = "closed"
  BY DEF Next, Step, PartitionRows, AskParent, Open, ParentEnds, Poll, ReadItem,
         Exhausted, FirstEnds, Deliver, Cancel, Close, vars, Running, Reading

(* Every step keeps the account of the rows of the join. *)
LEMMA AccountStep ==
  ASSUME World, Typed, Nested, Opened, Handed, Delivered, GivenOnce, Examined, [Next]_vars
  PROVE  Delivered' /\ GivenOnce' /\ Examined'
<1>1. /\ UNCHANGED world /\ Levels' = Levels /\ Joined' = Joined
      /\ \A r : Mark(r)' = Mark(r) /\ Reached(r)' = Reached(r)
  BY Typing, WorldStays
<1>2. /\ Depth(plan) \in Levels /\ Depth(plan) \in Nat
      /\ \A r \in Joined : r \in Rows(plan, Depth(plan)) /\ Reached(r) /\ Mark(r) = "none"
  BY JoinedRows, LevelsAre
<1>3. Alive' => Alive
  BY EndsAreFinal DEF Alive
<1>4. Delivered'
  <2> SUFFICES ASSUME Alive', NEW r \in Joined PROVE r \in Promise!Given' \/ Pending(r)'
    BY <1>1 DEF Delivered
  <2>1. r \in Promise!Given \/ Pending(r)
    BY <1>3 DEF Delivered
  <2>2. r \in Promise!Given => r \in Promise!Given'
    BY Giving
  <2>3. Pending(r) /\ ~Pending(r)' => r \in Promise!Given'
    <3>1. ~(Depth(plan) < Depth(plan))
      BY <1>2
    <3>2. Pending(r) /\ ~Pending(r)' => Deliver /\ ret = "row" /\ r = row[Depth(plan)]
      BY <1>2, <3>1, Passing
    <3> QED
      BY <3>2, Giving
  <2> QED
    BY <2>1, <2>2, <2>3
<1>5. GivenOnce'
  <2> SUFFICES ASSUME NEW r \in Joined, Pending(r)' PROVE r \notin Promise!Given'
    BY <1>1 DEF GivenOnce
  <2>1. Pending(r)
    BY <1>2, Passing
  <2>2. r \notin Promise!Given
    BY <2>1 DEF GivenOnce
  <2>3. Deliver /\ ret = "row" => r # row[Depth(plan)]
    BY <1>2, DeliverPending
  <2> QED
    BY <2>2, <2>3, Giving
<1>6. Examined'
  <2> SUFFICES ASSUME Alive', skip # TRUE, ret' # "error",
                      NEW k \in Levels, NEW r \in Rows(plan, k), Reached(r), ~Pending(r)'
               PROVE  Mark(r) \notin {"unread", "lost", "noopen"}
    BY <1>1 DEF Examined, world, Rows, Items
  <2>1. CASE Pending(r)
    <3>1. DoneWith(r)'
      BY <2>1, Passing
    <3>2. skip' = skip
      BY <1>1 DEF world
    <3> QED
      BY <1>1, <3>1, <3>2 DEF DoneWith
  <2>2. CASE ~Pending(r)
    <3>1. ret # "error"
      BY Kinds, Partitions, Opens, Reads DEF Exhausted, Reading, Running, Quiet, Alive
    <3> QED
      BY <1>3, <2>2, <3>1 DEF Examined
  <2> QED
    BY <2>1, <2>2
<1> QED
  BY <1>4, <1>5, <1>6

-----------------------------------------------------------------------------
(* The ends. *)

(* io.EOF starts at a first iterator with nothing left, and nothing is opened
   on its way. *)
LEMMA DrainedStep ==
  ASSUME World, Typed, Nested, Opened, Handed, Drained, [Next]_vars
  PROVE  Drained'
<1>1. Depth(plan) \in Nat \ {0} /\ Levels = 1..Depth(plan) /\ Engine = Depth(plan) + 1
  BY LevelsAre
<1>2. UNCHANGED world /\ Levels' = Levels /\ plan' = plan
  BY Typing, WorldStays DEF world
<1>3. ASSUME ret' # "eof", status' # "eof" PROVE Drained'
  BY <1>3 DEF Drained
<1>4. CASE PartitionRows
  <2>1. CASE UNCHANGED <<at, open>>
    <3>1. ret' = "none" /\ at' = 0
      BY <1>4, <2>1, Partitions
    <3>2. \A l \in Levels : open'[l] # TRUE
      <4> TAKE l \in Levels
      <4>1. at < l
        BY <1>1, <2>1, <3>1
      <4> QED
        BY <2>1, <4>1 DEF Nested
    <3> QED
      BY <1>2, <3>1, <3>2 DEF Drained
  <2>2. CASE UNCHANGED status
    BY <1>3, <1>4, <2>2, Partitions
  <2> QED
    BY <1>4, <2>1, <2>2, Partitions
<1>5. CASE Open
  BY <1>3, <1>5, Opens DEF Continue, Crashes, Returns
<1>6. CASE ReadItem
  BY <1>3, <1>6, Reads DEF Continue, Crashes, Returns
<1>7. CASE AskParent \/ Poll \/ Exhausted
  BY <1>3, <1>7 DEF AskParent, Poll, Exhausted, Reading, Running, Return
<1>8. CASE ParentEnds
  <2>1. UNCHANGED <<open, cursor, status>> /\ status = "run" /\ (ret' = "eof" => ret = "eof")
    BY <1>8 DEF ParentEnds, Return, Continue, iters
  <2>2. CASE ret' = "eof"
    BY <1>2, <2>1, <2>2 DEF Drained, Items
  <2> QED
    BY <1>3, <2>1, <2>2
<1>9. CASE FirstEnds
  <2>1. /\ at = 1 /\ UNCHANGED <<open, cursor, status>> /\ status = "run"
        /\ open[1] = TRUE => cursor[1] + 1 \notin Items(plan, 1)
    BY <1>9 DEF FirstEnds, Running, Return, Continue, iters
  <2>2. \A l \in Levels : open'[l] = TRUE => cursor'[l] + 1 \notin Items(plan, l)
    <3> TAKE l \in Levels
    <3>1. CASE l = 1
      BY <2>1, <3>1
    <3>2. CASE l # 1
      <4>1. at < l
        BY <1>1, <2>1, <3>2
      <4> QED
        BY <2>1, <4>1 DEF Nested
    <3> QED
      BY <3>1, <3>2
  <2> QED
    BY <1>2, <2>1, <2>2 DEF Drained, Items
<1>10. CASE Deliver
  <2>1. ret' = "none" /\ UNCHANGED <<open, cursor>> /\ (status' = "eof" => ret = "eof")
    BY <1>10 DEF Deliver, iters
  <2>2. CASE status' = "eof"
    BY <1>2, <2>1, <2>2 DEF Drained, Items
  <2> QED
    BY <1>3, <2>1, <2>2
<1>11. CASE Cancel \/ Close \/ UNCHANGED vars
  <2>1. UNCHANGED <<ret, open, cursor>> /\ (status' = "eof" => status = "eof")
    BY <1>11 DEF Cancel, Close, vars, iters
  <2> QED
    BY <1>2, <2>1 DEF Drained, Items
<1> QED
  BY <1>4, <1>5, <1>6, <1>7, <1>8, <1>9, <1>10, <1>11 DEF Next, Step

(* Without skipping, the chain does not start on a repository or a first
   iterator that cannot be opened. *)
LEMMA BeganStep ==
  ASSUME World, Typed, Nested, Opened, Handed, Began, [Next]_vars
  PROVE  Began'
<1>1. UNCHANGED world /\ skip' = skip /\ Mark(<<>>)' = Mark(<<>>)
  BY Typing, WorldStays DEF world
<1>2. \A l \in Levels : l # 0
  BY LevelsAre
<1>3. CASE PartitionRows
  <2>1. skip # TRUE /\ (at' # 0 \/ status' = "eof") => Mark(<<>>) \notin {"norepo", "noopen"}
    BY <1>3, Partitions
  <2> QED
    BY <1>1, <2>1 DEF Began
<1>4. CASE ~PartitionRows
  <2>1. at' # 0 \/ status' = "eof" => at # 0 \/ status = "eof"
    <3>1. CASE Open
      BY <1>2, <3>1, Opens
    <3>2. CASE ReadItem
      BY <1>2, <3>2, Reads
    <3>3. CASE Exhausted \/ Deliver
      <4>1. UNCHANGED at
        BY <3>3 DEF Exhausted, Deliver
      <4>2. at \in Levels \/ at = Engine
        BY <3>3 DEF Exhausted, Reading, Running, Deliver
      <4>3. Engine # 0
        BY LevelsAre
      <4> QED
        BY <1>2, <4>2, <4>3
    <3>4. CASE Quiet
      BY <3>4 DEF Quiet
    <3> QED
      BY <1>4, <3>1, <3>2, <3>3, <3>4, Kinds
  <2> QED
    BY <1>1, <2>1 DEF Began
<1> QED
  BY <1>3, <1>4

(* A mark that the join comes to is a cause. *)
LEMMA MarksCause ==
  ASSUME NEW r, Reached(r), Mark(r) \in {"norepo", "noopen", "unread", "lost", "fatal"}
  PROVE  Caused
  BY MarksAreThere DEF Caused

(* An error is made only where there is a mark to blame. *)
LEMMA BlamedStep ==
  ASSUME World, Typed, Nested, Opened, Handed, Blamed, [Next]_vars
  PROVE  Blamed'
<1>1. UNCHANGED world
  BY Typing
<1>2. Caused' <=> Caused
  BY <1>1, WorldStays DEF Caused, world
<1>3. ASSUME Caused PROVE Blamed'
  BY <1>2, <1>3 DEF Blamed
<1>4. ASSUME ret' # "error", status' \notin {"error", "panic"} PROVE Blamed'
  BY <1>4 DEF Blamed
<1>5. CASE PartitionRows
  <2>1. CASE Mark(<<>>) \in {"norepo", "noopen"}
    <3>1. Reached(<<>>)
      BY DEF Reached
    <3> QED
      BY <1>3, <2>1, <3>1, MarksCause
  <2>2. CASE Mark(<<>>) \notin {"norepo", "noopen"}
    BY <1>4, <1>5, <2>2, Partitions
  <2> QED
    BY <2>1, <2>2
<1>6. CASE Open
  <2>1. PICK j \in Levels \ {1} :
          /\ at = j /\ ret = "row" /\ status = "run"
          /\ \/ Continue
             \/ Mark(ParentRow(j)) = "noopen"
    BY <1>6, Opens
  <2>2. CASE Continue
    BY <1>4, <2>1, <2>2 DEF Continue
  <2>3. CASE Mark(ParentRow(j)) = "noopen"
    <3>1. j \in 2..Engine
      BY LevelsAre
    <3>2. Reached(ParentRow(j))
      BY <2>1, <3>1 DEF Handed, Fits
    <3> QED
      BY <1>3, <2>3, <3>2, MarksCause
  <2> QED
    BY <2>1, <2>2, <2>3
<1>7. CASE ReadItem
  <2>1. PICK l \in Levels :
          /\ status = "run" /\ at = l /\ ret = "none" /\ open[l] = TRUE
          /\ cursor[l] + 1 \in Items(plan, l)
          /\ Returns \/ Continue \/ Crashes
          /\ Crashes => Mark(NewRow(l)) \in {"unread", "lost"}
          /\ Returns /\ ret' # "row" => Mark(NewRow(l)) \in {"unread", "lost", "fatal"}
    BY <1>7, Reads
  <2>2. CASE Continue \/ (Returns /\ ret' = "row")
    BY <1>4, <2>1, <2>2 DEF Continue, Returns
  <2>3. CASE Crashes \/ (Returns /\ ret' # "row")
    <3>1. Reached(NewRow(l))
      BY <2>1, ItemsMakeRows
    <3> QED
      BY <1>3, <2>1, <2>3, <3>1, MarksCause
  <2> QED
    BY <2>1, <2>2, <2>3
<1>8. CASE Exhausted \/ (Deliver /\ ret = "row")
  BY <1>4, <1>8 DEF Exhausted, Reading, Running, Deliver
<1>9. CASE Quiet
  BY <1>2, <1>9 DEF Quiet, Blamed
<1> QED
  BY <1>5, <1>6, <1>7, <1>8, <1>9, Kinds

(* A level that has ended is asked again only when an iterator after it has
   skipped the error. *)
LEMMA SilentStep ==
  ASSUME World, Typed, Nested, Opened, Handed, Silent, [Next]_vars
  PROVE  Silent'
<1>1. /\ UNCHANGED world /\ Levels' = Levels /\ DOMAIN ended = Levels
      /\ \A l \in Levels : l \in Nat
  BY Typing, WorldStays, LevelsAre DEF Typed
<1>2. \A l \in Levels : SkippedAbove(l)' <=> SkippedAbove(l)
  BY <1>1 DEF SkippedAbove, Iter, world
<1>3. ASSUME \A l \in Levels : ended[l] = TRUE => SkippedAbove(l), UNCHANGED ended PROVE Silent'
  BY <1>1, <1>2, <1>3 DEF Silent
<1>4. ASSUME at \in Levels, Returns, \A l \in Levels : ended[l] = TRUE => SkippedAbove(l) \/ l < at
      PROVE  ret' # "row" => Silent'
  <2> SUFFICES ASSUME ret' # "row", NEW l \in Levels, ended'[l] = TRUE
               PROVE  SkippedAbove(l)' \/ (l < at' /\ ret' \in {"eof", "error", "canceled"})
    BY <1>1 DEF Silent
  <2>1. at \in Nat /\ l \in Nat /\ at' = at + 1 /\ ret' \in {"eof", "error", "canceled"}
    BY <1>1, <1>4 DEF Returns
  <2>2. CASE l = at
    BY <2>1, <2>2
  <2>3. CASE l # at
    <3>1. ended[l] = TRUE
      BY <1>1, <1>4, <2>3 DEF Returns
    <3>2. SkippedAbove(l) \/ l < at
      BY <1>4, <3>1
    <3> QED
      BY <1>2, <2>1, <3>2
  <2> QED
    BY <2>2, <2>3
<1>5. status = "run" /\ ret \in {"none", "row"} =>
        \A l \in Levels : ended[l] = TRUE => SkippedAbove(l)
  BY DEF Silent
<1>6. CASE PartitionRows \/ AskParent \/ Exhausted
  <2>1. UNCHANGED ended /\ status = "run" /\ ret = "none"
    BY <1>6, Partitions DEF AskParent, Exhausted, Reading, Running, PartitionRows
  <2> QED
    BY <1>3, <1>5, <2>1
<1>7. CASE Open
  <2>1. /\ status = "run" /\ ret = "row" /\ at \in Levels
        /\ UNCHANGED ended \/ (Returns /\ ret' # "row")
    BY <1>7, Opens DEF Continue, Crashes
  <2> QED
    BY <1>3, <1>4, <1>5, <2>1
<1>8. CASE ParentEnds
  <2>1. /\ status = "run" /\ at \in Levels /\ ret \in {"eof", "error", "canceled"}
        /\ \/ skip = TRUE /\ Iter(at).parent = "skip" /\ Continue
           \/ Returns /\ ret' # "row"
    BY <1>8 DEF ParentEnds, Skipped, Return, Returns
  <2>2. \A l \in Levels : ended[l] = TRUE => SkippedAbove(l) \/ l < at
    BY <2>1 DEF Silent
  <2>3. CASE skip = TRUE /\ Iter(at).parent = "skip" /\ Continue
    <3>1. \A l \in Levels : l < at => SkippedAbove(l)
      BY <1>1, <2>1, <2>3 DEF SkippedAbove
    <3>2. UNCHANGED ended
      BY <2>3 DEF Continue
    <3> QED
      BY <1>3, <2>2, <3>1, <3>2
  <2> QED
    BY <1>4, <2>1, <2>2, <2>3
<1>9. CASE Poll \/ FirstEnds
  <2>1. /\ status = "run" /\ ret = "none" /\ at \in Levels
        /\ UNCHANGED ended \/ (Returns /\ ret' # "row")
    BY <1>9, LevelsAre DEF Poll, FirstEnds, Running, Return, Returns, Continue
  <2> QED
    BY <1>3, <1>4, <1>5, <2>1
<1>10. CASE ReadItem
  <2>1. /\ status = "run" /\ ret = "none" /\ at \in Levels
        /\ UNCHANGED ended \/ Returns
    BY <1>10, Reads DEF Continue, Crashes
  <2>2. CASE Returns /\ ret' = "row"
    <3>1. \A l \in Levels : ended'[l] = TRUE => ended[l] = TRUE
      BY <1>1, <2>1, <2>2 DEF Returns, Typed
    <3>2. \A l \in Levels : ended'[l] = TRUE => SkippedAbove(l)'
      BY <1>2, <1>5, <2>1, <3>1
    <3> QED
      BY <1>1, <3>2 DEF Silent
  <2> QED
    BY <1>3, <1>4, <1>5, <2>1, <2>2
<1>11. CASE Deliver
  <2>1. CASE ret = "row"
    BY <1>3, <1>5, <1>11, <2>1 DEF Deliver
  <2>2. CASE ret # "row"
    <3>1. status' # "run"
      BY <1>11, <2>2 DEF Deliver, Typed
    <3> QED
      BY <3>1 DEF Silent
  <2> QED
    BY <2>1, <2>2
<1>12. CASE Cancel \/ Close \/ UNCHANGED vars
  <2>1. UNCHANGED <<ended, at, ret>> /\ (status' = status \/ status' = "closed")
    BY <1>12 DEF Cancel, Close, vars
  <2> QED
    BY <1>1, <1>2, <2>1 DEF Silent
<1> QED
  BY <1>6, <1>7, <1>8, <1>9, <1>10, <1>11, <1>12 DEF Next, Step

-----------------------------------------------------------------------------
(* The theorems. *)

(* Every step keeps the inductive invariant. *)
LEMMA InvStep ==
  ASSUME IInv, [Next]_vars
  PROVE  IInv'
<1>1. World /\ Typed /\ Nested /\ Opened /\ Handed
  BY DEF IInv
<1>2. World' /\ Typed'
  BY <1>1, Typing, WorldStays
<1>3. Nested' /\ Opened' /\ Handed'
  BY <1>1, Nesting, FitsStep
<1>4. Delivered' /\ GivenOnce' /\ Examined'
  BY <1>1, AccountStep DEF IInv
<1>5. Drained' /\ Began' /\ Blamed' /\ Silent'
  BY <1>1, DrainedStep, BeganStep, BlamedStep, SilentStep DEF IInv
<1> QED
  BY <1>2, <1>3, <1>4, <1>5 DEF IInv

(* Whatever the chain, the width of its inner iterators and the marks of the
   repository: the levels are nested, every open inner iterator and every row
   handed on belong to a path of the join, and each row of the join has been
   given once or is still to come. *)
THEOREM Invariance == Spec => []IInv
<1>1. Init => IInv
  BY Start
<1>2. IInv /\ [Next]_vars => IInv'
  BY InvStep
<1> QED
  BY <1>1, <1>2, PTL DEF Spec

(* A query fails only for a cause that the join comes to: the end of an inner
   iterator, a filtered row or a reference to no commit never make Advance
   return an error. *)
THEOREM Causes == Spec => []FailsForACause
<1>1. IInv => FailsForACause
  BY DEF IInv, Blamed, Caused, Reached, FailsForACause
<1> QED
  BY <1>1, Invariance, PTL

(* No iterator's Advance is called after it has returned io.EOF or an error,
   except below a squashCommitFilesIter that skips errors. *)
THEOREM NoAdvance == Spec => []NoAdvanceAfterEnd
<1>1. IInv => NoAdvanceAfterEnd
  <2> SUFFICES ASSUME IInv, NEW l \in Levels, ended[l], Running(l)
               PROVE  skip /\ \E m \in Levels : m > l /\ Iter(m) = squashCommitFilesIter
    BY DEF NoAdvanceAfterEnd
  <2>1. ended[l] = TRUE
    BY DEF IInv, Typed
  <2>2. World /\ SkippedAbove(l)
    BY <2>1 DEF IInv, Silent, Running
  <2>3. PICK m \in Levels : m > l /\ Iter(m).parent = "skip"
    BY <2>2 DEF SkippedAbove
  <2>4. Iter(m) = squashCommitFilesIter
    BY <2>2, <2>3, LevelsAre, OnlyCommitFilesSkips
  <2> QED
    BY <2>2, <2>3, <2>4 DEF SkippedAbove
<1> QED
  BY <1>1, Invariance, PTL

(* A chain that has reported io.EOF has done with every row. *)
LEMMA NothingPending ==
  ASSUME IInv, status = "eof", NEW k \in Levels, NEW r \in Rows(plan, k)
  PROVE  ~Pending(r)
<1>1. World /\ ret # "row" /\ \A l \in Levels : open[l] = TRUE => cursor[l] + 1 \notin Items(plan, l)
  BY DEF IInv, Drained
<1>2. Len(r) = k /\ \A i \in 1..k : i \in Levels /\ r[i] \in Items(plan, i)
  BY <1>1, RowFacts
<1>3. ASSUME NEW i \in 1..k PROVE ~Ahead(r, i)
  <2>1. i \in Levels /\ r[i] \in Items(plan, i) /\ cursor[i] \in Nat
    BY <1>2 DEF IInv, Typed
  <2>2. cursor[i] < r[i] => cursor[i] + 1 \in Items(plan, i)
    BY <2>1, ItemsAreNumbered
  <2> QED
    BY <1>1, <2>1, <2>2 DEF Ahead
<1>4. \A l : ~InHand(r, l)
  BY <1>1 DEF InHand
<1> QED
  BY <1>2, <1>3, <1>4 DEF Pending

(* Without SkipGitErrors the chain never passes over an unreadable row that
   the join comes to and then reports io.EOF. *)
THEOREM NothingSkipped == Spec => []NothingSkippedSilently
<1>1. IInv => NothingSkippedSilently
  <2> SUFFICES ASSUME IInv, status = "eof", ~skip, NEW x \in marks,
                      x[2] \in {"norepo", "noopen", "unread", "lost"}, Reached(x[1])
               PROVE  FALSE
    BY DEF NothingSkippedSilently, Reached
  <2>1. World /\ skip # TRUE
    BY DEF IInv
  <2>2. PICK k \in 0..Depth(plan) : x[1] \in Rows(plan, k)
    BY <2>1 DEF World
  <2>3. PICK r \in Rows(plan, k) : r = x[1] /\ Mark(r) = x[2]
    BY <2>1, <2>2 DEF World
  <2>4. CASE k = 0
    <3>1. r = <<>>
      BY <2>4, NoLevels
    <3>2. Mark(<<>>) \in {"none", "norepo", "noopen", "nocommit"}
      BY <2>1 DEF World
    <3>3. Mark(<<>>) \notin {"norepo", "noopen"}
      BY <2>1 DEF IInv, Began
    <3> QED
      BY <2>3, <3>1, <3>2, <3>3
  <2>5. CASE k # 0
    <3>1. k \in Levels
      BY <2>1, <2>5, LevelsAre
    <3>2. ~Pending(r)
      BY <3>1, NothingPending
    <3>3. ret # "error"
      BY DEF IInv, Drained
    <3>4. Mark(r) \notin {"unread", "lost", "noopen"}
      BY <2>1, <2>3, <3>1, <3>2, <3>3 DEF IInv, Examined, Alive
    <3>5. Mark(r) # "norepo"
      BY <2>1, <3>1 DEF World
    <3> QED
      BY <2>3, <3>4, <3>5
  <2> QED
    BY <2>4, <2>5
<1> QED
  BY <1>1, Invariance, PTL

-----------------------------------------------------------------------------
(* The join. *)

(* io.EOF is reported when every row of the join was given. *)
LEMMA AllGiven == IInv /\ status = "eof" => Joined \subseteq Promise!Given
<1> SUFFICES ASSUME IInv, status = "eof", NEW r \in Joined PROVE r \in Promise!Given
  OBVIOUS
<1>1. World /\ Delivered
  BY DEF IInv
<1>2. Depth(plan) \in Levels /\ r \in Rows(plan, Depth(plan))
  BY <1>1, JoinedRows
<1>3. ~Pending(r)
  BY <1>2, NothingPending
<1> QED
  BY <1>1, <1>3 DEF Delivered, Alive

(* The row that is delivered is the first of those that are owed. *)
LEMMA DeliverEmits ==
  ASSUME IInv, Deliver, ret = "row"
  PROVE  Promise!Emit
<1>1. World /\ Typed /\ Nested /\ Opened /\ Handed /\ Delivered /\ GivenOnce
  BY DEF IInv
<1>2. PICK d \in Levels : d = Depth(plan) /\ d \in Nat \ {0}
  BY <1>1, LevelsAre
<1>3. PICK e \in Nat : e = Engine /\ e \in 2..Engine /\ e # 1 /\ e - 1 = d
  BY <1>1, <1>2, LevelsAre
<1>4. status = "run" /\ at = e /\ UNCHANGED <<world, status>> /\ out' = Append(out, row[d])
  BY <1>2, <1>3 DEF Deliver
<1>5. Joined' = Joined
  BY <1>1, <1>4, WorldStays
<1>6. PICK r : r = row[d]
  OBVIOUS
<1>7. ParentRow(e) = r
  BY <1>3, <1>6 DEF ParentRow
<1>8. r \in Rows(plan, d) /\ Reached(r) /\ Follows(e) /\ Mark(r) \in {"none", "noopen", "nocommit"}
  BY <1>1, <1>3, <1>4, <1>7 DEF Handed, Fits
<1>9. r \in Joined
  <2>1. Mark(r) \notin {"noopen", "nocommit"}
    BY <1>1, <1>2, <1>8 DEF World
  <2> QED
    BY <1>1, <1>2, <1>8, <2>1, JoinedRows
<1>10. Len(r) = d /\ SubSeq(r, 1, d) = r /\ DOMAIN r = 1..d /\ \A i \in 1..d : r[i] \in Nat
  <2>1. Len(r) = d /\ SubSeq(r, 1, d) = r /\ \A i \in 1..d : r[i] \in Nat
    BY <1>1, <1>8, RowFacts
  <2>2. DOMAIN r = 1..d
    BY <1>8 DEF Rows
  <2> QED
    BY <2>1, <2>2
<1>11. r \notin Promise!Given
  <2>1. InHand(r, e) /\ e \in 2..(Len(r) + 1)
    BY <1>2, <1>3, <1>4, <1>7, <1>10 DEF InHand
  <2>2. Pending(r)
    BY <2>1 DEF Pending
  <2> QED
    BY <1>1, <1>9, <2>2 DEF GivenOnce
<1>12. ASSUME NEW q \in Joined \ Promise!Given PROVE q = r \/ Before(r, q)
  <2>1. Pending(q)
    BY <1>1, <1>4 DEF Delivered, Alive
  <2>2. q \in Rows(plan, d)
    BY <1>1, <1>2, JoinedRows
  <2>3. Len(q) = d /\ SubSeq(q, 1, d) = q
    BY <1>1, <2>2, RowFacts
  <2>4. \A i \in 1..d : q[i] \in Nat
    BY <1>1, <2>2, RowFacts
  <2>5. CASE \E l \in 2..(Len(q) + 1) : InHand(q, l)
    <3>1. InHand(q, e)
      BY <1>4, <2>5 DEF InHand
    <3> QED
      BY <1>3, <1>7, <2>3, <3>1 DEF InHand
  <2>6. CASE \E i \in 1..Len(q) : Ahead(q, i)
    <3>1. PICK i \in 1..d : Ahead(q, i)
      BY <2>3, <2>6
    <3>2. ParentRow(i) = SubSeq(r, 1, i - 1) /\ r[i] = cursor[i]
      BY <1>3, <1>7, <1>8 DEF Follows
    <3>3. SubSeq(q, 1, i - 1) = SubSeq(r, 1, i - 1) /\ r[i] < q[i]
      BY <3>1, <3>2 DEF Ahead
    <3>4. \A j \in 1..(i - 1) : r[j] = q[j]
      <4>1. i - 1 \in 0..d
        BY <1>2
      <4>2. \A j \in 1..(i - 1) : SubSeq(q, 1, i - 1)[j] = q[j]
        BY <1>2, <2>2, <4>1, Prefixes
      <4>3. \A j \in 1..(i - 1) : SubSeq(r, 1, i - 1)[j] = r[j]
        BY <1>2, <1>8, <4>1, Prefixes
      <4> QED
        BY <3>3, <4>2, <4>3
    <3> QED
      BY <1>10, <3>3, <3>4 DEF Before
  <2>7. at # 0
    BY <1>3, <1>4
  <2> QED
    BY <2>1, <2>5, <2>6, <2>7 DEF Pending
<1>13. out' = Append(out, r)
  BY <1>4, <1>6
<1> QED
  BY <1>4, <1>5, <1>9, <1>11, <1>12, <1>13 DEF Promise!Emit

(* Every step is one the promise allows, or none at all to the engine. *)
LEMMA StepRefines ==
  ASSUME IInv, IInv', [Next]_vars,
         (IInv /\ status = "eof" => Joined \subseteq Promise!Given)'
  PROVE  [Promise!Next]_<<Joined, out, status>>
<1>1. World /\ Typed /\ Nested /\ Opened /\ Handed
  BY DEF IInv
<1>2. Joined' = Joined
  BY <1>1, Typing, WorldStays
<1>3. CASE Deliver /\ ret = "row"
  BY <1>3, DeliverEmits DEF Promise!Next
<1>4. CASE ~(Deliver /\ ret = "row")
  <2>1. out' = out /\ Promise!Given' = Promise!Given
    BY <1>1, <1>4, Giving
  <2>2. CASE status' \notin {"run", "eof"}
    BY <1>2, <2>1, <2>2 DEF Promise!Stop, Promise!Next
  <2>3. CASE status' = status
    BY <1>2, <2>1, <2>3
  <2>4. CASE status = "run" /\ status' = "eof"
    <3>1. Joined \subseteq Promise!Given
      BY <1>2, <2>1, <2>4
    <3> QED
      BY <1>2, <2>1, <2>4, <3>1 DEF Promise!EOF, Promise!Next
  <2>5. status' \notin {"run", "eof"} \/ status' = status \/ (status = "run" /\ status' = "eof")
    BY EndsAreFinal
  <2> QED
    BY <2>2, <2>3, <2>4, <2>5
<1> QED
  BY <1>3, <1>4

(* The chain of iterators implements the nested-loop join, for every chain of
   every length, every repository and every setting of SkipGitErrors: it gives
   the rows of the join in order, each once, and io.EOF only after all. *)
THEOREM Join == Spec => ImplementsJoin
<1>1. Init => Promise!Init
  BY DEF Init, Promise!Init
<1>2. [](IInv /\ status = "eof" => Joined \subseteq Promise!Given)
  BY AllGiven, PTL
<1>3. ASSUME IInv, IInv', [Next]_vars,
             (IInv /\ status = "eof" => Joined \subseteq Promise!Given)'
      PROVE  [Promise!Next]_<<Joined, out, status>>
  BY <1>3, StepRefines
<1> QED
  BY <1>1, <1>2, <1>3, Invariance, PTL DEF Spec, ImplementsJoin, Promise!Spec
=============================================================================
