------------------------------ MODULE TableScan ------------------------------
(***************************************************************************)
(* A query over one table: partition.go lists the repositories of the      *)
(* library as partitions, PartitionRows of the table opens each of them    *)
(* (repository_pool.go) and its iterator returns the rows, until io.EOF,   *)
(* an error, or the engine wants no more.  The engine closes the iterator  *)
(* in any case.                                                            *)
(*                                                                         *)
(* A row is the sequence of a repository, an object of it and, for the     *)
(* tables with two levels, an item of the object.  What is special about   *)
(* the repositories is a set of marks on such positions; nothing is wrong  *)
(* with the positions that have none.  A step is one call of the engine or *)
(* one iteration of the loop of Next.                                      *)
(***************************************************************************)
EXTENDS TableIters, Integers, SequencesExt

CONSTANTS
  Scans,      \* the tables considered: a sequence of tables
  Repos,      \* number of repositories of the library
  Width,      \* objects of a repository and items of an object
  MaxMarks    \* marks, at most

ASSUME SizesAreNaturals == Repos \in Nat \ {0} /\ Width \in Nat \ {0} /\ MaxMarks \in Nat
ASSUME ScansAreTables == \A i \in DOMAIN Scans : Scans[i] \in GitTables

VARIABLES
  scan,      \* which table
  skip,      \* Session.SkipGitErrors
  byHash,    \* the objects are asked for by hash
  marks,     \* what is special about the repositories
  status,    \* where the query is, or how it ended
  listed,    \* repositories read from the library
  object,    \* objects read in the current repository
  item,      \* items read of the current object
  opened,    \* the items of the object are open
  stop,      \* why the iterator is to be closed
  handles,   \* repositories that were opened and not closed: [use, repo]
  out        \* the rows returned

world  == <<scan, skip, byHash, marks>>

cursor == <<object, item, opened>>

vars   == <<world, status, listed, cursor, stop, handles, out>>

-----------------------------------------------------------------------------
(* What the query reads. *)

Table == Scans[scan]

Iter == Table.iter

Objects == 1..(IF Iter.single THEN 1 ELSE Width)

ObjectsOf(r) == {<<r, o>> : o \in Objects}

ItemsOf(r) == {<<r, o, i>> : o \in Objects, i \in 1..Width}

(* The positions that rows are made of. *)
Rows == UNION {IF Iter.levels = 1 THEN ObjectsOf(r) ELSE ItemsOf(r) : r \in 1..Repos}

(* The marks a repository may have: "unlisted", the library cannot read it;
   "gone", it was listed but can no longer be opened; "rejected", a selector
   turns it down; "nolist", its objects cannot be listed. *)
RepoMarks ==
  {"unlisted", "gone"}
    \union (IF Table.rejects THEN {"rejected"} ELSE {})
    \union (IF Iter.list # "never" /\ ~byHash THEN {"nolist"} ELSE {})

(* The marks of objects: "unread", "noopen", "nocontent" for what cannot be
   read, "passed" for what is passed over, "again" for an object that is or
   names the same as the first one: a commit that is reached through a tag
   after a branch, a hash that is asked for twice, a commit with the same tree.
   HEAD, the first of the references, is read when they are listed. *)
ObjectMarks(o) ==
  (IF Iter.object # "never" /\ (Iter.object = "return" => o > 1) THEN {"unread"} ELSE {})
    \union (IF Iter.open # "never" THEN {"noopen"} ELSE {})
    \union (IF Iter.levels = 1 /\ Iter.content # "never" THEN {"nocontent"} ELSE {})
    \union (IF byHash \/ Iter.seen \/ (Iter.levels = 1 /\ Iter.passes) THEN {"passed"} ELSE {})
    \union (IF o > 1 /\ (byHash \/ Iter.commits) THEN {"again"} ELSE {})

(* The first item of a commit in commit_trees is its own tree; in commit_blobs
   a blob comes again when a commit has it at two paths. *)
ItemMarks(i) ==
  IF Iter.levels = 1 \/ (Iter = commitTreesRowIter /\ i = 1) THEN {} ELSE
    (IF Iter.item # "never" THEN {"unread"} ELSE {})
      \union (IF Iter.content # "never" THEN {"nocontent"} ELSE {})
      \union (IF Iter.passes THEN {"passed"} ELSE {})
      \union (IF Iter = commitBlobsRowIter /\ i > 1 THEN {"again"} ELSE {})

Marked ==
  {<<<<r>>, m>> : r \in 1..Repos, m \in RepoMarks}
    \union (UNION {{<<<<r, o>>, m>> : m \in ObjectMarks(o)} : r \in 1..Repos, o \in Objects})
    \union (UNION {{<<<<r, o, i>>, m>> : m \in ItemMarks(i)} :
                     r \in 1..Repos, o \in Objects, i \in 1..Width})

MarksAt(S, x) == {y[2] : y \in {z \in S : z[1] = x}}

First(x) == [x EXCEPT ![Len(x)] = 1]

(* One mark for a position.  What comes again is what it was the first time,
   and so are its items; only commits with the same tree may differ, but not in
   that it is passed over. *)
Consistent(S) ==
  /\ \A x, y \in S : x[1] = y[1] => x = y
  /\ \A x, y \in S : x[2] = "again" /\ y[1] = First(x[1]) => Iter.seen /\ y[2] # "passed"
  /\ \A x \in S : x[2] = "again" /\ Len(x[1]) = 2 =>
       \A i \in 1..Width : MarksAt(S, <<x[1][1], x[1][2], i>>) = MarksAt(S, <<x[1][1], 1, i>>)

Mark(x) == IF \E y \in marks : y[1] = x THEN (CHOOSE y \in marks : y[1] = x)[2] ELSE "none"

-----------------------------------------------------------------------------
Init ==
  /\ scan \in DOMAIN Scans
  /\ skip \in BOOLEAN
  /\ byHash \in {FALSE, Table.hashes}
  /\ marks \in {S \in {{}} \union {Range(f) : f \in [1..MaxMarks -> Marked]} : Consistent(S)}
  /\ status = "start"
  /\ listed = 0
  /\ object = 0 /\ item = 0 /\ opened = FALSE
  /\ stop = "none"
  /\ handles = {}
  /\ out = <<>>

Handle(use, r) == [use |-> use, repo |-> r]

(* PartitionCount, which the engine may call before it reads: the repositories
   are opened and not closed, and no error is skipped. *)
PartitionCount ==
  /\ status = "start"
  /\ LET bad == {r \in 1..Repos : Mark(<<r>>) = "unlisted"} IN
     /\ status' = IF bad = {} THEN "list" ELSE "error"
     /\ handles' = {Handle("count", r) : r \in {q \in 1..Repos : \A b \in bad : q < b}}
  /\ UNCHANGED <<world, listed, cursor, stop, out>>

Partitions ==
  /\ status = "start"
  /\ status' = "list"
  /\ UNCHANGED <<world, listed, cursor, stop, handles, out>>

(* repositoryPartitionIter.Next, and io.EOF after the last repository. *)
NextPartition ==
  /\ status = "list"
  /\ \/ listed = Repos /\ status' = "eof" /\ UNCHANGED listed
     \/ /\ listed < Repos
        /\ listed' = listed + 1
        /\ status' = IF Mark(<<listed'>>) # "unlisted" THEN "open"
                     ELSE IF skip THEN "list" ELSE "error"
  /\ UNCHANGED <<world, cursor, stop, handles, out>>

(* A slip: the flag of the session is not looked at. *)
SlipSkipped(policy) == policy # "return"

(* A failure with the given policy is skipped. *)
Skipped(policy) == skip /\ policy # "return"

(* PartitionRows: getPartitionRepo, the selectors, the iterator.  Nobody has
   the repository to close it when there is no iterator that knows it. *)
PartitionRows ==
  /\ status = "open"
  /\ LET m == Mark(<<listed>>)
         fails == Table.early /\ m = "nolist" /\ ~Skipped(Iter.list)
     IN
     /\ status' = CASE m = "gone"     -> "error"
                    [] m = "rejected" -> "list"
                    [] OTHER          -> IF fails THEN "error" ELSE "run"
     /\ handles' = IF m = "gone" THEN handles ELSE handles \union {Handle("rows", listed)}
  /\ object' = 0 /\ item' = 0 /\ opened' = FALSE
  /\ UNCHANGED <<world, listed, stop, out>>

(* The iterator reports why it ends: to be closed by the engine. *)
End(why) == status' = "closing" /\ stop' = why

Continue == UNCHANGED <<status, stop>>

Fail(policy) ==
  \/ Skipped(policy) /\ Continue
  \/ ~Skipped(policy) /\ policy = "crash" /\ status' = "panic" /\ UNCHANGED stop
  \/ ~Skipped(policy) /\ policy # "crash" /\ End("error")

(* The first call of Next cannot list the objects. *)
ListFails ==
  /\ status = "run" /\ object = 0 /\ Mark(<<listed>>) = "nolist"
  /\ End(IF Skipped(Iter.list) THEN "eof" ELSE "error")
  /\ UNCHANGED <<world, listed, cursor, handles, out>>

(* A slip: trees are not remembered. *)
SlipSeen(r, o) == FALSE

(* The tree of the object was seen before: an earlier object that names it was
   read. *)
Seen(r, o) ==
  /\ Iter.seen /\ Mark(<<r, o>>) = "again"
  /\ \E q \in 1..(o - 1) : Mark(<<r, q>>) = "again" \/ (q = 1 /\ Mark(<<r, q>>) # "unread")

(* The next object of the repository. *)
ReadObject ==
  /\ status = "run" /\ ~opened /\ Mark(<<listed>>) # "nolist"
  /\ object + 1 \in Objects
  /\ object' = object + 1
  /\ LET x == <<listed, object + 1>>
         m == Mark(x)
         found == m \in {"none", "again"} /\ ~Seen(listed, object + 1)
     IN
     /\ opened' = (found /\ Iter.levels = 2)
     /\ item' = 0
     /\ out' = IF found /\ Iter.levels = 1 THEN Append(out, x) ELSE out
     /\ \/ m = "unread" /\ Fail(Iter.object)
        \/ m = "noopen" /\ Fail(Iter.open)
        \/ m = "nocontent" /\ Fail(Iter.content)
        \/ m \in {"none", "again", "passed"} /\ Continue
  /\ UNCHANGED <<world, listed, handles>>

(* The next item of the object. *)
ReadItem ==
  /\ status = "run" /\ opened /\ item < Width
  /\ item' = item + 1
  /\ LET x == <<listed, object, item + 1>>
         m == Mark(x)
     IN
     /\ opened' = ~(m = "unread" /\ Iter.item = "drop")
     /\ out' = IF m \in {"none", "again"} THEN Append(out, x) ELSE out
     /\ \/ m = "unread" /\ Fail(Iter.item)
        \/ m = "nocontent" /\ Fail(Iter.content)
        \/ m \in {"none", "again", "passed"} /\ Continue
  /\ UNCHANGED <<world, listed, object, handles>>

(* A slip: the exhausted items are kept. *)
SlipItemsEnd ==
  /\ status = "run" /\ opened /\ item = Width
  /\ UNCHANGED vars

ItemsEnd ==
  /\ status = "run" /\ opened /\ item = Width
  /\ opened' = FALSE
  /\ UNCHANGED <<world, status, listed, object, item, stop, handles, out>>

ObjectsEnd ==
  /\ status = "run" /\ ~opened /\ Mark(<<listed>>) # "nolist"
  /\ object + 1 \notin Objects
  /\ End("eof")
  /\ UNCHANGED <<world, listed, cursor, handles, out>>

(* The engine wants no more rows. *)
Stop ==
  /\ status = "run"
  /\ End("closed")
  /\ UNCHANGED <<world, listed, cursor, handles, out>>

(* A slip: the repository stays open when the rows were read to their end. *)
SlipClose ==
  /\ status = "closing"
  /\ status' = IF stop = "eof" THEN "list" ELSE stop
  /\ handles' = IF stop = "eof" THEN handles ELSE handles \ {Handle("rows", listed)}
  /\ UNCHANGED <<world, listed, cursor, stop, out>>

(* Close of the iterator, which closes the repository. *)
Close ==
  /\ status = "closing"
  /\ IF Iter.fragile /\ stop = "error" /\ Mark(<<listed>>) = "nolist"
       THEN status' = "panic" /\ UNCHANGED handles
       ELSE /\ status' = IF stop = "eof" THEN "list" ELSE stop
            /\ handles' = handles \ {Handle("rows", listed)}
  /\ UNCHANGED <<world, listed, cursor, stop, out>>

Step ==
  \/ PartitionCount \/ Partitions \/ NextPartition \/ PartitionRows \/ ListFails
  \/ ReadObject \/ ReadItem \/ ItemsEnd \/ ObjectsEnd \/ Close

Next == Step \/ Stop

Spec == Init /\ [][Next]_vars

(* The engine goes on reading; it does not have to stop early. *)
FairSpec == Spec /\ WF_vars(Step)

-----------------------------------------------------------------------------
Ended == status \in {"eof", "error", "panic", "closed"}

(* The state has its type. *)
TypeOK ==
  /\ scan \in DOMAIN Scans
  /\ skip \in BOOLEAN
  /\ marks \subseteq Marked
  /\ status \in {"start", "list", "open", "run", "closing", "eof", "error", "panic", "closed"}
  /\ listed \in 0..Repos
  /\ object \in 0..Width /\ item \in 0..Width
  /\ opened \in BOOLEAN
  /\ stop \in {"none", "eof", "error", "closed"}
  /\ handles \subseteq {Handle(use, r) : use \in {"count", "rows"}, r \in 1..Repos}
  /\ out \in Seq(Rows)

(* Everything before the position in the loops is fit to be read. *)
Reached(x) ==
  /\ Len(x) > 1 => Mark(<<x[1]>>) = "none"
  /\ Len(x) > 2 => Mark(<<x[1], x[2]>>) \in {"none", "again"} /\ ~Seen(x[1], x[2])

(* After an item that makes commit_trees drop the rest of a commit. *)
Dropped(x) ==
  /\ Iter = commitTreesRowIter /\ Len(x) = 3
  /\ \E i \in 1..(x[3] - 1) : Mark(<<x[1], x[2], i>>) = "unread"

(* The rows of the table: what is readable, less what is passed over. *)
Wanted ==
  {x \in Rows : /\ Reached(x)
                /\ Mark(x) \in {"none", "again"} /\ (Len(x) = 2 => ~Seen(x[1], x[2]))
                /\ ~Dropped(x)}

Before(x, y) ==
  \E i \in DOMAIN x : x[i] < y[i] /\ \A j \in 1..(i - 1) : x[j] = y[j]

Promise == INSTANCE RowSource WITH
             owed <- Wanted,
             status <- IF Ended THEN status ELSE "run"

(* A query over a table gives the rows of all repositories, each position once
   and in order, and io.EOF only after all of them, whatever repositories,
   objects and items were skipped on the way. *)
ImplementsScan == Promise!Spec

Unreadable == {"unlisted", "gone", "nolist", "unread", "noopen", "nocontent"}

(* Without SkipGitErrors nothing that cannot be read is passed over in silence:
   the query does not end in io.EOF. *)
NothingSkippedSilently ==
  status = "eof" /\ ~skip => \A x \in marks : x[2] \in Unreadable => ~Reached(x[1])

(* What still fails a query when errors are to be skipped: a repository that
   disappears, an error of the library while partitions are counted, contents,
   the listing of remotes and the reading of references. *)
Complains(x) ==
  CASE x[2] = "unlisted" -> ~skip \/ listed = 0
    [] x[2] = "gone" -> TRUE
    [] x[2] = "nolist" -> ~skip \/ Iter.list = "return"
    [] x[2] = "unread" -> ~skip \/ (Len(x[1]) = 2 /\ Iter.object = "return")
    [] x[2] = "noopen" -> ~skip
    [] x[2] = "nocontent" -> TRUE
    [] OTHER -> FALSE

(* A query fails only for a cause that it reaches, and with errors skipped for
   the few listed in Complains only; it never panics then. *)
FailsForACause ==
  /\ status \in {"error", "panic"} => \E x \in marks : Reached(x[1]) /\ Complains(x)
  /\ status = "panic" => ~skip

(* The tree that a row of files is about stands for all the commits with it. *)
Named(x) == IF Mark(<<x[1], x[2]>>) = "again" THEN [x EXCEPT ![2] = 1] ELSE x

(* The file can be read: its repository, its tree and itself. *)
Readable(x) ==
  /\ Reached(<<x[1], x[2]>>)
  /\ Mark(<<x[1], x[2]>>) \in {"none", "again"}
  /\ Mark(<<x[1], x[2]>>) = "again" => Mark(<<x[1], 1>>) # "noopen"
  /\ Mark(x) = "none"

(* The table files gives the files of a tree once, although commits share trees
   and come again, and misses none of them: a tree is remembered when it is
   visited, not when a commit that cannot be read names it.  (The tables of
   commits give a row again for a commit that comes again.) *)
FilesOfATreeOnce ==
  Iter.seen =>
    /\ \A i, j \in DOMAIN out : Named(out[i]) = Named(out[j]) => i = j
    /\ status = "eof" =>
         \A x \in Rows : Readable(x) => \E i \in DOMAIN out : Named(out[i]) = Named(x)

(* A query that has ended leaves no repository open (CHANGELOG.md: "Close
   iterators correctly to avoid too many open files error"), but for those that
   PartitionCount opened and those that PartitionRows opened and returned no
   iterator for. *)
ClosesRepositories ==
  Ended /\ status # "panic" =>
    \A h \in handles :
      \/ h.use = "count"
      \/ Mark(<<h.repo>>) = "rejected"
      \/ Mark(<<h.repo>>) = "nolist" /\ Table.early

(* Every query ends. *)
Terminates == <>Ended
=============================================================================
