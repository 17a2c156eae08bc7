----------------------------- MODULE SquashChain -----------------------------
(***************************************************************************)
(* squash.go and the Advance loops of squash_iterator.go: a squashed table *)
(* answers a join with a chain of iterators over one repository.  The last *)
(* iterator is asked for a row; an iterator without an inner iterator asks *)
(* the one before it, and so on down to the first.                         *)
(*                                                                         *)
(* Level l is the l-th iterator of the chain; the level after the last is  *)
(* chainableRowIter.  A row of level l is the sequence of the positions    *)
(* taken by the levels 1..l, which stands for the columns appended by      *)
(* them.  What the repository holds is a mark for each row: nothing is     *)
(* wrong with the rows that have none.  A step is one iteration of the     *)
(* loop of Advance, or the passing of a result to the caller.              *)
(***************************************************************************)
EXTENDS SquashIters, Integers, FiniteSets, Sequences

CONSTANTS
  Plans,      \* the chains considered: a sequence of sequences of iterators
  Width,      \* items of an inner iterator
  MaxMarks    \* rows with a mark, at most, for each chain

ASSUME PlansAreChains == \A p \in DOMAIN Plans : Plans[p] \in Seq(Iterators) \ {<<>>}
ASSUME WidthIsPositive == Width \in Nat \ {0}
ASSUME MaxMarksAreNaturals == MaxMarks \in [DOMAIN Plans -> Nat]

VARIABLES
  plan,      \* which chain
  skip,      \* Session.SkipGitErrors
  marks,     \* what is special about the repository's rows
  status,    \* "run", "eof", "error", "canceled", "panic" or "closed"
  canceled,  \* ctx.Done is closed
  at,        \* the level that runs
  ret,       \* what the level before it has just returned, or "none"
  open,      \* per level: the inner iterator is not nil
  cursor,    \* per level: items read from the inner iterator
  row,       \* per level: Row()
  ended,     \* per level: Advance has returned io.EOF or an error
  out        \* the rows given to the engine

world == <<plan, skip, marks>>

iters == <<open, cursor, row>>

vars == <<world, status, canceled, at, ret, iters, ended, out>>

-----------------------------------------------------------------------------
(* Chains and what they read. *)

Depth(p) == Len(Plans[p])

Iter(l) == Plans[plan][l]

Levels == 1..Depth(plan)

Engine == Depth(plan) + 1

Items(p, l) == 1..(IF Plans[p][l].many THEN Width ELSE 1)

Rows(p, l) == {r \in [1..l -> 1..Width] : \A i \in 1..l : r[i] \in Items(p, i)}

AllRows(p) == UNION {Rows(p, l) : l \in 0..Depth(p)}

(* The marks a row may have: "norepo", the repository cannot be opened;
   "noopen", its inner iterator cannot be opened; "nocommit", it names
   something that is no commit; "unread", reading it fails; "lost", the
   object it names cannot be loaded; "passed", it is passed over; "dropped",
   the filters reject it; "fatal", converting it or evaluating the filters
   fails.  A failed read may close the index: what the closed index yields,
   when the error is skipped and it is read on, is up to the engine and not
   modelled. *)
MarksOf(p, r) ==
  LET l == Len(r)
      iter == Plans[p][l]
      child == Plans[p][l + 1]
      aboutRow ==
        IF l = 0 THEN {"norepo"} ELSE
        {"dropped", "fatal"}
          \union (IF iter.passes THEN {"passed"} ELSE {})
          \union (IF iter.next # "never" /\ (iter.closes => ~skip) THEN {"unread"} ELSE {})
          \union (IF iter.lookup # "never" /\ (iter.head => r[l] = 1) THEN {"lost"} ELSE {})
      aboutChild ==
        IF l = Depth(p) THEN {} ELSE
        (IF child.open # "never" THEN {"noopen"} ELSE {})
          \union (IF child.invalid THEN {"nocommit"} ELSE {})
  IN  aboutRow \union aboutChild

(* The repositories with at most MaxMarks marks. *)
Marked(p) == {x \in AllRows(p) \X {"norepo", "noopen", "nocommit", "unread",
                                   "lost", "passed", "dropped", "fatal"} :
                x[2] \in MarksOf(p, x[1])}

Mark(r) == IF \E x \in marks : x[1] = r THEN (CHOOSE x \in marks : x[1] = r)[2] ELSE "none"

-----------------------------------------------------------------------------
Init ==
  /\ plan \in DOMAIN Plans
  /\ skip \in BOOLEAN
  /\ marks \in {S \in {{}} \union {{x, y} : x, y \in Marked(plan)} :
                  /\ Cardinality(S) <= MaxMarks[plan]
                  /\ \A x, y \in S : x[1] = y[1] => x = y}
  /\ status = "run"
  /\ canceled = FALSE
  /\ at = 0
  /\ ret = "none"
  /\ open = [l \in Levels |-> FALSE]
  /\ cursor = [l \in Levels |-> 0]
  /\ row = [l \in Levels |-> <<>>]
  /\ ended = [l \in Levels |-> FALSE]
  /\ out = <<>>

(* A slip: the flag of the session is not looked at. *)
SlipSkipped(policy) == policy = "skip"

(* A failure with the given policy is skipped. *)
Skipped(policy) == policy = "skip" /\ skip

(* Level l returns result to the level after it. *)
Return(result) ==
  /\ at' = at + 1
  /\ ret' = result
  /\ ended' = [ended EXCEPT ![at] = @ \/ result # "row"]
  /\ UNCHANGED status

(* Level l goes round its loop again. *)
Continue ==
  /\ ret' = "none"
  /\ UNCHANGED <<at, ended, status>>

(* A failure with the given policy. *)
Fail(policy) ==
  \/ Skipped(policy) /\ Continue
  \/ policy = "crash" /\ status' = "panic" /\ UNCHANGED <<at, ret, ended>>
  \/ policy # "crash" /\ ~Skipped(policy) /\ Return("error")

(* SquashedTable.PartitionRows: open the repository and create the chain;
   a failure in New that is skipped leaves the first iterator empty. *)
PartitionRows ==
  /\ status = "run" /\ at = 0
  /\ \/ /\ Mark(<<>>) = "norepo"
        /\ status' = IF skip THEN "eof" ELSE "error"
        /\ UNCHANGED <<at, open>>
     \/ /\ Mark(<<>>) = "noopen" /\ ~Skipped(Iter(1).open)
        /\ status' = "error"
        /\ UNCHANGED <<at, open>>
     \/ /\ Mark(<<>>) = "noopen" => Skipped(Iter(1).open)
        /\ Mark(<<>>) # "norepo"
        /\ at' = Engine
        /\ open' = [open EXCEPT ![1] = Mark(<<>>) = "none"]
        /\ UNCHANGED status
  /\ UNCHANGED <<world, canceled, ret, cursor, row, ended, out>>

Running(l) == status = "run" /\ at = l /\ ret = "none"

(* chainableRowIter, or an iterator without an inner one: parent.Advance(). *)
AskParent ==
  /\ \E l \in 2..Engine : Running(l) /\ (l \in Levels => ~open[l])
  /\ at' = at - 1
  /\ UNCHANGED <<world, status, canceled, ret, iters, ended, out>>

(* A slip: the cursor of the row before is kept. *)
SlipOpen ==
  /\ status = "run" /\ at \in Levels /\ ret = "row"
  /\ Mark(row[at - 1]) = "none"
  /\ open' = [open EXCEPT ![at] = TRUE]
  /\ Continue
  /\ UNCHANGED <<world, canceled, cursor, row, out>>

(* The parent has a new row: open the inner iterator for it. *)
Open ==
  /\ status = "run" /\ at \in Levels /\ ret = "row"
  /\ LET m == Mark(row[at - 1]) IN
     \/ /\ m = "noopen"
        /\ Fail(Iter(at).open)
        /\ UNCHANGED <<open, cursor>>
     \/ /\ m = "nocommit"
        /\ Continue
        /\ UNCHANGED <<open, cursor>>
     \/ /\ m = "none"
        /\ open' = [open EXCEPT ![at] = TRUE]
        /\ cursor' = [cursor EXCEPT ![at] = 0]
        /\ Continue
  /\ UNCHANGED <<world, canceled, row, out>>

(* The parent has ended. *)
ParentEnds ==
  /\ status = "run" /\ at \in Levels /\ ret \in {"eof", "error", "canceled"}
  /\ IF ret # "eof" /\ Skipped(Iter(at).parent) THEN Continue ELSE Return(ret)
  /\ UNCHANGED <<world, canceled, iters, out>>

(* The first iterator finds that the session was canceled. *)
Poll ==
  /\ Running(1) /\ Iter(1).polls /\ canceled
  /\ Return("canceled")
  /\ UNCHANGED <<world, canceled, iters, out>>

Reading(l) == Running(l) /\ open[l] /\ ~(l = 1 /\ Iter(1).polls /\ canceled)

(* The row of a level: the row of its parent and the item it has read. *)
NewRow(l) == Append(IF l = 1 THEN <<>> ELSE row[l - 1], cursor[l] + 1)

(* An item of the inner iterator. *)
ReadItem ==
  /\ \E l \in Levels :
       /\ Reading(l) /\ cursor[l] + 1 \in Items(plan, l)
       /\ LET r == NewRow(l)
              m == Mark(r)
          IN
          /\ cursor' = [cursor EXCEPT ![l] = @ + 1]
          /\ open' = [open EXCEPT ![l] = Iter(l).many \/ l = 1]
          /\ row' = [row EXCEPT ![l] = IF m \in {"unread", "lost", "passed"} THEN @ ELSE r]
          /\ \/ m = "unread" /\ Fail(Iter(l).next)
             \/ m = "lost" /\ Fail(Iter(l).lookup)
             \/ m \in {"passed", "dropped"} /\ Continue
             \/ m = "fatal" /\ Return("error")
             \/ m \in {"none", "noopen", "nocommit"} /\ Return("row")
  /\ UNCHANGED <<world, canceled, out>>

(* A slip: the exhausted iterator is kept. *)
SlipExhausted ==
  /\ \E l \in Levels \ {1} : Reading(l) /\ cursor[l] + 1 \notin Items(plan, l)
  /\ UNCHANGED vars

(* A slip: io.EOF of the inner iterator is returned like an error. *)
SlipReturnEOF ==
  /\ \E l \in Levels \ {1} : Reading(l) /\ cursor[l] + 1 \notin Items(plan, l)
  /\ Return("error")
  /\ UNCHANGED <<world, canceled, iters, out>>

(* The inner iterator of a level after the first is exhausted. *)
Exhausted ==
  /\ \E l \in Levels \ {1} :
       /\ Reading(l) /\ cursor[l] + 1 \notin Items(plan, l)
       /\ open' = [open EXCEPT ![l] = FALSE]
  /\ UNCHANGED <<world, status, canceled, at, ret, cursor, row, ended, out>>

(* The first iterator has no more items, or never had any. *)
FirstEnds ==
  /\ Running(1) /\ ~(Iter(1).polls /\ canceled)
  /\ open[1] => cursor[1] + 1 \notin Items(plan, 1)
  /\ IF Iter(1).drains /\ skip THEN Continue ELSE Return("eof")
  /\ UNCHANGED <<world, canceled, iters, out>>

(* chainableRowIter.Next returns a row, or the end. *)
Deliver ==
  /\ status = "run" /\ at = Engine /\ ret # "none"
  /\ ret' = "none"
  /\ IF ret = "row"
       THEN out' = Append(out, row[Depth(plan)]) /\ UNCHANGED status
       ELSE status' = ret /\ UNCHANGED out
  /\ UNCHANGED <<world, canceled, at, iters, ended>>

(* The client goes away while the query runs. *)
Cancel ==
  /\ status = "run" /\ ~canceled
  /\ canceled' = TRUE
  /\ UNCHANGED <<world, status, at, ret, iters, ended, out>>

(* The engine closes the iterator between two calls. *)
Close ==
  /\ status # "closed"
  /\ status = "run" => at = Engine /\ ret = "none"
  /\ status' = "closed"
  /\ UNCHANGED <<world, canceled, at, ret, iters, ended, out>>

Step ==
  \/ PartitionRows \/ AskParent \/ Open \/ ParentEnds \/ Poll
  \/ ReadItem \/ Exhausted \/ FirstEnds \/ Deliver

Next == Step \/ Cancel \/ Close

Spec == Init /\ [][Next]_vars

(* A query that was not stopped keeps running; nobody has to cancel it. *)
FairSpec == Spec /\ WF_vars(Step)

-----------------------------------------------------------------------------
(* The join: the rows of the last level that are fit to be returned and all
   of whose prefixes are fit to be continued. *)
Joined ==
  {r \in Rows(plan, Depth(plan)) : \A l \in 0..Depth(plan) : Mark(SubSeq(r, 1, l)) = "none"}

(* Rows of one chain in the order of nested loops. *)
Before(r, q) ==
  \E i \in DOMAIN r : r[i] < q[i] /\ \A j \in 1..(i - 1) : r[j] = q[j]

Promise == INSTANCE RowSource WITH owed <- Joined

(* The chain of iterators implements the nested-loop join: the rows of the
   join in order, each once, and io.EOF only after all of them, whatever was
   skipped on the way (ServerHelp: "just skip those rows"). *)
ImplementsJoin == Promise!Spec

(* Without SkipGitErrors an unreadable row on the way of the join is never
   passed over in silence: the query does not end in io.EOF. *)
NothingSkippedSilently ==
  status = "eof" /\ ~skip =>
    \A x \in marks :
      x[2] \in {"norepo", "noopen", "unread", "lost"} =>
        \E l \in 0..(Len(x[1]) - 1) : Mark(SubSeq(x[1], 1, l)) # "none"

(* A query fails only for a cause: a row that cannot be read, or whose filters
   fail, and that the join reaches.  The end of an inner iterator, a row that
   is filtered out and a reference to something else than a commit are none. *)
FailsForACause ==
  status \in {"error", "panic"} =>
    \E x \in marks :
      /\ x[2] \in {"norepo", "noopen", "unread", "lost", "fatal"}
      /\ \A l \in 0..(Len(x[1]) - 1) : Mark(SubSeq(x[1], 1, l)) = "none"

(* squash_iterator.go on Advance: "After io.EOF or any other error, this
   method should not be called."  It is not, but for squashCommitFilesIter,
   which takes any error of the iterators before it for one to be skipped. *)
NoAdvanceAfterEnd ==
  \A l \in Levels :
    ended[l] /\ Running(l) =>
      skip /\ \E m \in Levels : m > l /\ Iter(m) = squashCommitFilesIter

(* The iterators that may go round their loop for ever when errors are
   skipped: squashCommitsIndexIter at the end of the index, and
   squashCommitFilesIter after an error or a cancellation of its parent. *)
MaySpin == skip /\ \E l \in Levels : Iter(l).drains \/ Iter(l).parent = "skip"

(* Every other query ends, canceled or not and whatever is skipped. *)
Terminates == MaySpin \/ <>(status # "run")
=============================================================================
