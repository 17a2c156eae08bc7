---------------------------- MODULE RefCommitWalk ----------------------------
(***************************************************************************)
(* ref_commits.go: the scan of the ref_commits table.  refCommitsRowIter   *)
(* takes HEAD and then every reference of a repository; for each one it    *)
(* starts an indexedCommitIter, which walks the history depth first with a *)
(* stack of frames and counts the steps from the reference's commit        *)
(* (history_index).                                                        *)
(*                                                                         *)
(* A reference is known by its position: 0 is HEAD, k > 0 the k-th of the  *)
(* reference iterator.  A step is one iteration of a loop of next or of    *)
(* indexedCommitIter.Next.                                                 *)
(***************************************************************************)
EXTENDS GitRepo, Integers, SequencesExt

CONSTANT Repos     \* the repositories considered

ASSUME ReposAreRepositories == Repos \subseteq RepoType

VARIABLES
  git,      \* the repository, never written
  skip,     \* i.skipGitErrors
  wanted,   \* the references whose name i.refNames selects
  status,   \* "next", "eof", "error" or "closed"
  refs,     \* whether i.refs is non-nil
  head,     \* i.head: the hash of HEAD while it waits for its turn, or None
  pos,      \* references read so far from i.refs
  ref,      \* i.ref: the reference being walked
  walking,  \* whether i.commits is non-nil
  stack,    \* i.commits.stack
  seen,     \* i.commits.seen
  out       \* the rows returned

vars == <<git, skip, wanted, status, refs, head, pos, ref, walking, stack, seen, out>>

References == 0..Len(git.refs)

(* Selectors that name no reference, all of them or a single one. *)
Init ==
  /\ git \in Repos
  /\ skip \in BOOLEAN
  /\ wanted \in {{}, References} \union {{k} : k \in References}
  /\ status = "next"
  /\ refs = FALSE
  /\ head = None
  /\ pos = 0
  /\ ref = 0
  /\ walking = FALSE
  /\ stack = <<>>
  /\ seen = {}
  /\ out = <<>>

-----------------------------------------------------------------------------
(* A slip: errors are dropped whatever the session asks for. *)
SlipGitError == status' = "next"

GitError == status' = IF skip THEN "next" ELSE "error"

(* next, first call: the references and HEAD.  An unreadable HEAD that is
   skipped leaves the references open: the loop goes on without HEAD. *)
LoadRefs ==
  /\ status = "next" /\ ~refs
  /\ IF git.refsErr
       THEN /\ status' = IF skip THEN "eof" ELSE "error"
            /\ UNCHANGED <<refs, head>>
       ELSE /\ refs' = TRUE
            /\ head' = IF git.head = BadRef THEN None ELSE git.head
            /\ IF git.head = BadRef THEN GitError ELSE UNCHANGED status
  /\ UNCHANGED <<git, skip, wanted, pos, ref, walking, stack, seen, out>>

Choosing == status = "next" /\ refs /\ ~walking

NoMoreRefs ==
  /\ Choosing /\ head = None /\ pos = Len(git.refs)
  /\ status' = "eof"
  /\ UNCHANGED <<git, skip, wanted, refs, head, pos, ref, walking, stack, seen, out>>

(* The reference iterator fails. *)
FailRef ==
  /\ Choosing /\ head = None /\ pos < Len(git.refs)
  /\ git.refs[pos + 1] = BadRef
  /\ pos' = pos + 1
  /\ GitError
  /\ UNCHANGED <<git, skip, wanted, refs, head, ref, walking, stack, seen, out>>

(* A slip: the walk starts with the visited hashes of the reference before. *)
SlipNewIndexedCommitIter(commit) ==
  /\ walking' = TRUE
  /\ stack' = <<[idx |-> 0, pos |-> 1, hashes |-> <<commit>>]>>
  /\ UNCHANGED seen

newIndexedCommitIter(commit) ==
  /\ walking' = TRUE
  /\ stack' = <<[idx |-> 0, pos |-> 1, hashes |-> <<commit>>]>>
  /\ seen' = {}

(* Reference k, which names the object h, is passed over or opened. *)
Open(k, h) ==
  /\ ref' = k
  /\ \/ /\ k \notin wanted \/ h = Symbolic \/ IsInvalid(git, h)
        /\ UNCHANGED <<status, walking, stack, seen>>
     \/ /\ k \in wanted /\ h \in Object /\ Resolves(git, h)
        /\ newIndexedCommitIter(Target(git, h))
        /\ UNCHANGED status
     \/ /\ k \in wanted /\ h \in Object /\ IsMissing(git, h)
        /\ GitError
        /\ UNCHANGED <<walking, stack, seen>>
  /\ UNCHANGED <<git, skip, wanted, refs, out>>

OpenHead ==
  /\ Choosing /\ head # None
  /\ head' = None
  /\ Open(0, head)
  /\ UNCHANGED pos

OpenRef ==
  /\ Choosing /\ head = None /\ pos < Len(git.refs)
  /\ git.refs[pos + 1] # BadRef
  /\ pos' = pos + 1
  /\ Open(pos + 1, git.refs[pos + 1])
  /\ UNCHANGED head

(* A slip: i.commits is not dropped at io.EOF. *)
SlipFinishRef ==
  /\ status = "next" /\ walking /\ stack = <<>>
  /\ UNCHANGED vars

(* indexedCommitIter returns io.EOF. *)
FinishRef ==
  /\ status = "next" /\ walking /\ stack = <<>>
  /\ walking' = FALSE
  /\ UNCHANGED <<git, skip, wanted, status, refs, head, pos, ref, stack, seen, out>>

(* The stack once the current hash of its top frame is taken. *)
Advance(s) ==
  LET top == Last(s) IN
  IF top.pos = Len(top.hashes) THEN Front(s)
  ELSE [s EXCEPT ![Len(s)].pos = top.pos + 1]

(* A slip: the frame of the parents has the index of the child. *)
SlipPush(s, idx, hashes) ==
  IF hashes = <<>> THEN s
  ELSE Append(s, [idx |-> idx - 1, pos |-> 1, hashes |-> hashes])

Push(s, idx, hashes) ==
  IF hashes = <<>> THEN s ELSE Append(s, [idx |-> idx, pos |-> 1, hashes |-> hashes])

(* A slip: parents are not looked for in seen. *)
SlipUnseenParents(h) == git.parents[h]

(* The parents that were not visited, h itself being visited now: parents[n]
   is what the loop has collected after n of them. *)
UnseenParents(h) ==
  LET ps == git.parents[h]
      parents[n \in 0..Len(ps)] ==
        IF n = 0 THEN <<>>
        ELSE IF ps[n] \in seen \union {h} THEN parents[n - 1] ELSE Append(parents[n - 1], ps[n])
  IN  parents[Len(ps)]

(* indexedCommitIter.Next: the next hash of the top frame.  The parents that
   were visited before are left out, but a hash that waits in a frame is not
   looked for in seen again when its turn comes. *)
Visit ==
  /\ status = "next" /\ walking /\ stack # <<>>
  /\ LET top == Last(stack)
         h == top.hashes[top.pos]
     IN
     /\ seen' = seen \union {h}
     /\ \/ /\ CommitObject(git, h)
           /\ stack' = Push(Advance(stack), top.idx + 1, UnseenParents(h))
           /\ out' = Append(out, [ref |-> ref, commit |-> h, idx |-> top.idx])
           /\ UNCHANGED status
        \/ /\ ~CommitObject(git, h)
           /\ GitError
           /\ stack' = Advance(stack)
           /\ UNCHANGED out
  /\ UNCHANGED <<git, skip, wanted, refs, head, pos, ref, walking>>

Close ==
  /\ status # "closed"
  /\ status' = "closed"
  /\ UNCHANGED <<git, skip, wanted, refs, head, pos, ref, walking, stack, seen, out>>

Step ==
  LoadRefs \/ NoMoreRefs \/ FailRef \/ OpenHead \/ OpenRef \/ FinishRef \/ Visit

Next == Step \/ Close

Spec == Init /\ [][Next]_vars

(* The engine keeps asking for rows until it is told to stop. *)
FairSpec == Spec /\ WF_vars(Step)

-----------------------------------------------------------------------------
(* What reference k names; HEAD may name nothing. *)
HashOf(k) == IF k = 0 THEN git.head ELSE git.refs[k]

Walkable(k) == k \in wanted /\ HashOf(k) \in Object /\ Resolves(git, HashOf(k))

(* history_index is a distance: the row 0 of a reference is the commit it
   names, and a row n + 1 is a parent of a commit that the same reference
   returned before as its row n.  So a row never belongs to another
   reference's history. *)
HistoryIndexIsADistance ==
  \A i \in DOMAIN out :
    /\ Walkable(out[i].ref)
    /\ IF out[i].idx = 0 THEN out[i].commit = Target(git, HashOf(out[i].ref))
       ELSE \E j \in 1..(i - 1) :
              /\ out[j].ref = out[i].ref
              /\ out[j].idx + 1 = out[i].idx
              /\ out[i].commit \in ParentsOf(git, out[j].commit)

(* At io.EOF each selected reference, HEAD too, has its whole readable
   history among its own rows, whatever the other references returned. *)
WholeHistoryOfEachReference ==
  status = "eof" /\ ~git.refsErr =>
    \A k \in References : Walkable(k) =>
      LET commits == {out[i].commit : i \in {n \in DOMAIN out : out[n].ref = k}}
      IN  Target(git, HashOf(k)) \in commits /\ ParentClosed(git, commits)

(* Without SkipGitErrors nothing unreadable is passed over. *)
NothingSkippedSilently ==
  status = "eof" /\ ~skip =>
    /\ ~git.refsErr
    /\ BadRef \notin Elems(git.refs) \union {git.head}
    /\ \A k \in wanted : HashOf(k) \in Object => ~IsMissing(git, HashOf(k))
    /\ \A i \in DOMAIN out : Elems(git.parents[out[i].commit]) \intersect git.missing = {}

(* A reference returns a commit again only if the commit was waiting, as a
   parent of an earlier row, when it was returned first: once visited it is
   never queued, so the repetitions are bounded by the merges of the history
   (docs/using-gitbase/schema.md: "Commits will be repeated if they are in
   several repositories or references"). *)
RepeatedOnlyIfWaiting ==
  \A j \in DOMAIN out : \A i \in 1..(j - 1) :
    out[i].ref = out[j].ref /\ out[i].commit = out[j].commit =>
      \E k \in 1..(i - 1) :
        /\ out[k].ref = out[j].ref
        /\ out[k].idx + 1 = out[j].idx
        /\ out[j].commit \in ParentsOf(git, out[k].commit)

(* The walk of a repository ends. *)
Terminates == <>(status \in {"eof", "error", "closed"})
=============================================================================
