----------------------------- MODULE CommitWalk -----------------------------
(***************************************************************************)
(* commits.go: the scan of the commits table.  commitIter walks the        *)
(* history of every reference of a repository, breadth first, with one set *)
(* of visited hashes for the whole repository; commitRowIter turns its     *)
(* commits into rows and decides what to do with its errors.               *)
(*                                                                         *)
(* A step of the model is one iteration of the loop of commitIter.Next (or *)
(* of loadNextRef): the fields of the iterator live on between iterations  *)
(* and between calls alike, so where one call ends and the next begins     *)
(* makes no difference to them.                                            *)
(***************************************************************************)
EXTENDS GitRepo

CONSTANT Repos     \* the repositories considered

ASSUME ReposAreRepositories == Repos \subseteq RepoType

VARIABLES
  git,      \* the repository, never written
  skip,     \* Session.SkipGitErrors
  status,   \* "new", "next", "eof", "error" or "closed"
  refs,     \* whether i.refs is non-nil
  pos,      \* references read so far from i.refs
  ref,      \* i.ref: the hash of the current reference, or None
  seen,     \* i.seen: the hashes visited
  queue,    \* i.queue: the hashes to visit for the current reference
  out       \* the commits returned, each with the hash it was visited under

vars == <<git, skip, status, refs, pos, ref, seen, queue, out>>

walk == <<refs, pos, ref, seen, queue, out>>

Emission == [commit : Commit, name : Object]

TypeOK ==
  /\ git \in RepoType
  /\ skip \in BOOLEAN
  /\ status \in {"new", "next", "eof", "error", "closed"}
  /\ refs \in BOOLEAN
  /\ pos \in 0..Len(git.refs)
  /\ ref \in Object \union {None}
  /\ seen \subseteq Object
  /\ queue \in Seq(Commit)
  /\ out \in Seq(Emission)

Init ==
  /\ git \in Repos
  /\ skip \in BOOLEAN
  /\ status = "new"
  /\ refs = FALSE
  /\ pos = 0
  /\ ref = None
  /\ seen = {}
  /\ queue = <<>>
  /\ out = <<>>

-----------------------------------------------------------------------------
(* newCommitIter: an error of References is fatal, or leaves refs nil. *)
NewCommitIter ==
  /\ status = "new"
  /\ status' = IF git.refsErr /\ ~skip THEN "error" ELSE "next"
  /\ refs' = ~git.refsErr
  /\ UNCHANGED <<git, skip, pos, ref, seen, queue, out>>

(* A slip: errors are dropped whatever the session asks for. *)
SlipGitError == status' = "next"

(* A git error inside Next: the iteration is dropped, or the error is
   returned; commitRowIter uses the same flag, so it returns it too. *)
GitError == status' = IF skip THEN "next" ELSE "error"

(* A slip: the row of a tagged commit carries the hash of the tag. *)
SlipReturnName(commit, name, rest) ==
  /\ queue' = rest \o git.parents[commit]
  /\ out' = Append(out, [commit |-> name, name |-> name])
  /\ UNCHANGED status

(* A slip: the parents replace what was still to be visited. *)
SlipReturnRest(commit, name, rest) ==
  /\ queue' = git.parents[commit]
  /\ out' = Append(out, [commit |-> commit, name |-> name])
  /\ UNCHANGED status

(* commit is returned under the hash name, its parents queued after rest. *)
Return(commit, name, rest) ==
  /\ queue' = rest \o git.parents[commit]
  /\ out' = Append(out, [commit |-> commit, name |-> name])
  /\ UNCHANGED status

Loading == status = "next" /\ ref = None

(* loadNextRef at the end of the references, or without any. *)
NoMoreRefs ==
  /\ Loading
  /\ ~refs \/ pos = Len(git.refs)
  /\ status' = "eof"
  /\ UNCHANGED <<git, skip, walk>>

(* loadNextRef reads an error or a reference that is not a hash. *)
PassRef ==
  /\ Loading /\ refs /\ pos < Len(git.refs)
  /\ git.refs[pos + 1] \in {Symbolic, BadRef}
  /\ pos' = pos + 1
  /\ IF git.refs[pos + 1] = BadRef THEN GitError ELSE UNCHANGED status
  /\ UNCHANGED <<git, skip, refs, ref, seen, queue, out>>

(* Next with no current reference: load one and visit what it names. *)
VisitRef ==
  /\ Loading /\ refs /\ pos < Len(git.refs)
  /\ LET h == git.refs[pos + 1] IN
     /\ h \in Object
     /\ pos' = pos + 1
     /\ seen' = seen \union {h}
     /\ ref' = IF h \notin seen /\ IsInvalid(git, h) THEN None ELSE h
     /\ \/ /\ h \in seen \/ IsInvalid(git, h)
           /\ UNCHANGED <<status, queue, out>>
        \/ /\ h \notin seen /\ Resolves(git, h)
           /\ Return(Target(git, h), h, queue)
        \/ /\ h \notin seen /\ IsMissing(git, h)
           /\ GitError
           /\ UNCHANGED <<queue, out>>
  /\ UNCHANGED <<git, skip, refs>>

(* A slip: the finished reference is not dropped. *)
SlipFinishRef ==
  /\ status = "next" /\ ref # None /\ queue = <<>>
  /\ UNCHANGED vars

(* Next with a current reference and nothing left to visit for it. *)
FinishRef ==
  /\ status = "next" /\ ref # None /\ queue = <<>>
  /\ ref' = None
  /\ UNCHANGED <<git, skip, status, refs, pos, seen, queue, out>>

(* A slip: a queued hash is looked up without asking whether it was visited. *)
SlipVisitQueued ==
  /\ status = "next" /\ ref # None /\ queue # <<>>
  /\ LET h == Head(queue) IN
     /\ seen' = seen \union {h}
     /\ CommitObject(git, h)
     /\ Return(h, h, Tail(queue))
  /\ UNCHANGED <<git, skip, refs, pos, ref>>

(* A slip: the error of CommitObject is not looked at. *)
SlipVisitUnread ==
  /\ status = "next" /\ ref # None /\ queue # <<>>
  /\ LET h == Head(queue) IN
     /\ seen' = seen \union {h}
     /\ \/ /\ h \in seen
           /\ queue' = Tail(queue)
           /\ UNCHANGED <<status, out>>
        \/ /\ h \notin seen
           /\ Return(h, h, Tail(queue))
  /\ UNCHANGED <<git, skip, refs, pos, ref>>

(* Next with a current reference: visit the first hash of the queue. *)
VisitQueued ==
  /\ status = "next" /\ ref # None /\ queue # <<>>
  /\ LET h == Head(queue) IN
     /\ seen' = seen \union {h}
     /\ \/ /\ h \in seen
           /\ queue' = Tail(queue)
           /\ UNCHANGED <<status, out>>
        \/ /\ h \notin seen /\ CommitObject(git, h)
           /\ Return(h, h, Tail(queue))
        \/ /\ h \notin seen /\ ~CommitObject(git, h)
           /\ GitError
           /\ queue' = Tail(queue)
           /\ UNCHANGED out
  /\ UNCHANGED <<git, skip, refs, pos, ref>>

(* Close: the engine stops after io.EOF, after an error, or when it has
   enough rows. *)
Close ==
  /\ status \in {"next", "eof", "error"}
  /\ status' = "closed"
  /\ refs' = FALSE
  /\ UNCHANGED <<git, skip, pos, ref, seen, queue, out>>

Step ==
  NewCommitIter \/ NoMoreRefs \/ PassRef \/ VisitRef \/ FinishRef \/ VisitQueued

Next == Step \/ Close

Spec == Init /\ [][Next]_vars

(* The engine keeps asking for rows until it is told to stop. *)
FairSpec == Spec /\ WF_vars(Step)

-----------------------------------------------------------------------------
OutCommits == {out[k].commit : k \in DOMAIN out}

(* Soundness of the scan: only commits in the history of the references
   are returned; whatever set is closed under that history contains them. *)
OnlyHistory ==
  \A C \in SUBSET Commit : HistoryClosed(git, C) => OutCommits \subseteq C

(* Completeness of the scan: when Next reports io.EOF, every readable commit
   in the history of every readable reference has been returned, whatever
   was skipped on the way and whichever reference reached it first. *)
WholeHistoryAtEOF ==
  status = "eof" /\ ~git.refsErr => HistoryClosed(git, OutCommits)

(* docs/using-gitbase/schema.md on the commits table: "not duplicated by
   repository".  The set of visited hashes is shared by all references, so a
   commit is returned twice only when one of the visits came through an
   annotated tag. *)
RepeatedOnlyThroughTags ==
  \A i, j \in DOMAIN out :
    i # j /\ out[i].commit = out[j].commit =>
      out[i].name # out[j].name /\ {out[i].name, out[j].name} \intersect Tag # {}

(* Without SkipGitErrors nothing unreadable is passed over: if the walk ends
   in io.EOF, the references and all the history they name could be read. *)
NothingSkippedSilently ==
  status = "eof" /\ ~skip =>
    /\ ~git.refsErr
    /\ BadRef \notin Elems(git.refs)
    /\ \A h \in Elems(git.refs) \intersect Object : ~IsMissing(git, h)
    /\ \A c \in OutCommits : Elems(git.parents[c]) \intersect git.missing = {}

(* The walk of a repository ends. *)
Terminates == <>(status \in {"eof", "error", "closed"})

-----------------------------------------------------------------------------
(* The strengthening that makes the properties above inductive.  The visited
   hashes and the queue together cover the parents of what was returned, so
   that an empty queue leaves a closed set behind. *)
VisitedIsReturned ==
  \A h \in seen : Resolves(git, h) => Target(git, h) \in OutCommits

ReadRefsAreVisited ==
  \A i \in 1..pos : git.refs[i] \in Object => git.refs[i] \in seen

ParentsAreVisitedOrQueued ==
  \A c \in OutCommits : ParentsOf(git, c) \subseteq seen \union Elems(queue)

QueuedAreParents ==
  \A q \in Elems(queue) : \E c \in OutCommits : q \in Elems(git.parents[c])

IdleQueueIsEmpty == ref = None => queue = <<>>

RefsStayOpen == status = "next" /\ ~git.refsErr => refs

EOFIsTheEnd ==
  status = "eof" => ref = None /\ (git.refsErr \/ pos = Len(git.refs))

IInv ==
  /\ TypeOK
  /\ VisitedIsReturned
  /\ ReadRefsAreVisited
  /\ ParentsAreVisitedOrQueued
  /\ QueuedAreParents
  /\ IdleQueueIsEmpty
  /\ RefsStayOpen
  /\ EOFIsTheEnd
  /\ OnlyHistory
=============================================================================
