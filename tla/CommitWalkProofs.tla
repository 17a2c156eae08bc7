-------------------------- MODULE CommitWalkProofs --------------------------
(***************************************************************************)
(* Proofs about CommitWalk, for every set of repositories: of any size, of *)
(* any shape, with any objects missing.                                    *)
(***************************************************************************)
EXTENDS CommitWalk, TLAPS

-----------------------------------------------------------------------------
(* The elements of a sequence under the operations the walk uses. *)

LEMMA ElemsEmpty == Elems(<<>>) = {}
  BY DEF Elems

LEMMA ElemsConcat ==
  ASSUME NEW S, NEW s \in Seq(S), NEW t \in Seq(S)
  PROVE  s \o t \in Seq(S) /\ Elems(s \o t) = Elems(s) \union Elems(t)
<1>1. s \o t \in Seq(S)
  OBVIOUS
<1>2. Len(s \o t) = Len(s) + Len(t)
  OBVIOUS
<1>3. \A i \in 1..Len(s) : (s \o t)[i] = s[i]
  OBVIOUS
<1>4. \A i \in 1..Len(t) : (s \o t)[Len(s) + i] = t[i]
  OBVIOUS
<1>5. Elems(s \o t) \subseteq Elems(s) \union Elems(t)
  <2> SUFFICES ASSUME NEW i \in 1..(Len(s) + Len(t))
               PROVE  (s \o t)[i] \in Elems(s) \union Elems(t)
    BY <1>1, <1>2 DEF Elems
  <2>1. CASE i <= Len(s)
    BY <2>1, <1>3 DEF Elems
  <2>2. CASE i > Len(s)
    <3>1. i - Len(s) \in 1..Len(t)
      BY <2>2
    <3>2. (s \o t)[i] = t[i - Len(s)]
      BY <3>1, <1>4
    <3> QED
      BY <3>1, <3>2 DEF Elems
  <2> QED
    BY <2>1, <2>2
<1>6. Elems(s) \subseteq Elems(s \o t)
  BY <1>1, <1>2, <1>3 DEF Elems
<1>7. Elems(t) \subseteq Elems(s \o t)
  <2> SUFFICES ASSUME NEW i \in 1..Len(t)
               PROVE  t[i] \in Elems(s \o t)
    BY DEF Elems
  <2>1. Len(s) + i \in 1..Len(s \o t)
    BY <1>2
  <2> QED
    BY <2>1, <1>1, <1>4 DEF Elems
<1> QED
  BY <1>1, <1>5, <1>6, <1>7

LEMMA ElemsTail ==
  ASSUME NEW S, NEW s \in Seq(S), s # <<>>
  PROVE  /\ Head(s) \in S
         /\ Tail(s) \in Seq(S)
         /\ Elems(s) = {Head(s)} \union Elems(Tail(s))
<1>1. Head(s) \in S /\ Head(s) = s[1] /\ Len(s) >= 1
  OBVIOUS
<1>2. Tail(s) \in Seq(S) /\ Len(Tail(s)) = Len(s) - 1
  OBVIOUS
<1>3. \A i \in 1..(Len(s) - 1) : Tail(s)[i] = s[i + 1]
  OBVIOUS
<1>4. Elems(s) \subseteq {Head(s)} \union Elems(Tail(s))
  <2> SUFFICES ASSUME NEW i \in 1..Len(s)
               PROVE  s[i] \in {Head(s)} \union Elems(Tail(s))
    BY DEF Elems
  <2>1. CASE i = 1
    BY <2>1, <1>1
  <2>2. CASE i # 1
    <3>1. i - 1 \in 1..(Len(s) - 1)
      BY <2>2
    <3>2. s[i] = Tail(s)[i - 1]
      BY <3>1, <1>3
    <3>3. DOMAIN Tail(s) = 1..(Len(s) - 1)
      BY <1>2
    <3>4. Tail(s)[i - 1] \in Elems(Tail(s))
      BY <3>1, <3>3 DEF Elems
    <3> QED
      BY <3>2, <3>4
  <2> QED
    BY <2>1, <2>2
<1>5. Elems(Tail(s)) \subseteq Elems(s)
  <2> SUFFICES ASSUME NEW i \in 1..(Len(s) - 1)
               PROVE  Tail(s)[i] \in Elems(s)
    BY <1>2 DEF Elems
  <2>1. i + 1 \in 1..Len(s) /\ Tail(s)[i] = s[i + 1]
    BY <1>3
  <2> QED
    BY <2>1 DEF Elems
<1>6. Head(s) \in Elems(s)
  BY <1>1 DEF Elems
<1> QED
  BY <1>1, <1>2, <1>4, <1>5, <1>6

(* Returning a commit adds it to the commits returned, and nothing else. *)
LEMMA OutCommitsAppend ==
  ASSUME NEW c \in Commit, NEW n \in Object,
         out \in Seq(Emission),
         out' = Append(out, [commit |-> c, name |-> n])
  PROVE  /\ out' \in Seq(Emission)
         /\ OutCommits' = OutCommits \union {c}
<1>0. [commit |-> c, name |-> n] \in Emission
  BY DEF Emission
<1>1. Len(out') = Len(out) + 1
  OBVIOUS
<1>2. out'[Len(out) + 1].commit = c
  OBVIOUS
<1>3. \A i \in 1..Len(out) : out'[i] = out[i]
  OBVIOUS
<1>4. out' \in Seq(Emission)
  BY <1>0
<1>5. DOMAIN out' = 1..(Len(out) + 1) /\ DOMAIN out = 1..Len(out)
  BY <1>1, <1>4
<1>6. OutCommits' \subseteq OutCommits \union {c}
  BY <1>2, <1>3, <1>5 DEF OutCommits
<1>7. OutCommits \subseteq OutCommits'
  BY <1>3, <1>5 DEF OutCommits
<1>8. c \in OutCommits'
  BY <1>2, <1>5 DEF OutCommits
<1> QED
  BY <1>4, <1>6, <1>7, <1>8

LEMMA OutCommitsType ==
  ASSUME TypeOK PROVE OutCommits \subseteq Commit
<1> SUFFICES ASSUME NEW k \in DOMAIN out PROVE out[k].commit \in Commit
  BY DEF OutCommits
<1>1. out \in Seq(Emission)
  BY DEF TypeOK
<1>2. out[k] \in Emission
  BY <1>1
<1> QED
  BY <1>2 DEF Emission

-----------------------------------------------------------------------------
(* The invariant holds of a new iterator. *)
LEMMA InitIInv == Init => IInv
<1> SUFFICES ASSUME Init PROVE IInv
  OBVIOUS
<1>1. TypeOK
  <2>1. git \in RepoType /\ Len(git.refs) \in Nat
    BY ReposAreRepositories DEF Init, RepoType
  <2>2. pos \in 0..Len(git.refs)
    BY <2>1 DEF Init
  <2>3. queue \in Seq(Commit) /\ out \in Seq(Emission)
    BY DEF Init
  <2> QED
    BY <2>1, <2>2, <2>3 DEF Init, TypeOK
<1>2. OutCommits = {}
  BY DEF Init, OutCommits
<1>3. Elems(queue) = {}
  BY ElemsEmpty DEF Init
<1> QED
  BY <1>1, <1>2, <1>3
  DEF Init, IInv, VisitedIsReturned, ReadRefsAreVisited, ParentsAreVisitedOrQueued,
      QueuedAreParents, IdleQueueIsEmpty, RefsStayOpen, EOFIsTheEnd, OnlyHistory

(* Returning commit c, visited under the hash n, keeps what relates the
   visited hashes, the queue and the commits returned. *)
LEMMA ReturnKeeps ==
  ASSUME IInv, git' = git,
         NEW n \in Object, NEW c \in Commit, NEW rest \in Seq(Commit),
         Return(c, n, rest), c = Target(git, n), seen' = seen \union {n},
         Elems(rest) \subseteq Elems(queue),
         Elems(queue) \subseteq Elems(rest) \union {n},
         \A C \in SUBSET Commit :
            HistoryClosed(git, C) /\ OutCommits \subseteq C => c \in C
  PROVE  /\ queue' \in Seq(Commit)
         /\ out' \in Seq(Emission)
         /\ VisitedIsReturned'
         /\ ParentsAreVisitedOrQueued'
         /\ QueuedAreParents'
         /\ OnlyHistory'
<1>1. /\ out' \in Seq(Emission)
      /\ OutCommits' = OutCommits \union {c}
  BY OutCommitsAppend DEF Return, IInv, TypeOK
<1>2. git.parents[c] \in Seq(Commit)
  BY DEF IInv, TypeOK, RepoType
<1>3. /\ queue' \in Seq(Commit)
      /\ Elems(queue') = Elems(rest) \union Elems(git.parents[c])
  BY <1>2, ElemsConcat DEF Return
<1>4. VisitedIsReturned'
  BY <1>1 DEF IInv, VisitedIsReturned, Resolves, IsMissing, Target
<1>5. ParentsAreVisitedOrQueued'
  <2> SUFFICES ASSUME NEW d \in OutCommits', NEW p \in ParentsOf(git, d)
               PROVE  p \in seen' \union Elems(queue')
    BY DEF ParentsAreVisitedOrQueued, ParentsOf, Elems
  <2>1. CASE d \in OutCommits
    BY <2>1, <1>3 DEF IInv, ParentsAreVisitedOrQueued
  <2>2. CASE d = c
    BY <2>2, <1>3 DEF ParentsOf
  <2> QED
    BY <2>1, <2>2, <1>1
<1>6. QueuedAreParents'
  <2> SUFFICES ASSUME NEW q \in Elems(queue')
               PROVE  \E d \in OutCommits' : q \in Elems(git.parents[d])
    BY DEF QueuedAreParents
  <2>1. CASE q \in Elems(rest)
    BY <2>1, <1>1 DEF IInv, QueuedAreParents
  <2>2. CASE q \in Elems(git.parents[c])
    BY <2>2, <1>1
  <2> QED
    BY <2>1, <2>2, <1>3
<1>7. OnlyHistory'
  <2> SUFFICES ASSUME NEW C \in SUBSET Commit, HistoryClosed(git, C)
               PROVE  OutCommits' \subseteq C
    BY DEF OnlyHistory, HistoryClosed, Roots, ParentClosed, ParentsOf, Target,
           Resolves, IsMissing, Elems
  <2>1. OutCommits \subseteq C
    BY DEF IInv, OnlyHistory
  <2> QED
    BY <2>1, <1>1
<1> QED
  BY <1>1, <1>3, <1>4, <1>5, <1>6, <1>7

-----------------------------------------------------------------------------
(* The parts of the invariant that a step leaves alone when it neither
   returns a commit nor touches the queue. *)
LEMMA QuietKeeps ==
  ASSUME IInv, git' = git, queue' = queue, out' = out, seen' = seen
  PROVE  /\ VisitedIsReturned'
         /\ ParentsAreVisitedOrQueued'
         /\ QueuedAreParents'
         /\ OnlyHistory'
<1>1. OutCommits' = OutCommits
  BY DEF OutCommits
<1> QED
  BY <1>1 DEF IInv, VisitedIsReturned, ParentsAreVisitedOrQueued, QueuedAreParents,
              OnlyHistory

(* A hash that cannot be returned as a commit is only marked as visited. *)
LEMMA MarkKeeps ==
  ASSUME IInv, git' = git, out' = out, NEW n \in Object, seen' = seen \union {n},
         Resolves(git, n) => n \in seen,
         queue' \in Seq(Commit), Elems(queue') \subseteq Elems(queue),
         Elems(queue) \subseteq Elems(queue') \union {n}
  PROVE  /\ VisitedIsReturned'
         /\ ParentsAreVisitedOrQueued'
         /\ QueuedAreParents'
         /\ OnlyHistory'
<1>1. OutCommits' = OutCommits
  BY DEF OutCommits
<1>2. VisitedIsReturned'
  BY <1>1 DEF IInv, VisitedIsReturned
<1>3. ParentsAreVisitedOrQueued'
  BY <1>1 DEF IInv, ParentsAreVisitedOrQueued
<1>4. QueuedAreParents'
  BY <1>1 DEF IInv, QueuedAreParents
<1>5. OnlyHistory'
  BY <1>1 DEF IInv, OnlyHistory
<1> QED
  BY <1>2, <1>3, <1>4, <1>5

LEMMA RefTyping ==
  ASSUME TypeOK, pos < Len(git.refs)
  PROVE  /\ pos + 1 \in 1..Len(git.refs)
         /\ pos + 1 \in 0..Len(git.refs)
         /\ git.refs[pos + 1] \in Object \union {Symbolic, BadRef}
<1>1. git.refs \in Seq(Object \union {Symbolic, BadRef})
  BY DEF TypeOK, RepoType
<1>2. pos \in Nat /\ Len(git.refs) \in Nat
  BY <1>1 DEF TypeOK
<1>3. pos + 1 \in 1..Len(git.refs)
  BY <1>2
<1>4. git.refs[pos + 1] \in Object \union {Symbolic, BadRef}
  BY <1>1, <1>3
<1> QED
  BY <1>2, <1>3, <1>4

(* Reading one more reference. *)
LEMMA ReadOneRef ==
  ASSUME IInv, git' = git, pos < Len(git.refs), pos' = pos + 1, seen \subseteq seen',
         git.refs[pos + 1] \in Object => git.refs[pos + 1] \in seen'
  PROVE  ReadRefsAreVisited'
<1> SUFFICES ASSUME NEW i \in 1..(pos + 1), git.refs[i] \in Object
             PROVE  git.refs[i] \in seen'
  BY DEF ReadRefsAreVisited
<1>1. pos \in Nat
  BY DEF IInv, TypeOK
<1>2. CASE i = pos + 1
  BY <1>2
<1>3. CASE i \in 1..pos
  BY <1>3 DEF IInv, ReadRefsAreVisited
<1> QED
  BY <1>1, <1>2, <1>3

LEMMA NextIInv == IInv /\ [Next]_vars => IInv'
<1> SUFFICES ASSUME IInv, [Next]_vars PROVE IInv'
  OBVIOUS
<1>0. TypeOK
  BY DEF IInv
<1>1. CASE NewCommitIter
  <2>1. VisitedIsReturned' /\ ParentsAreVisitedOrQueued' /\ QueuedAreParents' /\ OnlyHistory'
    BY <1>1, QuietKeeps DEF NewCommitIter
  <2>2. TypeOK'
    BY <1>0, <1>1 DEF TypeOK, NewCommitIter
  <2> QED
    BY <1>1, <2>1, <2>2
    DEF IInv, NewCommitIter, ReadRefsAreVisited, IdleQueueIsEmpty, RefsStayOpen, EOFIsTheEnd
<1>2. CASE NoMoreRefs
  <2>1. VisitedIsReturned' /\ ParentsAreVisitedOrQueued' /\ QueuedAreParents' /\ OnlyHistory'
    BY <1>2, QuietKeeps DEF NoMoreRefs, walk
  <2>2. TypeOK'
    BY <1>0, <1>2 DEF TypeOK, NoMoreRefs, walk
  <2> QED
    BY <1>2, <2>1, <2>2
    DEF IInv, NoMoreRefs, Loading, walk, ReadRefsAreVisited, IdleQueueIsEmpty,
        RefsStayOpen, EOFIsTheEnd
<1>3. CASE PassRef
  <2>1. VisitedIsReturned' /\ ParentsAreVisitedOrQueued' /\ QueuedAreParents' /\ OnlyHistory'
    BY <1>3, QuietKeeps DEF PassRef
  <2>2. pos + 1 \in 0..Len(git.refs)
    BY <1>0, <1>3, RefTyping DEF PassRef
  <2>3. status' \in {"next", "error"} /\ status = "next"
    BY <1>3 DEF PassRef, GitError, Loading
  <2>4. TypeOK'
    BY <1>0, <1>3, <2>2, <2>3 DEF TypeOK, PassRef
  <2>5. ReadRefsAreVisited'
    BY <1>3, ReadOneRef, MarksAreNotHashes DEF PassRef
  <2> QED
    BY <1>3, <2>1, <2>3, <2>4, <2>5
    DEF IInv, PassRef, IdleQueueIsEmpty, RefsStayOpen, EOFIsTheEnd
<1>4. CASE VisitRef
  <2> DEFINE h == git.refs[pos + 1]
  <2>1. /\ status = "next" /\ ref = None /\ refs /\ pos < Len(git.refs)
        /\ h \in Object /\ pos' = pos + 1 /\ seen' = seen \union {h}
        /\ git' = git /\ skip' = skip /\ refs' = refs
        /\ ref' \in {None, h}
    BY <1>4 DEF VisitRef, Loading
  <2>2. queue = <<>>
    BY <2>1 DEF IInv, IdleQueueIsEmpty
  <2>3. ReadRefsAreVisited'
    BY <2>1, ReadOneRef
  <2>4. status' \in {"next", "error"}
    BY <1>4, <2>1 DEF VisitRef, GitError, Return
  <2>5. /\ queue' \in Seq(Commit) /\ out' \in Seq(Emission)
        /\ VisitedIsReturned' /\ ParentsAreVisitedOrQueued'
        /\ QueuedAreParents' /\ OnlyHistory'
        /\ IdleQueueIsEmpty'
    <3>1. CASE queue' = queue /\ out' = out /\ (Resolves(git, h) => h \in seen)
      <4>1. queue \in Seq(Commit) /\ out \in Seq(Emission)
        BY <1>0 DEF TypeOK
      <4> QED
        BY <2>1, <2>2, <3>1, <4>1, MarkKeeps DEF IdleQueueIsEmpty
    <3>2. CASE h \notin seen /\ Resolves(git, h) /\ Return(Target(git, h), h, queue)
      <4>1. Target(git, h) \in Commit /\ queue \in Seq(Commit)
        BY <1>0, <3>2 DEF Resolves, TypeOK
      <4>2. Target(git, h) \in Roots(git)
        <5>1. git.refs \in Seq(Object \union {Symbolic, BadRef})
          BY <1>0 DEF TypeOK, RepoType
        <5>2. h \in Elems(git.refs)
          BY <1>0, <2>1, <5>1, RefTyping DEF Elems
        <5> QED
          BY <2>1, <3>2, <5>2 DEF Roots
      <4>3. \A C \in SUBSET Commit :
              HistoryClosed(git, C) /\ OutCommits \subseteq C => Target(git, h) \in C
        BY <4>2 DEF HistoryClosed
      <4>4. IdleQueueIsEmpty'
        <5>1. ~IsInvalid(git, h)
          BY <3>2, HashesDisjoint DEF Resolves, IsInvalid
        <5>2. ref' = h
          BY <1>4, <5>1 DEF VisitRef
        <5> QED
          BY <2>1, <5>2, MarksAreNotHashes DEF IdleQueueIsEmpty
      <4> HIDE DEF h
      <4> QED
        BY <2>1, <3>2, <4>1, <4>3, <4>4, ReturnKeeps
    <3>3. IsInvalid(git, h) => ~Resolves(git, h)
      BY HashesDisjoint DEF IsInvalid, Resolves
    <3>4. IsMissing(git, h) => ~Resolves(git, h)
      BY DEF Resolves
    <3>5. \/ /\ h \in seen \/ IsInvalid(git, h)
             /\ queue' = queue /\ out' = out
          \/ /\ h \notin seen /\ Resolves(git, h)
             /\ Return(Target(git, h), h, queue)
          \/ /\ h \notin seen /\ IsMissing(git, h)
             /\ queue' = queue /\ out' = out
      BY <1>4 DEF VisitRef
    <3> HIDE DEF h
    <3> QED
      BY <3>1, <3>2, <3>3, <3>4, <3>5
  <2>6. TypeOK'
    BY <1>0, <2>1, <2>4, <2>5, RefTyping DEF TypeOK
  <2> QED
    BY <2>1, <2>3, <2>4, <2>5, <2>6 DEF IInv, RefsStayOpen, EOFIsTheEnd
<1>5. CASE FinishRef
  <2>1. VisitedIsReturned' /\ ParentsAreVisitedOrQueued' /\ QueuedAreParents' /\ OnlyHistory'
    BY <1>5, QuietKeeps DEF FinishRef
  <2>2. TypeOK'
    BY <1>0, <1>5 DEF TypeOK, FinishRef
  <2> QED
    BY <1>5, <2>1, <2>2
    DEF IInv, FinishRef, ReadRefsAreVisited, IdleQueueIsEmpty, RefsStayOpen, EOFIsTheEnd
<1>6. CASE VisitQueued
  <2> DEFINE h == Head(queue)
  <2>1. /\ status = "next" /\ ref # None /\ queue # <<>>
        /\ seen' = seen \union {h} /\ UNCHANGED <<git, skip, refs, pos, ref>>
    BY <1>6 DEF VisitQueued
  <2>2. /\ h \in Commit /\ Tail(queue) \in Seq(Commit)
        /\ Elems(queue) = {h} \union Elems(Tail(queue))
    BY <1>0, <2>1, ElemsTail DEF TypeOK
  <2>3. h \in Object /\ Target(git, h) = h
    BY <2>2, HashesDisjoint DEF Object, Target
  <2>4. Resolves(git, h) <=> CommitObject(git, h)
    BY <2>2, <2>3 DEF Resolves, IsMissing, CommitObject
  <2>5. status' \in {"next", "error"}
    BY <1>6, <2>1 DEF VisitQueued, GitError, Return
  <2>6. /\ queue' \in Seq(Commit) /\ out' \in Seq(Emission)
        /\ VisitedIsReturned' /\ ParentsAreVisitedOrQueued'
        /\ QueuedAreParents' /\ OnlyHistory'
    <3>1. CASE queue' = Tail(queue) /\ out' = out /\ (Resolves(git, h) => h \in seen)
      <4>1. out \in Seq(Emission)
        BY <1>0 DEF TypeOK
      <4> HIDE DEF h
      <4> QED
        BY <2>1, <2>2, <2>3, <3>1, <4>1, MarkKeeps
    <3>2. CASE CommitObject(git, h) /\ Return(h, h, Tail(queue))
      <4>1. ASSUME NEW C \in SUBSET Commit, HistoryClosed(git, C), OutCommits \subseteq C
            PROVE  h \in C
        <5>1. PICK c \in OutCommits : h \in Elems(git.parents[c])
          BY <2>2 DEF IInv, QueuedAreParents
        <5>2. h \in ParentsOf(git, c)
          BY <3>2, <5>1 DEF ParentsOf, CommitObject
        <5> QED
          BY <4>1, <5>1, <5>2 DEF HistoryClosed, ParentClosed
      <4> HIDE DEF h
      <4> QED
        BY <2>1, <2>2, <2>3, <3>2, <4>1, ReturnKeeps
    <3> QED
      BY <1>6, <2>4, <3>1, <3>2 DEF VisitQueued
  <2>7. TypeOK'
    BY <1>0, <2>1, <2>3, <2>5, <2>6 DEF TypeOK
  <2> QED
    BY <2>1, <2>5, <2>6, <2>7
    DEF IInv, ReadRefsAreVisited, IdleQueueIsEmpty, RefsStayOpen, EOFIsTheEnd
<1>7. CASE Close
  <2>1. VisitedIsReturned' /\ ParentsAreVisitedOrQueued' /\ QueuedAreParents' /\ OnlyHistory'
    BY <1>7, QuietKeeps DEF Close
  <2>2. TypeOK'
    BY <1>0, <1>7 DEF TypeOK, Close
  <2> QED
    BY <1>7, <2>1, <2>2
    DEF IInv, Close, ReadRefsAreVisited, IdleQueueIsEmpty, RefsStayOpen, EOFIsTheEnd
<1>8. CASE UNCHANGED vars
  <2>1. VisitedIsReturned' /\ ParentsAreVisitedOrQueued' /\ QueuedAreParents' /\ OnlyHistory'
    BY <1>8, QuietKeeps DEF vars
  <2> QED
    BY <1>8, <2>1
    DEF IInv, vars, TypeOK, ReadRefsAreVisited, IdleQueueIsEmpty, RefsStayOpen, EOFIsTheEnd
<1> QED
  BY <1>1, <1>2, <1>3, <1>4, <1>5, <1>6, <1>7, <1>8 DEF Next, Step

-----------------------------------------------------------------------------
(* The walk of commits.go keeps its invariant in every repository. *)
THEOREM Invariance == Spec => []IInv
  BY InitIInv, NextIInv, PTL DEF Spec

(* The fields of commitIter keep their types. *)
THEOREM Typing == Spec => []TypeOK
<1>1. IInv => TypeOK
  BY DEF IInv
<1> QED
  BY Invariance, <1>1, PTL

(* Only commits in the history of the references become rows. *)
THEOREM Soundness == Spec => []OnlyHistory
<1>1. IInv => OnlyHistory
  BY DEF IInv
<1> QED
  BY Invariance, <1>1, PTL

(* At io.EOF every readable commit in the history of the references has
   become a row: the scan of the commits table misses nothing. *)
THEOREM Completeness == Spec => []WholeHistoryAtEOF
<1>1. IInv => WholeHistoryAtEOF
  <2> SUFFICES ASSUME IInv, status = "eof", ~git.refsErr
               PROVE  HistoryClosed(git, OutCommits)
    BY DEF WholeHistoryAtEOF
  <2>1. ref = None /\ pos = Len(git.refs)
    BY DEF IInv, EOFIsTheEnd
  <2>2. Elems(queue) = {}
    BY <2>1, ElemsEmpty DEF IInv, IdleQueueIsEmpty
  <2>3. git.refs \in Seq(Object \union {Symbolic, BadRef})
    BY DEF IInv, TypeOK, RepoType
  <2>4. Roots(git) \subseteq OutCommits
    <3> SUFFICES ASSUME NEW r \in Elems(git.refs), r \in Object, Resolves(git, r)
                 PROVE  Target(git, r) \in OutCommits
      BY DEF Roots
    <3>1. PICK i \in 1..Len(git.refs) : r = git.refs[i]
      BY <2>3 DEF Elems
    <3>2. r \in seen
      BY <2>1, <3>1 DEF IInv, ReadRefsAreVisited
    <3> QED
      BY <3>2 DEF IInv, VisitedIsReturned
  <2>5. ASSUME NEW c \in OutCommits, NEW p \in ParentsOf(git, c)
        PROVE  p \in OutCommits
    <3>1. p \in seen
      BY <2>2 DEF IInv, ParentsAreVisitedOrQueued
    <3>2. c \in Commit
      BY OutCommitsType DEF IInv
    <3>3. git.parents[c] \in Seq(Commit)
      BY <3>2 DEF IInv, TypeOK, RepoType
    <3>4. p \in Commit \ git.missing
      BY <3>3 DEF ParentsOf, Elems
    <3>5. Resolves(git, p) /\ Target(git, p) = p
      BY <3>4, HashesDisjoint DEF Resolves, IsMissing, Target
    <3> QED
      BY <3>1, <3>5 DEF IInv, VisitedIsReturned
  <2> QED
    BY <2>4, <2>5 DEF HistoryClosed, ParentClosed
<1> QED
  BY Invariance, <1>1, PTL

-----------------------------------------------------------------------------
(* Each commit is returned under the hash it was visited under, and under each
   hash once: a hash is visited when it is returned, and never looked at
   again. *)
NamedOnce ==
  /\ \A i \in DOMAIN out :
       out[i].name \in seen /\ out[i].commit = Target(git, out[i].name)
  /\ \A i, j \in DOMAIN out : out[i].name = out[j].name => i = j

(* The parents of what was returned were visited or wait, unreadable ones too. *)
AllParentsAreVisitedOrQueued ==
  \A c \in OutCommits : Elems(git.parents[c]) \subseteq seen \union Elems(queue)

(* When errors are returned, a walk that goes on has met none. *)
NoErrorYet ==
  /\ status = "new" => pos = 0 /\ seen = {}
  /\ ~skip /\ status \in {"next", "eof"} =>
       /\ ~git.refsErr
       /\ \A i \in 1..pos : git.refs[i] # BadRef
       /\ \A h \in seen : ~IsMissing(git, h)

(* A visit under a new name. *)
LEMMA ReturnNamesOnce ==
  ASSUME IInv, NamedOnce, AllParentsAreVisitedOrQueued, git' = git,
         NEW n \in Object \ seen, NEW c \in Commit, NEW rest \in Seq(Commit),
         Return(c, n, rest), c = Target(git, n), seen' = seen \union {n},
         Elems(queue) \subseteq Elems(rest) \union {n}
  PROVE  NamedOnce' /\ AllParentsAreVisitedOrQueued'
<1>1. /\ out \in Seq(Emission) /\ out' = Append(out, [commit |-> c, name |-> n])
      /\ queue' = rest \o git.parents[c]
  BY DEF Return, IInv, TypeOK
<1>2. /\ DOMAIN out = 1..Len(out) /\ DOMAIN out' = 1..(Len(out) + 1) /\ Len(out) \in Nat
      /\ \A i \in 1..Len(out) : out'[i] = out[i]
      /\ out'[Len(out) + 1] = [commit |-> c, name |-> n]
  BY <1>1 DEF Emission
<1>3. \A i \in DOMAIN out' : i = Len(out) + 1 \/ (i \in DOMAIN out /\ out'[i] = out[i])
  BY <1>2
<1>4. Target(git, n)' = Target(git, n) /\ \A m : Target(git', m) = Target(git, m)
  OBVIOUS
<1>5. NamedOnce'
  <2>1. ASSUME NEW i \in DOMAIN out'
        PROVE  out'[i].name \in seen' /\ out'[i].commit = Target(git', out'[i].name)
    <3>1. CASE i = Len(out) + 1
      BY <1>2, <1>4, <3>1
    <3>2. CASE i \in DOMAIN out /\ out'[i] = out[i]
      BY <1>4, <3>2 DEF NamedOnce
    <3> QED BY <1>3, <3>1, <3>2
  <2>2. ASSUME NEW i \in DOMAIN out', NEW j \in DOMAIN out', out'[i].name = out'[j].name
        PROVE  i = j
    <3>1. \A k \in DOMAIN out : out[k].name # n
      BY DEF NamedOnce
    <3>2. out'[Len(out) + 1].name = n
      BY <1>2
    <3> QED BY <1>3, <2>2, <3>1, <3>2 DEF NamedOnce
  <2> QED BY <2>1, <2>2 DEF NamedOnce
<1>6. OutCommits' = OutCommits \union {c}
  BY <1>1, OutCommitsAppend
<1>7. git.parents[c] \in Seq(Commit)
  BY DEF IInv, TypeOK, RepoType
<1>8. Elems(queue') = Elems(rest) \union Elems(git.parents[c])
  BY <1>1, <1>7, ElemsConcat
<1>9. AllParentsAreVisitedOrQueued'
  BY <1>6, <1>8 DEF AllParentsAreVisitedOrQueued
<1> QED BY <1>5, <1>9

(* A step that returns nothing. *)
LEMMA QuietNames ==
  ASSUME NamedOnce, AllParentsAreVisitedOrQueued, git' = git, out' = out,
         seen \subseteq seen', Elems(queue) \subseteq Elems(queue') \union seen'
  PROVE  NamedOnce' /\ AllParentsAreVisitedOrQueued'
<1>1. OutCommits' = OutCommits
  BY DEF OutCommits
<1>2. NamedOnce'
  BY DEF NamedOnce
<1>3. AllParentsAreVisitedOrQueued'
  BY <1>1 DEF AllParentsAreVisitedOrQueued
<1> QED BY <1>2, <1>3

(* The steps keep NamedOnce and AllParentsAreVisitedOrQueued. *)
LEMMA NamesStep ==
  IInv /\ NamedOnce /\ AllParentsAreVisitedOrQueued /\ [Next]_vars
    => NamedOnce' /\ AllParentsAreVisitedOrQueued'
<1> SUFFICES ASSUME IInv, NamedOnce, AllParentsAreVisitedOrQueued, [Next]_vars
             PROVE  NamedOnce' /\ AllParentsAreVisitedOrQueued'
  OBVIOUS
<1>1. CASE UNCHANGED <<git, out, seen, queue>>
  BY <1>1, QuietNames
<1>2. CASE VisitRef
  <2> DEFINE h == git.refs[pos + 1]
  <2>1. git' = git /\ seen' = seen \union {h} /\ h \in Object
    BY <1>2 DEF VisitRef
  <2>2. CASE queue' = queue /\ out' = out
    <3> HIDE DEF h
    <3> QED BY <2>1, <2>2, QuietNames
  <2>3. CASE h \notin seen /\ Resolves(git, h) /\ Return(Target(git, h), h, queue)
    <3>1. Target(git, h) \in Commit /\ queue \in Seq(Commit)
      BY <2>3 DEF Resolves, IInv, TypeOK
    <3> HIDE DEF h
    <3> QED BY <2>1, <2>3, <3>1, ReturnNamesOnce
  <2> QED BY <1>2, <2>2, <2>3 DEF VisitRef
<1>3. CASE VisitQueued
  <2> DEFINE h == Head(queue)
  <2>1. git' = git /\ seen' = seen \union {h} /\ queue # <<>>
    BY <1>3 DEF VisitQueued
  <2>2. /\ h \in Commit /\ Tail(queue) \in Seq(Commit)
        /\ Elems(queue) = {h} \union Elems(Tail(queue))
    BY <2>1, ElemsTail DEF IInv, TypeOK
  <2>3. CASE queue' = Tail(queue) /\ out' = out
    <3> HIDE DEF h
    <3> QED BY <2>1, <2>2, <2>3, QuietNames
  <2>4. CASE h \notin seen /\ Return(h, h, Tail(queue))
    <3>1. h \in Object /\ Target(git, h) = h
      BY <2>2, HashesDisjoint DEF Object, Target
    <3> HIDE DEF h
    <3> QED BY <2>1, <2>2, <2>4, <3>1, ReturnNamesOnce
  <2> QED BY <1>3, <2>3, <2>4 DEF VisitQueued
<1> QED BY <1>1, <1>2, <1>3
    DEF Next, Step, NewCommitIter, NoMoreRefs, PassRef, FinishRef, Close, vars, walk

(* The steps keep NoErrorYet. *)
LEMMA NoErrorStep == IInv /\ NoErrorYet /\ [Next]_vars => NoErrorYet'
<1>z. IInv /\ NoErrorYet /\ [Next]_vars => (status' = "new" => pos' = 0 /\ seen' = {})
  BY DEF Next, Step, NewCommitIter, NoMoreRefs, PassRef, VisitRef, FinishRef, VisitQueued,
         Close, vars, Loading, GitError, Return, NoErrorYet
<1> SUFFICES ASSUME IInv, NoErrorYet, [Next]_vars, ~skip', status' \in {"next", "eof"}
             PROVE  /\ ~git'.refsErr
                    /\ \A i \in 1..pos' : git'.refs[i] # BadRef
                    /\ \A h \in seen' : ~IsMissing(git', h)
  BY <1>z DEF NoErrorYet
<1>0. git' = git /\ skip' = skip
  BY DEF Next, Step, NewCommitIter, NoMoreRefs, PassRef, VisitRef, FinishRef, VisitQueued,
         Close, vars
<1>n. \A h : IsMissing(git', h) = IsMissing(git, h)
  BY <1>0
<1>p. pos \in Nat
  BY DEF IInv, TypeOK
<1>g. ASSUME status = "next" \/ status = "eof"
      PROVE  /\ ~git.refsErr
             /\ \A i \in 1..pos : git.refs[i] # BadRef
             /\ \A h \in seen : ~IsMissing(git, h)
  BY <1>0, <1>g DEF NoErrorYet
<1>1. CASE NewCommitIter
  <2>1. ~git.refsErr /\ pos' = pos /\ seen' = seen
    BY <1>0, <1>1 DEF NewCommitIter
  <2>2. pos = 0 /\ seen = {}
    BY <1>1 DEF NewCommitIter, NoErrorYet
  <2> QED BY <1>0, <2>1, <2>2
<1>2. CASE UNCHANGED <<pos, seen>> /\ (status = "next" \/ status = "eof")
  BY <1>0, <1>g, <1>2
<1>3. CASE PassRef
  <2>1. /\ status = "next" /\ pos' = pos + 1 /\ seen' = seen
        /\ git.refs[pos + 1] # BadRef
    BY <1>0, <1>3 DEF PassRef, Loading, GitError
  <2>2. \A i \in 1..(pos + 1) : i \in 1..pos \/ i = pos + 1
    BY <1>p
  <2> QED BY <1>0, <1>g, <2>1, <2>2
<1>4. CASE VisitRef
  <2> DEFINE h == git.refs[pos + 1]
  <2>1. /\ status = "next" /\ pos' = pos + 1 /\ seen' = seen \union {h} /\ h \in Object
        /\ h \in seen \/ ~IsMissing(git, h)
    BY <1>0, <1>4 DEF VisitRef, Loading, GitError, IsInvalid, Resolves
  <2>2. h # BadRef
    BY <2>1, MarksAreNotHashes
  <2>3. \A i \in 1..(pos + 1) : i \in 1..pos \/ i = pos + 1
    BY <1>p
  <2> QED BY <1>0, <1>g, <2>1, <2>2, <2>3
<1>5. CASE VisitQueued
  <2> DEFINE h == Head(queue)
  <2>1. /\ status = "next" /\ pos' = pos /\ seen' = seen \union {h}
        /\ h \in seen \/ CommitObject(git, h)
    BY <1>0, <1>5 DEF VisitQueued, GitError
  <2>2. CommitObject(git, h) => ~IsMissing(git, h)
    BY HashesDisjoint DEF CommitObject, IsMissing, Target
  <2> QED BY <1>0, <1>g, <2>1, <2>2
<1>6. CASE status' = "closed"
  BY <1>6
<1> QED BY <1>1, <1>2, <1>3, <1>4, <1>5, <1>6
    DEF Next, Step, NoMoreRefs, Loading, FinishRef, Close, vars, walk

(* docs/using-gitbase/schema.md: a commit is "not duplicated by repository",
   but for commits that are also reached through an annotated tag; in every
   repository. *)
THEOREM Repetition == Spec => []RepeatedOnlyThroughTags
<1>1. Init => NamedOnce /\ AllParentsAreVisitedOrQueued
  BY DEF Init, NamedOnce, AllParentsAreVisitedOrQueued, OutCommits
<1>2. NamedOnce => RepeatedOnlyThroughTags
  BY DEF NamedOnce, RepeatedOnlyThroughTags, Target
<1> QED BY <1>1, <1>2, Invariance, NamesStep, PTL DEF Spec

(* A scan of commits that returns errors and ends in io.EOF could read the
   references, what they name and all the history of it. *)
THEOREM NothingSkipped == Spec => []NothingSkippedSilently
<1>1. Init => NamedOnce /\ AllParentsAreVisitedOrQueued /\ NoErrorYet
  BY DEF Init, NamedOnce, AllParentsAreVisitedOrQueued, OutCommits, NoErrorYet
<1>2. IInv /\ AllParentsAreVisitedOrQueued /\ NoErrorYet => NothingSkippedSilently
  <2> SUFFICES ASSUME IInv, AllParentsAreVisitedOrQueued, NoErrorYet, status = "eof", ~skip
               PROVE  /\ ~git.refsErr
                      /\ BadRef \notin Elems(git.refs)
                      /\ \A h \in Elems(git.refs) \intersect Object : ~IsMissing(git, h)
                      /\ \A c \in OutCommits : Elems(git.parents[c]) \intersect git.missing = {}
    BY DEF NothingSkippedSilently
  <2>1. /\ ~git.refsErr
        /\ \A i \in 1..pos : git.refs[i] # BadRef
        /\ \A h \in seen : ~IsMissing(git, h)
    BY DEF NoErrorYet
  <2>2. pos = Len(git.refs) /\ queue = <<>>
    BY <2>1 DEF IInv, EOFIsTheEnd, IdleQueueIsEmpty
  <2>3. DOMAIN git.refs = 1..Len(git.refs)
    BY DEF IInv, TypeOK, RepoType
  <2>4. \A h \in Elems(git.refs) \intersect Object : h \in seen
    BY <2>2, <2>3 DEF Elems, IInv, ReadRefsAreVisited
  <2>5. \A c \in OutCommits : Elems(git.parents[c]) \subseteq seen
    BY <2>2, ElemsEmpty DEF AllParentsAreVisitedOrQueued
  <2> QED BY <2>1, <2>2, <2>3, <2>4, <2>5 DEF Elems, IsMissing
<1> QED BY <1>1, <1>2, Invariance, NamesStep, NoErrorStep, PTL DEF Spec
=============================================================================
