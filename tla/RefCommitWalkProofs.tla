------------------------- MODULE RefCommitWalkProofs -------------------------
(***************************************************************************)
(* The scan of ref_commits, for every repository, selection of references  *)
(* and setting of SkipGitErrors.  The invariant says of the reference that *)
(* is being walked that what waits on the stack was brought there by an    *)
(* earlier row, and that the parents of its rows were seen or wait; with   *)
(* an empty stack that makes its history whole.  Of the references that    *)
(* had their turn before it says that they are whole.                      *)
(***************************************************************************)
EXTENDS RefCommitWalk, WellFoundedInduction, TLAPS

(* A set of naturals that is not empty has a least element. *)
LEMMA LeastElement ==
  ASSUME NEW T, T \subseteq Nat, T # {}
  PROVE  \E n \in T : \A m \in T : n <= m
<1> DEFINE R == OpToRel(<, Nat)
<1>1. IsWellFoundedOn(R, Nat)
  BY NatLessThanWellFounded
<1>2. PICK n \in T : \A m \in T : <<m, n>> \notin R
  <2> HIDE DEF R
  <2> QED
    BY <1>1, WFMin
<1>3. \A m \in T : ~(m < n)
  BY <1>2 DEF OpToRel
<1> QED
  BY <1>3

(* What the loop of indexedCommitIter.Next collects, for any parents and any
   set of hashes seen. *)
Collects(f, ps, S, n) ==
  f = [i \in 0..n |-> IF i = 0 THEN <<>>
                      ELSE IF ps[i] \in S THEN f[i - 1] ELSE Append(f[i - 1], ps[i])]

(* The loop of indexedCommitIter.Next over the parents defines a function: a
   shortest list of parents without one would have one. *)
LEMMA SomeFunctionCollects ==
  ASSUME NEW ps \in Seq(Commit), NEW S
  PROVE  \A n \in Nat : \E f : Collects(f, ps, S, n)
<1> DEFINE T == {n \in Nat : ~ \E f : Collects(f, ps, S, n)}
<1> SUFFICES ASSUME T # {} PROVE FALSE
  OBVIOUS
<1>1. PICK n \in T : \A m \in T : n <= m
  BY LeastElement
<1>2. n # 0
  <2> DEFINE f == [i \in 0..0 |-> <<>>]
  <2>1. f = [i \in 0..0 |-> IF i = 0 THEN <<>>
                      ELSE IF ps[i] \in S THEN f[i - 1] ELSE Append(f[i - 1], ps[i])]
    OBVIOUS
  <2> QED
    BY <2>1 DEF Collects
<1>3. n - 1 \in Nat /\ n - 1 \notin T
  BY <1>1, <1>2
<1>4. PICK f : Collects(f, ps, S, n - 1)
  BY <1>3
<1> DEFINE e == IF ps[n] \in S THEN f[n - 1] ELSE Append(f[n - 1], ps[n])
           g == [i \in 0..n |-> IF i = n THEN e ELSE f[i]]
<1>5. \A i \in 0..(n - 1) : f[i] = IF i = 0 THEN <<>>
                      ELSE IF ps[i] \in S THEN f[i - 1] ELSE Append(f[i - 1], ps[i])
  BY <1>4 DEF Collects
<1>6. \A i \in 0..n : g[i] = IF i = 0 THEN <<>>
                      ELSE IF ps[i] \in S THEN g[i - 1] ELSE Append(g[i - 1], ps[i])
  <2> SUFFICES ASSUME NEW i \in 0..n
               PROVE g[i] = IF i = 0 THEN <<>>
                      ELSE IF ps[i] \in S THEN g[i - 1] ELSE Append(g[i - 1], ps[i])
    OBVIOUS
  <2>1. CASE i = n
    <3>1. g[n] = e /\ g[n - 1] = f[n - 1]
      BY <1>2, <1>3
    <3> QED
      BY <1>2, <2>1, <3>1
  <2>2. CASE i # n
    <3>1. g[i] = f[i] /\ (i # 0 => g[i - 1] = f[i - 1])
      BY <1>2, <1>3, <2>2
    <3> HIDE DEF g
    <3> QED
      BY <1>3, <1>5, <2>2, <3>1
  <2> QED
    BY <2>1, <2>2
<1>7. g = [i \in 0..n |-> g[i]]
  OBVIOUS
<1> HIDE DEF g
<1>8. Collects(g, ps, S, n)
  BY <1>6, <1>7 DEF Collects
<1> QED
  BY <1>1, <1>8

(* A function that follows the loop has the elements that are not in S. *)
LEMMA CollectedElements ==
  ASSUME NEW ps \in Seq(Commit), NEW S, NEW f, Collects(f, ps, S, Len(ps))
  PROVE  f[Len(ps)] \in Seq(Commit) /\ Elems(f[Len(ps)]) = Elems(ps) \ S
<1> DEFINE Right(n) == /\ f[n] \in Seq(Commit)
                       /\ \A c : c \in Elems(f[n]) <=> c \notin S /\ \E j \in 1..n : c = ps[j]
           T == {n \in 0..Len(ps) : ~Right(n)}
<1>1. /\ Len(ps) \in Nat /\ DOMAIN ps = 1..Len(ps)
      /\ \A i \in 1..Len(ps) : ps[i] \in Commit
  OBVIOUS
<1>2. f[0] = <<>>
      /\ \A i \in 1..Len(ps) : f[i] = IF ps[i] \in S THEN f[i - 1] ELSE Append(f[i - 1], ps[i])
  <2>1. \A i \in 0..Len(ps) :
          f[i] = IF i = 0 THEN <<>>
                 ELSE IF ps[i] \in S THEN f[i - 1] ELSE Append(f[i - 1], ps[i])
    BY DEF Collects
  <2> QED
    BY <1>1, <2>1
<1>3. ASSUME T # {} PROVE FALSE
  <2>0. T \subseteq Nat
    <3> HIDE DEF Right
    <3> QED
      BY <1>1
  <2>1. PICK n \in T : \A m \in T : n <= m
    <3> HIDE DEF T
    <3> QED
      BY <1>3, <2>0, LeastElement
  <2>2. n # 0
    <3>1. Right(0)
      BY <1>2 DEF Elems
    <3> HIDE DEF Right
    <3> QED
      BY <2>1, <3>1
  <2>3. n \in 1..Len(ps) /\ Right(n - 1)
    <3> HIDE DEF Right
    <3> QED
      BY <1>1, <2>1, <2>2
  <2>4. CASE ps[n] \in S
    <3>1. f[n] = f[n - 1]
      BY <1>2, <2>3, <2>4
    <3>2. \A c : c \notin S => ((\E j \in 1..n : c = ps[j]) <=> \E j \in 1..(n - 1) : c = ps[j])
      BY <1>1, <2>3, <2>4
    <3>3. Right(n)
      BY <2>3, <3>1, <3>2
    <3> QED
      BY <2>1, <3>3
  <2>5. CASE ps[n] \notin S
    <3> DEFINE s == f[n - 1]
    <3>1. f[n] = Append(s, ps[n]) /\ s \in Seq(Commit) /\ ps[n] \in Commit
      BY <1>1, <1>2, <2>3, <2>5
    <3>2. \A c : c \in Elems(f[n]) <=> c \in Elems(s) \/ c = ps[n]
      <4> HIDE DEF s
      <4>1. /\ f[n] \in Seq(Commit) /\ Len(f[n]) = Len(s) + 1 /\ Len(s) \in Nat
            /\ f[n][Len(s) + 1] = ps[n] /\ \A i \in 1..Len(s) : f[n][i] = s[i]
        BY <3>1
      <4>2. DOMAIN f[n] = 1..(Len(s) + 1) /\ DOMAIN s = 1..Len(s)
        BY <3>1, <4>1
      <4> QED
        BY <4>1, <4>2 DEF Elems
    <3>3. \A c : (\E j \in 1..n : c = ps[j]) <=> c = ps[n] \/ \E j \in 1..(n - 1) : c = ps[j]
      BY <1>1, <2>3
    <3>4. f[n] \in Seq(Commit)
      BY <3>1
    <3>5. Right(n)
      BY <2>3, <2>5, <3>2, <3>3, <3>4
    <3> QED
      BY <2>1, <3>5
  <2> QED
    BY <2>4, <2>5
<1>4. Right(Len(ps))
  <2> SUFFICES ASSUME ~Right(Len(ps)) PROVE FALSE
    OBVIOUS
  <2>1. Len(ps) \in 0..Len(ps)
    BY <1>1
  <2> HIDE DEF Right
  <2> QED
    BY <1>3, <2>1
<1>5. \A c : c \in Elems(ps) <=> \E j \in 1..Len(ps) : c = ps[j]
  BY <1>1 DEF Elems
<1> QED
  BY <1>4, <1>5

(* indexedCommitIter.Next puts the parents that it has not seen in a frame, all
   of them and no others. *)
LEMMA UnseenParentsAre ==
  ASSUME NEW h \in Commit, git \in RepoType
  PROVE  /\ UnseenParents(h) \in Seq(Commit)
         /\ Elems(UnseenParents(h)) = Elems(git.parents[h]) \ (seen \union {h})
<1> DEFINE ps == git.parents[h]
           S == seen \union {h}
           f == CHOOSE g : Collects(g, ps, S, Len(ps))
<1>1. ps \in Seq(Commit) /\ Len(ps) \in Nat
  BY DEF RepoType
<1>2. Collects(f, ps, S, Len(ps))
  <2> HIDE DEF ps, S
  <2> QED
    BY <1>1, SomeFunctionCollects
<1>3. UnseenParents(h) = f[Len(ps)]
  BY DEF UnseenParents, Collects
<1> HIDE DEF ps, S, f
<1>4. f[Len(ps)] \in Seq(Commit) /\ Elems(f[Len(ps)]) = Elems(ps) \ S
  BY <1>1, <1>2, CollectedElements
<1> QED
  BY <1>3, <1>4 DEF ps, S

-----------------------------------------------------------------------------
(* A frame of the stack has a hash left to visit. *)
Frame == {f \in [idx : Nat, pos : Nat \ {0}, hashes : Seq(Commit)] : f.pos <= Len(f.hashes)}

Row == [ref : Nat, commit : Commit, idx : Nat]

TypeOK ==
  /\ git \in RepoType
  /\ skip \in BOOLEAN
  /\ wanted \subseteq References
  /\ status \in {"next", "eof", "error", "closed"}
  /\ refs \in BOOLEAN
  /\ head \in Object \union {None}
  /\ pos \in 0..Len(git.refs)
  /\ ref \in References
  /\ walking \in BOOLEAN
  /\ stack \in Seq(Frame)
  /\ seen \subseteq Commit
  /\ out \in Seq(Row)

(* Commit c waits on the stack to be returned with history_index n. *)
Waits(s, n, c) ==
  \E f \in DOMAIN s : s[f].idx = n /\ \E k \in s[f].pos..Len(s[f].hashes) : s[f].hashes[k] = c

(* HEAD, or a reference of the iterator, has had its turn. *)
Opened(k) == IF k = 0 THEN refs = TRUE /\ head = None ELSE k <= pos

Current(k) == walking = TRUE /\ k = ref

Start == Target(git, HashOf(ref))

Fresh ==
  /\ stack = <<[idx |-> 0, pos |-> 1, hashes |-> <<Start>>]>>
  /\ seen = {}
  /\ \A i \in DOMAIN out : out[i].ref # ref

(* Row j makes its parents wait for the row after it. *)
Brings(j, n, c) ==
  out[j].ref = ref /\ out[j].idx + 1 = n /\ c \in Elems(git.parents[out[j].commit])

(* What waits was brought by a row, and by one before any row that has returned it. *)
WaitingIsBrought ==
  \A n, c : Waits(stack, n, c) =>
    /\ \E j \in DOMAIN out : Brings(j, n, c)
    /\ \A i \in DOMAIN out : out[i].ref = ref /\ out[i].commit = c =>
         \E j \in 1..(i - 1) : Brings(j, n, c)

(* The parents of the reference's rows were seen or wait, and what was seen was
   returned if it could be read. *)
ParentsSeenOrWaiting ==
  /\ \A i \in DOMAIN out : out[i].ref = ref =>
       /\ out[i].commit \in seen
       /\ \A c \in Elems(git.parents[out[i].commit]) : c \in seen \/ \E n : Waits(stack, n, c)
  /\ \A c \in seen \ git.missing : \E i \in DOMAIN out : out[i].ref = ref /\ out[i].commit = c

InProgress ==
  /\ \E i \in DOMAIN out : out[i].ref = ref /\ out[i].commit = Start
  /\ WaitingIsBrought
  /\ ParentsSeenOrWaiting

(* Reference k has its whole readable history among its own rows. *)
Complete(k) ==
  /\ \E i \in DOMAIN out : out[i].ref = k /\ out[i].commit = Target(git, HashOf(k))
  /\ \A i \in DOMAIN out : out[i].ref = k =>
       \A c \in ParentsOf(git, out[i].commit) :
         \E j \in DOMAIN out : out[j].ref = k /\ out[j].commit = c

HeadIsRead == refs = TRUE => head \in {None, git.head} /\ git.refsErr # TRUE

RowsOfOpened == \A i \in DOMAIN out : out[i].ref \in References /\ Opened(out[i].ref)

WalkIsRight ==
  walking = TRUE => Opened(ref) /\ refs = TRUE /\ Walkable(ref) /\ (Fresh \/ InProgress)

OpenedAreComplete ==
  \A k \in References : Opened(k) /\ ~Current(k) /\ Walkable(k) => Complete(k)

EofIsTheEnd ==
  status = "eof" =>
    \/ git.refsErr = TRUE
    \/ refs = TRUE /\ head = None /\ pos = Len(git.refs) /\ walking # TRUE

IInv ==
  /\ TypeOK
  /\ HeadIsRead
  /\ RowsOfOpened
  /\ WalkIsRight
  /\ OpenedAreComplete
  /\ EofIsTheEnd
  /\ HistoryIndexIsADistance
  /\ RepeatedOnlyIfWaiting

(* Without SkipGitErrors, as long as no error was returned, whatever has been
   looked at could be read. *)
AllReadable ==
  skip # TRUE /\ status \in {"next", "eof"} =>
    /\ status = "eof" => git.refsErr # TRUE
    /\ refs = TRUE => git.head # BadRef
    /\ \A k \in 1..pos : git.refs[k] # BadRef
    /\ \A k \in wanted : Opened(k) /\ HashOf(k) \in Object => ~IsMissing(git, HashOf(k))
    /\ walking = TRUE => seen \intersect git.missing = {}
    /\ \A i \in DOMAIN out :
         ~Current(out[i].ref) => Elems(git.parents[out[i].commit]) \intersect git.missing = {}

-----------------------------------------------------------------------------
(* The stack of indexedCommitIter. *)

(* Taking the current hash of the top frame leaves all other hashes waiting. *)
LEMMA AdvanceTakesOne ==
  ASSUME NEW s \in Seq(Frame), s # <<>>
  PROVE  LET top == Last(s)
             h == top.hashes[top.pos]
         IN  /\ h \in Commit /\ top.idx \in Nat /\ Waits(s, top.idx, h)
             /\ Advance(s) \in Seq(Frame)
             /\ \A n, c : Waits(Advance(s), n, c) => Waits(s, n, c)
             /\ \A n, c : Waits(s, n, c) => Waits(Advance(s), n, c) \/ (n = top.idx /\ c = h)
<1> DEFINE top == Last(s)
           h == top.hashes[top.pos]
           l == Len(s)
<1>1. l \in Nat \ {0} /\ DOMAIN s = 1..l /\ top = s[l] /\ \A f \in 1..l : s[f] \in Frame
  BY DEF Last
<1>2. /\ top \in Frame /\ top.idx \in Nat /\ top.pos \in Nat \ {0} /\ top.hashes \in Seq(Commit)
      /\ top.pos <= Len(top.hashes) /\ Len(top.hashes) \in Nat
  BY <1>1 DEF Frame
<1> HIDE DEF top, l
<1>3. h \in Commit
  BY <1>2
<1>4. Waits(s, top.idx, h)
  BY <1>1, <1>2 DEF Waits
<1>5. CASE top.pos = Len(top.hashes)
  <2>1. Advance(s) = Front(s)
    BY <1>5 DEF Advance, top
  <2>2. /\ Front(s) \in Seq(Frame) /\ Len(Front(s)) = l - 1
        /\ DOMAIN Front(s) = 1..(l - 1) /\ \A f \in 1..(l - 1) : Front(s)[f] = s[f]
    BY <1>1 DEF Front, l
  <2>3. ASSUME NEW n, NEW c, Waits(Front(s), n, c) PROVE Waits(s, n, c)
    <3>1. PICK f \in 1..(l - 1) :
            s[f].idx = n /\ \E k \in s[f].pos..Len(s[f].hashes) : s[f].hashes[k] = c
      BY <2>2, <2>3 DEF Waits
    <3> QED
      BY <1>1, <3>1 DEF Waits
  <2>4. ASSUME NEW n, NEW c, Waits(s, n, c) PROVE Waits(Front(s), n, c) \/ (n = top.idx /\ c = h)
    <3>1. PICK f \in 1..l :
            s[f].idx = n /\ \E k \in s[f].pos..Len(s[f].hashes) : s[f].hashes[k] = c
      BY <1>1, <2>4 DEF Waits
    <3>2. CASE f = l
      BY <1>1, <1>2, <1>5, <3>1, <3>2
    <3>3. CASE f # l
      <4>1. f \in 1..(l - 1)
        BY <1>1, <3>3
      <4> QED
        BY <2>2, <3>1, <4>1 DEF Waits
    <3> QED
      BY <3>2, <3>3
  <2> QED
    BY <1>2, <1>3, <1>4, <2>1, <2>2, <2>3, <2>4 DEF top
<1>6. CASE top.pos # Len(top.hashes)
  <2> DEFINE t == [idx |-> top.idx, pos |-> top.pos + 1, hashes |-> top.hashes]
             a == [s EXCEPT ![l] = t]
  <2>1. Advance(s) = a
    <3>1. top \in [idx : Nat, pos : Nat \ {0}, hashes : Seq(Commit)]
      BY <1>2 DEF Frame
    <3>2. t = [top EXCEPT !.pos = top.pos + 1]
      BY <3>1
    <3>3. Advance(s) = [s EXCEPT ![l] = [s[l] EXCEPT !.pos = top.pos + 1]]
      BY <1>6 DEF Advance, top, l
    <3> QED
      BY <1>1, <3>2, <3>3
  <2>2. t \in Frame /\ t.idx = top.idx /\ t.pos = top.pos + 1 /\ t.hashes = top.hashes
    BY <1>2, <1>6 DEF Frame
  <2> HIDE DEF t
  <2>3. /\ a \in Seq(Frame) /\ DOMAIN a = 1..l /\ a[l] = t
        /\ \A f \in 1..l : f # l => a[f] = s[f]
    <3>1. l \in 1..Len(s)
      BY <1>1 DEF l
    <3>2. a \in Seq(Frame)
      BY <2>2, <3>1
    <3> QED
      BY <1>1, <3>2
  <2> HIDE DEF a
  <2>4. ASSUME NEW n, NEW c, Waits(a, n, c) PROVE Waits(s, n, c)
    <3>1. PICK f \in 1..l :
            a[f].idx = n /\ \E k \in a[f].pos..Len(a[f].hashes) : a[f].hashes[k] = c
      BY <2>3, <2>4 DEF Waits
    <3>2. s[f].idx = n /\ \E k \in s[f].pos..Len(s[f].hashes) : s[f].hashes[k] = c
      <4>1. CASE f = l
        BY <1>1, <1>2, <2>2, <2>3, <3>1, <4>1
      <4>2. CASE f # l
        BY <2>3, <3>1, <4>2
      <4> QED
        BY <4>1, <4>2
    <3> QED
      BY <1>1, <3>2 DEF Waits
  <2>5. ASSUME NEW n, NEW c, Waits(s, n, c) PROVE Waits(a, n, c) \/ (n = top.idx /\ c = h)
    <3>1. PICK f \in 1..l :
            s[f].idx = n /\ \E k \in s[f].pos..Len(s[f].hashes) : s[f].hashes[k] = c
      BY <1>1, <2>5 DEF Waits
    <3>2. CASE f = l
      <4>1. PICK k \in top.pos..Len(top.hashes) : top.hashes[k] = c
        BY <1>1, <3>1, <3>2
      <4>2. CASE k = top.pos
        BY <1>1, <3>1, <3>2, <4>1, <4>2
      <4>3. CASE k # top.pos
        <5>1. k \in a[l].pos..Len(a[l].hashes) /\ a[l].hashes[k] = c /\ a[l].idx = n
          BY <1>1, <1>2, <2>2, <2>3, <3>1, <3>2, <4>1, <4>3
        <5> QED
          BY <1>1, <2>3, <5>1 DEF Waits
      <4> QED
        BY <4>2, <4>3
    <3>3. CASE f # l
      BY <2>3, <3>1, <3>3 DEF Waits
    <3> QED
      BY <3>2, <3>3
  <2> QED
    BY <1>2, <1>3, <1>4, <2>1, <2>3, <2>4, <2>5 DEF top
<1> QED
  BY <1>5, <1>6

(* A frame of parents is put on the stack when there are any. *)
LEMMA PushAdds ==
  ASSUME NEW s \in Seq(Frame), NEW idx \in Nat, NEW hs \in Seq(Commit)
  PROVE  /\ Push(s, idx, hs) \in Seq(Frame)
         /\ \A n, c : Waits(Push(s, idx, hs), n, c)
                        <=> Waits(s, n, c) \/ (n = idx /\ c \in Elems(hs))
<1>1. CASE hs = <<>>
  BY <1>1 DEF Push, Elems
<1>2. CASE hs # <<>>
  <2> DEFINE f == [idx |-> idx, pos |-> 1, hashes |-> hs]
             p == Append(s, f)
             l == Len(s)
  <2>1. Push(s, idx, hs) = p
    BY <1>2 DEF Push
  <2>2. f \in Frame /\ f.idx = idx /\ f.pos = 1 /\ f.hashes = hs
    BY <1>2 DEF Frame
  <2> HIDE DEF f
  <2>3. /\ p \in Seq(Frame) /\ DOMAIN p = 1..(l + 1) /\ p[l + 1] = f
        /\ \A i \in 1..l : p[i] = s[i]
    BY <2>2
  <2>4. l \in Nat /\ DOMAIN s = 1..l /\ Elems(hs) = {hs[k] : k \in 1..Len(hs)}
    BY DEF Elems
  <2> HIDE DEF p, l
  <2>5. ASSUME NEW n, NEW c, Waits(p, n, c) PROVE Waits(s, n, c) \/ (n = idx /\ c \in Elems(hs))
    <3>1. PICK i \in 1..(l + 1) :
            p[i].idx = n /\ \E k \in p[i].pos..Len(p[i].hashes) : p[i].hashes[k] = c
      BY <2>3, <2>5 DEF Waits
    <3>2. CASE i = l + 1
      BY <2>2, <2>3, <2>4, <3>1, <3>2
    <3>3. CASE i \in 1..l
      BY <2>3, <2>4, <3>1, <3>3 DEF Waits
    <3> QED
      BY <2>4, <3>2, <3>3
  <2>6. ASSUME NEW n, NEW c, Waits(s, n, c) PROVE Waits(p, n, c)
    <3>1. PICK i \in 1..l :
            s[i].idx = n /\ \E k \in s[i].pos..Len(s[i].hashes) : s[i].hashes[k] = c
      BY <2>4, <2>6 DEF Waits
    <3>2. i \in 1..(l + 1) /\ p[i] = s[i]
      BY <2>3, <2>4
    <3> QED
      BY <2>3, <3>1, <3>2 DEF Waits
  <2>7. ASSUME NEW c \in Elems(hs) PROVE Waits(p, idx, c)
    <3>1. PICK k \in 1..Len(hs) : hs[k] = c
      BY <2>4
    <3>2. l + 1 \in DOMAIN p /\ k \in p[l + 1].pos..Len(p[l + 1].hashes)
          /\ p[l + 1].hashes[k] = c /\ p[l + 1].idx = idx
      BY <2>2, <2>3, <2>4, <3>1
    <3> QED
      BY <3>2 DEF Waits
  <2> QED
    BY <2>1, <2>3, <2>5, <2>6, <2>7
<1> QED
  BY <1>1, <1>2

-----------------------------------------------------------------------------
(* The walk. *)

(* In the first state nothing was opened and there are no rows. *)
LEMMA InitialInvariant == Init => IInv /\ AllReadable
<1> SUFFICES ASSUME Init PROVE IInv /\ AllReadable
  OBVIOUS
<1>0. git \in RepoType /\ Len(git.refs) \in Nat /\ out = <<>> /\ DOMAIN out = {}
  BY ReposAreRepositories DEF Init, RepoType
<1>1. TypeOK
  <2>1. wanted \subseteq References
    BY DEF Init
  <2>2. 0 \in 0..Len(git.refs)
    BY <1>0
  <2>3. skip \in BOOLEAN /\ refs \in BOOLEAN /\ walking \in BOOLEAN
    BY DEF Init
  <2>4. /\ status \in {"next", "eof", "error", "closed"} /\ head \in Object \union {None}
        /\ seen \subseteq Commit /\ stack \in Seq(Frame) /\ out \in Seq(Row)
        /\ pos = 0 /\ ref = 0
    BY DEF Init
  <2> QED
    BY <1>0, <2>1, <2>2, <2>3, <2>4 DEF TypeOK, References
<1>2. HeadIsRead /\ WalkIsRight /\ EofIsTheEnd
  BY DEF Init, HeadIsRead, WalkIsRight, EofIsTheEnd
<1>3. RowsOfOpened /\ HistoryIndexIsADistance /\ RepeatedOnlyIfWaiting
  BY <1>0 DEF RowsOfOpened, HistoryIndexIsADistance, RepeatedOnlyIfWaiting
<1>4. \A k \in References : ~Opened(k)
  BY <1>0 DEF Init, References, Opened
<1>5. OpenedAreComplete
  BY <1>4 DEF OpenedAreComplete
<1>6. AllReadable
  <2>1. wanted \subseteq References
    BY <1>1 DEF TypeOK
  <2>2. refs # TRUE /\ walking # TRUE /\ status # "eof" /\ pos = 0
    BY DEF Init
  <2>3. (\A k \in wanted : ~Opened(k)) /\ 1..pos = {}
    BY <1>4, <2>1, <2>2
  <2> QED
    BY <1>0, <2>2, <2>3 DEF AllReadable
<1> QED
  BY <1>1, <1>2, <1>3, <1>5, <1>6 DEF IInv

(* What concerns the rows survives a step that returns none and neither starts
   nor ends a walk, if the references that it passes over need no walk. *)
LEMMA NoRowNoWalk ==
  ASSUME IInv, UNCHANGED <<git, skip, wanted, walking, out>>,
         walking = TRUE => UNCHANGED <<ref, stack, seen>>,
         refs = TRUE => refs' = TRUE,
         \A k \in References : Opened(k) => Opened(k)',
         \A k \in References : Opened(k)' => Opened(k) \/ ~Walkable(k)
  PROVE  /\ RowsOfOpened' /\ WalkIsRight' /\ OpenedAreComplete'
         /\ HistoryIndexIsADistance' /\ RepeatedOnlyIfWaiting'
<1>0. TypeOK /\ RowsOfOpened /\ WalkIsRight /\ OpenedAreComplete
      /\ HistoryIndexIsADistance /\ RepeatedOnlyIfWaiting
  BY DEF IInv
<1>1. \A k : HashOf(k)' = HashOf(k) /\ Walkable(k)' = Walkable(k)
  BY DEF HashOf, Walkable, Resolves, IsMissing, Target
<1>2. References' = References
  BY DEF References
<1>3. RowsOfOpened'
  BY <1>0, <1>2 DEF RowsOfOpened
<1>4. WalkIsRight'
  <2> SUFFICES ASSUME walking' = TRUE
               PROVE  Opened(ref)' /\ refs' = TRUE /\ Walkable(ref)' /\ (Fresh \/ InProgress)'
    BY DEF WalkIsRight
  <2>1. walking = TRUE /\ UNCHANGED <<ref, stack, seen>> /\ ref \in References
    BY <1>0 DEF TypeOK
  <2>2. Opened(ref) /\ refs = TRUE /\ Walkable(ref) /\ (Fresh \/ InProgress)
    BY <1>0, <2>1 DEF WalkIsRight
  <2>3. Opened(ref)' /\ Walkable(ref)'
    <3>1. Opened(ref)'
      BY <2>1, <2>2 DEF Opened
    <3>2. Walkable(ref)'
      BY <2>1, <2>2 DEF Walkable, HashOf, Resolves, IsMissing, Target
    <3> QED
      BY <3>1, <3>2
  <2>4. Start' = Start
    BY <2>1 DEF Start, HashOf, Target
  <2>5. Fresh => Fresh'
    BY <2>1, <2>4 DEF Fresh
  <2>6. InProgress => InProgress'
    BY <2>1, <2>4 DEF InProgress, WaitingIsBrought, ParentsSeenOrWaiting, Waits, Brings, Elems
  <2> QED
    BY <2>2, <2>3, <2>5, <2>6
<1>5. \A k : Complete(k) => Complete(k)'
  BY <1>1 DEF Complete, ParentsOf, Elems, Target
<1>6. OpenedAreComplete'
  <2> SUFFICES ASSUME NEW k \in References, Opened(k)', ~Current(k)', Walkable(k)
               PROVE  Complete(k)'
    BY <1>1, <1>2 DEF OpenedAreComplete
  <2>1. Opened(k) /\ ~Current(k)
    BY DEF Current
  <2> QED
    BY <1>0, <1>5, <2>1 DEF OpenedAreComplete
<1>7. HistoryIndexIsADistance' /\ RepeatedOnlyIfWaiting'
  BY <1>0, <1>1 DEF HistoryIndexIsADistance, RepeatedOnlyIfWaiting, ParentsOf, Elems, Target
<1> QED
  BY <1>3, <1>4, <1>6, <1>7

(* next, first call: References and Head. *)
LEMMA LoadRefsKeeps ==
  ASSUME IInv, LoadRefs
  PROVE  IInv'
<1>0. TypeOK /\ HeadIsRead /\ refs # TRUE /\ status = "next"
  BY DEF IInv, LoadRefs, TypeOK
<1>1. git.refsErr \in BOOLEAN /\ git.head \in Object \union {None, BadRef}
  BY <1>0 DEF TypeOK, RepoType
<1>2. UNCHANGED <<git, skip, wanted, pos, ref, walking, stack, seen, out>>
  BY DEF LoadRefs
<1>3. CASE git.refsErr = TRUE
  <2>1. refs' = refs /\ head' = head /\ status' \in {"eof", "error"}
    BY <1>3 DEF LoadRefs
  <2>2. TypeOK'
    BY <1>0, <1>2, <2>1 DEF TypeOK, References
  <2>3. \A k \in References : Opened(k)' <=> Opened(k)
    BY <1>2, <2>1 DEF Opened
  <2>4. HeadIsRead' /\ EofIsTheEnd'
    BY <1>0, <1>2, <1>3, <2>1 DEF HeadIsRead, EofIsTheEnd
  <2> QED
    BY <1>0, <1>2, <2>1, <2>2, <2>3, <2>4, NoRowNoWalk DEF IInv
<1>4. CASE git.refsErr # TRUE
  <2>1. /\ refs' = TRUE /\ head' = IF git.head = BadRef THEN None ELSE git.head
        /\ status' \in {"next", "error"}
    BY <1>0, <1>1, <1>4 DEF LoadRefs, GitError
  <2>2. TypeOK'
    BY <1>0, <1>1, <1>2, <2>1 DEF TypeOK, References
  <2>3. HeadIsRead' /\ EofIsTheEnd'
    BY <1>2, <1>4, <2>1 DEF HeadIsRead, EofIsTheEnd
  <2>4. \A k \in References : Opened(k) => Opened(k)'
    BY <1>0, <1>2 DEF Opened
  <2>5. \A k \in References : Opened(k)' => Opened(k) \/ ~Walkable(k)
    <3> SUFFICES ASSUME head' = None PROVE ~Walkable(0)
      BY <1>2 DEF Opened
    <3>1. git.head \in {None, BadRef}
      BY <2>1
    <3> QED
      BY <3>1, MarksAreNotHashes DEF Walkable, HashOf
  <2> QED
    BY <1>0, <1>2, <2>1, <2>2, <2>3, <2>4, <2>5, NoRowNoWalk DEF IInv
<1> QED
  BY <1>3, <1>4

(* The end of the references, an error of their iterator, and Close. *)
LEMMA EndsKeep ==
  ASSUME IInv, NoMoreRefs \/ FailRef \/ Close \/ UNCHANGED vars
  PROVE  IInv'
<1>0. TypeOK /\ HeadIsRead /\ EofIsTheEnd /\ Len(git.refs) \in Nat
  BY DEF IInv, TypeOK, RepoType
<1>1. UNCHANGED <<git, skip, wanted, refs, head, ref, walking, stack, seen, out>>
  BY DEF NoMoreRefs, FailRef, Close, vars
<1>2. /\ pos' = pos \/ (pos < Len(git.refs) /\ git.refs[pos + 1] = BadRef /\ pos' = pos + 1)
      /\ status' \in {"next", "eof", "error", "closed"}
  BY <1>0 DEF NoMoreRefs, FailRef, Close, vars, GitError, TypeOK
<1>3. pos \in Nat /\ pos' \in 0..Len(git.refs)
  BY <1>0, <1>2 DEF TypeOK
<1>4. TypeOK'
  <2>1. References' = References
    BY <1>1 DEF References
  <2> QED
    BY <1>0, <1>1, <1>2, <1>3, <2>1 DEF TypeOK
<1>5. HeadIsRead'
  BY <1>0, <1>1 DEF HeadIsRead
<1>6. EofIsTheEnd'
  <2>1. CASE NoMoreRefs
    <3>1. refs = TRUE /\ walking # TRUE /\ head = None /\ pos = Len(git.refs) /\ pos' = pos
      BY <1>0, <2>1 DEF NoMoreRefs, Choosing, TypeOK
    <3> QED
      BY <1>1, <3>1 DEF EofIsTheEnd
  <2>2. CASE FailRef \/ Close
    BY <2>2 DEF FailRef, Close, GitError, EofIsTheEnd
  <2>3. CASE UNCHANGED vars
    BY <1>0, <2>3 DEF vars, EofIsTheEnd
  <2> QED
    BY <2>1, <2>2, <2>3
<1>7. \A k \in References : Opened(k) => Opened(k)'
  BY <1>1, <1>2, <1>3 DEF Opened, References
<1>8. \A k \in References : Opened(k)' => Opened(k) \/ ~Walkable(k)
  <2> SUFFICES ASSUME NEW k \in References, Opened(k)', ~Opened(k) PROVE ~Walkable(k)
    OBVIOUS
  <2>1. k = pos + 1 /\ git.refs[pos + 1] = BadRef
    BY <1>1, <1>2, <1>3 DEF Opened, References
  <2>2. HashOf(k) = BadRef
    BY <1>3, <2>1 DEF HashOf
  <2> QED
    BY <2>2, MarksAreNotHashes DEF Walkable
<1> QED
  BY <1>1, <1>4, <1>5, <1>6, <1>7, <1>8, NoRowNoWalk DEF IInv

(* A reference gets its turn: it is passed over, or a walk starts at its commit. *)
LEMMA OpenKeeps ==
  ASSUME IInv, Choosing, NEW k \in References, NEW h, Open(k, h), HashOf(k) = h,
         head' = None, pos' \in 0..Len(git.refs), ~Opened(k), Opened(k)',
         \A j \in References : j # k => (Opened(j)' <=> Opened(j))
  PROVE  IInv'
<1>0. /\ TypeOK /\ HeadIsRead /\ refs = TRUE /\ walking # TRUE /\ status = "next"
      /\ RowsOfOpened /\ OpenedAreComplete
      /\ HistoryIndexIsADistance /\ RepeatedOnlyIfWaiting
  BY DEF IInv, Choosing, TypeOK
<1>1. UNCHANGED <<git, skip, wanted, refs, out>> /\ ref' = k /\ status' \in {"next", "error"}
  BY <1>0 DEF Open, GitError
<1>2. HeadIsRead' /\ EofIsTheEnd' /\ References' = References
  BY <1>0, <1>1 DEF HeadIsRead, EofIsTheEnd, References
<1>3. CASE UNCHANGED <<walking, stack, seen>> /\ ~Walkable(k)
  <2>1. TypeOK'
    BY <1>0, <1>1, <1>2, <1>3 DEF TypeOK
  <2> QED
    BY <1>0, <1>1, <1>2, <1>3, <2>1, NoRowNoWalk DEF IInv
<1>4. CASE k \in wanted /\ h \in Object /\ Resolves(git, h) /\ newIndexedCommitIter(Target(git, h))
  <2> DEFINE c == Target(git, h)
             f == [idx |-> 0, pos |-> 1, hashes |-> <<c>>]
  <2>1. c \in Commit
    BY <1>4 DEF Resolves
  <2>2. walking' = TRUE /\ stack' = <<f>> /\ seen' = {}
    BY <1>4 DEF newIndexedCommitIter
  <2>3. f \in Frame
    BY <2>1 DEF Frame
  <2>4. stack' \in Seq(Frame)
    BY <2>2, <2>3
  <2>5. TypeOK'
    BY <1>0, <1>1, <1>2, <2>2, <2>4 DEF TypeOK
  <2>6. \A j : HashOf(j)' = HashOf(j) /\ Walkable(j)' = Walkable(j)
    BY <1>1 DEF HashOf, Walkable, Resolves, IsMissing, Target
  <2>7. \A i \in DOMAIN out : out[i].ref # k
    BY <1>0 DEF RowsOfOpened
  <2>8. WalkIsRight'
    <3>1. HashOf(ref)' = h /\ Start' = c
      BY <1>1 DEF HashOf, Start, Target
    <3>2. Walkable(ref)'
      BY <1>1, <1>4, <3>1 DEF Walkable, Resolves, IsMissing, Target
    <3>3. Fresh'
      BY <1>1, <2>2, <2>7, <3>1 DEF Fresh
    <3>4. Opened(ref)'
      BY <1>1 DEF Opened
    <3> QED
      BY <1>0, <1>1, <3>2, <3>3, <3>4 DEF WalkIsRight
  <2>9. OpenedAreComplete'
    <3> SUFFICES ASSUME NEW j \in References, Opened(j)', ~Current(j)', Walkable(j)
                 PROVE  Complete(j)'
      BY <1>2, <2>6 DEF OpenedAreComplete
    <3>1. j # k
      BY <1>1, <2>2 DEF Current
    <3>2. Opened(j) /\ ~Current(j)
      BY <1>0, <3>1 DEF Current
    <3>3. Complete(j)
      BY <1>0, <3>2 DEF OpenedAreComplete
    <3> QED
      BY <1>1, <2>6, <3>3 DEF Complete, ParentsOf, Elems, Target
  <2>10. RowsOfOpened'
    BY <1>0, <1>1, <1>2, <2>7 DEF RowsOfOpened
  <2>11. HistoryIndexIsADistance' /\ RepeatedOnlyIfWaiting'
    BY <1>0, <1>1, <2>6 DEF HistoryIndexIsADistance, RepeatedOnlyIfWaiting, ParentsOf, Elems, Target
  <2> QED
    BY <1>2, <2>5, <2>8, <2>9, <2>10, <2>11 DEF IInv
<1>5. CASE UNCHANGED <<walking, stack, seen>>
           /\ (k \notin wanted \/ h = Symbolic \/ IsInvalid(git, h) \/ IsMissing(git, h))
  <2>1. ~Walkable(k)
    BY <1>5, MarksAreNotHashes, HashesDisjoint DEF Walkable, IsInvalid, Resolves
  <2> QED
    BY <1>3, <1>5, <2>1
<1> QED
  BY <1>4, <1>5 DEF Open

(* HEAD comes before the references of the iterator, each of which comes once. *)
LEMMA TurnsKeep ==
  ASSUME IInv, OpenHead \/ OpenRef
  PROVE  IInv'
<1>0. /\ TypeOK /\ HeadIsRead /\ Len(git.refs) \in Nat /\ pos \in 0..Len(git.refs)
      /\ refs = TRUE /\ refs' = refs /\ Choosing
  BY DEF IInv, TypeOK, RepoType, OpenHead, OpenRef, Choosing, Open
<1>1. CASE OpenHead
  <2>1. Open(0, head) /\ head # None /\ head' = None /\ pos' = pos
    BY <1>1 DEF OpenHead
  <2>2. 0 \in References /\ HashOf(0) = head
    BY <1>0, <2>1 DEF References, HashOf, HeadIsRead
  <2>3. ~Opened(0) /\ Opened(0)'
    BY <1>0, <2>1 DEF Opened
  <2>4. \A j \in References : j # 0 => (Opened(j)' <=> Opened(j))
    BY <2>1 DEF Opened
  <2> QED
    BY <1>0, <2>1, <2>2, <2>3, <2>4, OpenKeeps
<1>2. CASE OpenRef
  <2>0. PICK k \in Nat : k = pos + 1
    BY <1>0
  <2>1. Open(k, git.refs[k]) /\ head = None /\ head' = None /\ pos' = k /\ pos < Len(git.refs)
    BY <1>2, <2>0 DEF OpenRef
  <2>2. k \in References /\ HashOf(k) = git.refs[k] /\ pos' \in 0..Len(git.refs)
    BY <1>0, <2>0, <2>1 DEF References, HashOf
  <2>3. ~Opened(k) /\ Opened(k)'
    BY <1>0, <2>0, <2>1 DEF Opened
  <2>4. \A j \in References : j # k => (Opened(j)' <=> Opened(j))
    BY <1>0, <2>0, <2>1 DEF Opened, References
  <2> QED
    BY <1>0, <2>1, <2>2, <2>3, <2>4, OpenKeeps
<1> QED
  BY <1>1, <1>2

(* With nothing left on the stack the reference has its whole history. *)
LEMMA FinishKeeps ==
  ASSUME IInv, FinishRef
  PROVE  IInv'
<1>0. /\ TypeOK /\ HeadIsRead /\ RowsOfOpened /\ WalkIsRight /\ OpenedAreComplete
      /\ HistoryIndexIsADistance /\ RepeatedOnlyIfWaiting
  BY DEF IInv
<1>1. /\ UNCHANGED <<git, skip, wanted, status, refs, head, pos, ref, stack, seen, out>>
      /\ status = "next" /\ walking = TRUE /\ stack = <<>> /\ walking' = FALSE
  BY <1>0 DEF FinishRef, TypeOK
<1>2. TypeOK' /\ HeadIsRead' /\ EofIsTheEnd' /\ WalkIsRight'
  <2>1. walking' # TRUE
    BY <1>1
  <2>2. References' = References /\ walking' \in BOOLEAN
    BY <1>1 DEF References
  <2>3. TypeOK'
    BY <1>0, <1>1, <2>2 DEF TypeOK
  <2> QED
    BY <1>0, <1>1, <2>1, <2>3 DEF HeadIsRead, EofIsTheEnd, WalkIsRight
<1>3. \A k : (Opened(k)' <=> Opened(k)) /\ HashOf(k)' = HashOf(k) /\ Walkable(k)' = Walkable(k)
  BY <1>1 DEF Opened, HashOf, Walkable, Resolves, IsMissing, Target
<1>4. References' = References
  BY <1>1 DEF References
<1>5. RowsOfOpened' /\ HistoryIndexIsADistance' /\ RepeatedOnlyIfWaiting'
  <2>1. RowsOfOpened'
    BY <1>0, <1>1, <1>3, <1>4 DEF RowsOfOpened
  <2> QED
    BY <1>0, <1>1, <1>3, <2>1
    DEF HistoryIndexIsADistance, RepeatedOnlyIfWaiting, ParentsOf, Elems, Target
<1>6. \A n, c : ~Waits(stack, n, c)
  BY <1>1 DEF Waits
<1>7. Complete(ref)
  <2>1. InProgress
    BY <1>0, <1>1 DEF WalkIsRight, Fresh
  <2> QED
    BY <1>6, <2>1 DEF InProgress, ParentsSeenOrWaiting, Complete, Start, ParentsOf
<1>8. OpenedAreComplete'
  <2> SUFFICES ASSUME NEW k \in References, Opened(k), Walkable(k) PROVE Complete(k)'
    BY <1>3, <1>4 DEF OpenedAreComplete
  <2>1. Complete(k)
    BY <1>0, <1>7 DEF OpenedAreComplete, Current
  <2> QED
    BY <1>1, <1>3, <2>1 DEF Complete, ParentsOf, Elems, Target
<1> QED
  BY <1>2, <1>5, <1>8 DEF IInv

(* A visit: what waits is visited once, its unseen parents come to wait, and its
   commit is returned if it can be read. *)
LEMMA VisitKeeps ==
  ASSUME IInv, Visit
  PROVE  IInv'
<1>0. /\ TypeOK /\ HeadIsRead /\ RowsOfOpened /\ WalkIsRight /\ OpenedAreComplete
      /\ HistoryIndexIsADistance /\ RepeatedOnlyIfWaiting
  BY DEF IInv
<1>1. PICK top, h, a : top = Last(stack) /\ h = top.hashes[top.pos] /\ a = Advance(stack)
  OBVIOUS
<1>2. /\ UNCHANGED <<git, skip, wanted, refs, head, pos, ref, walking>>
      /\ status = "next" /\ walking = TRUE /\ stack # <<>>
      /\ seen' = seen \union {h} /\ status' \in {"next", "error"}
  BY <1>0, <1>1 DEF Visit, GitError, TypeOK
<1>3. git \in RepoType /\ stack \in Seq(Frame) /\ out \in Seq(Row) /\ ref \in References
      /\ seen \subseteq Commit
  BY <1>0 DEF TypeOK
<1>4. /\ h \in Commit /\ top.idx \in Nat /\ Waits(stack, top.idx, h) /\ a \in Seq(Frame)
      /\ \A n, c : Waits(a, n, c) => Waits(stack, n, c)
      /\ \A n, c : Waits(stack, n, c) => Waits(a, n, c) \/ (n = top.idx /\ c = h)
  BY <1>1, <1>2, <1>3, AdvanceTakesOne
<1>5. Opened(ref) /\ refs = TRUE /\ Walkable(ref) /\ (Fresh \/ InProgress)
  BY <1>0, <1>2 DEF WalkIsRight
<1>6. ASSUME Fresh PROVE h = Start /\ top.idx = 0 /\ (\A n, c : ~Waits(a, n, c))
  <2>1. Len(stack) = 1 /\ stack[1] = [idx |-> 0, pos |-> 1, hashes |-> <<Start>>]
    BY <1>6 DEF Fresh
  <2>2. top = [idx |-> 0, pos |-> 1, hashes |-> <<Start>>]
    BY <1>1, <2>1 DEF Last
  <2>3. h = Start /\ top.idx = 0 /\ top.pos = 1 /\ Len(top.hashes) = 1
    BY <1>1, <2>2
  <2>4. a = Front(stack)
    BY <1>1, <2>3 DEF Advance
  <2>5. DOMAIN a = {}
    BY <1>3, <2>1, <2>4 DEF Front
  <2> QED
    BY <2>3, <2>5 DEF Waits
<1>7. \A k : (Opened(k)' <=> Opened(k)) /\ HashOf(k)' = HashOf(k) /\ Walkable(k)' = Walkable(k)
  BY <1>2 DEF Opened, HashOf, Walkable, Resolves, IsMissing, Target
<1>8. References' = References /\ Start' = Start /\ HeadIsRead' /\ EofIsTheEnd'
  BY <1>0, <1>2 DEF References, Start, HashOf, Target, HeadIsRead, EofIsTheEnd
<1>9. ref \in Nat /\ ref' = ref /\ walking' = TRUE /\ git' = git
  BY <1>2, <1>3 DEF References, RepoType
<1>10. CASE CommitObject(git, h)
  <2>1. PICK row : row = [ref |-> ref, commit |-> h, idx |-> top.idx]
    OBVIOUS
  <2>2. /\ stack' = Push(a, top.idx + 1, UnseenParents(h))
        /\ out' = Append(out, row) /\ status' = status
    BY <1>1, <1>10, <2>1 DEF Visit
  <2>3. PICK l \in Nat : l = Len(out) + 1
    BY <1>3
  <2>4. /\ row \in Row /\ row.ref = ref /\ row.commit = h /\ row.idx = top.idx
        /\ h \notin git.missing
    BY <1>4, <1>9, <1>10, <2>1 DEF Row, CommitObject
  <2>5. /\ out' \in Seq(Row) /\ DOMAIN out = 1..(l - 1) /\ DOMAIN out' = 1..l
        /\ out'[l] = row /\ \A i \in 1..(l - 1) : out'[i] = out[i]
    BY <1>3, <2>2, <2>3, <2>4
  <2>6. /\ stack' \in Seq(Frame)
        /\ \A n, c : Waits(stack, n, c)'
             <=> \/ Waits(a, n, c)
                 \/ n = top.idx + 1 /\ c \in Elems(git.parents[h]) /\ c \notin seen /\ c # h
    <3>1. /\ UnseenParents(h) \in Seq(Commit)
          /\ Elems(UnseenParents(h)) = Elems(git.parents[h]) \ (seen \union {h})
      BY <1>3, <1>4, UnseenParentsAre
    <3>2. PICK hs \in Seq(Commit) : hs = UnseenParents(h)
      BY <3>1
    <3>3. PICK m \in Nat : m = top.idx + 1
      BY <1>4
    <3>4. /\ Push(a, m, hs) \in Seq(Frame)
          /\ \A n, c : Waits(Push(a, m, hs), n, c)
                         <=> Waits(a, n, c) \/ (n = m /\ c \in Elems(hs))
      BY <1>4, PushAdds
    <3>5. \A n, c : Waits(stack, n, c)' <=> Waits(stack', n, c)
      BY DEF Waits
    <3> QED
      BY <2>2, <3>1, <3>2, <3>3, <3>4, <3>5
  <2>7. TypeOK'
    BY <1>0, <1>2, <1>4, <1>8, <2>2, <2>5, <2>6 DEF TypeOK
  <2>8. RowsOfOpened'
    BY <1>0, <1>3, <1>5, <1>7, <1>8, <2>3, <2>4, <2>5 DEF RowsOfOpened
  <2>9. OpenedAreComplete'
    <3> SUFFICES ASSUME NEW k \in References, Opened(k), k # ref, Walkable(k) PROVE Complete(k)'
      BY <1>7, <1>8, <1>9 DEF OpenedAreComplete, Current
    <3>1. Complete(k)
      BY <1>0 DEF OpenedAreComplete, Current
    <3>2. \A i \in DOMAIN out' : out'[i].ref = k => i \in DOMAIN out /\ out'[i] = out[i]
      BY <2>3, <2>4, <2>5
    <3>3. \A i \in DOMAIN out : i \in DOMAIN out' /\ out'[i] = out[i]
      BY <2>3, <2>5
    <3>4. HashOf(k)' = HashOf(k)
      BY <1>7
    <3> QED
      BY <1>9, <3>1, <3>2, <3>3, <3>4 DEF Complete, ParentsOf, Elems, Target
  <2>10. InProgress => \E j \in 1..(l - 1) : Brings(j, top.idx, h)
    BY <1>4, <2>5 DEF InProgress, WaitingIsBrought
  <2>11. HistoryIndexIsADistance'
    <3> SUFFICES ASSUME NEW i \in 1..l
                 PROVE  /\ Walkable(out'[i].ref)
                        /\ IF out'[i].idx = 0
                             THEN out'[i].commit = Target(git, HashOf(out'[i].ref))
                             ELSE \E j \in 1..(i - 1) :
                                    /\ out'[j].ref = out'[i].ref
                                    /\ out'[j].idx + 1 = out'[i].idx
                                    /\ out'[i].commit \in ParentsOf(git, out'[j].commit)
      BY <1>2, <2>5 DEF HistoryIndexIsADistance, Walkable, HashOf
    <3>1. CASE i \in 1..(l - 1)
      <4>1. \A j \in 1..(i - 1) : j \in 1..(l - 1) /\ out'[j] = out[j]
        BY <2>3, <2>5, <3>1
      <4> QED
        BY <1>0, <2>5, <3>1, <4>1 DEF HistoryIndexIsADistance
    <3>2. CASE i = l /\ Fresh
      BY <1>5, <1>6, <2>4, <2>5, <3>2 DEF Start
    <3>3. CASE i = l /\ InProgress
      <4>1. PICK j \in 1..(l - 1) : Brings(j, top.idx, h)
        BY <2>10, <3>3
      <4>2. /\ out'[j].ref = ref /\ out'[j].idx + 1 = top.idx
            /\ h \in ParentsOf(git, out'[j].commit) /\ out'[j].idx \in Nat
        <5>1. out'[j] = out[j] /\ out[j] \in Row
          BY <1>3, <2>5
        <5> QED
          BY <2>4, <4>1, <5>1 DEF Brings, ParentsOf, Row
      <4> QED
        BY <1>5, <2>4, <2>5, <3>3, <4>2
    <3> QED
      BY <1>5, <2>3, <3>1, <3>2, <3>3
  <2>12. RepeatedOnlyIfWaiting'
    <3> SUFFICES ASSUME NEW j \in 1..l, NEW i \in 1..(j - 1),
                        out'[i].ref = out'[j].ref, out'[i].commit = out'[j].commit
                 PROVE  \E k \in 1..(i - 1) :
                          /\ out'[k].ref = out'[j].ref
                          /\ out'[k].idx + 1 = out'[j].idx
                          /\ out'[j].commit \in ParentsOf(git, out'[k].commit)
      BY <1>2, <2>5 DEF RepeatedOnlyIfWaiting
    <3>0. i \in 1..(l - 1) /\ \A k \in 1..(i - 1) : k \in 1..(l - 1) /\ out'[k] = out[k]
      BY <2>3, <2>5
    <3>1. CASE j \in 1..(l - 1)
      BY <1>0, <2>5, <3>0, <3>1 DEF RepeatedOnlyIfWaiting
    <3>2. CASE j = l
      <4>1. out[i].ref = ref /\ out[i].commit = h
        BY <2>4, <2>5, <3>0, <3>2
      <4>2. InProgress
        BY <1>5, <2>5, <3>0, <4>1 DEF Fresh
      <4>3. PICK k \in 1..(i - 1) : Brings(k, top.idx, h)
        BY <1>4, <2>5, <3>0, <4>1, <4>2 DEF InProgress, WaitingIsBrought
      <4>4. out'[k].ref = ref /\ out'[k].idx + 1 = top.idx /\ h \in ParentsOf(git, out'[k].commit)
        BY <2>4, <3>0, <4>3 DEF Brings, ParentsOf
      <4> QED
        BY <2>4, <2>5, <3>2, <4>4
    <3> QED
      BY <2>3, <3>1, <3>2
  <2>13. \A j \in 1..(l - 1) : \A n, c : Brings(j, n, c) => Brings(j, n, c)'
    BY <1>9, <2>5 DEF Brings, Elems
  <2>14. WaitingIsBrought'
    <3> SUFFICES ASSUME NEW n, NEW c, Waits(stack, n, c)'
                 PROVE  /\ \E j \in 1..l : Brings(j, n, c)'
                        /\ \A i \in 1..l : out'[i].ref = ref /\ out'[i].commit = c =>
                             \E j \in 1..(i - 1) : Brings(j, n, c)'
      BY <1>9, <2>5 DEF WaitingIsBrought
    <3>1. CASE Waits(a, n, c)
      <4>1. InProgress /\ Waits(stack, n, c)
        BY <1>4, <1>5, <1>6, <3>1
      <4>2. PICK j \in 1..(l - 1) : Brings(j, n, c)
        BY <2>5, <4>1 DEF InProgress, WaitingIsBrought
      <4>3. \E k \in 1..l : Brings(k, n, c)'
        BY <2>3, <2>13, <4>2
      <4>4. ASSUME NEW i \in 1..l, out'[i].ref = ref, out'[i].commit = c
            PROVE  \E k \in 1..(i - 1) : Brings(k, n, c)'
        <5>1. CASE i = l
          BY <2>13, <4>2, <5>1
        <5>2. CASE i \in 1..(l - 1)
          <6>1. PICK k \in 1..(i - 1) : Brings(k, n, c)
            BY <2>5, <4>1, <4>4, <5>2 DEF InProgress, WaitingIsBrought
          <6>2. k \in 1..(l - 1)
            BY <2>3, <5>2
          <6> QED
            BY <2>13, <6>1, <6>2
        <5> QED
          BY <2>3, <5>1, <5>2
      <4> QED
        BY <4>3, <4>4
    <3>2. CASE n = top.idx + 1 /\ c \in Elems(git.parents[h]) /\ c \notin seen /\ c # h
      <4>1. l \in 1..l /\ Brings(l, n, c)'
        <5>1. l \in 1..l
          BY <2>3
        <5>2. out'[l].ref = ref' /\ out'[l].idx + 1 = n /\ c \in Elems(git'.parents[out'[l].commit])
          BY <1>9, <2>4, <2>5, <3>2
        <5> QED
          BY <5>1, <5>2 DEF Brings, Elems
      <4>2. ASSUME NEW i \in 1..l, out'[i].ref = ref, out'[i].commit = c PROVE FALSE
        <5>1. i \in 1..(l - 1)
          BY <2>3, <2>4, <2>5, <3>2, <4>2
        <5>2. out[i].ref = ref /\ out[i].commit = c
          BY <2>5, <4>2, <5>1
        <5> QED
          BY <1>5, <2>5, <3>2, <5>1, <5>2 DEF Fresh, InProgress, ParentsSeenOrWaiting
      <4> QED
        BY <4>1, <4>2
    <3> QED
      BY <2>6, <3>1, <3>2
  <2>15. ParentsSeenOrWaiting'
    <3>1. ASSUME NEW i \in 1..l, out'[i].ref = ref
          PROVE  /\ out'[i].commit \in seen'
                 /\ \A c \in Elems(git.parents[out'[i].commit]) :
                      c \in seen' \/ \E n : Waits(stack, n, c)'
      <4>1. CASE i = l
        BY <1>2, <2>4, <2>5, <2>6, <4>1
      <4>2. CASE i \in 1..(l - 1)
        <5>1. out[i].ref = ref /\ out'[i] = out[i]
          BY <2>5, <3>1, <4>2
        <5>2. InProgress
          BY <1>5, <2>5, <4>2, <5>1 DEF Fresh
        <5>3. /\ out[i].commit \in seen
              /\ \A c \in Elems(git.parents[out[i].commit]) :
                   c \in seen \/ \E n : Waits(stack, n, c)
          BY <2>5, <4>2, <5>1, <5>2 DEF InProgress, ParentsSeenOrWaiting
        <5> QED
          BY <1>2, <1>4, <2>6, <5>1, <5>3
      <4> QED
        BY <2>3, <4>1, <4>2
    <3>2. ASSUME NEW c \in seen' \ git.missing
          PROVE  \E i \in 1..l : out'[i].ref = ref /\ out'[i].commit = c
      <4>1. CASE c = h
        <5>1. l \in 1..l
          BY <2>3
        <5> QED
          BY <2>4, <2>5, <4>1, <5>1
      <4>2. CASE c # h
        <5>1. c \in seen \ git.missing
          BY <1>2, <4>2
        <5>2. PICK i \in 1..(l - 1) : out[i].ref = ref /\ out[i].commit = c
          BY <1>5, <2>5, <5>1 DEF Fresh, InProgress, ParentsSeenOrWaiting
        <5>3. i \in 1..l
          BY <2>3
        <5> QED
          BY <2>5, <5>2, <5>3
      <4> QED
        BY <4>1, <4>2
    <3>3. \A i \in 1..l : Elems(git.parents[out'[i].commit]) = Elems(git.parents[out[i].commit])'
      BY <1>9 DEF Elems
    <3> QED
      BY <1>9, <2>5, <3>1, <3>2, <3>3 DEF ParentsSeenOrWaiting
  <2>16. \E i \in DOMAIN out' : out'[i].ref = ref /\ out'[i].commit = Start
    <3>1. CASE Fresh
      <4>1. l \in DOMAIN out'
        BY <2>3, <2>5
      <4> QED
        BY <1>6, <2>4, <2>5, <3>1, <4>1
    <3>2. CASE InProgress
      <4>1. PICK i \in 1..(l - 1) : out[i].ref = ref /\ out[i].commit = Start
        BY <2>5, <3>2 DEF InProgress
      <4>2. i \in DOMAIN out' /\ out'[i] = out[i]
        BY <2>3, <2>5
      <4> QED
        BY <4>1, <4>2
    <3> QED
      BY <1>5, <3>1, <3>2
  <2>17. WalkIsRight'
    <3>1. InProgress'
      BY <1>8, <1>9, <2>14, <2>15, <2>16 DEF InProgress
    <3>2. Opened(ref)' /\ Walkable(ref)'
      BY <1>5, <1>7, <1>9 DEF Opened, Walkable, HashOf, Resolves, IsMissing, Target
    <3> QED
      BY <1>2, <1>5, <3>1, <3>2 DEF WalkIsRight
  <2> QED
    BY <1>8, <2>7, <2>8, <2>9, <2>11, <2>12, <2>17 DEF IInv
<1>11. CASE ~CommitObject(git, h)
  <2>1. stack' = a /\ out' = out /\ h \in git.missing
    BY <1>1, <1>4, <1>11 DEF Visit, CommitObject
  <2>2. InProgress
    <3>1. Start \notin git.missing
      BY <1>5 DEF Walkable, Resolves, IsMissing, Start
    <3> QED
      BY <1>5, <1>6, <2>1, <3>1
  <2>3. \A n, c : Waits(stack, n, c)' <=> Waits(a, n, c)
    BY <2>1 DEF Waits
  <2>4. TypeOK'
    BY <1>0, <1>2, <1>4, <1>8, <2>1 DEF TypeOK
  <2>5. WaitingIsBrought'
    <3>1. \A j, n, c : Brings(j, n, c)' <=> Brings(j, n, c)
      BY <1>9, <2>1 DEF Brings, Elems
    <3> QED
      BY <1>4, <1>9, <2>1, <2>2, <2>3, <3>1 DEF InProgress, WaitingIsBrought
  <2>6. ParentsSeenOrWaiting'
    <3>1. \A i : Elems(git.parents[out[i].commit])' = Elems(git.parents[out[i].commit])
      BY <1>9, <2>1 DEF Elems
    <3> QED
      BY <1>2, <1>4, <1>9, <2>1, <2>2, <2>3, <3>1 DEF InProgress, ParentsSeenOrWaiting
  <2>7. WalkIsRight'
    <3>1. InProgress'
      BY <1>8, <1>9, <2>1, <2>2, <2>5, <2>6 DEF InProgress
    <3>2. Opened(ref)' /\ Walkable(ref)'
      BY <1>5, <1>7, <1>9 DEF Opened, Walkable, HashOf, Resolves, IsMissing, Target
    <3> QED
      BY <1>2, <1>5, <3>1, <3>2 DEF WalkIsRight
  <2>8. RowsOfOpened'
    BY <1>0, <1>7, <1>8, <2>1 DEF RowsOfOpened
  <2>9. OpenedAreComplete'
    <3> SUFFICES ASSUME NEW k \in References, Opened(k), k # ref, Walkable(k) PROVE Complete(k)'
      BY <1>7, <1>8, <1>9 DEF OpenedAreComplete, Current
    <3>1. Complete(k)
      BY <1>0 DEF OpenedAreComplete, Current
    <3> QED
      BY <1>7, <1>9, <2>1, <3>1 DEF Complete, ParentsOf, Elems, Target
  <2>10. HistoryIndexIsADistance' /\ RepeatedOnlyIfWaiting'
    BY <1>0, <1>7, <1>9, <2>1
    DEF HistoryIndexIsADistance, RepeatedOnlyIfWaiting, ParentsOf, Elems, Target
  <2> QED
    BY <1>8, <2>4, <2>7, <2>8, <2>9, <2>10 DEF IInv
<1> QED
  BY <1>10, <1>11

(* Every step keeps the invariant. *)
LEMMA InductiveStep == IInv /\ [Next]_vars => IInv'
<1> QED
  BY LoadRefsKeeps, EndsKeep, TurnsKeep, FinishKeeps, VisitKeeps DEF Next, Step

(* What could not be read ends the iteration with an error when errors are not
   skipped (next and indexedCommitIter.Next). *)
LEMMA ReadableStep == IInv /\ AllReadable /\ [Next]_vars => AllReadable'
<1> SUFFICES ASSUME IInv, AllReadable, [Next]_vars, skip' # TRUE, status' \in {"next", "eof"}
             PROVE  /\ status' = "eof" => git'.refsErr # TRUE
                    /\ refs' = TRUE => git'.head # BadRef
                    /\ \A k \in 1..pos' : git'.refs[k] # BadRef
                    /\ \A k \in wanted' : Opened(k)' /\ HashOf(k)' \in Object =>
                         ~IsMissing(git', HashOf(k)')
                    /\ walking' = TRUE => seen' \intersect git'.missing = {}
                    /\ \A i \in DOMAIN out' : ~Current(out[i].ref)' =>
                         Elems(git'.parents[out'[i].commit]) \intersect git'.missing = {}
  BY DEF AllReadable
<1>0. /\ TypeOK /\ HeadIsRead /\ RowsOfOpened /\ WalkIsRight
      /\ git.refsErr \in BOOLEAN /\ Len(git.refs) \in Nat /\ pos \in 0..Len(git.refs)
      /\ wanted \subseteq References
  BY DEF IInv, TypeOK, RepoType
<1>1. git' = git /\ skip' = skip /\ wanted' = wanted /\ skip # TRUE
  BY DEF Next, Step, LoadRefs, NoMoreRefs, FailRef, OpenHead, OpenRef, Open, FinishRef, Visit,
         Close, vars
<1>2. \A k : HashOf(k)' = HashOf(k)
  BY <1>1 DEF HashOf
<1>3. ASSUME status = "next"
      PROVE  /\ refs = TRUE => git.head # BadRef
             /\ \A k \in 1..pos : git.refs[k] # BadRef
             /\ \A k \in wanted : Opened(k) /\ HashOf(k) \in Object => ~IsMissing(git, HashOf(k))
             /\ walking = TRUE => seen \intersect git.missing = {}
             /\ \A i \in DOMAIN out : ~Current(out[i].ref) =>
                  Elems(git.parents[out[i].commit]) \intersect git.missing = {}
  BY <1>1, <1>3 DEF AllReadable
<1>4. CASE LoadRefs
  <2>1. /\ UNCHANGED <<pos, ref, walking, seen, out>> /\ status = "next" /\ refs # TRUE
    BY <1>0, <1>4 DEF LoadRefs, TypeOK
  <2>2. git.refsErr # TRUE
    BY <1>0, <1>1, <1>4 DEF LoadRefs
  <2>3. git.head # BadRef /\ refs' = TRUE /\ head' = git.head
    BY <1>0, <1>1, <1>4, <2>2 DEF LoadRefs, GitError
  <2>4. \A k \in wanted : Opened(k)' /\ HashOf(k) \in Object => Opened(k)
    <3> SUFFICES ASSUME NEW k \in wanted, Opened(k)', HashOf(k) \in Object PROVE Opened(k)
      OBVIOUS
    <3>1. CASE k = 0
      BY <2>3, <3>1, MarksAreNotHashes DEF Opened, HashOf
    <3>2. CASE k # 0
      BY <2>1, <3>2 DEF Opened
    <3> QED
      BY <3>1, <3>2
  <2>5. \A i \in DOMAIN out : Current(out[i].ref)' <=> Current(out[i].ref)
    BY <2>1 DEF Current
  <2> QED
    BY <1>1, <1>2, <1>3, <2>1, <2>2, <2>3, <2>4, <2>5
<1>5. CASE NoMoreRefs \/ FailRef
  <2>1. /\ UNCHANGED <<refs, head, pos, ref, walking, seen, out>>
        /\ status = "next" /\ refs = TRUE
    BY <1>0, <1>1, <1>5 DEF NoMoreRefs, FailRef, GitError, Choosing, TypeOK
  <2>2. \A k : Opened(k)' <=> Opened(k)
    BY <2>1 DEF Opened
  <2>3. \A i \in DOMAIN out : Current(out[i].ref)' <=> Current(out[i].ref)
    BY <2>1 DEF Current
  <2>4. git.refsErr # TRUE
    BY <1>0, <2>1 DEF HeadIsRead
  <2> QED
    BY <1>1, <1>2, <1>3, <2>1, <2>2, <2>3, <2>4
<1>6. ASSUME NEW k \in References, NEW h, Choosing, Open(k, h), HashOf(k) = h, refs' = refs,
             \A j \in References : Opened(j)' => Opened(j) \/ j = k,
             \A j \in 1..pos' : git.refs[j] # BadRef
      PROVE  /\ status' = "next"
             /\ refs' = TRUE => git.head # BadRef
             /\ \A j \in wanted : Opened(j)' /\ HashOf(j) \in Object => ~IsMissing(git, HashOf(j))
             /\ walking' = TRUE => seen' \intersect git.missing = {}
             /\ \A i \in DOMAIN out' : ~Current(out[i].ref)' =>
                  Elems(git.parents[out'[i].commit]) \intersect git.missing = {}
  <2>1. status = "next" /\ walking # TRUE /\ refs = TRUE /\ out' = out
    BY <1>0, <1>6 DEF Choosing, TypeOK, Open
  <2>2. status' = "next" /\ (k \in wanted /\ h \in Object => ~IsMissing(git, h))
    <3>1. CASE k \notin wanted \/ h = Symbolic \/ IsInvalid(git, h) \/ Resolves(git, h)
      <4>1. status' = "next"
        BY <1>1, <1>6, <2>1 DEF Open, GitError
      <4>2. k \in wanted /\ h \in Object => ~IsMissing(git, h)
        BY <3>1, MarksAreNotHashes DEF IsInvalid, Resolves
      <4> QED
        BY <4>1, <4>2
    <3>2. CASE ~(k \notin wanted \/ h = Symbolic \/ IsInvalid(git, h) \/ Resolves(git, h))
      BY <1>1, <1>6, <3>2 DEF Open, GitError
    <3> QED
      BY <3>1, <3>2
  <2>3. walking' = TRUE => seen' = {}
    BY <1>6, <2>1 DEF Open, newIndexedCommitIter
  <2>4. \A i \in DOMAIN out : Elems(git.parents[out[i].commit]) \intersect git.missing = {}
    BY <1>3, <2>1 DEF Current
  <2>5. \A j \in wanted : Opened(j)' /\ HashOf(j) \in Object => ~IsMissing(git, HashOf(j))
    <3> SUFFICES ASSUME NEW j \in wanted, Opened(j)', HashOf(j) \in Object
                 PROVE  ~IsMissing(git, HashOf(j))
      OBVIOUS
    <3>1. CASE j = k
      BY <1>6, <2>2, <3>1
    <3>2. CASE j # k
      BY <1>0, <1>3, <1>6, <2>1, <3>2
    <3> QED
      BY <3>1, <3>2
  <2> QED
    BY <1>3, <1>6, <2>1, <2>2, <2>3, <2>4, <2>5
<1>7. CASE OpenHead
  <2>1. /\ Choosing /\ Open(0, head) /\ head # None /\ pos' = pos /\ refs' = refs
        /\ refs = TRUE /\ status = "next"
    BY <1>0, <1>7 DEF OpenHead, Open, Choosing, TypeOK
  <2>2. 0 \in References /\ HashOf(0) = head
    BY <1>0, <2>1 DEF References, HashOf, HeadIsRead
  <2>3. \A j \in References : Opened(j)' => Opened(j) \/ j = 0
    BY <2>1 DEF Opened
  <2>4. \A j \in 1..pos' : git.refs[j] # BadRef
    BY <1>3, <2>1
  <2> QED
    BY <1>1, <1>2, <1>6, <2>1, <2>2, <2>3, <2>4
<1>8. CASE OpenRef
  <2>0. PICK k \in Nat : k = pos + 1
    BY <1>0
  <2>1. /\ Choosing /\ Open(k, git.refs[k]) /\ pos' = k /\ refs' = refs /\ head' = head
        /\ refs = TRUE /\ status = "next" /\ git.refs[k] # BadRef /\ pos < Len(git.refs)
    BY <1>0, <1>8, <2>0 DEF OpenRef, Open, Choosing, TypeOK
  <2>2. k \in References /\ HashOf(k) = git.refs[k]
    BY <1>0, <2>0, <2>1 DEF References, HashOf
  <2>3. \A j \in References : Opened(j)' => Opened(j) \/ j = k
    BY <1>0, <2>0, <2>1 DEF Opened, References
  <2>4. \A j \in 1..pos' : git.refs[j] # BadRef
    BY <1>0, <1>3, <2>0, <2>1
  <2> QED
    BY <1>1, <1>2, <1>6, <2>1, <2>2, <2>3, <2>4
<1>9. CASE FinishRef
  <2>1. /\ UNCHANGED <<status, refs, head, pos, ref, stack, seen, out>>
        /\ status = "next" /\ walking = TRUE /\ stack = <<>> /\ walking' # TRUE
    BY <1>0, <1>9 DEF FinishRef, TypeOK
  <2>2. \A k : Opened(k)' <=> Opened(k)
    BY <2>1 DEF Opened
  <2>3. \A n, c : ~Waits(stack, n, c)
    BY <2>1 DEF Waits
  <2>4. InProgress
    BY <1>0, <2>1 DEF WalkIsRight, Fresh
  <2>5. ASSUME NEW i \in DOMAIN out
        PROVE  Elems(git.parents[out[i].commit]) \intersect git.missing = {}
    <3>1. CASE out[i].ref = ref
      <4>1. \A c \in Elems(git.parents[out[i].commit]) : c \in seen
        BY <2>3, <2>4, <3>1 DEF InProgress, ParentsSeenOrWaiting
      <4> QED
        BY <1>3, <2>1, <4>1
    <3>2. CASE out[i].ref # ref
      BY <1>3, <2>1, <3>2 DEF Current
    <3> QED
      BY <3>1, <3>2
  <2> QED
    BY <1>1, <1>2, <1>3, <2>1, <2>2, <2>5
<1>10. CASE Visit
  <2>1. PICK h : h = Last(stack).hashes[Last(stack).pos]
    OBVIOUS
  <2>2. /\ UNCHANGED <<refs, head, pos, ref, walking>>
        /\ status = "next" /\ walking = TRUE /\ stack # <<>> /\ seen' = seen \union {h}
    BY <1>0, <1>10, <2>1 DEF Visit, TypeOK
  <2>3. CommitObject(git, h)
    BY <1>1, <1>10, <2>1 DEF Visit, GitError
  <2>4. status' = "next" /\ out' = Append(out, [ref |-> ref, commit |-> h, idx |-> Last(stack).idx])
    BY <1>10, <2>1, <2>2, <2>3 DEF Visit
  <2>5. PICK row : row = [ref |-> ref, commit |-> h, idx |-> Last(stack).idx]
    OBVIOUS
  <2>6. \A i \in DOMAIN out' : out'[i].ref = ref \/ (i \in DOMAIN out /\ out'[i] = out[i])
    <3>1. out \in Seq(Row)
      BY <1>0 DEF TypeOK
    <3>2. row.ref = ref /\ out' = Append(out, row)
      BY <2>4, <2>5
    <3>3. /\ Len(out) \in Nat /\ DOMAIN out = 1..Len(out) /\ DOMAIN out' = 1..(Len(out) + 1)
          /\ out'[Len(out) + 1] = row /\ \A i \in 1..Len(out) : out'[i] = out[i]
      BY <3>1, <3>2
    <3> QED
      BY <3>2, <3>3
  <2>7. \A i \in DOMAIN out' : ~Current(out[i].ref)' =>
          i \in DOMAIN out /\ out'[i] = out[i] /\ ~Current(out[i].ref)
    BY <2>2, <2>6 DEF Current
  <2>8. seen' \intersect git.missing = {}
    BY <1>3, <2>2, <2>3 DEF CommitObject
  <2>9. \A k : Opened(k)' <=> Opened(k)
    BY <2>2 DEF Opened
  <2>10. \A i \in DOMAIN out' : ~Current(out[i].ref)' =>
           Elems(git.parents[out'[i].commit]) \intersect git.missing = {}
    BY <1>3, <2>2, <2>7
  <2> QED
    BY <1>1, <1>2, <1>3, <2>2, <2>4, <2>8, <2>9, <2>10
<1>11. CASE Close
  BY <1>11 DEF Close
<1>12. CASE UNCHANGED vars
  <2>1. UNCHANGED <<status, refs, head, pos, ref, walking, seen, out>>
    BY <1>12 DEF vars
  <2>2. \A k : Opened(k)' <=> Opened(k)
    BY <2>1 DEF Opened
  <2>3. \A i \in DOMAIN out : Current(out[i].ref)' <=> Current(out[i].ref)
    BY <2>1 DEF Current
  <2> QED
    BY <1>1, <1>2, <2>1, <2>2, <2>3 DEF AllReadable
<1> QED
  BY <1>4, <1>5, <1>7, <1>8, <1>9, <1>10, <1>11, <1>12 DEF Next, Step

-----------------------------------------------------------------------------
(* The strengthened invariant holds of every scan of ref_commits. *)
THEOREM Invariance == Spec => [](IInv /\ AllReadable)
<1> QED
  BY InitialInvariant, InductiveStep, ReadableStep, PTL DEF Spec

(* history_index is the length of a path of parents from the commit of the
   reference, whatever the history, the references and what is missing. *)
THEOREM IndexIsADistance == Spec => []HistoryIndexIsADistance
<1>1. IInv => HistoryIndexIsADistance
  BY DEF IInv
<1> QED
  BY Invariance, <1>1, PTL

(* A reference returns a commit again only if it waited when it was returned
   first (indexedCommitIter.Next). *)
THEOREM Repetition == Spec => []RepeatedOnlyIfWaiting
<1>1. IInv => RepeatedOnlyIfWaiting
  BY DEF IInv
<1> QED
  BY Invariance, <1>1, PTL

(* At io.EOF each selected reference that resolves to a commit has returned its
   whole readable history, whatever the references before it returned. *)
THEOREM WholeHistory == Spec => []WholeHistoryOfEachReference
<1>1. IInv => WholeHistoryOfEachReference
  <2> SUFFICES ASSUME IInv, status = "eof", ~git.refsErr, NEW k \in References, Walkable(k)
               PROVE  LET commits == {out[i].commit : i \in {n \in DOMAIN out : out[n].ref = k}}
                      IN  Target(git, HashOf(k)) \in commits /\ ParentClosed(git, commits)
    BY DEF WholeHistoryOfEachReference
  <2>0. git.refsErr # TRUE
    BY Zenon
  <2>1. TypeOK /\ EofIsTheEnd /\ OpenedAreComplete /\ Len(git.refs) \in Nat
    BY DEF IInv, TypeOK, RepoType
  <2>2. refs = TRUE /\ head = None /\ pos = Len(git.refs) /\ walking # TRUE
    BY <2>0, <2>1 DEF EofIsTheEnd
  <2>3. Opened(k) /\ ~Current(k)
    <3>1. k <= pos
      BY <2>1, <2>2 DEF References
    <3> QED
      BY <2>2, <3>1 DEF Opened, Current
  <2>4. Complete(k)
    BY <2>1, <2>3 DEF OpenedAreComplete
  <2> QED
    BY <2>4 DEF Complete, ParentClosed
<1> QED
  BY Invariance, <1>1, PTL

(* Without SkipGitErrors a scan that reaches io.EOF has passed over nothing that
   could not be read. *)
THEOREM NothingSkipped == Spec => []NothingSkippedSilently
<1>1. IInv /\ AllReadable => NothingSkippedSilently
  <2> SUFFICES ASSUME IInv, AllReadable, status = "eof", ~skip
               PROVE  /\ ~git.refsErr
                      /\ BadRef \notin Elems(git.refs) \union {git.head}
                      /\ \A k \in wanted : HashOf(k) \in Object => ~IsMissing(git, HashOf(k))
                      /\ \A i \in DOMAIN out :
                           Elems(git.parents[out[i].commit]) \intersect git.missing = {}
    BY DEF NothingSkippedSilently
  <2>0. skip # TRUE
    BY Zenon
  <2>1. /\ TypeOK /\ EofIsTheEnd /\ Len(git.refs) \in Nat
        /\ DOMAIN git.refs = 1..Len(git.refs) /\ wanted \subseteq References
        /\ git.refsErr \in BOOLEAN
    BY DEF IInv, TypeOK, RepoType
  <2>2. /\ git.refsErr # TRUE
        /\ refs = TRUE => git.head # BadRef
        /\ \A k \in 1..pos : git.refs[k] # BadRef
        /\ \A k \in wanted : Opened(k) /\ HashOf(k) \in Object => ~IsMissing(git, HashOf(k))
        /\ \A i \in DOMAIN out : ~Current(out[i].ref) =>
             Elems(git.parents[out[i].commit]) \intersect git.missing = {}
    BY <2>0, <2>1 DEF AllReadable
  <2>3. refs = TRUE /\ head = None /\ pos = Len(git.refs) /\ walking # TRUE
    BY <2>1, <2>2 DEF EofIsTheEnd
  <2>4. \A k \in wanted : Opened(k)
    BY <2>1, <2>3 DEF Opened, References
  <2>5. BadRef \notin Elems(git.refs) \union {git.head}
    BY <2>1, <2>2, <2>3 DEF Elems
  <2>6. ~git.refsErr
    BY <2>1, <2>2
  <2> QED
    BY <2>2, <2>3, <2>4, <2>5, <2>6 DEF Current
<1> QED
  BY Invariance, <1>1, PTL

-----------------------------------------------------------------------------
(* Commits that are visited again.  Hashes are not looked for in seen when their
   turn comes, so a commit that waits in several frames is visited in each. *)

(* Commit c waits in frame f of the stack s. *)
WaitsIn(s, f, c) == \E k \in s[f].pos..Len(s[f].hashes) : s[f].hashes[k] = c

(* The stack is depth first: where a visited commit waits again, the parents that
   were not visited wait in frames above, so their turn comes before. *)
ParentsWaitAbove ==
  \A c \in seen \ git.missing : \A f \in DOMAIN stack : WaitsIn(stack, f, c) =>
    \A p \in Elems(git.parents[c]) \ seen :
      \E g \in DOMAIN stack : g > f /\ WaitsIn(stack, g, p)

(* A commit that a reference returns again comes after all its readable parents:
   the repetition is the end of a path of parents, never the start of one. *)
RepeatedAfterItsParents ==
  \A j \in DOMAIN out : \A i \in 1..(j - 1) :
    out[i].ref = out[j].ref /\ out[i].commit = out[j].commit =>
      \A c \in ParentsOf(git, out[j].commit) :
        \E k \in 1..(j - 1) : out[k].ref = out[j].ref /\ out[k].commit = c

(* Taking the current hash of the top frame moves no other hash. *)
LEMMA AdvanceMovesNothing ==
  ASSUME NEW s \in Seq(Frame), s # <<>>, NEW h, h = Last(s).hashes[Last(s).pos],
         NEW a, a = Advance(s)
  PROVE  /\ a \in Seq(Frame) /\ Len(a) <= Len(s) /\ WaitsIn(s, Len(s), h)
         /\ \A f \in DOMAIN a : \A c : WaitsIn(a, f, c) => WaitsIn(s, f, c)
         /\ \A f \in DOMAIN s : \A c :
              WaitsIn(s, f, c) => (f \in DOMAIN a /\ WaitsIn(a, f, c)) \/ (f = Len(s) /\ c = h)
<1>0. PICK top, l : top = Last(s) /\ l = Len(s)
  OBVIOUS
<1>1. l \in Nat \ {0} /\ DOMAIN s = 1..l /\ top = s[l] /\ \A f \in 1..l : s[f] \in Frame
  BY <1>0 DEF Last
<1>2. /\ top \in Frame /\ top.idx \in Nat /\ top.pos \in Nat \ {0} /\ top.hashes \in Seq(Commit)
      /\ top.pos <= Len(top.hashes) /\ Len(top.hashes) \in Nat /\ h = top.hashes[top.pos]
  BY <1>0, <1>1 DEF Frame
<1>3. WaitsIn(s, l, h)
  BY <1>1, <1>2 DEF WaitsIn
<1>4. CASE top.pos = Len(top.hashes)
  <2>1. a = Front(s)
    BY <1>0, <1>4 DEF Advance
  <2>2. /\ a \in Seq(Frame) /\ Len(a) = l - 1
        /\ DOMAIN a = 1..(l - 1) /\ \A f \in 1..(l - 1) : a[f] = s[f]
    BY <1>0, <1>1, <2>1 DEF Front
  <2>3. \A f \in DOMAIN a : \A c : WaitsIn(a, f, c) => WaitsIn(s, f, c)
    BY <2>2 DEF WaitsIn
  <2>4. ASSUME NEW f \in 1..l, NEW c, WaitsIn(s, f, c)
        PROVE  (f \in DOMAIN a /\ WaitsIn(a, f, c)) \/ (f = l /\ c = h)
    <3>1. CASE f = l
      BY <1>1, <1>2, <1>4, <2>4, <3>1 DEF WaitsIn
    <3>2. CASE f \in 1..(l - 1)
      BY <2>2, <2>4, <3>2 DEF WaitsIn
    <3> QED
      BY <1>1, <3>1, <3>2
  <2> QED
    BY <1>0, <1>1, <1>3, <2>2, <2>3, <2>4
<1>5. CASE top.pos # Len(top.hashes)
  <2>1. PICK t : t = [idx |-> top.idx, pos |-> top.pos + 1, hashes |-> top.hashes]
    OBVIOUS
  <2>2. a = [s EXCEPT ![l] = t]
    <3>1. top \in [idx : Nat, pos : Nat \ {0}, hashes : Seq(Commit)]
      BY <1>2 DEF Frame
    <3>2. t = [top EXCEPT !.pos = top.pos + 1]
      BY <2>1, <3>1
    <3>3. a = [s EXCEPT ![l] = [s[l] EXCEPT !.pos = top.pos + 1]]
      BY <1>0, <1>5 DEF Advance
    <3> QED
      BY <1>1, <3>2, <3>3
  <2>3. t \in Frame /\ t.pos = top.pos + 1 /\ t.hashes = top.hashes
    BY <1>2, <1>5, <2>1 DEF Frame
  <2>4. /\ a \in Seq(Frame) /\ DOMAIN a = 1..l /\ Len(a) = l /\ a[l] = t
        /\ \A f \in 1..l : f # l => a[f] = s[f]
    <3>1. l \in 1..Len(s)
      BY <1>0, <1>1
    <3>2. a \in Seq(Frame) /\ Len(a) = l
      BY <1>0, <2>2, <2>3, <3>1
    <3> QED
      BY <1>1, <2>2, <3>2
  <2>5. ASSUME NEW f \in 1..l, NEW c, WaitsIn(a, f, c) PROVE WaitsIn(s, f, c)
    <3>1. CASE f = l
      BY <1>1, <1>2, <2>3, <2>4, <2>5, <3>1 DEF WaitsIn
    <3>2. CASE f # l
      BY <2>4, <2>5, <3>2 DEF WaitsIn
    <3> QED
      BY <3>1, <3>2
  <2>6. ASSUME NEW f \in 1..l, NEW c, WaitsIn(s, f, c)
        PROVE  WaitsIn(a, f, c) \/ (f = l /\ c = h)
    <3>1. CASE f = l
      <4>1. PICK k \in top.pos..Len(top.hashes) : top.hashes[k] = c
        BY <1>1, <2>6, <3>1 DEF WaitsIn
      <4>2. CASE k = top.pos
        BY <1>2, <3>1, <4>1, <4>2
      <4>3. CASE k # top.pos
        <5>1. k \in t.pos..Len(t.hashes) /\ t.hashes[k] = c
          BY <1>2, <2>3, <4>1, <4>3
        <5> QED
          BY <2>4, <3>1, <5>1 DEF WaitsIn
      <4> QED
        BY <4>2, <4>3
    <3>2. CASE f # l
      BY <2>4, <2>6, <3>2 DEF WaitsIn
    <3> QED
      BY <3>1, <3>2
  <2> QED
    BY <1>0, <1>1, <1>3, <2>4, <2>5, <2>6
<1> QED
  BY <1>4, <1>5

(* A frame of parents comes above the others, which stay as they are. *)
LEMMA PushIsAbove ==
  ASSUME NEW s \in Seq(Frame), NEW idx \in Nat, NEW hs \in Seq(Commit),
         NEW p, p = Push(s, idx, hs), NEW l, l = Len(s)
  PROVE  /\ \A f \in DOMAIN s : f \in DOMAIN p /\ p[f] = s[f]
         /\ \A f \in DOMAIN p : f \in DOMAIN s \/ (f = l + 1 /\ \A c : WaitsIn(p, f, c) => c \in Elems(hs))
         /\ \A c \in Elems(hs) : l + 1 \in DOMAIN p /\ WaitsIn(p, l + 1, c)
<1>0. l \in Nat /\ DOMAIN s = 1..l /\ Len(hs) \in Nat /\ DOMAIN hs = 1..Len(hs)
  OBVIOUS
<1>1. CASE hs = <<>>
  BY <1>1 DEF Push, Elems
<1>2. CASE hs # <<>>
  <2>1. PICK t : t = [idx |-> idx, pos |-> 1, hashes |-> hs]
    OBVIOUS
  <2>2. p = Append(s, t) /\ t.pos = 1 /\ t.hashes = hs /\ t \in Frame
    BY <1>2, <2>1 DEF Push, Frame
  <2>3. DOMAIN p = 1..(l + 1) /\ p[l + 1] = t /\ \A f \in 1..l : p[f] = s[f]
    BY <1>0, <2>2
  <2>4. \A c : WaitsIn(p, l + 1, c) <=> c \in Elems(hs)
    BY <1>0, <2>2, <2>3 DEF WaitsIn, Elems
  <2> QED
    BY <1>0, <2>3, <2>4
<1> QED
  BY <1>1, <1>2

(* When a commit is visited again, all its parents have been visited. *)
LEMMA ParentsBeforeRepetition ==
  ASSUME TypeOK, ParentsWaitAbove, stack # <<>>,
         NEW h, h = Last(stack).hashes[Last(stack).pos], h \in seen, CommitObject(git, h)
  PROVE  Elems(git.parents[h]) \subseteq seen
<1>1. stack \in Seq(Frame) /\ h \notin git.missing
  BY DEF TypeOK, CommitObject
<1>2. PICK l \in Nat : l = Len(stack) /\ l \in DOMAIN stack /\ DOMAIN stack = 1..l
  BY <1>1
<1>3. WaitsIn(stack, l, h)
  <2>1. PICK a : a = Advance(stack)
    OBVIOUS
  <2> QED
    BY <1>1, <1>2, <2>1, AdvanceMovesNothing
<1>4. \A p \in Elems(git.parents[h]) \ seen : \E g \in 1..l : g > l
  BY <1>1, <1>2, <1>3 DEF ParentsWaitAbove
<1> QED
  BY <1>2, <1>4

(* A visit brings the unseen parents above everything that waits. *)
LEMMA VisitKeepsParentsAbove ==
  ASSUME IInv, ParentsWaitAbove, Visit
  PROVE  ParentsWaitAbove'
<1>1. PICK top, h, a : top = Last(stack) /\ h = top.hashes[top.pos] /\ a = Advance(stack)
  OBVIOUS
<1>2. git' = git /\ stack # <<>> /\ seen' = seen \union {h}
  BY <1>1 DEF Visit
<1>3. git \in RepoType /\ stack \in Seq(Frame) /\ seen \subseteq Commit
  BY DEF IInv, TypeOK
<1>4. h \in Commit /\ top.idx \in Nat
  BY <1>1, <1>2, <1>3, AdvanceTakesOne
<1>5. /\ a \in Seq(Frame)
      /\ \A f \in DOMAIN a : \A c : WaitsIn(a, f, c) => WaitsIn(stack, f, c)
      /\ \A f \in DOMAIN stack : \A c :
           WaitsIn(stack, f, c) =>
             (f \in DOMAIN a /\ WaitsIn(a, f, c)) \/ (f = Len(stack) /\ c = h)
      /\ DOMAIN a \subseteq DOMAIN stack
  <2>1. /\ a \in Seq(Frame) /\ Len(a) <= Len(stack)
        /\ \A f \in DOMAIN a : \A c : WaitsIn(a, f, c) => WaitsIn(stack, f, c)
        /\ \A f \in DOMAIN stack : \A c :
             WaitsIn(stack, f, c) =>
               (f \in DOMAIN a /\ WaitsIn(a, f, c)) \/ (f = Len(stack) /\ c = h)
    BY <1>1, <1>2, <1>3, AdvanceMovesNothing
  <2>2. DOMAIN a \subseteq DOMAIN stack
    BY <1>3, <2>1
  <2> QED
    BY <2>1, <2>2
<1>6. ASSUME NEW c \in seen \ git.missing, NEW f \in DOMAIN a, WaitsIn(a, f, c),
             NEW p \in Elems(git.parents[c]), p \notin seen, p # h
      PROVE  \E g \in DOMAIN a : g > f /\ WaitsIn(a, g, p)
  <2>1. f \in DOMAIN stack /\ WaitsIn(stack, f, c)
    BY <1>5, <1>6
  <2>2. PICK g \in DOMAIN stack : g > f /\ WaitsIn(stack, g, p)
    BY <1>6, <2>1 DEF ParentsWaitAbove
  <2> QED
    BY <1>5, <1>6, <2>2
<1> SUFFICES ASSUME NEW c \in (seen \union {h}) \ git.missing, NEW f \in DOMAIN stack',
                    WaitsIn(stack', f, c),
                    NEW p \in Elems(git.parents[c]), p \notin seen, p # h
             PROVE  \E g \in DOMAIN stack' : g > f /\ WaitsIn(stack', g, p)
  BY <1>2 DEF ParentsWaitAbove, WaitsIn, Elems
<1>7. CASE CommitObject(git, h)
  <2>1. stack' = Push(a, top.idx + 1, UnseenParents(h))
    BY <1>1, <1>7 DEF Visit
  <2>2. /\ UnseenParents(h) \in Seq(Commit)
        /\ Elems(UnseenParents(h)) = Elems(git.parents[h]) \ (seen \union {h})
    BY <1>3, <1>4, UnseenParentsAre
  <2>3. PICK hs \in Seq(Commit), m \in Nat, l \in Nat :
          hs = UnseenParents(h) /\ m = top.idx + 1 /\ l = Len(a)
    BY <1>4, <1>5, <2>2
  <2>4. /\ \A i \in DOMAIN a : i \in DOMAIN stack' /\ stack'[i] = a[i]
        /\ \A i \in DOMAIN stack' :
             i \in DOMAIN a \/ (i = l + 1 /\ \A d : WaitsIn(stack', i, d) => d \in Elems(hs))
        /\ \A d \in Elems(hs) : l + 1 \in DOMAIN stack' /\ WaitsIn(stack', l + 1, d)
    <3>1. PICK q : q = stack'
      OBVIOUS
    <3>2. q = Push(a, m, hs)
      BY <2>1, <2>3, <3>1
    <3>3. /\ \A i \in DOMAIN a : i \in DOMAIN q /\ q[i] = a[i]
          /\ \A i \in DOMAIN q :
               i \in DOMAIN a \/ (i = l + 1 /\ \A d : WaitsIn(q, i, d) => d \in Elems(hs))
          /\ \A d \in Elems(hs) : l + 1 \in DOMAIN q /\ WaitsIn(q, l + 1, d)
      BY <1>5, <2>3, <3>2, PushIsAbove
    <3> QED
      BY <3>1, <3>3
  <2>5. f \in DOMAIN a \/ (c \in Elems(hs))
    BY <2>4
  <2>6. f \in DOMAIN a
    <3>1. SUFFICES ASSUME c \in Elems(hs) PROVE c = h /\ c # h
      BY <2>5
    <3> QED
      BY <2>2, <2>3, <3>1
  <2>7. WaitsIn(a, f, c) /\ f \in 1..l
    <3>1. stack'[f] = a[f]
      BY <2>4, <2>6
    <3> QED
      BY <1>5, <2>3, <2>6, <3>1 DEF WaitsIn
  <2>8. CASE c = h
    <3>1. p \in Elems(hs)
      BY <2>2, <2>3, <2>8
    <3>2. l + 1 \in DOMAIN stack' /\ WaitsIn(stack', l + 1, p)
      BY <2>4, <3>1
    <3> QED
      BY <2>3, <2>7, <3>2
  <2>9. CASE c # h
    <3>1. PICK g \in DOMAIN a : g > f /\ WaitsIn(a, g, p)
      BY <1>6, <2>6, <2>7, <2>9
    <3>2. g \in DOMAIN stack' /\ stack'[g] = a[g]
      BY <2>4
    <3> QED
      BY <3>1, <3>2 DEF WaitsIn
  <2> QED
    BY <2>8, <2>9
<1>8. CASE ~CommitObject(git, h)
  <2>1. stack' = a /\ h \in git.missing
    BY <1>1, <1>4, <1>8 DEF Visit, CommitObject
  <2>2. c \in seen \ git.missing /\ f \in DOMAIN a /\ WaitsIn(a, f, c)
    BY <2>1
  <2> QED
    BY <1>6, <2>1, <2>2
<1> QED
  BY <1>7, <1>8

(* A row that repeats a commit has the rows of the parents before it. *)
LEMMA VisitKeepsParentsFirst ==
  ASSUME IInv, ParentsWaitAbove, RepeatedAfterItsParents, Visit
  PROVE  RepeatedAfterItsParents'
<1>1. PICK top, h : top = Last(stack) /\ h = top.hashes[top.pos]
  OBVIOUS
<1>2. git' = git /\ stack # <<>> /\ walking = TRUE /\ TypeOK
  BY DEF Visit, IInv, TypeOK
<1>3. out \in Seq(Row) /\ ref \in Nat
  BY <1>2 DEF TypeOK, References, RepoType
<1>4. CASE ~CommitObject(git, h)
  <2>1. out' = out
    BY <1>1, <1>4 DEF Visit
  <2> QED
    BY <1>2, <2>1 DEF RepeatedAfterItsParents
<1>5. CASE CommitObject(git, h)
  <2>1. PICK row : row = [ref |-> ref, commit |-> h, idx |-> top.idx]
    OBVIOUS
  <2>2. out' = Append(out, row) /\ row.ref = ref /\ row.commit = h
    BY <1>1, <1>5, <2>1 DEF Visit
  <2>3. PICK l \in Nat : l = Len(out) + 1
    BY <1>3
  <2>4. /\ DOMAIN out = 1..(l - 1) /\ DOMAIN out' = 1..l
        /\ out'[l] = row /\ \A i \in 1..(l - 1) : out'[i] = out[i]
    BY <1>3, <2>2, <2>3
  <2> SUFFICES ASSUME NEW j \in 1..l, NEW i \in 1..(j - 1),
                      out'[i].ref = out'[j].ref, out'[i].commit = out'[j].commit,
                      NEW c \in ParentsOf(git, out'[j].commit)
               PROVE  \E k \in 1..(j - 1) : out'[k].ref = out'[j].ref /\ out'[k].commit = c
    BY <1>2, <2>4 DEF RepeatedAfterItsParents
  <2>5. i \in 1..(l - 1) /\ \A k \in 1..(j - 1) : k \in 1..(l - 1) /\ out'[k] = out[k]
    BY <2>3, <2>4
  <2>6. CASE j \in 1..(l - 1)
    BY <2>4, <2>5, <2>6 DEF RepeatedAfterItsParents
  <2>7. CASE j = l
    <3>1. out[i].ref = ref /\ out[i].commit = h /\ c \in Elems(git.parents[h]) \ git.missing
      BY <2>2, <2>4, <2>5, <2>7 DEF ParentsOf
    <3>2. Fresh \/ InProgress
      BY <1>2 DEF IInv, WalkIsRight
    <3>3. ParentsSeenOrWaiting
      BY <2>4, <2>5, <3>1, <3>2 DEF Fresh, InProgress
    <3>4. h \in seen
      BY <2>4, <2>5, <3>1, <3>3 DEF ParentsSeenOrWaiting
    <3>5. c \in seen \ git.missing
      <4>1. Elems(git.parents[h]) \subseteq seen
        BY <1>1, <1>2, <1>5, <3>4, ParentsBeforeRepetition
      <4> QED
        BY <3>1, <4>1
    <3>6. PICK k \in DOMAIN out : out[k].ref = ref /\ out[k].commit = c
      BY <3>3, <3>5 DEF ParentsSeenOrWaiting
    <3> QED
      BY <2>2, <2>4, <2>7, <3>6
  <2> QED
    BY <2>3, <2>6, <2>7
<1> QED
  BY <1>4, <1>5

(* No other step puts anything on the stack of a walk that has begun. *)
LEMMA RepetitionStep ==
  IInv /\ ParentsWaitAbove /\ RepeatedAfterItsParents /\ [Next]_vars
    => ParentsWaitAbove' /\ RepeatedAfterItsParents'
<1> SUFFICES ASSUME IInv, ParentsWaitAbove, RepeatedAfterItsParents, [Next]_vars
             PROVE  ParentsWaitAbove' /\ RepeatedAfterItsParents'
  OBVIOUS
<1>1. CASE Visit
  BY <1>1, VisitKeepsParentsAbove, VisitKeepsParentsFirst
<1>2. CASE UNCHANGED <<git, out, stack, seen>>
  BY <1>2 DEF ParentsWaitAbove, RepeatedAfterItsParents, ParentsOf, WaitsIn, Elems
<1>3. CASE UNCHANGED <<git, out>> /\ seen' = {}
  BY <1>3 DEF ParentsWaitAbove, RepeatedAfterItsParents, ParentsOf, WaitsIn, Elems
<1>4. ASSUME NEW k, NEW h, Open(k, h)
      PROVE  UNCHANGED <<git, out, stack, seen>> \/ (UNCHANGED <<git, out>> /\ seen' = {})
  BY <1>4 DEF Open, newIndexedCommitIter
<1>5. CASE OpenHead \/ OpenRef
  BY <1>2, <1>3, <1>4, <1>5 DEF OpenHead, OpenRef
<1>6. CASE LoadRefs \/ NoMoreRefs \/ FailRef \/ FinishRef \/ Close \/ UNCHANGED vars
  BY <1>2, <1>6 DEF LoadRefs, NoMoreRefs, FailRef, FinishRef, Close, vars
<1> QED
  BY <1>1, <1>5, <1>6 DEF Next, Step

(* In repositories of any size, a commit that a reference returns again comes after
   all the parents of it that can be read: indexedCommitIter.Next goes on with the
   top of the stack, so the history of a commit is done before the hashes that
   waited below it have their turn. *)
THEOREM ParentsFirst == Spec => []RepeatedAfterItsParents
<1>1. Init => ParentsWaitAbove /\ RepeatedAfterItsParents
  BY DEF Init, ParentsWaitAbove, RepeatedAfterItsParents
<1> QED
  BY Invariance, RepetitionStep, <1>1, PTL DEF Spec

(* How far a scan has got, compared from the left: whether it has ended, the
   references, the turns of HEAD and of the others, the walk of a reference, the
   commits it has seen and, once these do not grow, the hashes that wait. *)
Forward ==
  \/ status = "next" /\ status' # "next"
  \/ UNCHANGED status /\ ~refs /\ refs'
  \/ UNCHANGED <<status, refs, pos>> /\ head # None /\ head' = None
  \/ UNCHANGED <<status, refs, head>> /\ pos' = pos + 1 /\ pos' <= Len(git.refs)
  \/ UNCHANGED <<status, refs, head, pos, ref>> /\ walking /\ ~walking'
  \/ /\ UNCHANGED <<status, refs, head, pos, ref, walking>>
     /\ seen \subseteq seen' /\ seen' \subseteq Commit /\ seen' # seen
  \/ /\ UNCHANGED <<status, refs, head, pos, ref, walking, seen>>
     /\ stack # <<>> /\ stack' = Advance(stack)

(* No step goes round in a circle, through however many repeated commits. *)
StepsGoForward == [][Step => Forward]_vars

(* A visit of a commit that was visited before adds nothing to the stack. *)
LEMMA VisitGoesForward ==
  ASSUME TypeOK, ParentsWaitAbove, Visit
  PROVE  Forward
<1>1. PICK top, h, a : top = Last(stack) /\ h = top.hashes[top.pos] /\ a = Advance(stack)
  OBVIOUS
<1>2. /\ UNCHANGED <<git, skip, wanted, refs, head, pos, ref, walking>>
      /\ status = "next" /\ stack # <<>> /\ seen' = seen \union {h}
      /\ UNCHANGED status \/ status' # "next"
  BY <1>1 DEF Visit, GitError
<1>3. git \in RepoType /\ stack \in Seq(Frame) /\ seen \subseteq Commit
  BY DEF TypeOK
<1>4. h \in Commit /\ top.idx \in Nat
  BY <1>1, <1>2, <1>3, AdvanceTakesOne
<1>5. CASE h \notin seen /\ UNCHANGED status
  BY <1>2, <1>3, <1>4, <1>5 DEF Forward
<1>6. CASE h \in seen /\ UNCHANGED status
  <2>1. seen' = seen
    BY <1>2, <1>6
  <2>2. CASE CommitObject(git, h)
    <3>1. stack' = Push(a, top.idx + 1, UnseenParents(h))
      BY <1>1, <2>2 DEF Visit
    <3>2. Elems(git.parents[h]) \subseteq seen
      BY <1>1, <1>2, <1>6, <2>2, ParentsBeforeRepetition
    <3>3. /\ UnseenParents(h) \in Seq(Commit)
          /\ Elems(UnseenParents(h)) = Elems(git.parents[h]) \ (seen \union {h})
      BY <1>3, <1>4, UnseenParentsAre
    <3>4. UnseenParents(h) = <<>>
      <4>1. PICK hs \in Seq(Commit) : hs = UnseenParents(h)
        BY <3>3
      <4>2. Elems(hs) = {}
        BY <3>2, <3>3, <4>1
      <4>3. 1 \notin DOMAIN hs
        BY <4>2 DEF Elems
      <4> QED
        BY <4>1, <4>3
    <3>5. stack' = a
      BY <3>1, <3>4 DEF Push
    <3> QED
      BY <1>1, <1>2, <1>6, <2>1, <3>5 DEF Forward
  <2>3. CASE ~CommitObject(git, h)
    <3>1. stack' = a
      BY <1>1, <2>3 DEF Visit
    <3> QED
      BY <1>1, <1>2, <1>6, <2>1, <3>1 DEF Forward
  <2> QED
    BY <2>2, <2>3
<1> QED
  BY <1>2, <1>5, <1>6 DEF Forward

(* For any repository, selected references and missing objects, each step of the
   scan goes forward: a commit that merges repeat brings nothing back to the stack
   (indexedCommitIter.Next), and no reference has a second turn.  With finitely many
   commits and references, this is why the scan ends. *)
THEOREM GoesForward == Spec => StepsGoForward
<1>1. Init => ParentsWaitAbove /\ RepeatedAfterItsParents
  BY DEF Init, ParentsWaitAbove, RepeatedAfterItsParents
<1>2. TypeOK /\ ParentsWaitAbove /\ [Next]_vars => [Step => Forward]_vars
  <2> SUFFICES ASSUME TypeOK, ParentsWaitAbove, Step PROVE Forward
    OBVIOUS
  <2>0. Len(git.refs) \in Nat /\ pos \in 0..Len(git.refs) /\ refs \in BOOLEAN /\ walking \in BOOLEAN
    BY DEF TypeOK, RepoType
  <2>1. CASE LoadRefs
    BY <2>1 DEF LoadRefs, GitError, Forward
  <2>2. CASE NoMoreRefs
    BY <2>2 DEF NoMoreRefs, Choosing, Forward
  <2>3. CASE FailRef
    BY <2>0, <2>3 DEF FailRef, Choosing, GitError, Forward
  <2>4. ASSUME NEW k, NEW h, Open(k, h)
        PROVE  UNCHANGED refs /\ (UNCHANGED status \/ status' = "next" \/ status' = "error")
    BY <2>4 DEF Open, GitError
  <2>5. CASE OpenHead
    BY <2>4, <2>5 DEF OpenHead, Choosing, Forward
  <2>6. CASE OpenRef
    <3>1. /\ status = "next" /\ UNCHANGED head /\ pos' = pos + 1 /\ pos < Len(git.refs)
          /\ Open(pos + 1, git.refs[pos + 1])
      BY <2>6 DEF OpenRef, Choosing
    <3>2. UNCHANGED refs /\ (UNCHANGED status \/ status' # "next")
      BY <2>4, <3>1
    <3>3. pos' <= Len(git.refs)
      BY <2>0, <3>1
    <3> QED
      BY <3>1, <3>2, <3>3 DEF Forward
  <2>7. CASE FinishRef
    BY <2>7 DEF FinishRef, Forward
  <2>8. CASE Visit
    BY <2>8, VisitGoesForward
  <2> QED
    BY <2>1, <2>2, <2>3, <2>5, <2>6, <2>7, <2>8 DEF Step
<1>3. IInv => TypeOK
  BY DEF IInv
<1> QED
  BY Invariance, RepetitionStep, <1>1, <1>2, <1>3, PTL DEF Spec, StepsGoForward
=============================================================================
