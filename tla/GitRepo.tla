------------------------------- MODULE GitRepo -------------------------------
(***************************************************************************)
(* The git repository that gitbase's iterators read: what they ask go-git  *)
(* for, and what can come back.  Commits, annotated tags and other objects *)
(* (trees, blobs) are known by their hash; a hash may be named by a        *)
(* reference, by a tag or by a child commit and still be missing from the  *)
(* object store (shallow clones, broken repositories).                     *)
(*                                                                         *)
(* go-git itself is not part of the repository: this module states what    *)
(* the calls References, Head, Object and CommitObject can return, as the  *)
(* code of gitbase uses them.                                              *)
(***************************************************************************)
EXTENDS Naturals, Sequences

CONSTANTS
  Commit,    \* hashes of commit objects
  Tag,       \* hashes of annotated tag objects
  Other,     \* hashes of the other objects: trees and blobs
  Symbolic,  \* a symbolic reference, met while reading the references
  BadRef,    \* an error returned by the reference iterator or by Head
  None       \* Go's nil: no reference, no commit, no HEAD

Object == Commit \union Tag \union Other

ASSUME HashesDisjoint ==
  /\ Commit \intersect Tag = {}
  /\ Commit \intersect Other = {}
  /\ Tag \intersect Other = {}

ASSUME MarksAreNotHashes ==
  /\ {Symbolic, BadRef, None} \intersect Object = {}
  /\ Symbolic # BadRef /\ Symbolic # None /\ BadRef # None

(***************************************************************************)
(* A repository on disk.  refs is what the reference iterator yields, in   *)
(* its order; peel is the object at the end of the chain of tags that      *)
(* starts at a tag, which is all that resolveCommit keeps of the chain.    *)
(***************************************************************************)
RepoType ==
  [parents : [Commit -> Seq(Commit)],
   peel    : [Tag -> Commit \union Other],
   missing : SUBSET Object,
   refs    : Seq(Object \union {Symbolic, BadRef}),
   refsErr : BOOLEAN,
   head    : Object \union {None, BadRef}]

\* The elements of a sequence.
Elems(s) == {s[i] : i \in DOMAIN s}

-----------------------------------------------------------------------------
(* repo.CommitObject(h) finds the object or returns an error. *)
CommitObject(g, h) == h \in Commit \ g.missing

(* What resolveCommit(repo, h) returns: a commit, "invalid" for the error
   errInvalidCommit (the chain ends in a tree or a blob), or "error" when an
   object of the chain cannot be read. *)
Target(g, h) == IF h \in Tag THEN g.peel[h] ELSE h

IsMissing(g, h) == h \in g.missing \/ Target(g, h) \in g.missing

IsInvalid(g, h) == ~ IsMissing(g, h) /\ Target(g, h) \in Other

Resolves(g, h) == ~ IsMissing(g, h) /\ Target(g, h) \in Commit

-----------------------------------------------------------------------------
(* What "the commits of the references" means, independently of any walk:
   the least set of commits that contains the readable targets of the
   references and the readable parents of its members. *)
Roots(g) == {Target(g, h) : h \in {r \in Elems(g.refs) : r \in Object /\ Resolves(g, r)}}

ParentsOf(g, c) == Elems(g.parents[c]) \ g.missing

ParentClosed(g, C) == \A c \in C : ParentsOf(g, c) \subseteq C

HistoryClosed(g, C) == Roots(g) \subseteq C /\ ParentClosed(g, C)
=============================================================================
