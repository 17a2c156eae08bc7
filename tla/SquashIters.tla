----------------------------- MODULE SquashIters -----------------------------
(***************************************************************************)
(* squash_iterator.go: the iterators a squashed table is chained from.     *)
(* They all have the same loop in Advance - take the next item of an inner *)
(* iterator, open a new one from the next row of the parent when there is  *)
(* none, drop what the filters reject - and differ in which of its steps   *)
(* can fail and in what happens then.  A definition below is one iterator  *)
(* type, given by these choices:                                           *)
(*                                                                         *)
(*   polls    the loop looks at ctx.Done                                   *)
(*   many     an inner iterator is kept between calls; otherwise a parent  *)
(*            row gives at most one row                                    *)
(*   open     a failure to open the inner iterator (for the first iterator *)
(*            of a chain, in New)                                          *)
(*   next     a failure to read the next item                              *)
(*   lookup   a failure to load the object that a read item names          *)
(*   invalid  the parent row may name something that is no commit          *)
(*   head     only the first item, HEAD, is looked up                      *)
(*   closes   a failed read closes the index it reads                      *)
(*   passes   an item may be passed over without being an error            *)
(*   parent   an error of the parent's Advance                             *)
(*   drains   io.EOF of the inner iterator is taken for a git error        *)
(*                                                                         *)
(* A failure is "return"ed, "skip"ped when the session skips git errors    *)
(* and returned when not, a "crash", or it "never" happens.                *)
(***************************************************************************)

Chained ==
  [polls |-> FALSE, many |-> TRUE, open |-> "never", next |-> "never",
   lookup |-> "never", invalid |-> FALSE, head |-> FALSE, closes |-> FALSE,
   passes |-> FALSE, parent |-> "return", drains |-> FALSE]

\* The first iterator of a chain, on the objects of the partition.
All == [Chained EXCEPT !.polls = TRUE]

\* The first iterator of a chain, on the values of an index.
Indexed == [Chained EXCEPT !.open = "return", !.next = "return", !.lookup = "skip"]

\* One row at most for each row of the parent.
Mapped == [Chained EXCEPT !.many = FALSE]

-----------------------------------------------------------------------------
squashReposIter == [All EXCEPT !.many = FALSE]

\* New tests the flag of the template, which is never set: always returned.
squashRemoteIter == [All EXCEPT !.open = "return"]

squashRepoRemotesIter == [Chained EXCEPT !.open = "skip"]

\* New tests the flag of the template here too; symbolic references pass.
squashRefIter == [All EXCEPT !.open = "return", !.next = "skip", !.passes = TRUE]

squashRefIndexIter == [Indexed EXCEPT !.polls = TRUE]

\* HEAD is the first item: when it cannot be read it is left out.
squashRepoRefsIter ==
  [Chained EXCEPT !.open = "skip", !.next = "return", !.lookup = "skip", !.head = TRUE,
                  !.passes = TRUE]

squashRemoteRefsIter == squashRepoRefsIter

\* indexedCommitIter skips the commits it cannot read by itself.
squashRefRefCommitsIter ==
  [Chained EXCEPT !.open = "skip", !.invalid = TRUE, !.next = "skip"]

squashRefHeadRefCommitsIter == [Mapped EXCEPT !.lookup = "skip", !.passes = TRUE]

squashRefCommitsIndexIter == Indexed

squashRefCommitCommitsIter == Mapped

squashCommitsIter == [All EXCEPT !.open = "skip", !.next = "return"]

squashCommitsIndexIter == [Indexed EXCEPT !.next = "skip", !.closes = TRUE, !.drains = TRUE]

squashRepoCommitsIter == [Chained EXCEPT !.open = "skip", !.next = "return"]

squashRefHeadCommitsIter == [Mapped EXCEPT !.lookup = "skip", !.passes = TRUE]

squashCommitTreesIndexIter == Indexed

\* commitTreeIter skips the trees it cannot read by itself.
squashCommitTreesIter == [Chained EXCEPT !.open = "skip", !.next = "skip"]

squashRepoTreeEntriesIter == [Chained EXCEPT !.open = "skip", !.next = "skip"]

squashCommitMainTreeIter == [Mapped EXCEPT !.lookup = "skip"]

squashTreeEntriesIter == [All EXCEPT !.open = "skip", !.next = "skip"]

squashTreeEntriesIndexIter == [Indexed EXCEPT !.next = "skip", !.closes = TRUE]

squashTreeTreeEntriesIter == Chained

squashCommitBlobsIndexIter == Indexed

\* An error of files.Next other than io.EOF leaves i.file nil and is not
\* tested; blobs seen before in the commit pass.
squashCommitBlobsIter ==
  [Chained EXCEPT !.open = "skip", !.next = "crash", !.passes = TRUE]

squashRepoBlobsIter == [Chained EXCEPT !.open = "return", !.next = "return"]

\* A slip: an error of the parent is skipped like one of a blob.
SlipTreeEntryBlobsIter ==
  [Mapped EXCEPT !.lookup = "skip", !.passes = TRUE, !.parent = "skip"]

\* Entries that are not files pass.
squashTreeEntryBlobsIter == [Mapped EXCEPT !.lookup = "skip", !.passes = TRUE]

squashCommitBlobBlobsIter == Mapped

\* Any error of the parent but io.EOF is skipped as if it were a git error.
squashCommitFilesIter ==
  [Chained EXCEPT !.open = "skip", !.next = "skip", !.parent = "skip"]

squashIndexCommitFilesIter == [Indexed EXCEPT !.next = "skip", !.closes = TRUE]

squashCommitFileFilesIter == Mapped

squashCommitFileBlobsIter == Mapped

-----------------------------------------------------------------------------
\* Every type of iterator a chain is made of.
Iterators ==
  {squashReposIter, squashRemoteIter, squashRepoRemotesIter, squashRefIter,
   squashRefIndexIter, squashRepoRefsIter, squashRemoteRefsIter,
   squashRefRefCommitsIter, squashRefHeadRefCommitsIter,
   squashRefCommitsIndexIter, squashRefCommitCommitsIter, squashCommitsIter,
   squashCommitsIndexIter, squashRepoCommitsIter, squashRefHeadCommitsIter,
   squashCommitTreesIndexIter, squashCommitTreesIter, squashRepoTreeEntriesIter,
   squashCommitMainTreeIter, squashTreeEntriesIter, squashTreeEntriesIndexIter,
   squashTreeTreeEntriesIter, squashCommitBlobsIndexIter, squashCommitBlobsIter,
   squashRepoBlobsIter, squashTreeEntryBlobsIter, squashCommitBlobBlobsIter,
   squashCommitFilesIter, squashIndexCommitFilesIter, squashCommitFileFilesIter,
   squashCommitFileBlobsIter}
=============================================================================
