----------------------------- MODULE TableIters -----------------------------
(***************************************************************************)
(* The tables of gitbase and the iterators that read them from a           *)
(* repository without an index.  As with the iterators of squashed tables, *)
(* the loops of Next are the same and the tables differ in what can fail   *)
(* and in what happens then.                                               *)
(*                                                                         *)
(* A table, by what PartitionRows does:                                    *)
(*   rejects  a selector on repository_id may turn the repository down     *)
(*   early    the objects are listed there, not by the first Next          *)
(*   hashes   objects asked for by their hash are read one by one          *)
(*   iter     the iterator                                                 *)
(*                                                                         *)
(* An iterator, by its loop:                                               *)
(*   levels   1: a row for each object; 2: a row for each item of it       *)
(*   single   there is one object, the repository                          *)
(*   list     a failure to list the objects                                *)
(*   object   a failure to read an object                                  *)
(*   open     a failure to open the items of an object                     *)
(*   item     a failure to read an item                                    *)
(*   content  a failure to read the content of a blob or file              *)
(*   commits  the objects are commits, which may come again: a tag leads to *)
(*            them as well as a branch                                      *)
(*   passes   what is read may be passed over without being an error       *)
(*   seen     objects that name a tree seen before are passed over         *)
(*   fragile  Close fails after the objects could not be listed            *)
(*                                                                         *)
(* A failure is "return"ed; "skip"ped, or ends the repository ("end"), or  *)
(* drops the rest of the object ("drop") when the session skips git errors *)
(* and is returned when not; "crash"es unless it is skipped; or it "never" *)
(* happens.                                                                *)
(***************************************************************************)

Loop ==
  [levels |-> 1, single |-> FALSE, list |-> "end", object |-> "skip",
   open |-> "never", item |-> "never", content |-> "never", passes |-> FALSE,
   commits |-> FALSE, seen |-> FALSE, fragile |-> FALSE]

TableOf(it) == [rejects |-> FALSE, early |-> FALSE, hashes |-> FALSE, iter |-> it]

-----------------------------------------------------------------------------
repositoriesRowIter == [Loop EXCEPT !.single = TRUE, !.list = "never", !.object = "never"]

repositoriesTable == TableOf(repositoriesRowIter)

\* The rows of a remote are counted by its URLs and fetch specifications.
remotesRowIter == [Loop EXCEPT !.levels = 2, !.list = "return", !.object = "never"]

remotesTable == [TableOf(remotesRowIter) EXCEPT !.early = TRUE]

\* HEAD is the first object; symbolic references and those that are not
\* selected pass.  Only the listing is skipped.
refRowIter == [Loop EXCEPT !.object = "return", !.passes = TRUE]

referencesTable == TableOf(refRowIter)

commitRowIter == [Loop EXCEPT !.commits = TRUE]

commitsTable == [TableOf(commitRowIter) EXCEPT !.early = TRUE, !.hashes = TRUE]

\* The first item is the tree of the commit; entries that are no trees pass.
commitTreesRowIter ==
  [Loop EXCEPT !.levels = 2, !.open = "skip", !.item = "drop", !.passes = TRUE,
               !.commits = TRUE]

commitTreesTable ==
  [TableOf(commitTreesRowIter) EXCEPT !.rejects = TRUE, !.hashes = TRUE]

\* A slip: an unreadable file ends the files of the commit.
SlipCommitBlobsRowIter ==
  [Loop EXCEPT !.levels = 2, !.open = "skip", !.item = "drop", !.commits = TRUE]

\* A row for each file: a blob at two paths of a commit has two equal rows.
commitBlobsRowIter ==
  [Loop EXCEPT !.levels = 2, !.open = "skip", !.item = "skip", !.commits = TRUE]

commitBlobsTable ==
  [TableOf(commitBlobsRowIter) EXCEPT !.rejects = TRUE, !.hashes = TRUE]

\* A slip: an unreadable file is returned as an error.
SlipCommitFilesRowIter ==
  [Loop EXCEPT !.levels = 2, !.open = "crash", !.item = "return", !.passes = TRUE,
               !.commits = TRUE]

\* An error of Files that is not skipped is not returned either, and the nil
\* iterator is used.  Paths that are not selected pass.
commitFilesRowIter ==
  [Loop EXCEPT !.levels = 2, !.open = "crash", !.item = "skip", !.passes = TRUE,
               !.commits = TRUE]

commitFilesTable ==
  [TableOf(commitFilesRowIter) EXCEPT !.rejects = TRUE, !.hashes = TRUE]

\* The errors of blobToRow are returned as they are.
blobRowIter == [Loop EXCEPT !.content = "return"]

blobsTable == [TableOf(blobRowIter) EXCEPT !.hashes = TRUE]

treeEntriesRowIter == [Loop EXCEPT !.levels = 2]

treeEntriesTable == [TableOf(treeEntriesRowIter) EXCEPT !.hashes = TRUE]

\* After a failed init the field commits holds a nil *commitIter, which is not
\* a nil object.CommitIter: Close calls its Close.
filesRowIter ==
  [Loop EXCEPT !.levels = 2, !.open = "skip", !.item = "skip",
               !.content = "return", !.passes = TRUE, !.commits = TRUE,
               !.seen = TRUE, !.fragile = TRUE]

filesTable == [TableOf(filesRowIter) EXCEPT !.rejects = TRUE]

-----------------------------------------------------------------------------
(* The tables of NewDatabase, but for ref_commits, which RefCommitWalk models. *)
GitTables ==
  {repositoriesTable, remotesTable, referencesTable, commitsTable,
   commitTreesTable, commitBlobsTable, commitFilesTable, blobsTable,
   treeEntriesTable, filesTable}
=============================================================================
