# gitbase in TLA+

gitbase is an SQL database interface to git repositories: it gives the query
engine go-mysql-server a set of tables (`commits`, `refs`, `ref_commits`,
`blobs`, `files`, ...) and rows read from the repositories with go-git. These
modules model its core - the partitions and the iterators that produce rows, the
way filters and indexes are used, the rule that squashes joins and the squashed
tables, the bblfsh connection and the functions that use it - with TLC
configurations and TLAPS proofs. Line numbers are those of the repository;
`PROJECT.json` maps each definition to the lines it translates.

## Inventory

| part | state | operations | what makes it correct |
|---|---|---|---|
| commits scan (`commits.go`) | `commitIter`: reference iterator, current reference, visited hashes, queue | `newCommitIter`, `Next`, `loadNextRef`, `Close` | every readable commit of the history of the references, nothing else; errors skipped only on demand; it ends |
| ref_commits scan (`ref_commits.go`) | `refCommitsRowIter`: references, HEAD, current walk; `indexedCommitIter`: stack of frames, visited hashes | `next`, `newIndexedCommitIter`, `Next`, `Close` | the same per reference; `history_index` is a distance along parents |
| squashed tables (`squash.go`, `squash_iterator.go`) | a chain of iterators, each with its parent, its inner iterator and its row, an array it may share with its parent's | `PartitionRows`, `New`, `Advance`, `Close`, `schemaMapperIter.Next` | the chain computes the join it replaces, in order, and ends; a row stays what it is |
| squash rule (`internal/rule/squashjoins.go`) | the tables and filters still without a place, the iterator so far | `squashJoin`, `joinTables`, `buildSquashedTable` | no filter is lost; the plan has the rows of the query |
| pushed-down filters (`filters.go`) | `selectors` per column, conditions | `classifyFilters`, `textValues`, `rowIterWithSelectors` | splitting filters loses no row and adds none |
| indexes (`index.go`, `packfiles.go`, index iterators of `commits.go`, `blobs.go`, `files.go`, `commit_files.go`, `tree_entries.go`) | stored keys; open packfile indexes; the decoder of the last packfile; the last tree | `repositoryIndex.find`, `KeyValueIter.Next`, `objectDecoder.decode`, the index iterators' `Next` | the rows of a lookup are the rows that were indexed |
| all tables without an index (`references.go`, `remotes.go`, `repositories.go`, `commits.go`, `commit_trees.go`, `commit_blobs.go`, `commit_files.go`, `blobs.go`, `tree_entries.go`, `files.go`) | a cursor per iterator, the trees seen | `PartitionRows`, `Next`, `Close` | every position once, the files of a tree once; what fails is skipped or returned, never both, never neither |
| partitions and pool (`partition.go`, `repository_pool.go`) | the list of repositories, opened ones | `PartitionCount`, `Partitions`, `Next`, `GetRepo` | every repository once; skipped ones do not end the list; what is opened is closed |
| session (`session.go`) | bblfsh client under `bblfshMu`, supported languages, flags | `BblfshClient`, `Close`, `SupportedLanguages` | one live connection, no call hangs |
| UAST functions (`internal/function/uast*.go`) | the arguments of the expression, a hash and a cache shared by goroutines | `Children`, `WithChildren`, `Eval`, `computeKey`, `getUAST` | an answer belongs to its request; arguments stay in place |
| other functions, commit statistics, checksum, server command | none, or a cache | pure calls, I/O | - |

The engine drives everything: it asks a table for partitions (one per
repository), reads the partitions in goroutines that share one session, asks
each row iterator for rows until `io.EOF` or an error and may close it early.
Iterators pull from each other, never push. What is hard:

* *partial failure*: repositories may be shallow or broken, so any read may
  fail; with `GITBASE_SKIP_GIT_ERRORS` each of some forty iterators decides for
  itself what to skip and where to go on;
* *state kept between calls*: visited hashes, queues, inner iterators, the last
  tree, the last packfile;
* *interleaving*: goroutines share the session and its client; other processes
  repack the repositories; a query is canceled at any time;
* *liveness*: loops that skip errors, or wait for a connection, must end.

The hazards are listed one by one, with their lines and the properties that
cover them, in `PROJECT.json`.

## Modules

| module | models | state and actions |
|---|---|---|
| `GitRepo` | go-git as the code uses it (external), `resolveCommit` | a repository is a record: parents of commits, the objects at the end of tags, missing objects, references, HEAD. `Roots`, `ParentsOf`, `HistoryClosed` define history without any walk |
| `CommitWalk` | `commitIter`, `commitRowIter` | one action per branch of the loop of `Next`: `NewCommitIter`, `NoMoreRefs`, `PassRef`, `VisitRef`, `FinishRef`, `VisitQueued`, `Close` |
| `RefCommitWalk` | `refCommitsRowIter.next`, `indexedCommitIter` | `LoadRefs`, `NoMoreRefs`, `FailRef`, `OpenHead`, `OpenRef`, `FinishRef`, `Visit`, `Close`; the stack of frames is a sequence |
| `SquashIters` | the 31 chainable iterators | one record per iterator type: how many items an inner iterator has and what happens at each kind of failure (`"skip"`, `"fail"`, `"crash"`, `"never"`) |
| `SquashChain` | `PartitionRows`, `chainableRowIter` and the loop all `Advance` methods share | `at` is the level that runs, `ret` what the level before returned; `AskParent`, `Open`, `ReadItem`, `Exhausted`, `ParentEnds`, `Poll`, `FirstEnds`, `Deliver`, `Cancel`, `Close` |
| `RowSource` | what a table promises | the abstract specification: rows of a fixed set, in order, each once, then `io.EOF`, or another end; `SquashChain` and `TableScan` implement it |
| `SquashRule` | the rule `squash_joins` | `squashJoin` merges a join into the joined tables, `joinTables` ends the first pass; `ChainTable` takes the next table of the hierarchy and chooses its iterator (`ForRefs`, `ForCommits`, ..., one operator per table), `AddUnsquashable` leaves it to a join in memory; `buildSquashedTable` decides the outcome. A filter is the tables it reads and a column; `links` are the equalities the chosen iterators imply |
| `SharedRows` | the memory behind the rows of a chain: `append` in the `Advance` methods, `schemaMapperIter` | a row is the number of its array; `Accept`, `Reject`, `Exhausted` are the loop of `Advance` of the table that runs; `kept` is what was handed out |
| `TableIters` | the ten tables without an index and their iterators | one record per table and per iterator, as in `SquashIters` |
| `TableScan` | `partition.go`, `repository_pool.go`, and the loop the iterators of `TableIters` share | `PartitionCount`, `Partitions`, `NextPartition`, `PartitionRows`, `ListFails`, `ReadObject`, `ReadItem`, `ItemsEnd`, `ObjectsEnd`, `Stop`, `Close`; `handles` are the repositories opened and not closed |
| `Selectors` | `filters.go` | the filters of a query are classified one after the other, then the iterator uses the selectors and the conditions |
| `FilteredScan` | a query over one table with its filters | composes `TableScan` and `Selectors`: in each `PartitionRows` the filters are classified anew (`Filtering`), between the opening of the repository and the building of the iterator (`FilteredRows`); the selectors on the hash decide whether objects are looked up |
| `SquashedQuery` | a query of squashed tables, from the rule to the last row | composes `SquashRule` and `SharedRows`: `PartitionRows` takes the planned chain, its columns and whether they are reordered |
| `IndexKey` | `index.go` | the stored form of keys; integers as zigzag numbers of a given width |
| `ObjectIndex` | `packfiles.go` and the index iterators of five tables | `newRepositoryIndex` lists objects, those a shallow or broken repository lacks (`lacking`) included, `StoreKey` (and its failures `ReadFails`, `FindFails`) build the index, `NextKey` and `EOF` read it, `Repack` is another process |
| `BblfshSession` | `Session.BblfshClient`, `Session.Close` | a `pc` per goroutine: `Call`, `Lock`, `First`, `Look`, `CloseClient`, `Reconnect`, `Done`; `Server` and `Connection` are the environment |
| `UastEval` | `uast` and `uast_mode`, `BblfshClient.SupportedLanguages` | `Rewrite` is the analyzer; per goroutine `Eval`, `Lock`, `WriteLang`, `WriteBlob`, `Sum` (the shared hash), `Get`, `GetClient`, `SupportedLanguages`, `Request`, `Load`, `AppendLanguage`, `Search`, `Torn` (the list, without a lock), `Parse`, `Put` |
| `CommitWalkProofs`, `RefCommitWalkProofs`, `SquashChainProofs`, `SquashRuleProofs`, `TableScanProofs`, `ObjectIndexProofs`, `BblfshSessionProofs`, `UastEvalProofs` | - | the TLAPS proofs, each about the module it is named after; `SquashRuleProofs` also about `SharedRows`, `TableScanProofs` also about `Selectors` |
| `MC*` | - | the instances for TLC |

The data is abstract: hashes, commits and rows are model values or small
numbers; the columns of a row are left out except those the properties compare.
A row of a chain is the sequence of the positions its levels took, which stands
for the columns they append. What the repository holds for a chain is a set of
*marks*: rows with something special (unreadable, filtered out, not a commit,
...); the rows without a mark are the join. `TableScan` marks repositories,
objects and items in the same way.

Rows of a scan are positions too. Two positions may be the same row: the mark
*again* says that an object is, or names, the same as the first one. A commit
reached through a tag after a branch comes again in `commits`, `commit_trees`,
`commit_blobs`, `commit_files` and `files`, a hash that is asked for twice in
every table that looks objects up, and a blob at two paths in `commit_blobs`. The
tables return such rows again; only `files` remembers trees, and
`FilesOfATreeOnce` is about that.

The specifications of `Selectors` and `SharedRows` are called `FilterSpec` and
`RowsSpec`, so that a module of proofs can extend them together with another
component.

Definitions named `Slip...` are mutations: each is what a plausible mistake
would make of the definition after it. No specification uses them; they show
that every property would notice.

## Runs

Passing runs:

| run | checks | shows |
|---|---|---|
| `commit_walk` | `OnlyHistory`, `WholeHistoryAtEOF`, `RepeatedOnlyThroughTags`, `NothingSkippedSilently`, `Terminates` | the scan returns the readable history of the references, exactly, whatever is missing and whatever reference reaches a commit first; a commit is repeated only through an annotated tag; errors pass unseen only with the flag |
| `ref_commit_walk` | `HistoryIndexIsADistance`, `WholeHistoryOfEachReference`, `RepeatedOnlyIfWaiting`, `NothingSkippedSilently`, `Terminates` | each reference gets its own whole history with true distances; a commit is repeated within a reference only when it was waiting on the stack already, so the walk ends |
| `squash_chain` | `ImplementsJoin`, `NothingSkippedSilently`, `FailsForACause`, `NoAdvanceAfterEnd`, `Terminates` | chains with every iterator type, with failures on any level, refine `RowSource` with the join as the rows owed; a query fails only because of a failing row that the join reaches; no iterator but `squashCommitFilesIter` asks a parent that has ended; it ends unless `MaySpin` |
| `squashed_query` | `NoFilterLost`, `NaturalJoinsKeepRows`, `FailsOnlyForWrongIterator`, `RowStaysUntilAdvance`, `KeptRowsChangeOnlyBehindSpareRoom` | each filter waits, is evaluated or is implied by the chain; queries with natural joins get the rows they ask for, evaluated on real data, but for `RootTreesOnly`; planning fails for no other tables than those of `WrongIterator`; in the chains that the rule plans, whatever arrays are shared and whatever rows are rejected, the current row of each iterator is not overwritten by those after it, and a row that was handed out changes only if the columns were not reordered and a table with many rows was appended in place |
| `filtered_scan` | `ImplementsScan`, `NothingSkippedSilently`, `FailsForACause`, `FilesOfATreeOnce`, `ClosesRepositories`, `Terminates`, `NoRowLost`, `OnlyMatchingRows` | a query over any table refines `RowSource`; `files` gives the files of a tree once and misses none, whichever of the commits with the tree cannot be read; with errors skipped a query fails for a short list of causes (`Complains`) and never panics; repositories that were read are closed however the query ends; for every list of at most three filters, the rows returned are those the filters allow, when the selectors of a column agree |
| `object_index` | `LookupAgreesWithScan`, `KeysStayReadable`, `NoIndexWithoutItsRows` | any lookup returns the rows its keys were stored for, with packfiles that share offsets and objects, loose objects, a decoder that stays open and a repack at any time; only a repack makes keys unreadable; building fails or crashes only after a repack or in a repository that lacks an object its history names, and of such a repository there never is an index |
| `bblfsh_session` | `OneLiveConnection`, `ClosedStaysClosed`, `ErrorsHaveACause`, `CallsEnd` | no connection is left behind or reopened after `Close`; a call fails only if the server was down, the attempts were used up, the session was closed, or an earlier reconnection failed; every call ends |
| `uast_eval` | `AnswersItsRequest`, `RefusedOnlyAfterCrossing`, `CallsEnd` | goroutines that share a hash and a cache get the UAST of their own request, up to requests that are the same characters in a row; a language of the server is refused only after goroutines met while the list was filled; calls end |

`commit_walk` and `bblfsh_session` also check the type invariant. Runs that
refute something the repository says:

| run | refutes | by |
|---|---|---|
| `selector_conflict` | `filters.go:23-24`, conflicting selectors give "zero rows" | `textValues` gives no values, which the tables take for no selector |
| `index_offset` | `index_test.go:138`, the same rows with an index as without | `treeEntriesIndexIter` compares the offset with the last one, not the packfile |
| `squash_documented` | `docs/using-gitbase/optimize-queries.md:227` and `:242`, natural joins of tables of one hierarchy are squashed | `repositories` followed by `commit_trees` gets the iterator of another table (`squashjoins.go:526`), and planning fails |
| `uast_mode` | `docs/using-gitbase/functions.md:21`, the arguments of `uast_mode(mode, blob, lang)` | `Children` lists the blob first, `WithChildren` takes the mode first (`uast.go:121`, `:408`): one rewriting exchanges them |

### Bounds

* `commit_walk`: all histories of three commits with at most two parents, one
  tag, one blob, all lists of at most two references among them, at most one
  missing object. Two references are what it takes for one to find the other's
  history visited; three commits make a merge whose parents are related.
* `ref_commit_walk`: histories of four commits, so that a commit can be parent
  and grandparent of a merge (where frames repeat commits); HEAD and two
  references; one missing object.
* `squash_chain`: 20 chains as `squashjoins.go` builds them, in which every
  iterator type and every kind of neighbours occurs; two items per inner
  iterator (`Width`): a first one whose state may be left over and a second one
  that would show it; one mark anywhere, two in four of the chains (`MaxMarks`).
* `filtered_scan`, the filters: a handled and an unhandled column, three values of which two are
  spellings of one; every list of at most three filters on the commits of a library
  in which nothing is wrong, one filter or none (`FewFilters`) elsewhere.
* `object_index`: three objects, two packfiles that both have offset 1 and both
  hold one of the objects, five states of the object store (one without an object
  that may be listed), integers of three
  bits (`Half` = 4), one repack.
* `bblfsh_session`: two goroutines, four clients (each goroutine and the session
  hold at most one, so a new one is always at hand), two attempts instead of
  ten. The server comes and goes without bound.
* `squashed_query`, the rule: every query of up to three tables with any two equalities per
  join and one comparison with a literal, and every query of up to four tables
  with natural joins (`MaxTables`, `MaxAtoms`, `MaxLocal`, `MaxNatural`): the
  choice of an iterator looks at one table before, its filters at two. The data:
  two repositories that share a commit, two references, a tree inside a tree, so
  that losing an equality shows as another row.
* `squashed_query`, the rows: the queries of ten lists of tables, written in the
  order of the hierarchy or not (`Orders`), whose nine chains have room behind
  their rows or not and append tables with one row or many in place; two items
  per table, two rejected
  ones (`Fan`, `MaxRejected`). The capacities are those of Go's allocator for
  values of 16 bytes.
* `filtered_scan`: ten tables, two repositories, two objects, two items (`Repos`,
  `Width`), at most two marks: a second failure after a skipped one, and a
  healthy neighbour that would be lost.
* `uast_eval`: two goroutines, three calls, six rows (two supported languages,
  an unknown one, none with a content that spells the first row, empty, too
  big), a list of two languages, a cache of one entry, so that each answer may
  evict another.

`CHECK_DEADLOCK FALSE` is set where a query that has ended or was closed does
nothing any more; the session never stops, so its run checks deadlock.

### Fairness

* Walks and chains: weak fairness of the steps of the iterator, that is, the
  engine keeps asking for rows and a call that was begun runs. Nobody has to
  close or cancel a query, and nobody has to stop a scan early.
* UAST evaluation: weak fairness of each goroutine that is inside `Eval`. Its
  mutex is held for a few writes to a hash and calls are finitely many, so weak
  fairness is enough. Requests to bblfsh are answered or fail.
* Session: weak fairness of a goroutine inside `BblfshClient`, strong fairness
  of taking the lock: `sync.Mutex` hands itself over to a goroutine that has
  waited for more than a millisecond. None for the server or the connection: the
  calls end although the connection may stay in `Connecting` for ever.

## Proofs

The proofs hold for every value of the constants, from the assumptions named
in the modules and nothing else.

`CommitWalkProofs` (assumptions: the kinds of hashes are disjoint and different
from the marks; the repositories are repositories): for repositories of any
size and shape, finite or not, with anything missing,

* `Typing`: `Spec => []TypeOK`;
* `Soundness`: `Spec => []OnlyHistory`;
* `Completeness`: `Spec => []WholeHistoryAtEOF`;
* `Repetition`: `Spec => []RepeatedOnlyThroughTags`;
* `NothingSkipped`: `Spec => []NothingSkippedSilently`.

`WholeHistoryAtEOF` is not inductive: it says nothing before the end. The
invariant `IInv` says what holds on the way: a visited hash that resolves was
returned (`VisitedIsReturned`), the references read so far were visited
(`ReadRefsAreVisited`), and the parents of what was returned are visited or wait
in the queue (`ParentsAreVisitedOrQueued`). At the end the queue is empty and
the references are read, so what was returned is closed under history.
`QueuedAreParents` gives soundness: whatever waits belongs to every closed set.
The invariance proof has one step per action, on lemmas about the elements of
sequences. `NamedOnce` (each hash is returned once, and a commit under a hash
that leads to it) gives `Repetition`; `NoErrorYet` (a walk that returns errors
and goes on has met none) together with `AllParentsAreVisitedOrQueued`, which
also counts unreadable parents, gives `NothingSkipped`.

`RefCommitWalkProofs` (the same assumptions): for repositories of any size and
any selection of references,

* `IndexIsADistance`: `Spec => []HistoryIndexIsADistance`;
* `Repetition`: `Spec => []RepeatedOnlyIfWaiting`;
* `WholeHistory`: `Spec => []WholeHistoryOfEachReference`;
* `NothingSkipped`: `Spec => []NothingSkippedSilently`;
* `ParentsFirst`: `Spec => []RepeatedAfterItsParents`, a commit is returned again
  only after all its readable parents;
* `GoesForward`: `Spec => StepsGoForward`, an action property: each step moves to
  an end, to the next reference, to a commit not seen before, or takes a hash off
  the stack and puts none on it.

The invariant looks at the reference that is walked and at those before it. Of
the first, what waits on the stack was brought there by a row, and by one before
any row that has returned it (`WaitingIsBrought`); the parents of its rows were
seen or wait (`ParentsSeenOrWaiting`). With an empty stack that makes its history
whole, which is what `OpenedAreComplete` says of the others. The loop that
collects the parents not yet seen is a recursive function; that it is one, and
which hashes it collects, is proved from a least counterexample, which the
well-foundedness of the naturals gives.

`indexedCommitIter.Next` looks for parents in `seen`, but not for the hash it
visits, so it is not obvious that a commit visited again does not bring its
history back. `ParentsWaitAbove` is why: where a visited commit waits again, the
parents of it that are not visited wait in frames above, and have their turn
before. `GoesForward` is the safety part of `Terminates`; the last two theorems
state no property of a run, but TLC has checked both on the instance of
`ref_commit_walk`.

`SquashChainProofs` (assumptions: inner iterators have at least one item; the
plans are chains of the iterators of `SquashIters`): for chains of any length, made of any of the 31
iterators, over any number of items and with anything wrong with any row,

* `Causes`: `Spec => []FailsForACause`;
* `NoAdvance`: `Spec => []NoAdvanceAfterEnd`;
* `NothingSkipped`: `Spec => []NothingSkippedSilently`;
* `Join`: `Spec => ImplementsJoin`, the refinement of `RowSource`.

The chain keeps no account of the rows it has yet to return: they are implied by
the cursors. A row is `Pending` while it, or a row it extends, lies ahead of the
cursor of an open inner iterator or was just handed to the next level. The
invariant says that a row of the join was given or is pending and not both
(`Delivered`, `GivenOnce`), that each level reads for the row the levels before
it stand at (`Opened`, `Handed`), that `io.EOF` goes up only when nothing is
pending (`Drained`), and that an error that goes up has a row to blame
(`Blamed`). In the refinement a step of `Deliver` is `Emit`, the ends are the
ends, and everything else stutters.

`BblfshSessionProofs` (assumptions: `None` is no client, at least one attempt):
for any number of goroutines and clients and any bound on the attempts,

* `Typing`: `Spec => []TypeOK`, in particular the counters keep their bounds;
* `NoConnectionLeaks`: `Spec => []OneLiveConnection`;
* `CloseIsFinal`: `Spec => []ClosedStaysClosed`;
* `FailuresHaveACause`: `Spec => []ErrorsHaveACause`.

`OneLiveConnection` needs to know that the client is closed when a new one is
opened: `InsideKnowsClient` states what the goroutine inside `BblfshClient`
knows at each place of the code, and `InsideHoldsMutex`, mutual exclusion, why
it stays true. Session closing needs that a goroutine about to reconnect has
not met a closed session: `Close` of a client that is closed already fails,
which ends the call before it reconnects. That a failed call has a cause needs
that causes do not go away: `DownExcuses` for the server, and `Stuck` for a
client that is closed while nobody is about to replace it.

`SquashRuleProofs` (no assumptions on the rule): for any number of joins, any conditions and
any data,

* `FiltersSurvive`: `Spec => []NoFilterLost`;
* `FailuresAreKnown`: `Spec => []FailsOnlyForWrongIterator` (that `WrongIterator` can occur is what
  `squash_documented` shows);
* `NaturalJoinsAreKept`: `Spec => []NaturalJoinsKeepRows`.

The first property is not
inductive: whether the links of a new iterator imply the filters it drops
depends on the tables before it. `Inv` adds that tables are taken in the order
of the hierarchy and that the last iterator is that of a table taken. One lemma
per table (`RefsStep`, `CommitsStep`, ...) shows that each filter its iterator
drops is linked (`DroppedIsLinked`); the rest follows filters from the joins to
the chain. For the failures, `PlacedOK` says that the columns every filter reads
are in the schema at the place where it is evaluated, unless a table got the
wrong iterator, and `WrongPath` what happens then.

The third compares two evaluations. `RowsOfCombines` shows that the evaluation,
which reads one table after the other and tests a filter as soon as its tables
are there, gives the combinations of rows that satisfy every filter; it is a
recursive function, so this is proved from a least counterexample. What is left
is that plan and query ask for the same. The plan asks for no less by
`NoFilterLost`; that it asks for no more is `RowsInv`: what it evaluates beside
the links comes from the query, each link compares a column that two of the
tables have (`PlanOK`), and a natural join compares the columns of its table with
those of the leftmost table that has them (`NaturalOK`), so that two tables with
a column agree on it (`NaturalRowsAgree`). Nothing is assumed of `Data`: it need
not be the contents of a consistent repository.

Its last part is about the memory behind the rows of squashed tables, `SharedRows`
(assumption: the chains are not empty, tables have a column at least), for any
chain of tables, any number of items and any order of accepting and rejecting:

* `RowsStay`: `RowsSpec => []RowStaysUntilAdvance`;
* `KeptRowsChange`: `RowsSpec => []KeptRowsChangeOnlyBehindSpareRoom`.

The capacity of a row depends on the chain only (`CurrentRows`), so the tables
that are appended in place are always the same. `Own` is the last table that is
not. The arrays of the tables before it are neither those of `Own` nor handed out
(`Apart`), hence an array that was handed out is written again only by a table
after `Own`, in its own columns. If each of these has one row at most, it has
been read by the time the row is handed out and there is nothing left to write
(`KeptRows`). That capacities, a recursive function, are defined at every place
of a chain, and that there is a last table of this kind, are proved from least
counterexamples.

`UastEvalProofs` (assumptions: `None` is no goroutine; the cache has room for an entry; the limit of
blobs may be negative, which is no limit):
for any number of goroutines and calls, any rows, languages and cache,

* `OwnAnswers`: `Spec => []AnswersItsRequest`;
* `NoRefusalWithoutCrossing`: `Spec => []RefusedOnlyAfterCrossing`.

The invariant (`Invariance`) follows the bytes of a request: only the holder of
the lock is inside `computeKey`, and the hash has what it has written so far;
from then on the key is made of the request; an entry of the cache has the key of
its node. The unlocked list of languages does not occur in it: whatever the race
does, it cannot mix answers. The second theorem has an invariant of its own,
`OrderlyUntilCrossed`: until goroutines have met there, one at most fills the
list, the list is the part of the manifests it has got to, and everybody else
has seen it empty or whole.

`TableScanProofs` (assumptions: the sizes are naturals, there is a repository and
an object; the tables are those of `TableIters`): for any number of repositories,
objects and items, and anything wrong with any of them,

* `Typing`: `Spec => []TypeOK`;
* `RepositoriesAreClosed`: `Spec => []ClosesRepositories`;
* `FailuresHaveACause`: `Spec => []FailsForACause`;
* `NothingIsSkipped`: `Spec => []NothingSkippedSilently`;
* `FilesOnce`: `Spec => []FilesOfATreeOnce`;
* `Scan`: `Spec => ImplementsScan`, the refinement of `RowSource`.

`ClosesRepositories` and `NothingSkippedSilently` say nothing before the end.
`Held` says that a repository that is open belongs to the iterator that runs, or
nobody was given it; `Silent` says that all that is behind the cursor can be
read; `Caused` follows the error from the position that fails to the status of
the query. `Passed` is what they share: what the query has found out about the
repository and the object it is at. One lemma (`IterIsSound`) looks at the ten
iterators, for the few facts about policies the argument needs; it is what
fails if, say, an error of opening an object were always returned.

`Account` says which rows were returned: those of the table that the position of
the loops is past, each once. The refinement needs it at `io.EOF`, when no row
may be missing. `FilesOnce` needs it too, and that the library is consistent
(`Fixed`): of the commits that have a tree, the first that can be read is the one
whose files are wanted (`SomeCommitStands`), and no other is (`NamesDiffer`).

Its last part is about the filters of tables, `Selectors`
(assumptions: the handled columns are columns; filters are lists of filters, each
with a literal at least), for any columns, values, spelling and filters:

* `FiltersLoseNoRow`: `FilterSpec => []NoRowLost`;
* `FiltersReturnMatches`: `FilterSpec => []OnlyMatchingRows`.

`SplitInTwo` says that each filter classified so far is among the selectors of
its column or among the conditions, and that nothing else is there. The loop that
sets the filters of other tables aside keeps the filters of the table, all of
them and no others (`HandledAreOwn`, from a least counterexample).

`ObjectIndexProofs` (assumptions: offsets and positions are machine integers,
packfiles hold objects, the states of the object store are states; at least one
bit beside the sign): for any object store, packfiles that share offsets and
objects, keys in any order, any selectors and a repack at any time,

* `RoundTrip`: reading a stored integer gives back the integer, for every width;
* `LookupAgrees`: `Spec => []LookupAgreesWithScan`;
* `KeysAreReadable`: `Spec => []KeysStayReadable`;
* `IndexIsWhole`: `Spec => []NoIndexWithoutItsRows`.

The second and the third rest on `Keys`: a stored key, once decoded, leads to the object and to the
position of the row it was stored for, and the object is there unless the
repository was repacked. `Listed` says why the key could be made: what was listed
is in the packfiles that `repositoryIndex` has opened, or loose, or was lacking from
the beginning. `Lacks` says that what was lacking is never found, not after a repack
either, so that its rows stay to be done. `KeptTree`, the
tree that `treeEntriesIndexIter` keeps is the one at the offset it keeps, is
where one packfile is needed: two keys with the same offset are then keys of the
same tree (`OneTreePerOffset`).

Only model-checked: liveness (`Terminates`, `CallsEnd`), since the proof system
does not do fairness. Every other property of a passing run is a theorem.

No module declares a RECURSIVE operator; `SharedRows` defines lengths and
capacities as recursive functions, and so do `RefCommitWalk` the parents that are
not seen yet, `Selectors` the filters of the table and `SquashRule` the rows of a
query. Every inductive invariant was checked by TLC on the instance of the
component's run before it was proved.

## Behaviour worth knowing

Met while modelling, beside the refuted statements above. The properties name
these cases, as exceptions or as causes, and show that there are no others; they
pass although the code does this.

* A commit named by a branch and by an annotated tag is returned twice by the
  scan of commits, since their hashes differ (`commits.go:253`;
  `docs/using-gitbase/schema.md:70` has commits "not duplicated by repository").
* `squashRefIter.New` tests `skipGitErrors` of the template it is called on
  (`squash_iterator.go:420`), which is never set: references that cannot be
  listed fail the query whatever `cmd/gitbase/command/server.go:46-49` promises.
* `squashCommitFilesIter` asks its parent again after any error
  (`squash_iterator.go:3149`), against the comment at `squash_iterator.go:30`.
* After a failed reconnection the session keeps the closed client, which cannot
  be closed again: all later calls fail though the server is back
  (`session.go:193`).
* Joins are squashed on the word of a single equality, `repository_id` is not
  asked for (`squashjoins.go:1062`): rows that pair different repositories are
  lost. `docs/using-gitbase/optimize-queries.md:259` says that all tables must be
  joined by `repository_id`.
* `ref_commits` followed by `tree_entries` without `commits` or `commit_trees` gives
  the entries of root trees only.
* An odd number of rewritings exchanges mode and blob of `uast_mode`, and evaluation
  fails on the mode; an even number puts them back.
* A goroutine that finds the list of languages partly filled takes it for the
  whole and answers NULL for a supported language; two that fill it together may
  leave languages out for the life of the client (`session.go:119`).
* The key of the UAST cache has no separators (`uast_utils.go:63`): a request
  without a language whose content begins with the name of one shares its entry.
* Rows of a squashed table whose columns need no reordering share an array when
  the last tables fit behind the row before (`commits`, `commit_trees`,
  `tree_entries` for one): a join or sort that keeps rows sees them overwritten.
* With errors skipped, plain tables still fail on a repository that disappears
  after it was listed, where squashed tables give no rows; `PartitionCount` skips
  nothing; errors of contents (`blobToRow`, `fileToRow`), of `References().Next`
  and of the listing of remotes are always returned.
* `filesRowIter.Close` panics after a failed `newCommitIter` (`files.go:201`,
  a nil pointer in an interface), `commitFilesRowIter` after an error of `Files`
  that is not skipped (`commit_files.go:269`).
* Repositories stay open when a selector turns them down, when `PartitionRows`
  fails, and when partitions are counted.
* A hash that occurs twice in `IN (...)` gives its rows twice; commits asked for
  by hash need not be reachable from a reference.
* `remotes` has `max(len(URLs), len(Fetch))` rows per remote, its squashed
  iterator `len(URLs)`; `commit_blobs` repeats blobs, its squashed iterator does
  not.
* `squashCommitsIndexIter.Advance` (`squash_iterator.go:1439`) skips every error
  of the index, `io.EOF` too: with errors skipped a query over it never ends.
  `squashCommitFilesIter` (`squash_iterator.go:3151`) does so with
  `ErrSessionCanceled`: a canceled query spins. `MaySpin` names both.
* `squashCommitBlobsIter` (`squash_iterator.go:2771`), `filesKeyValueIter`
  (`files.go:453`) and `commitFilesKeyValueIter` test the error of `files.Next`
  only for `io.EOF` and then use the nil file: an index on the files of a shallow
  or broken repository cannot be created, the attempt crashes.
* `treeEntriesIndexIter` keeps a tree that its selector rejected and returns the
  next entry of the same tree (`tree_entries.go:489`), so the rows of a lookup
  agree with a scan only without selectors on `tree_hash` (`CacheIsSafe`).
* `indexedCommitIter` returns a commit several times for one reference when it
  is reached on several paths (`RepeatedOnlyIfWaiting` says exactly when).
* `closeIndexOnError` closes an index at an error, and with errors skipped the
  next call reads the closed index (`squash_iterator.go:1435`). Without skipping
  the error is one of the failures of `squash_chain`; what a closed index yields is
  up to its driver and not modelled.
* A session closed before it had a client may still open a connection later.

## Not modelled

* go-git, gRPC, bblfsh and the query engine: external; their behaviour is what
  the code relies on, as stated in `GitRepo`, `BblfshSession` (`Connection`,
  `Server`) and `ObjectIndex` (`Repack`).
* Server start-up, options, printing, path helpers, the rev-upgrade tool: I/O.
* Commit statistics, blame, language detection, line counting: pure functions of
  texts computed by libraries. `uast_xpath`, `uast_extract`, `uast_children` and
  `uast_imports`: conversions of nodes, one call each.
* The indexes of `refs`, `ref_commits`, `remotes`, `repositories`,
  `commit_trees` and `commit_blobs`, which store whole rows: encoding only.
* Table checksums (`checksum.go`): a digest over sorted lists, recomputed each
  time; nothing is shared or kept.
* Torn slice headers beyond the panic they cause (`Torn` in `UastEval`), and
  collisions of the checksum that is the key of the UAST cache.
* The order in which the engine runs partitions: each partition has iterators of
  its own, and what they share is in `BblfshSession` and `UastEval`.

## Plan

Done: `GitRepo`, `CommitWalk`, `RefCommitWalk`, `SquashIters`/`SquashChain`,
`RowSource`, `Selectors`, `IndexKey`/`ObjectIndex`, `BblfshSession`,
`SquashRule`, `SharedRows`, `TableIters`/`TableScan`, `UastEval`, the compositions
`FilteredScan` and `SquashedQuery`; the proofs
of every safety property the runs check, and of both refinements.

Next theorems: what `GoesForward` says of `ref_commits`, for the other loops.

Next models: the indexes by row key mappers with `nextFromIndex` of `refs` and
`ref_commits` (which compares names in different cases), and the composition of
`SquashRule` with `SquashIters`, so that the chains checked are those the rule
builds.
