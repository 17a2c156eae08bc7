---------------------------- MODULE ObjectIndex ----------------------------
(***************************************************************************)
(* packfiles.go and the index iterators of commits.go, blobs.go, files.go, *)
(* commit_files.go and tree_entries.go, for one repository.                *)
(*                                                                         *)
(* CREATE INDEX scans the rows of a table and stores for each one a key    *)
(* that says where its object is.  A lookup yields some of the keys, in    *)
(* the order they were stored, and the index iterator of the table turns   *)
(* each of them into a row again, with an objectDecoder that keeps the     *)
(* last packfile open.  treeEntriesIndexIter also keeps the last tree.     *)
(*                                                                         *)
(* A row is a pair: the object and which row of the object it is (a tree   *)
(* entry's position, a file's name and tree).  Packfiles never change, but *)
(* another process may repack the repository at any moment.                *)
(***************************************************************************)
EXTENDS IndexKey, Sequences

CONSTANTS
  Object,    \* the objects of the table's type
  Count,     \* how many rows each object has
  Contents,  \* what is at the offsets of each packfile
  Stores,    \* the states the object store may be in
  None       \* Go's nil

ASSUME CountIsNatural == Count \in [Object -> Nat]
ASSUME NoneIsNoObject == {None, NoHash} \intersect (Object \union DOMAIN Contents) = {}
ASSUME ContentsAreObjects ==
  \A p \in DOMAIN Contents :
    /\ DOMAIN Contents[p] \subseteq (Int64 \ {0}) \intersect Nat
    /\ \A o \in DOMAIN Contents[p] : Contents[p][o] \in Object

ASSUME CountsAreIntegers == \A x \in Object : Count[x] \in Int64

Pack == DOMAIN Contents

InPack(p, x) == \E o \in DOMAIN Contents[p] : Contents[p][o] = x

StoreType == [packs : Seq(Pack), loose : SUBSET Object]

ASSUME StoresAreStores == Stores \subseteq StoreType

Present(s) == s.loose \union {x \in Object : \E i \in DOMAIN s.packs : InPack(s.packs[i], x)}

RowsOf(x) == {<<x, n>> : n \in 1..Count[x]}

Tables == {"commits", "blobs", "files", "commit_files", "squashed commit_files", "tree_entries"}

VARIABLES
  store,     \* the object store on disk
  repacked,  \* it was repacked: once, as a bound
  table,     \* the table
  hashes,    \* the selectors on the object's hash; none when empty
  names,     \* the selectors on what the key itself holds; none when empty
  status,    \* "new", "build", "lookup", "eof", "failed", "error" or "panic"
  todo,      \* rows that the key-value iterator has yet to visit
  opened,    \* the packfile indexes of repositoryIndex
  lacking,   \* objects that were listed and could not be read then
  index,     \* the keys stored, each with the row it was stored for
  pos,       \* keys yielded by the lookup so far
  decoder,   \* the packfile of d.decoder, or None
  prev,      \* prevTreeOffset
  tree,      \* the last tree
  due,       \* the rows a scan with the same selectors returns for these keys
  out        \* the rows returned

world == <<store, repacked>>

query == <<table, hashes, names>>

lookup == <<pos, decoder, prev, tree, due, out>>

vars == <<world, query, status, todo, opened, lacking, index, lookup>>

-----------------------------------------------------------------------------
(* The selectors each table has. *)
Init ==
  /\ store \in Stores
  /\ repacked = FALSE
  /\ table \in Tables
  /\ hashes \in SUBSET Object
  /\ table \in {"commit_files", "squashed commit_files"} => hashes = {}
  /\ names \in {{}, {1}}
  /\ table \notin {"files", "commit_files"} => names = {}
  /\ status = "new"
  /\ todo = {}
  /\ opened = <<>>
  /\ lacking = {}
  /\ index = <<>>
  /\ pos = 0
  /\ decoder = None
  /\ prev = 0
  /\ tree = None
  /\ due = <<>>
  /\ out = <<>>

(* A git gc by another process: the objects are stored elsewhere, and some
   are pruned. *)
Repack ==
  /\ ~repacked /\ status \in {"build", "lookup"}
  /\ store' \in {s \in Stores : s # store /\ Present(s) \subseteq Present(store)}
  /\ repacked' = TRUE
  /\ UNCHANGED <<query, status, todo, opened, lacking, index, lookup>>

(* newRepositoryIndex: the indexes of all packfiles are read; the objects are
   then listed.  All the trees and blobs of the object store are; of the
   commits and files, those in the history of the references, which may name
   objects that a shallow or broken repository does not have. *)
newRepositoryIndex ==
  /\ status = "new"
  /\ status' = "build"
  /\ opened' = store.packs
  /\ \E listed \in SUBSET Object :
       /\ table \in {"blobs", "tree_entries"} => listed = Present(store)
       /\ todo' = UNION {RowsOf(x) : x \in listed}
       /\ lacking' = {x \in listed \ Present(store) : Count[x] > 0}
  /\ UNCHANGED <<world, query, index, lookup>>

(* repositoryIndex.find: the offset of x in the first packfile that has it,
   -1 when it is unpacked, and errHashNotInIndex otherwise.  As a set, since
   x may be stored at several offsets. *)
FirstPack(x) ==
  CHOOSE i \in DOMAIN opened :
    InPack(opened[i], x) /\ \A j \in 1..(i - 1) : ~InPack(opened[j], x)

find(x) ==
  IF \E i \in DOMAIN opened : InPack(opened[i], x) THEN
    LET p == opened[FirstPack(x)]
    IN  {[pack |-> p, offset |-> o] : o \in {n \in DOMAIN Contents[p] : Contents[p][n] = x}}
  ELSE IF x \in store.loose THEN {[pack |-> NoHash, offset |-> -1]}
  ELSE {}

(* The key of the n-th row of x, with the hash only when there is no offset. *)
KeyOf(x, n, at) ==
  [pack |-> at.pack, offset |-> at.offset,
   hash |-> IF at.offset < 0 THEN x ELSE NoHash, pos |-> n]

(* What KeyValueIter.Next of each table stores. *)
commitsKeyValueIter(x, n, at) == encode(KeyOf(x, n, at))

blobsKeyValueIter(x, n, at) == encode(KeyOf(x, n, at))

filesKeyValueIter(x, n, at) == encode(KeyOf(x, n, at))

treeEntriesKeyValueIter(x, n, at) == encode(KeyOf(x, n, at))

commitFilesKeyValueIter(x, n, at) == encodeAll([KeyOf(x, n, at) EXCEPT !.hash = x])

Stored(x, n, at) ==
  CASE table = "commits" -> commitsKeyValueIter(x, n, at)
    [] table = "blobs" -> blobsKeyValueIter(x, n, at)
    [] table = "files" -> filesKeyValueIter(x, n, at)
    [] table = "tree_entries" -> treeEntriesKeyValueIter(x, n, at)
    [] OTHER -> commitFilesKeyValueIter(x, n, at)

(* A slip: an object that is not found is left out of the index. *)
SlipStoreKey ==
  /\ status = "build"
  /\ \E r \in todo :
       /\ todo' = todo \ {r}
       /\ \/ find(r[1]) = {} /\ UNCHANGED index
          \/ \E at \in find(r[1]) :
               index' = Append(index, [key |-> Stored(r[1], r[2], at), row |-> r])
  /\ UNCHANGED <<world, query, status, opened, lacking, lookup>>

(* KeyValueIter.Next: objects come in the order of the object store, which
   may be any, the rows of an object one after the other. *)
StoreKey ==
  /\ status = "build"
  /\ \E r \in todo :
       /\ \A q \in todo : q[1] = r[1] => r[2] <= q[2]
       /\ \A q \in todo : q[1] # r[1] => RowsOf(q[1]) \subseteq todo
       /\ todo' = todo \ {r}
       /\ \E at \in find(r[1]) :
            index' = Append(index, [key |-> Stored(r[1], r[2], at), row |-> r])
  /\ UNCHANGED <<world, query, status, opened, lacking, lookup>>

FileTables == {"files", "commit_files", "squashed commit_files"}

(* Next when an object cannot be read.  The error is returned for a commit, and
   for the commit or the tree of a file; for the file itself it is not looked at
   and the iterator goes on with a nil file. *)
ReadFails ==
  /\ status = "build"
  /\ \E r \in todo : r[1] \notin Present(store)
  /\ status' \in {"failed"} \union (IF table \in FileTables THEN {"panic"} ELSE {})
  /\ UNCHANGED <<world, query, todo, opened, lacking, index, lookup>>

(* Next when an object was read but is not found: errHashNotInIndex. *)
FindFails ==
  /\ status = "build"
  /\ \E r \in todo : r[1] \in Present(store) /\ find(r[1]) = {}
  /\ status' = "failed"
  /\ UNCHANGED <<world, query, todo, opened, lacking, index, lookup>>

StartLookup ==
  /\ status = "build" /\ todo = {}
  /\ status' = "lookup"
  /\ UNCHANGED <<world, query, todo, opened, lacking, index, lookup>>

-----------------------------------------------------------------------------
(* objectDecoder.decode: whether it finds an object, which one, and which
   packfile it leaves open. *)
CanDecode(k) ==
  IF k.offset >= 0 THEN k.pack = decoder \/ \E i \in DOMAIN store.packs : store.packs[i] = k.pack
  ELSE k.hash \in store.loose

(* A slip: the open decoder is used for any packfile. *)
SlipDecoded(k) ==
  IF k.offset < 0 THEN k.hash
  ELSE LET p == IF decoder = None \/ k.offset \notin DOMAIN Contents[decoder] THEN k.pack ELSE decoder
       IN  Contents[p][k.offset]

Decoded(k) == IF k.offset >= 0 THEN Contents[k.pack][k.offset] ELSE k.hash

DecoderAfter(k) ==
  IF k.offset < 0 THEN decoder ELSE IF CanDecode(k) THEN k.pack ELSE None

(* A row is returned. *)
Emit(x, n) == out' = Append(out, <<x, n>>) /\ UNCHANGED status

Selected(selector, v) == selector = {} \/ v \in selector

Fits(row) == Selected(hashes, row[1]) /\ Selected(names, row[2])

(* A key that the selectors reject. *)
PassOver == UNCHANGED <<status, out>>

(* The object of the key is decoded, and its row returned if it is selected. *)
DecodeRow(k) ==
  /\ decoder' = DecoderAfter(k)
  /\ \/ /\ ~CanDecode(k)
        /\ status' = "error"
        /\ UNCHANGED out
     \/ /\ CanDecode(k) /\ ~Selected(hashes, Decoded(k))
        /\ PassOver
     \/ /\ CanDecode(k) /\ Selected(hashes, Decoded(k))
        /\ Emit(Decoded(k), k.pos)

(* What Next of the iterator of each table does with a key. *)
commitsIndexIter(k) == DecodeRow(k)

blobsIndexIter(k) == DecodeRow(k)

(* The tree and the path are in the key, and looked at first. *)
filesIndexIter(k) ==
  IF Selected(names, k.pos) THEN DecodeRow(k) ELSE PassOver /\ UNCHANGED decoder

(* The whole row is in the key. *)
commitFilesRowIter(k) ==
  /\ IF Selected(names, k.pos) THEN Emit(k.hash, k.pos) ELSE PassOver
  /\ UNCHANGED decoder

(* NextCommitFile, for squashed tables. *)
commitFilesIndexIter(k) == DecodeRow(k)

(* treeEntriesIndexIter: the entry k.pos of tree x. *)
EmitEntry(x, k) ==
  /\ prev' = k.offset
  /\ IF k.pos <= Count[x] THEN Emit(x, k.pos) ELSE status' = "panic" /\ UNCHANGED out

(* The last tree is used again for the same offset or the same hash. *)
SameTree(k) == (prev = k.offset /\ k.offset >= 0) \/ (tree # None /\ tree = k.hash)

treeEntriesIndexIter(k) ==
  \/ /\ SameTree(k)
     /\ EmitEntry(tree, k)
     /\ UNCHANGED <<decoder, tree>>
  \/ /\ ~SameTree(k)
     /\ decoder' = DecoderAfter(k)
     /\ \/ /\ ~CanDecode(k)
           /\ status' = "error"
           /\ UNCHANGED <<out, prev, tree>>
        \/ /\ CanDecode(k)
           /\ tree' = Decoded(k)
           /\ IF Selected(hashes, Decoded(k)) THEN EmitEntry(Decoded(k), k)
              ELSE UNCHANGED <<status, out, prev>>

(* Next: the lookup yields one of the keys after the last one. *)
NextKey ==
  /\ status = "lookup"
  /\ \E j \in (pos + 1)..Len(index) :
       LET k == decode(index[j].key) IN
       /\ pos' = j
       /\ \/ table = "commits" /\ commitsIndexIter(k)
          \/ table = "blobs" /\ blobsIndexIter(k)
          \/ table = "files" /\ filesIndexIter(k)
          \/ table = "commit_files" /\ commitFilesRowIter(k)
          \/ table = "squashed commit_files" /\ commitFilesIndexIter(k)
          \/ table = "tree_entries" /\ treeEntriesIndexIter(k)
       /\ table # "tree_entries" => UNCHANGED <<prev, tree>>
       /\ due' = IF Fits(index[j].row) /\ status' # "error" THEN Append(due, index[j].row) ELSE due
  /\ UNCHANGED <<world, query, todo, opened, lacking, index>>

(* The lookup has no more keys. *)
EOF ==
  /\ status = "lookup"
  /\ status' = "eof"
  /\ UNCHANGED <<world, query, todo, opened, lacking, index, lookup>>

Next == newRepositoryIndex \/ StoreKey \/ ReadFails \/ FindFails \/ StartLookup \/ NextKey \/ EOF \/ Repack

Spec == Init /\ [][Next]_vars

-----------------------------------------------------------------------------
(* Where the tree that treeEntriesIndexIter keeps is the right one. *)
OnePackfile ==
  \A i, j \in DOMAIN index :
    index[i].key.packed /\ index[j].key.packed => index[i].key.pack = index[j].key.pack

CacheIsSafe == table # "tree_entries" \/ (hashes = {} /\ OnePackfile)

(* A lookup returns the rows that were indexed, and those that the selectors
   choose: what a scan with the same filters returns for these keys.  This
   holds whatever packfile is open and even after a repack. *)
LookupAgreesWithScan == CacheIsSafe => out = due

(* A lookup that has begun: pos counts its keys. *)
Used == status \in {"lookup", "eof", "error"} \/ pos > 0

(* An index that was built stays readable, whatever the repository lacks: a
   lookup fails only after a repack, and never crashes on a cached tree that is
   the right one.  The building fails or crashes only after a repack or when
   the repository lacks an object that its history names; it never crashes for
   the tables whose iterators return the errors they get. *)
KeysStayReadable ==
  /\ status = "error" => repacked
  /\ status = "panic" /\ Used => ~CacheIsSafe
  /\ status \in {"failed", "panic"} /\ ~Used =>
       /\ repacked \/ lacking # {}
       /\ status = "panic" => table \in FileTables

(* There is no index of a repository that lacks an object its history names:
   building it fails or crashes, and does not leave rows out, even when the
   repository is repacked meanwhile. *)
NoIndexWithoutItsRows == Used => lacking = {}

(* index_test.go, testTableIndex: "require.ElementsMatch(expected, rows)",
   the rows with an index against the rows without one; no selectors here. *)
IndexAgreesWithScan == hashes = {} => out = due

=============================================================================
