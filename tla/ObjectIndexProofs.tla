------------------------- MODULE ObjectIndexProofs -------------------------
(***************************************************************************)
(* An index, for every object store and every repack of it, whatever the   *)
(* packfiles hold and in whatever order the keys come.  The invariant says *)
(* of each key stored what the code relies on when it reads the key again: *)
(* it decodes to the place of the object whose row it was stored for, and  *)
(* the object is there unless the repository was repacked.                 *)
(***************************************************************************)
EXTENDS ObjectIndex, WellFoundedInduction, TLAPS

-----------------------------------------------------------------------------
(* The invariant. *)

Key == [pack : Pack \union {NoHash}, packed : BOOLEAN, offset : Int,
        hash : Object \union {NoHash}, pos : Int]

Row == Object \X Nat

Entry == [key : Key, row : Row]

Typed ==
  /\ store \in StoreType
  /\ table \in Tables
  /\ hashes \in SUBSET Object
  /\ status \in {"new", "build", "lookup", "eof", "failed", "error", "panic"}
  /\ opened \in Seq(Pack)
  /\ index \in Seq(Entry)
  /\ pos \in Nat
  /\ prev \in Int
  /\ tree \in Object \union {None}
  /\ prev # 0 => tree \in Object
  /\ out \in Seq(Row)
  /\ due \in Seq(Row)

(* The selectors that a table cannot have. *)
Selectable ==
  /\ table \in {"commit_files", "squashed commit_files"} => hashes = {}
  /\ table \notin {"files", "commit_files"} => names = {}

(* repositoryIndex knows the packfiles there are, and the objects listed are
   there but for those that are lacking, until the repository is repacked. *)
Listed ==
  /\ \A r \in todo : r[1] \in Object /\ r[2] \in 1..Count[r[1]] /\ r = <<r[1], r[2]>>
  /\ repacked # TRUE => \A r \in todo : r[1] \in Present(store) \/ r[1] \in lacking
  /\ status # "new" /\ repacked # TRUE => opened = store.packs

(* Key k leads to the row. *)
LeadsTo(k, row) ==
  /\ row[1] \in Object /\ row[2] \in 1..Count[row[1]] /\ row = <<row[1], row[2]>>
  /\ k.pos = row[2]
  /\ \/ /\ k.pack \in Pack
        /\ k.offset \in DOMAIN Contents[k.pack]
        /\ Contents[k.pack][k.offset] = row[1]
     \/ /\ k.offset = -1
        /\ k.hash = row[1]

(* The object of key k is where the key says. *)
Readable(k) ==
  IF k.offset >= 0 THEN \E i \in DOMAIN store.packs : store.packs[i] = k.pack
  ELSE k.hash \in store.loose

(* What the iterators of the tables take from the key itself: commit files
   the whole row, tree entries no hash when there is an offset. *)
Shaped(s, row) ==
  /\ table \in {"commit_files", "squashed commit_files"} => s.hash = row[1]
  /\ table = "tree_entries" /\ decode(s).offset >= 0 => s.packed = TRUE /\ s.hash = NoHash

Keys ==
  \A j \in DOMAIN index :
    /\ LeadsTo(decode(index[j].key), index[j].row)
    /\ repacked # TRUE => Readable(decode(index[j].key))
    /\ Shaped(index[j].key, index[j].row)

(* A lookup begins when the index is complete. *)
NotBegun ==
  status \in {"new", "build"} => out = <<>> /\ due = <<>> /\ prev = 0 /\ tree = None /\ pos = 0

(* The tree that treeEntriesIndexIter keeps is the one at the offset it keeps,
   in the packfile that the keys are about. *)
KeptTree ==
  table = "tree_entries" /\ CacheIsSafe /\ prev > 0 =>
    \E i \in DOMAIN index :
      decode(index[i].key).offset = prev /\ index[i].row[1] = tree

IInv ==
  /\ Typed /\ Selectable /\ Listed /\ Keys /\ NotBegun /\ KeptTree
  /\ LookupAgreesWithScan /\ KeysStayReadable

-----------------------------------------------------------------------------
(* Integers and places. *)

(* A set of naturals that is not empty has a least element. *)
LEMMA LeastElement ==
  ASSUME NEW T, T \subseteq Nat, T # {}
  PROVE  \E n \in T : \A m \in T : n <= m
<1> DEFINE R == OpToRel(<, Nat)
<1>1. IsWellFoundedOn(R, Nat)
  BY NatLessThanWellFounded
<1>2. PICK n \in T : \A m \in T : <<m, n>> \notin R
  <2> HIDE DEF R
  <2> QED
    BY <1>1, WFMin
<1>3. \A m \in T : ~(m < n)
  BY <1>2 DEF OpToRel
<1> QED
  BY <1>3

(* Remainders of the integers that writeInt64 meets. *)
LEMMA Remainder ==
  ASSUME NEW a \in Int, NEW b \in Nat \ {0}
  PROVE  /\ 0 <= a /\ a < b => a % b = a
         /\ -b <= a /\ a < 0 => a % b = a + b
OBVIOUS

(* readInt64 gives back what writeInt64 stored, for every machine integer:
   the sign is kept in the lowest bit. *)
THEOREM RoundTrip ==
  ASSUME NEW n \in Int64
  PROVE  writeInt64(n) \in Int /\ readInt64(writeInt64(n)) = n
<1>1. Half \in Nat \ {0} /\ n \in Int /\ -Half <= n /\ n < Half
  BY HalfIsPositive DEF Int64
<1>a. PICK a \in Int : a = 2 * n
  BY <1>1
<1>b. PICK b \in Nat \ {0} : b = 2 * Half
  BY <1>1
<1>2. CASE n >= 0
  <2>1. a % b = a
    BY <1>1, <1>2, <1>a, <1>b, Remainder
  <2>2. writeInt64(n) = a
    BY <1>1, <1>2, <1>a, <1>b, <2>1 DEF writeInt64
  <2>3. a \div 2 = n /\ a % 2 = 0
    BY <1>1, <1>2, <1>a
  <2> QED
    BY <1>a, <2>2, <2>3 DEF readInt64
<1>3. CASE n < 0
  <2>1. a % b = a + b
    <3>1. -b <= a /\ a < 0
      BY <1>1, <1>3, <1>a, <1>b
    <3> QED
      BY <3>1, Remainder
  <2>2. writeInt64(n) = -1 - a
    BY <1>1, <1>3, <1>a, <1>b, <2>1 DEF writeInt64, Complement
  <2>3. (-1 - a) \div 2 = -1 - n /\ (-1 - a) % 2 # 0
    BY <1>1, <1>3, <1>a
  <2> QED
    BY <1>1, <1>a, <2>2, <2>3 DEF readInt64, SignedComplement
<1> QED
  BY <1>1, <1>2, <1>3

(* The position of a row, the offset of an object and -1 are machine integers. *)
LEMMA MachineIntegers ==
  /\ -1 \in Int64
  /\ \A x \in Object : \A n \in 1..Count[x] : n \in Int64 /\ n \in Nat
  /\ \A p \in Pack : \A o \in DOMAIN Contents[p] : o \in Int64 /\ o \in Nat \ {0}
<1>1. -1 \in Int64
  BY HalfIsPositive DEF Int64
<1>2. ASSUME NEW x \in Object, NEW n \in 1..Count[x] PROVE n \in Int64 /\ n \in Nat
  <2>1. Count[x] \in Int64 /\ Count[x] \in Nat
    BY CountIsNatural, CountsAreIntegers
  <2> QED
    BY <2>1, HalfIsPositive DEF Int64
<1>3. ASSUME NEW p \in Pack, NEW o \in DOMAIN Contents[p] PROVE o \in Int64 /\ o \in Nat \ {0}
  BY ContentsAreObjects DEF Pack
<1> QED
  BY <1>1, <1>2, <1>3

(* The first packfile that has x is found when one has. *)
LEMMA FirstPackHasIt ==
  ASSUME opened \in Seq(Pack), NEW x, \E i \in DOMAIN opened : InPack(opened[i], x)
  PROVE  FirstPack(x) \in DOMAIN opened /\ InPack(opened[FirstPack(x)], x)
<1> DEFINE T == {i \in DOMAIN opened : InPack(opened[i], x)}
<1>1. DOMAIN opened = 1..Len(opened) /\ Len(opened) \in Nat
  OBVIOUS
<1>2. PICK i \in T : \A m \in T : i <= m
  <2>1. T \subseteq Nat /\ T # {}
    BY <1>1
  <2> HIDE DEF T
  <2> QED
    BY <2>1, LeastElement
<1>3. \A j \in 1..(i - 1) : ~InPack(opened[j], x)
  BY <1>1, <1>2
<1>4. i \in DOMAIN opened /\ InPack(opened[i], x)
  BY <1>2
<1> HIDE DEF T
<1> QED
  BY <1>3, <1>4 DEF FirstPack

(* repositoryIndex.find returns a place where x is: in a packfile that it has
   opened, or among the loose objects. *)
LEMMA FindFindsIt ==
  ASSUME opened \in Seq(Pack), NEW x, NEW at \in find(x)
  PROVE  \/ /\ at.pack \in Pack /\ at.offset \in DOMAIN Contents[at.pack]
            /\ Contents[at.pack][at.offset] = x
            /\ \E i \in DOMAIN opened : opened[i] = at.pack
         \/ at.pack = NoHash /\ at.offset = -1 /\ x \in store.loose
<1>1. CASE \E i \in DOMAIN opened : InPack(opened[i], x)
  <2>1. FirstPack(x) \in DOMAIN opened /\ InPack(opened[FirstPack(x)], x)
    BY <1>1, FirstPackHasIt
  <2>2. PICK p : p = opened[FirstPack(x)]
    OBVIOUS
  <2>3. p \in Pack
    BY <2>1, <2>2
  <2>4. at \in {[pack |-> p, offset |-> o] : o \in {n \in DOMAIN Contents[p] : Contents[p][n] = x}}
    BY <1>1, <2>2 DEF find
  <2>5. PICK o \in DOMAIN Contents[p] : Contents[p][o] = x /\ at = [pack |-> p, offset |-> o]
    BY <2>4
  <2>6. at.pack = p /\ at.offset = o
    BY <2>5
  <2> QED
    BY <2>1, <2>2, <2>3, <2>5, <2>6
<1>2. CASE ~ \E i \in DOMAIN opened : InPack(opened[i], x)
  BY <1>2 DEF find
<1> QED
  BY <1>1, <1>2

(* An object that is there is found while the packfiles opened are those of
   the repository. *)
LEMMA FindSucceeds ==
  ASSUME opened \in Seq(Pack), opened = store.packs, NEW x \in Present(store)
  PROVE  find(x) # {}
<1>1. CASE \E i \in DOMAIN opened : InPack(opened[i], x)
  <2>1. FirstPack(x) \in DOMAIN opened /\ InPack(opened[FirstPack(x)], x)
    BY <1>1, FirstPackHasIt
  <2>2. PICK p : p = opened[FirstPack(x)]
    OBVIOUS
  <2>3. PICK o \in DOMAIN Contents[p] : Contents[p][o] = x
    BY <2>1, <2>2 DEF InPack
  <2>4. [pack |-> p, offset |-> o] \in find(x)
    BY <1>1, <2>2, <2>3 DEF find
  <2> QED
    BY <2>4
<1>2. CASE ~ \E i \in DOMAIN opened : InPack(opened[i], x)
  <2>1. x \in store.loose
    BY <1>2 DEF Present
  <2> QED
    BY <1>2, <2>1 DEF find
<1> QED
  BY <1>1, <1>2

-----------------------------------------------------------------------------
(* Keys. *)

(* A key before it is stored. *)
Place == [pack : Pack \union {NoHash}, offset : Int64, hash : Object \union {NoHash}, pos : Int64]

(* A record of a packfile or none, a flag, an offset, a hash or none and a
   position is a stored key. *)
LEMMA KeyRecord ==
  ASSUME NEW p \in Pack \union {NoHash}, NEW b \in BOOLEAN, NEW o \in Int,
         NEW h \in Object \union {NoHash}, NEW n \in Int
  PROVE  [pack |-> p, packed |-> b, offset |-> o, hash |-> h, pos |-> n] \in Key
BY Zenon DEF Key

(* What is read from a key is what was stored, whether in the form of the
   commits, blobs, files and tree entries or in that of the commit files. *)
LEMMA KeysAreKept ==
  ASSUME NEW k \in Place, k.offset >= 0 \/ k.offset = -1
  PROVE  /\ encodeAll(k) \in Key
         /\ decode(encodeAll(k)) = k
         /\ encode(k) \in Key
         /\ decode(encode(k)).pack = k.pack
         /\ decode(encode(k)).offset = k.offset
         /\ decode(encode(k)).pos = k.pos
         /\ k.offset = -1 => decode(encode(k)).hash = k.hash
         /\ k.offset >= 0 => encode(k).packed = TRUE /\ encode(k).hash = NoHash
<1>p. PICK p \in Pack \union {NoHash} : k.pack = p
  BY DEF Place
<1>o. PICK o \in Int64 : k.offset = o
  BY DEF Place
<1>h. PICK h \in Object \union {NoHash} : k.hash = h
  BY DEF Place
<1>n. PICK n \in Int64 : k.pos = n
  BY DEF Place
<1>k. k = [pack |-> p, offset |-> o, hash |-> h, pos |-> n]
  BY <1>p, <1>o, <1>h, <1>n DEF Place
<1>t. TRUE \in BOOLEAN /\ FALSE \in BOOLEAN /\ NoHash \in Object \union {NoHash} /\ 0 \in Int
  OBVIOUS
<1>1. PICK wo \in Int : wo = writeInt64(o) /\ readInt64(wo) = o
  BY RoundTrip
<1>2. PICK wn \in Int : wn = writeInt64(n) /\ readInt64(wn) = n
  BY RoundTrip
<1>3. k.pack = p /\ k.offset = o /\ k.hash = h /\ k.pos = n
  BY <1>p, <1>o, <1>h, <1>n
<1>4. encodeAll(k) = [pack |-> p, packed |-> TRUE, offset |-> wo, hash |-> h, pos |-> wn]
  BY <1>1, <1>2, <1>3 DEF encodeAll
<1>5. encodeAll(k) \in Key
  BY <1>4, <1>t, KeyRecord, Zenon
<1>6. decode(encodeAll(k)) = k
  BY <1>1, <1>2, <1>4, <1>k DEF decode
<1>7. o \in Int
  BY HalfIsPositive DEF Int64
<1>8. CASE o >= 0
  <2>1. encode(k) = [pack |-> p, packed |-> TRUE, offset |-> wo, hash |-> NoHash, pos |-> wn]
    BY <1>1, <1>2, <1>3, <1>8 DEF encode
  <2>2. encode(k) \in Key
    BY <1>t, <2>1, KeyRecord, Zenon
  <2>5. encode(k).packed = TRUE /\ encode(k).hash = NoHash
    BY <2>1
  <2>3. decode(encode(k)) = [pack |-> p, offset |-> o, hash |-> NoHash, pos |-> n]
    BY <1>1, <1>2, <2>1 DEF decode
  <2>4. o # -1
    BY <1>7, <1>8
  <2> QED
    BY <1>3, <1>5, <1>6, <2>2, <2>3, <2>4, <2>5
<1>9. CASE o = -1
  <2>0. ~(o >= 0)
    BY <1>9
  <2>4. (o >= 0) = FALSE
    BY <2>0
  <2>1. encode(k) = [pack |-> p, packed |-> FALSE, offset |-> 0, hash |-> h, pos |-> wn]
    BY <1>2, <1>3, <2>0, <2>4, Zenon DEF encode
  <2>2. encode(k) \in Key
    BY <1>t, <2>1, KeyRecord, Zenon
  <2>3. decode(encode(k)) = [pack |-> p, offset |-> -1, hash |-> h, pos |-> n]
    BY <1>2, <2>1 DEF decode
  <2> QED
    BY <1>3, <1>5, <1>6, <1>9, <2>0, <2>2, <2>3
<1> QED
  BY <1>3, <1>8, <1>9

(* The key that KeyValueIter.Next of each table stores leads to its row. *)
LEMMA StoredKey ==
  ASSUME Typed, NEW x \in Object, NEW n \in 1..Count[x], NEW at \in find(x)
  PROVE  /\ Stored(x, n, at) \in Key
         /\ LeadsTo(decode(Stored(x, n, at)), <<x, n>>)
         /\ opened = store.packs => Readable(decode(Stored(x, n, at)))
         /\ Shaped(Stored(x, n, at), <<x, n>>)
<1>1. \/ /\ at.pack \in Pack /\ at.offset \in DOMAIN Contents[at.pack]
         /\ Contents[at.pack][at.offset] = x
         /\ \E i \in DOMAIN opened : opened[i] = at.pack
      \/ at.pack = NoHash /\ at.offset = -1 /\ x \in store.loose
  BY FindFindsIt DEF Typed
<1>2. /\ at.pack \in Pack \union {NoHash} /\ at.offset \in Int64
      /\ at.offset \in Nat \/ at.offset = -1
  BY <1>1, MachineIntegers
<1>3. n \in Int64 /\ n \in Nat
  BY MachineIntegers
<1>a. PICK p \in Pack \union {NoHash} : p = at.pack
  BY <1>2
<1>b. PICK o \in Int64 : o = at.offset /\ (o \in Nat \/ o = -1)
  BY <1>2
<1>c. PICK h \in Object \union {NoHash} : h = IF o < 0 THEN x ELSE NoHash
  OBVIOUS
<1>d. (o >= 0 \/ o = -1) /\ (o = -1 => h = x) /\ o \in Int
  BY <1>b, <1>c
<1>4. KeyOf(x, n, at) = [pack |-> p, offset |-> o, hash |-> h, pos |-> n]
  BY <1>a, <1>b, <1>c DEF KeyOf
<1>5. [KeyOf(x, n, at) EXCEPT !.hash = x] = [pack |-> p, offset |-> o, hash |-> x, pos |-> n]
  BY <1>4
<1>6. PICK s : s = Stored(x, n, at)
  OBVIOUS
<1>r. <<x, n>>[1] = x /\ <<x, n>>[2] = n
  OBVIOUS
<1>7. ASSUME NEW k, k = decode(s), k.pack = p, k.offset = o, k.pos = n, o = -1 => k.hash = x
      PROVE  LeadsTo(k, <<x, n>>) /\ (opened = store.packs => Readable(k))
  <2>1. LeadsTo(k, <<x, n>>)
    BY <1>1, <1>3, <1>7, <1>a, <1>b, <1>r DEF LeadsTo
  <2>2. ASSUME opened = store.packs PROVE Readable(k)
    <3>1. CASE o >= 0
      <4>1. \E i \in DOMAIN opened : opened[i] = at.pack
        BY <1>1, <1>b, <1>d, <3>1
      <4> QED
        BY <1>7, <1>a, <2>2, <3>1, <4>1 DEF Readable
    <3>2. CASE o = -1
      <4>1. x \in store.loose
        BY <1>1, <1>b, <3>2, MachineIntegers
      <4> QED
        BY <1>7, <3>2, <4>1 DEF Readable
    <3> QED
      BY <1>d, <3>1, <3>2
  <2> QED
    BY <2>1, <2>2
<1>8. CASE table \in {"commit_files", "squashed commit_files"}
  <2>k. PICK k : k = [pack |-> p, offset |-> o, hash |-> x, pos |-> n]
    OBVIOUS
  <2>1. s = encodeAll(k)
    BY <2>k, <1>5, <1>6, <1>8 DEF Stored, commitFilesKeyValueIter
  <2>a. k \in Place /\ (k.offset >= 0 \/ k.offset = -1)
    BY <1>3, <1>d, <2>k DEF Place
  <2>2. s \in Key /\ decode(s) = [pack |-> p, offset |-> o, hash |-> x, pos |-> n]
    BY <2>1, <2>a, <2>k, KeysAreKept
  <2>3. s.hash = x
    BY <2>2 DEF decode
  <2>4. Shaped(s, <<x, n>>)
    BY <1>8, <1>r, <2>3 DEF Shaped
  <2> QED
    BY <1>6, <1>7, <2>2, <2>4
<1>9. CASE table \in Tables \ {"commit_files", "squashed commit_files"}
  <2>k. PICK k : k = [pack |-> p, offset |-> o, hash |-> h, pos |-> n]
    OBVIOUS
  <2>1. s = encode(k)
    BY <2>k, <1>4, <1>6, <1>9
    DEF Stored, Tables, commitsKeyValueIter, blobsKeyValueIter, filesKeyValueIter,
        treeEntriesKeyValueIter
  <2>a. k \in Place /\ (k.offset >= 0 \/ k.offset = -1)
    BY <1>3, <1>d, <2>k DEF Place
  <2>b. k.pack = p /\ k.offset = o /\ k.hash = h /\ k.pos = n
    BY <2>k
  <2>2. /\ s \in Key
        /\ decode(s).pack = p /\ decode(s).offset = o /\ decode(s).pos = n
        /\ o = -1 => decode(s).hash = h
        /\ o >= 0 => s.packed = TRUE /\ s.hash = NoHash
    BY <2>1, <2>a, <2>b, KeysAreKept
  <2>3. Shaped(s, <<x, n>>)
    BY <1>9, <2>2 DEF Shaped
  <2> QED
    BY <1>6, <1>7, <1>d, <2>2, <2>3
<1> QED
  BY <1>8, <1>9 DEF Typed

-----------------------------------------------------------------------------
(* Steps. *)

(* The index is empty at first. *)
LEMMA InitIInv == Init => IInv
<1> SUFFICES ASSUME Init PROVE IInv
  OBVIOUS
<1>0. /\ store \in Stores /\ table \in Tables /\ hashes \in SUBSET Object /\ status = "new"
      /\ opened = <<>> /\ index = <<>> /\ pos = 0 /\ prev = 0 /\ tree = None /\ out = <<>> /\ due = <<>>
      /\ todo = {}
  BY DEF Init
<1>1. Typed
  BY <1>0, StoresAreStores DEF Typed
<1>2. Selectable
  BY DEF Init, Selectable
<1>4. Listed /\ Keys
  BY <1>0 DEF Listed, Keys
<1>5. NotBegun /\ LookupAgreesWithScan /\ KeysStayReadable
  BY <1>0 DEF NotBegun, LookupAgreesWithScan, KeysStayReadable, Used
<1>3. KeptTree
  BY <1>0 DEF KeptTree
<1> QED
  BY <1>1, <1>2, <1>3, <1>4, <1>5 DEF IInv

(* The keys stay what they are while the index does, and readable until a
   repack. *)
LEMMA KeysStand ==
  ASSUME Keys, index' = index, table' = table,
         repacked' = TRUE \/ (repacked' = repacked /\ store' = store)
  PROVE  Keys'
<1> SUFFICES ASSUME NEW j \in DOMAIN index
             PROVE  /\ LeadsTo(decode(index[j].key), index[j].row)
                    /\ repacked' # TRUE => Readable(decode(index[j].key))'
                    /\ Shaped(index[j].key, index[j].row)'
  BY DEF Keys
<1>1. /\ LeadsTo(decode(index[j].key), index[j].row)
      /\ repacked # TRUE => Readable(decode(index[j].key))
      /\ Shaped(index[j].key, index[j].row)
  BY DEF Keys
<1>2. Shaped(index[j].key, index[j].row)'
  BY <1>1 DEF Shaped
<1>3. repacked' # TRUE => Readable(decode(index[j].key))'
  BY <1>1 DEF Readable
<1> QED
  BY <1>1, <1>2, <1>3

(* Steps that leave the index and the lookup alone, and do not begin one. *)
LEMMA LookupStands ==
  ASSUME IInv, index' = index, table' = table, hashes' = hashes, UNCHANGED lookup,
         status' \in {"new", "build"} => status \in {"new", "build"}
  PROVE  NotBegun' /\ KeptTree' /\ LookupAgreesWithScan'
<1>1. CacheIsSafe' = CacheIsSafe
  BY DEF CacheIsSafe, OnePackfile
<1>2. NotBegun'
  BY DEF IInv, NotBegun, lookup
<1>3. KeptTree'
  BY <1>1 DEF IInv, KeptTree, lookup
<1>4. LookupAgreesWithScan'
  BY <1>1 DEF IInv, LookupAgreesWithScan, lookup
<1> QED
  BY <1>2, <1>3, <1>4

(* What Next of an index iterator knows of the key that the lookup yields. *)
LEMMA KeyAtHand ==
  ASSUME IInv, NEW j \in DOMAIN index, NEW k, k = decode(index[j].key), NEW row, row = index[j].row
  PROVE  /\ row[1] \in Object /\ row[2] \in 1..Count[row[1]] /\ row = <<row[1], row[2]>> /\ row \in Row
         /\ k.pos = row[2] /\ k.pos \in Nat
         /\ k.offset = -1 \/ k.offset \in Nat \ {0}
         /\ Decoded(k) = row[1]
         /\ repacked = TRUE \/ CanDecode(k)
<1>1. LeadsTo(k, row) /\ (repacked # TRUE => Readable(k))
  BY DEF IInv, Keys
<1>2. row[1] \in Object /\ row[2] \in 1..Count[row[1]] /\ row = <<row[1], row[2]>> /\ k.pos = row[2]
  BY <1>1 DEF LeadsTo
<1>3. row[2] \in Nat
  BY <1>2, MachineIntegers
<1>4. row \in Row
  BY <1>2, <1>3 DEF Row
<1>5. \/ k.offset \in Nat \ {0} /\ Contents[k.pack][k.offset] = row[1]
      \/ k.offset = -1 /\ k.hash = row[1]
  BY <1>1, MachineIntegers DEF LeadsTo
<1>6. Decoded(k) = row[1]
  BY <1>5 DEF Decoded
<1>7. repacked = TRUE \/ CanDecode(k)
  BY <1>1 DEF Readable, CanDecode
<1> QED
  BY <1>2, <1>3, <1>4, <1>5, <1>6, <1>7

(* What a scan with the same selectors returns for the row, and no failure
   without a repack. *)
Agrees(row) ==
  /\ status' \in {"lookup", "error"}
  /\ status' = "error" => repacked = TRUE
  /\ out' = IF Fits(row) /\ status' # "error" THEN Append(out, row) ELSE out

(* objectDecoder gives the object of the row, whatever packfile is open. *)
LEMMA DecodeRowAgrees ==
  ASSUME IInv, status = "lookup",
         NEW j \in DOMAIN index, NEW k, k = decode(index[j].key), NEW row, row = index[j].row,
         Selected(names, row[2]), DecodeRow(k)
  PROVE  Agrees(row)
<1>1. /\ row = <<row[1], row[2]>> /\ k.pos = row[2] /\ Decoded(k) = row[1]
      /\ repacked = TRUE \/ CanDecode(k)
  BY KeyAtHand
<1>2. Fits(row) <=> Selected(hashes, row[1])
  BY DEF Fits
<1>3. CASE ~CanDecode(k) /\ status' = "error" /\ out' = out
  BY <1>1, <1>3 DEF Agrees
<1>4. CASE ~Selected(hashes, Decoded(k)) /\ PassOver
  BY <1>1, <1>2, <1>4 DEF Agrees, PassOver
<1>5. CASE Selected(hashes, Decoded(k)) /\ Emit(Decoded(k), k.pos)
  BY <1>1, <1>2, <1>5 DEF Agrees, Emit
<1> QED
  BY <1>3, <1>4, <1>5 DEF DecodeRow

(* The iterators of all tables but tree_entries. *)
LEMMA RowIterAgrees ==
  ASSUME IInv, status = "lookup", table # "tree_entries",
         NEW j \in DOMAIN index, NEW k, k = decode(index[j].key), NEW row, row = index[j].row,
         \/ table = "commits" /\ commitsIndexIter(k)
         \/ table = "blobs" /\ blobsIndexIter(k)
         \/ table = "files" /\ filesIndexIter(k)
         \/ table = "commit_files" /\ commitFilesRowIter(k)
         \/ table = "squashed commit_files" /\ commitFilesIndexIter(k)
         \/ table = "tree_entries" /\ treeEntriesIndexIter(k)
  PROVE  Agrees(row)
<1>1. /\ row = <<row[1], row[2]>> /\ k.pos = row[2]
      /\ repacked = TRUE \/ CanDecode(k)
  BY KeyAtHand
<1>2. CASE table \in {"commits", "blobs", "squashed commit_files"}
  <2>1. Selected(names, row[2])
    BY <1>2 DEF IInv, Selectable, Selected
  <2>2. DecodeRow(k)
    BY <1>2 DEF commitsIndexIter, blobsIndexIter, commitFilesIndexIter
  <2> QED
    BY <2>1, <2>2, DecodeRowAgrees
<1>3. CASE table = "files"
  <2>1. CASE Selected(names, row[2])
    <3>1. DecodeRow(k)
      BY <1>1, <1>3, <2>1 DEF filesIndexIter
    <3> QED
      BY <2>1, <3>1, DecodeRowAgrees
  <2>2. CASE ~Selected(names, row[2])
    <3>1. PassOver /\ ~Fits(row)
      BY <1>1, <1>3, <2>2 DEF filesIndexIter, Fits
    <3> QED
      BY <3>1 DEF PassOver, Agrees
  <2> QED
    BY <2>1, <2>2
<1>4. CASE table = "commit_files"
  <2>1. Fits(row) <=> Selected(names, row[2])
    BY <1>4 DEF IInv, Selectable, Fits, Selected
  <2>2. k.hash = row[1]
    BY <1>4 DEF IInv, Keys, Shaped, decode
  <2>3. CASE Selected(names, row[2])
    <3>1. Emit(k.hash, k.pos)
      BY <1>1, <1>4, <2>3 DEF commitFilesRowIter
    <3> QED
      BY <1>1, <2>1, <2>2, <2>3, <3>1 DEF Emit, Agrees
  <2>4. CASE ~Selected(names, row[2])
    <3>1. PassOver
      BY <1>1, <1>4, <2>4 DEF commitFilesRowIter
    <3> QED
      BY <2>1, <2>4, <3>1 DEF PassOver, Agrees
  <2> QED
    BY <2>3, <2>4
<1> QED
  BY <1>2, <1>3, <1>4

(* Two keys with the same offset are of the same tree when the keys of packed
   trees are all about one packfile. *)
LEMMA OneTreePerOffset ==
  ASSUME IInv, CacheIsSafe, table = "tree_entries", NEW i \in DOMAIN index, NEW j \in DOMAIN index,
         decode(index[i].key).offset >= 0,
         decode(index[i].key).offset = decode(index[j].key).offset
  PROVE  index[i].row[1] = index[j].row[1]
<1>1. OnePackfile
  BY DEF CacheIsSafe
<1>2. index[i].key.packed = TRUE /\ index[j].key.packed = TRUE
  BY DEF IInv, Keys, Shaped
<1>3. index[i].key.pack = index[j].key.pack
  BY <1>1, <1>2 DEF OnePackfile
<1>4. decode(index[i].key).pack = decode(index[j].key).pack
  BY <1>3 DEF decode
<1>5. LeadsTo(decode(index[i].key), index[i].row) /\ LeadsTo(decode(index[j].key), index[j].row)
  BY DEF IInv, Keys
<1> QED
  BY <1>4, <1>5 DEF LeadsTo

(* treeEntriesIndexIter in general: the tree it emits an entry of is a tree. *)
LEMMA TreeIterTyped ==
  ASSUME IInv, status = "lookup", table = "tree_entries",
         NEW j \in DOMAIN index, NEW k, k = decode(index[j].key), NEW row, row = index[j].row,
         treeEntriesIndexIter(k)
  PROVE  /\ status' \in {"lookup", "error", "panic"}
         /\ status' = "error" => repacked = TRUE
         /\ prev' \in Int /\ tree' \in Object \union {None} /\ (prev' # 0 => tree' \in Object)
         /\ out' \in Seq(Row)
<1>1. /\ row[1] \in Object /\ row \in Row /\ k.pos = row[2] /\ k.pos \in Nat
      /\ k.offset = -1 \/ k.offset \in Nat \ {0}
      /\ Decoded(k) = row[1]
      /\ repacked = TRUE \/ CanDecode(k)
  BY KeyAtHand
<1>2. /\ out \in Seq(Row) /\ prev \in Int /\ tree \in Object \union {None}
      /\ prev # 0 => tree \in Object
  BY DEF IInv, Typed
<1>3. ASSUME NEW x \in Object, EmitEntry(x, k)
      PROVE  status' \in {"lookup", "panic"} /\ prev' \in Int /\ out' \in Seq(Row)
  <2>1. prev' \in Int
    BY <1>1, <1>3 DEF EmitEntry
  <2>2. CASE status' = "panic" /\ out' = out
    BY <1>2, <2>1, <2>2
  <2>3. CASE Emit(x, k.pos)
    <3>1. <<x, k.pos>> \in Row
      BY <1>1 DEF Row
    <3> QED
      BY <1>2, <2>1, <2>3, <3>1 DEF Emit
  <2> QED
    BY <1>3, <2>2, <2>3 DEF EmitEntry
<1>4. CASE SameTree(k) /\ EmitEntry(tree, k) /\ tree' = tree
  <2>1. tree \in Object
    BY <1>1, <1>2, <1>4 DEF SameTree
  <2> QED
    BY <1>3, <1>4, <2>1
<1>5. CASE ~CanDecode(k) /\ status' = "error" /\ UNCHANGED <<out, prev, tree>>
  BY <1>1, <1>2, <1>5
<1>6. CASE tree' = Decoded(k) /\ EmitEntry(Decoded(k), k)
  BY <1>1, <1>3, <1>6
<1>7. CASE tree' = Decoded(k) /\ UNCHANGED <<status, out, prev>>
  BY <1>1, <1>2, <1>7
<1> QED
  BY <1>4, <1>5, <1>6, <1>7 DEF treeEntriesIndexIter

(* treeEntriesIndexIter where its cache is safe: the tree it has is the one
   that the key leads to. *)
LEMMA TreeIterAgrees ==
  ASSUME IInv, CacheIsSafe, status = "lookup", table = "tree_entries",
         NEW j \in DOMAIN index, NEW k, k = decode(index[j].key), NEW row, row = index[j].row,
         treeEntriesIndexIter(k)
  PROVE  /\ Agrees(row)
         /\ prev' > 0 => \E i \in DOMAIN index :
                           decode(index[i].key).offset = prev' /\ index[i].row[1] = tree'
<1>1. /\ row[1] \in Object /\ row[2] \in 1..Count[row[1]] /\ row = <<row[1], row[2]>>
      /\ k.pos = row[2] /\ k.pos \in Nat
      /\ k.offset = -1 \/ k.offset \in Nat \ {0}
      /\ Decoded(k) = row[1]
      /\ repacked = TRUE \/ CanDecode(k)
  BY KeyAtHand
<1>2. Fits(row) /\ Selected(hashes, Decoded(k))
  BY DEF IInv, Selectable, CacheIsSafe, Fits, Selected
<1>3. k.pos <= Count[row[1]]
  BY <1>1, CountIsNatural
<1>4. ASSUME EmitEntry(row[1], k), tree' = row[1]
      PROVE  /\ Agrees(row)
             /\ prev' > 0 => \E i \in DOMAIN index :
                               decode(index[i].key).offset = prev' /\ index[i].row[1] = tree'
  <2>1. Emit(row[1], k.pos) /\ prev' = k.offset
    BY <1>3, <1>4 DEF EmitEntry
  <2>2. Agrees(row)
    BY <1>1, <1>2, <2>1 DEF Emit, Agrees
  <2> QED
    BY <1>4, <2>1, <2>2
<1>5. CASE SameTree(k) /\ EmitEntry(tree, k) /\ tree' = tree
  <2>1. CASE prev = k.offset /\ k.offset >= 0
    <3>1. prev > 0
      BY <1>1, <2>1
    <3>2. PICK i \in DOMAIN index : decode(index[i].key).offset = prev /\ index[i].row[1] = tree
      BY <3>1 DEF IInv, KeptTree
    <3>3. decode(index[i].key).offset >= 0 /\ decode(index[i].key).offset = decode(index[j].key).offset
      BY <2>1, <3>2
    <3>4. tree = row[1]
      BY <3>2, <3>3, OneTreePerOffset
    <3> QED
      BY <1>4, <1>5, <3>4
  <2>2. CASE tree # None /\ tree = k.hash
    <3>1. tree \in Object
      BY <2>2 DEF IInv, Typed
    <3>2. k.offset = -1
      <4>1. k.offset >= 0 => k.hash = NoHash
        BY DEF IInv, Keys, Shaped, decode
      <4>2. NoHash \notin Object
        BY NoneIsNoObject
      <4> QED
        BY <1>1, <2>2, <3>1, <4>1, <4>2
    <3>3. tree = row[1]
      BY <1>1, <2>2, <3>2 DEF Decoded
    <3> QED
      BY <1>4, <1>5, <3>3
  <2> QED
    BY <1>5, <2>1, <2>2 DEF SameTree
<1>6. CASE ~CanDecode(k) /\ status' = "error" /\ UNCHANGED <<out, prev, tree>>
  <2>1. Agrees(row)
    BY <1>1, <1>6 DEF Agrees
  <2>2. prev > 0 => \E i \in DOMAIN index :
                      decode(index[i].key).offset = prev /\ index[i].row[1] = tree
    BY DEF IInv, KeptTree
  <2> QED
    BY <1>6, <2>1, <2>2
<1>7. CASE tree' = Decoded(k) /\ EmitEntry(Decoded(k), k)
  BY <1>1, <1>4, <1>7
<1> QED
  BY <1>2, <1>5, <1>6, <1>7 DEF treeEntriesIndexIter

(* A key is stored: it leads to its row, as the others do. *)
LEMMA StoreKeyStep ==
  ASSUME IInv, StoreKey
  PROVE  IInv'
<1>r. PICK r \in todo :
         /\ todo' = todo \ {r}
         /\ \E at \in find(r[1]) :
              index' = Append(index, [key |-> Stored(r[1], r[2], at), row |-> r])
  BY DEF StoreKey
<1>1. PICK at \in find(r[1]) :
         index' = Append(index, [key |-> Stored(r[1], r[2], at), row |-> r])
  BY <1>r
<1>2. /\ r[1] \in Object /\ r[2] \in 1..Count[r[1]] /\ r = <<r[1], r[2]>>
      /\ repacked # TRUE => opened = store.packs
  BY DEF IInv, Listed, StoreKey
<1>3. PICK s : s = Stored(r[1], r[2], at)
  OBVIOUS
<1>4. /\ s \in Key /\ LeadsTo(decode(s), r) /\ Shaped(s, r)
      /\ repacked # TRUE => Readable(decode(s))
  BY <1>2, <1>3, StoredKey DEF IInv
<1>5. r \in Row
  BY <1>2, MachineIntegers DEF Row
<1>6. PICK e : e = [key |-> s, row |-> r]
  OBVIOUS
<1>7. e \in Entry /\ e.key = s /\ e.row = r
  BY <1>4, <1>5, <1>6 DEF Entry
<1>8. index \in Seq(Entry) /\ index' = Append(index, e)
  BY <1>1, <1>3, <1>6 DEF IInv, Typed
<1>9. /\ index' \in Seq(Entry) /\ Len(index) \in Nat
      /\ DOMAIN index = 1..Len(index) /\ DOMAIN index' = 1..(Len(index) + 1)
      /\ \A j \in 1..Len(index) : index'[j] = index[j]
      /\ index'[Len(index) + 1] = e
  BY <1>7, <1>8
<1>u. UNCHANGED <<world, query, status, opened, lacking, lookup>>
  BY DEF StoreKey
<1>10. Typed'
  BY <1>9, <1>u DEF IInv, Typed, world, query, lookup
<1>11. Selectable' /\ Listed'
  <2>1. Selectable'
    BY <1>u DEF IInv, Selectable, query
  <2>2. todo' \subseteq todo
    BY <1>r
  <2>3. Listed'
    BY <1>u, <2>2 DEF IInv, Listed, world, query
  <2> QED
    BY <2>1, <2>3
<1>12. Keys'
  <2> SUFFICES ASSUME NEW j \in DOMAIN index'
               PROVE  /\ LeadsTo(decode(index'[j].key), index'[j].row)
                      /\ repacked # TRUE => Readable(decode(index'[j].key))
                      /\ Shaped(index'[j].key, index'[j].row)
    BY <1>u DEF Keys, Readable, Shaped, world, query
  <2>1. CASE j \in DOMAIN index
    BY <1>9, <2>1 DEF IInv, Keys
  <2>2. CASE j \notin DOMAIN index
    <3>1. j = Len(index) + 1
      BY <1>9, <2>2
    <3>2. index'[j].key = s /\ index'[j].row = r
      BY <1>7, <1>9, <3>1
    <3> QED
      BY <1>4, <3>2
  <2> QED
    BY <2>1, <2>2
<1>13. status = "build" /\ status' = "build"
  BY <1>u DEF StoreKey
<1>14. out' = <<>> /\ due' = <<>> /\ prev' = 0 /\ tree' = None /\ pos' = 0
  BY <1>13, <1>u DEF IInv, NotBegun, lookup
<1>15. NotBegun' /\ LookupAgreesWithScan' /\ KeysStayReadable'
  BY <1>13, <1>14 DEF NotBegun, LookupAgreesWithScan, KeysStayReadable
<1>16. KeptTree'
  <2>1. ~(prev' > 0)
    BY <1>14
  <2> QED
    BY <2>1 DEF KeptTree
<1> QED
  BY <1>10, <1>11, <1>12, <1>15, <1>16 DEF IInv

(* The lookup yields a key: its row is returned if a scan returns it. *)
LEMMA NextKeyStep ==
  ASSUME IInv, NextKey
  PROVE  IInv'
<1>1. PICK j \in (pos + 1)..Len(index) :
         LET k == decode(index[j].key) IN
         /\ pos' = j
         /\ \/ table = "commits" /\ commitsIndexIter(k)
            \/ table = "blobs" /\ blobsIndexIter(k)
            \/ table = "files" /\ filesIndexIter(k)
            \/ table = "commit_files" /\ commitFilesRowIter(k)
            \/ table = "squashed commit_files" /\ commitFilesIndexIter(k)
            \/ table = "tree_entries" /\ treeEntriesIndexIter(k)
         /\ table # "tree_entries" => UNCHANGED <<prev, tree>>
         /\ due' = IF Fits(index[j].row) /\ status' # "error" THEN Append(due, index[j].row) ELSE due
  BY DEF NextKey
<1>2. PICK k : k = decode(index[j].key)
  OBVIOUS
<1>3. PICK row : row = index[j].row
  OBVIOUS
<1>4. /\ pos \in Nat /\ index \in Seq(Entry) /\ out \in Seq(Row) /\ due \in Seq(Row)
  BY DEF IInv, Typed
<1>5. j \in DOMAIN index /\ j \in Nat
  BY <1>4
<1>6. status = "lookup" /\ UNCHANGED <<world, query, todo, opened, lacking, index>>
  BY DEF NextKey
<1>7. row \in Row
  BY <1>2, <1>3, <1>5, KeyAtHand
<1>8. due' = IF Fits(row) /\ status' # "error" THEN Append(due, row) ELSE due
  BY <1>1, <1>3
<1>9. due' \in Seq(Row)
  BY <1>4, <1>7, <1>8
<1>10. CacheIsSafe' = CacheIsSafe
  BY <1>6 DEF CacheIsSafe, OnePackfile, query
<1>11. Selectable' /\ Listed' /\ Keys'
  <2>1. Selectable'
    BY <1>6 DEF IInv, Selectable, query
  <2>2. Listed'
    BY <1>6 DEF IInv, Listed, world
  <2>3. Keys'
    BY <1>6, KeysStand DEF IInv, world, query
  <2> QED
    BY <2>1, <2>2, <2>3
<1>12. ASSUME /\ status' \in {"lookup", "error", "panic"}
              /\ status' = "error" => repacked = TRUE
              /\ prev' \in Int /\ tree' \in Object \union {None} /\ (prev' # 0 => tree' \in Object)
              /\ out' \in Seq(Row),
              CacheIsSafe => Agrees(row),
              KeptTree'
       PROVE  IInv'
  <2>1. Typed'
    <3>1. pos' \in Nat
      BY <1>1, <1>5
    <3>2. status' \in {"new", "build", "lookup", "eof", "failed", "error", "panic"}
      BY <1>12
    <3> QED
      BY <1>6, <1>9, <1>12, <3>1, <3>2 DEF IInv, Typed, world, query
  <2>2. NotBegun'
    BY <1>12 DEF NotBegun
  <2>3. LookupAgreesWithScan'
    <3> SUFFICES ASSUME CacheIsSafe PROVE out' = due'
      BY <1>10 DEF LookupAgreesWithScan
    <3>1. out = due
      BY DEF IInv, LookupAgreesWithScan
    <3>2. out' = IF Fits(row) /\ status' # "error" THEN Append(out, row) ELSE out
      BY <1>12 DEF Agrees
    <3> QED
      BY <1>8, <3>1, <3>2
  <2>4. KeysStayReadable'
    <3>1. CacheIsSafe => status' # "panic"
      BY <1>12 DEF Agrees
    <3>2. repacked' = repacked
      BY <1>6 DEF world
    <3>3. status' # "failed"
      BY <1>12
    <3>4. Used'
      <4>1. pos' = j /\ j > 0
        <5>1. pos' = j
          BY <1>1
        <5>2. j > 0
          BY <1>4
        <5> QED
          BY <5>1, <5>2
      <4> QED
        BY <4>1 DEF Used
    <3> QED
      BY <1>10, <1>12, <3>1, <3>2, <3>3, <3>4 DEF KeysStayReadable
  <2> QED
    BY <1>11, <1>12, <2>1, <2>2, <2>3, <2>4 DEF IInv
<1>13. CASE table # "tree_entries"
  <2>1. Agrees(row)
    BY <1>1, <1>2, <1>3, <1>5, <1>6, <1>13, RowIterAgrees
  <2>2. prev' = prev /\ tree' = tree
    BY <1>1, <1>13
  <2>3. out' \in Seq(Row)
    BY <1>4, <1>7, <2>1 DEF Agrees
  <2>4. status' \in {"lookup", "error", "panic"} /\ (status' = "error" => repacked = TRUE)
    BY <2>1 DEF Agrees
  <2>5. prev' \in Int /\ tree' \in Object \union {None} /\ (prev' # 0 => tree' \in Object)
    BY <2>2 DEF IInv, Typed
  <2>6. KeptTree'
    BY <1>6, <1>13 DEF KeptTree, query
  <2> QED
    BY <1>12, <2>1, <2>3, <2>4, <2>5, <2>6
<1>14. CASE table = "tree_entries"
  <2>1. treeEntriesIndexIter(k)
    BY <1>1, <1>2, <1>14
  <2>2. /\ status' \in {"lookup", "error", "panic"}
        /\ status' = "error" => repacked = TRUE
        /\ prev' \in Int /\ tree' \in Object \union {None} /\ (prev' # 0 => tree' \in Object)
        /\ out' \in Seq(Row)
    BY <1>2, <1>3, <1>5, <1>6, <1>14, <2>1, TreeIterTyped
  <2>3. CacheIsSafe =>
          /\ Agrees(row)
          /\ prev' > 0 => \E i \in DOMAIN index :
                            decode(index[i].key).offset = prev' /\ index[i].row[1] = tree'
    BY <1>2, <1>3, <1>5, <1>6, <1>14, <2>1, TreeIterAgrees
  <2>4. KeptTree'
    BY <1>6, <1>10, <2>3 DEF KeptTree
  <2> QED
    BY <1>12, <2>2, <2>3, <2>4
<1> QED
  BY <1>13, <1>14

(* Every step preserves the invariant. *)
LEMMA NextIInv == IInv /\ [Next]_vars => IInv'
<1> SUFFICES ASSUME IInv, [Next]_vars PROVE IInv'
  OBVIOUS
<1>1. CASE newRepositoryIndex
  <2>1. PICK listed \in SUBSET Object :
           /\ todo' = UNION {RowsOf(x) : x \in listed}
           /\ lacking' = {x \in listed \ Present(store) : Count[x] > 0}
    BY <1>1 DEF newRepositoryIndex
  <2>2. /\ status = "new" /\ status' = "build" /\ opened' = store.packs
        /\ UNCHANGED <<world, query, index, lookup>>
    BY <1>1 DEF newRepositoryIndex
  <2>3. store \in StoreType /\ store.packs \in Seq(Pack) /\ store.loose \in SUBSET Object
    BY DEF IInv, Typed, StoreType
  <2>4. Typed'
    BY <2>2, <2>3 DEF IInv, Typed, world, query, lookup
  <2>5. \A r \in todo' : /\ r[1] \in Object /\ r[2] \in 1..Count[r[1]] /\ r = <<r[1], r[2]>>
                         /\ r[1] \in Present(store) \/ r[1] \in lacking'
    <3> SUFFICES ASSUME NEW r \in todo'
                 PROVE  /\ r[1] \in Object /\ r[2] \in 1..Count[r[1]] /\ r = <<r[1], r[2]>>
                        /\ r[1] \in Present(store) \/ r[1] \in lacking'
      OBVIOUS
    <3>1. PICK x \in listed : r \in RowsOf(x)
      BY <2>1
    <3>2. PICK n \in 1..Count[x] : r = <<x, n>>
      BY <3>1 DEF RowsOf
    <3>3. x \in Object /\ Count[x] > 0
      BY <3>2, CountIsNatural
    <3>4. x \in Present(store) \/ x \in lacking'
      BY <2>1, <3>1, <3>3
    <3> QED
      BY <3>2, <3>3, <3>4
  <2>6. Listed'
    BY <2>2, <2>5 DEF Listed, world, Present
  <2>7. Selectable'
    BY <2>2 DEF IInv, Selectable, query
  <2>8. Keys'
    BY <2>2, KeysStand DEF IInv, world, query
  <2>9. NotBegun' /\ KeptTree' /\ LookupAgreesWithScan'
    BY <2>2, LookupStands DEF query
  <2>10. KeysStayReadable'
    BY <2>2 DEF KeysStayReadable
  <2> QED
    BY <2>4, <2>6, <2>7, <2>8, <2>9, <2>10 DEF IInv
<1>2. CASE StoreKey
  BY <1>2, StoreKeyStep
<1>3. ASSUME UNCHANGED <<world, query, todo, opened, lacking, index, lookup>>, status # "new",
             status' \in {"lookup", "eof", "failed", "panic"},
             status' \in {"failed", "panic"} => pos = 0 /\ (repacked = TRUE \/ lacking # {}),
             status' = "panic" => table \in FileTables
      PROVE  IInv'
  <2>1. Typed'
    BY <1>3 DEF IInv, Typed, world, query, lookup
  <2>2. Selectable'
    BY <1>3 DEF IInv, Selectable, query
  <2>3. Listed'
    BY <1>3 DEF IInv, Listed, world
  <2>4. Keys'
    BY <1>3, KeysStand DEF IInv, world, query
  <2>5. NotBegun' /\ KeptTree' /\ LookupAgreesWithScan'
    BY <1>3, LookupStands DEF query
  <2>6. KeysStayReadable'
    <3>1. pos' = pos /\ repacked' = repacked /\ table' = table /\ lacking' = lacking
      BY <1>3 DEF world, query, lookup
    <3>2. status' \in {"failed", "panic"} => ~Used'
      BY <1>3, <3>1 DEF Used
    <3> QED
      BY <1>3, <3>1, <3>2 DEF KeysStayReadable
  <2> QED
    BY <2>1, <2>2, <2>3, <2>4, <2>5, <2>6 DEF IInv
<1>4. CASE ReadFails
  <2>1. repacked = TRUE \/ lacking # {}
    BY <1>4 DEF IInv, Listed, ReadFails
  <2>2. /\ status = "build" /\ status' \in {"failed", "panic"}
        /\ status' = "panic" => table \in FileTables
    BY <1>4 DEF ReadFails
  <2>3. pos = 0
    BY <2>2 DEF IInv, NotBegun
  <2> QED
    BY <1>3, <1>4, <2>1, <2>2, <2>3 DEF ReadFails
<1>5. CASE FindFails
  <2>1. PICK r \in todo : r[1] \in Present(store) /\ find(r[1]) = {}
    BY <1>5 DEF FindFails
  <2>2. status = "build" /\ status' = "failed"
    BY <1>5 DEF FindFails
  <2>3. repacked = TRUE
    <3> SUFFICES ASSUME repacked # TRUE PROVE FALSE
      OBVIOUS
    <3>1. opened = store.packs /\ opened \in Seq(Pack)
      BY <2>2 DEF IInv, Listed, Typed
    <3> QED
      BY <2>1, <3>1, FindSucceeds
  <2>4. pos = 0
    BY <2>2 DEF IInv, NotBegun
  <2> QED
    BY <1>3, <1>5, <2>2, <2>3, <2>4 DEF FindFails
<1>6. CASE StartLookup \/ EOF
  <2>1. status # "new" /\ status' \in {"lookup", "eof"}
    BY <1>6 DEF StartLookup, EOF
  <2> QED
    BY <1>3, <1>6, <2>1 DEF StartLookup, EOF
<1>7. CASE NextKey
  BY <1>7, NextKeyStep
<1>8. CASE Repack
  <2>1. /\ store' \in Stores /\ repacked' = TRUE
        /\ UNCHANGED <<query, status, todo, opened, lacking, index, lookup>>
    BY <1>8 DEF Repack
  <2>2. Typed'
    BY <2>1, StoresAreStores DEF IInv, Typed, query, lookup
  <2>3. Selectable'
    BY <2>1 DEF IInv, Selectable, query
  <2>4. Listed'
    BY <2>1 DEF IInv, Listed
  <2>5. Keys'
    BY <2>1, KeysStand DEF IInv, query
  <2>6. NotBegun' /\ KeptTree' /\ LookupAgreesWithScan'
    BY <2>1, LookupStands DEF query
  <2>7. KeysStayReadable'
    <3>1. status \in {"build", "lookup"}
      BY <1>8 DEF Repack
    <3> QED
      BY <2>1, <3>1 DEF KeysStayReadable
  <2> QED
    BY <2>2, <2>3, <2>4, <2>5, <2>6, <2>7 DEF IInv
<1>9. CASE UNCHANGED vars
  <2>1. UNCHANGED <<world, query, status, todo, opened, lacking, index, lookup>>
    BY <1>9 DEF vars
  <2>2. Typed'
    BY <2>1 DEF IInv, Typed, world, query, lookup
  <2>3. Selectable'
    BY <2>1 DEF IInv, Selectable, query
  <2>4. Listed'
    BY <2>1 DEF IInv, Listed, world
  <2>5. Keys'
    BY <2>1, KeysStand DEF IInv, world, query
  <2>6. NotBegun' /\ KeptTree' /\ LookupAgreesWithScan'
    BY <2>1, LookupStands DEF query
  <2>7. CacheIsSafe' = CacheIsSafe
    BY <2>1 DEF CacheIsSafe, OnePackfile, query
  <2>8. KeysStayReadable'
    BY <2>1, <2>7 DEF IInv, KeysStayReadable, Used, world, query, lookup
  <2> QED
    BY <2>2, <2>3, <2>4, <2>5, <2>6, <2>8 DEF IInv
<1> QED
  BY <1>1, <1>2, <1>4, <1>5, <1>6, <1>7, <1>8, <1>9 DEF Next

-----------------------------------------------------------------------------
(* The theorems. *)

(* The invariant holds in every state of CREATE INDEX and of the lookups. *)
THEOREM Invariance == Spec => []IInv
<1>1. Init => IInv
  BY InitIInv
<1>2. IInv /\ [Next]_vars => IInv'
  BY NextIInv
<1> QED
  BY <1>1, <1>2, PTL DEF Spec

(* A lookup returns what a scan with the same filters returns for the keys it
   was given, whatever packfile the decoder has open and whatever was
   repacked in between, as long as the tree that treeEntriesIndexIter keeps
   cannot be of another packfile or one that a filter rejected. *)
THEOREM LookupAgrees == Spec => []LookupAgreesWithScan
<1>1. IInv => LookupAgreesWithScan
  BY DEF IInv
<1> QED
  BY <1>1, Invariance, PTL

(* For every object store, what the repository lacks included: a lookup fails
   only after a repack, and building an index fails only after one or for an
   object that is lacking. *)
THEOREM KeysAreReadable == Spec => []KeysStayReadable
<1>1. IInv => KeysStayReadable
  BY DEF IInv
<1> QED
  BY <1>1, Invariance, PTL

-----------------------------------------------------------------------------
(* What is lacking when the objects are listed is never found afterwards, in the
   packfiles that are open or in those of a repack, so its rows are never done
   with. *)
Lacks ==
  /\ \A x \in lacking : x \notin Present(store) /\ \A i \in DOMAIN opened : ~InPack(opened[i], x)
  /\ \A x \in lacking : \E r \in todo : r[1] = x
  /\ Used => todo = {}

(* No step finds a lacking object. *)
LEMMA LacksStep == IInv /\ Lacks /\ [Next]_vars => Lacks'
<1> SUFFICES ASSUME IInv, Lacks, [Next]_vars PROVE Lacks'
  OBVIOUS
<1>1. CASE newRepositoryIndex
  <2>1. PICK listed \in SUBSET Object :
           /\ todo' = UNION {RowsOf(x) : x \in listed}
           /\ lacking' = {x \in listed \ Present(store) : Count[x] > 0}
    BY <1>1 DEF newRepositoryIndex
  <2>2. status' = "build" /\ opened' = store.packs /\ store' = store /\ pos' = 0
    BY <1>1 DEF newRepositoryIndex, world, lookup, IInv, NotBegun
  <2>3. ASSUME NEW x \in lacking'
        PROVE  /\ x \notin Present(store)
               /\ \A i \in DOMAIN opened' : ~InPack(opened'[i], x)
               /\ \E r \in todo' : r[1] = x
    <3>1. x \in listed /\ x \in Object /\ x \notin Present(store) /\ Count[x] \in Nat /\ Count[x] > 0
      BY <2>1, CountIsNatural
    <3>2. \A i \in DOMAIN store.packs : ~InPack(store.packs[i], x)
      BY <3>1 DEF Present
    <3>3. <<x, 1>> \in RowsOf(x)
      BY <3>1 DEF RowsOf
    <3>4. <<x, 1>> \in todo' /\ <<x, 1>>[1] = x
      BY <2>1, <3>1, <3>3
    <3> QED
      BY <2>2, <3>1, <3>2, <3>4
  <2>4. ~Used'
    BY <2>2 DEF Used
  <2> QED
    BY <2>2, <2>3, <2>4 DEF Lacks, Present
<1>2. CASE StoreKey
  <2>1. PICK r \in todo : todo' = todo \ {r} /\ find(r[1]) # {}
    BY <1>2 DEF StoreKey
  <2>2. UNCHANGED <<store, status, opened, lacking, pos>> /\ status = "build"
    BY <1>2 DEF StoreKey, world, lookup
  <2>3. r[1] \notin lacking
    BY <2>1 DEF Lacks, find, Present
  <2>4. ~Used'
    BY <2>2 DEF Used, IInv, NotBegun
  <2>5. \A x \in lacking' : \E q \in todo' : q[1] = x
    BY <2>1, <2>2, <2>3 DEF Lacks
  <2> QED
    BY <2>2, <2>4, <2>5 DEF Lacks, Present
<1>3. CASE ReadFails \/ FindFails
  <2>1. /\ UNCHANGED <<store, opened, todo, lacking, pos>>
        /\ status = "build" /\ status' \in {"failed", "panic"}
    BY <1>3 DEF ReadFails, FindFails, world, lookup
  <2>2. ~Used'
    BY <2>1 DEF Used, IInv, NotBegun
  <2> QED
    BY <2>1, <2>2 DEF Lacks, Present
<1>4. CASE StartLookup \/ EOF \/ NextKey
  <2>1. UNCHANGED <<store, opened, todo, lacking>>
    BY <1>4 DEF StartLookup, EOF, NextKey, world
  <2>2. todo = {}
    BY <1>4 DEF StartLookup, EOF, NextKey, Lacks, Used
  <2> QED
    BY <2>1, <2>2 DEF Lacks, Present
<1>5. CASE Repack
  <2>1. /\ UNCHANGED <<status, opened, todo, lacking, pos>>
        /\ Present(store') \subseteq Present(store)
    BY <1>5 DEF Repack, lookup
  <2>2. Used' = Used
    BY <2>1 DEF Used
  <2>3. Present(store)' = Present(store')
    BY DEF Present
  <2> QED
    BY <2>1, <2>2, <2>3 DEF Lacks
<1>6. CASE UNCHANGED vars
  BY <1>6 DEF vars, world, lookup, Lacks, Present, Used
<1> QED
  BY <1>1, <1>2, <1>3, <1>4, <1>5, <1>6 DEF Next

(* No index is built that leaves out an object its repository lacks, for every
   object store and every repack of it. *)
THEOREM IndexIsWhole == Spec => []NoIndexWithoutItsRows
<1>1. Init => Lacks
  BY DEF Init, Lacks, Used
<1>2. Lacks => NoIndexWithoutItsRows
  BY DEF Lacks, NoIndexWithoutItsRows
<1> QED
  BY <1>1, <1>2, LacksStep, Invariance, PTL DEF Spec
=============================================================================
