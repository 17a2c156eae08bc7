------------------------------ MODULE IndexKey ------------------------------
(***************************************************************************)
(* index.go: how the keys of an index are stored.  A key says where the    *)
(* object of a row is - a packfile and an offset, or, for an object that   *)
(* is in no packfile, its hash - and which row of the object it is.        *)
(*                                                                         *)
(* Integers are 64 bits wide in the code; here they are the integers from  *)
(* -Half to Half - 1, stored as naturals below 2 * Half (Half is 2^63).    *)
(***************************************************************************)
EXTENDS Integers

CONSTANTS
  Half,     \* half of the number of machine integers
  NoHash    \* the empty string, and plumbing.ZeroHash

ASSUME HalfIsPositive == Half \in Nat \ {0}

Int64 == (-Half)..(Half - 1)

\* ^x on unsigned integers, and on signed ones.
Complement(u) == 2 * Half - 1 - u

SignedComplement(x) == -1 - x

(* A slip: the bits of a negative number are not inverted. *)
SlipWriteInt64(n) == (2 * n) % (2 * Half)

(* uint64(n) << 1, inverted when n is negative. *)
writeInt64(n) ==
  LET ux == (2 * n) % (2 * Half)
  IN  IF n < 0 THEN Complement(ux) ELSE ux

readInt64(ux) ==
  LET x == ux \div 2
  IN  IF ux % 2 # 0 THEN SignedComplement(x) ELSE x

(* The keys of commits, blobs, files and tree entries: the offset or the
   hash is stored, never both. *)
encode(k) ==
  [pack |-> k.pack,
   packed |-> k.offset >= 0,
   offset |-> IF k.offset >= 0 THEN writeInt64(k.offset) ELSE 0,
   hash |-> IF k.offset >= 0 THEN NoHash ELSE k.hash,
   pos |-> writeInt64(k.pos)]

decode(s) ==
  [pack |-> s.pack,
   offset |-> IF s.packed THEN readInt64(s.offset) ELSE -1,
   hash |-> s.hash,
   pos |-> readInt64(s.pos)]

(* The keys of commit files: everything is stored. *)
encodeAll(k) ==
  [pack |-> k.pack, packed |-> TRUE, offset |-> writeInt64(k.offset),
   hash |-> k.hash, pos |-> writeInt64(k.pos)]
=============================================================================
