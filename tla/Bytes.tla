------------------------------- MODULE Bytes -------------------------------
(***************************************************************************)
(* Pointers and memory bytes of the IR, as they are under one assignment   *)
(* of the solver's variables: a bit field of the code is a record field,   *)
(* a bit vector a number below 2^width.  A program byte has bits_byte      *)
(* bits, a pointer takes ptr_bytes of them.  A block is named by the pair  *)
(* <<local, bid>>; base gives the address of each block.                   *)
(***************************************************************************)
EXTENDS Integers, FiniteSets, Sequences

CONSTANTS bits_byte,         \* bits of a program byte
          ptr_bytes,         \* bytes of a pointer
          bits_for_offset    \* bits of the offset of a logical pointer

bits_ptr_address == bits_byte * ptr_bytes

Trunc(n, w) == n % (2 ^ w)

Signed(n, w) == IF n < 2 ^ (w - 1) THEN n ELSE n - 2 ^ w

Ones(w) == 2 ^ w - 1

(* A pointer has bytes, and a byte bits that can be poison. *)
ASSUME BytesAssumption ==
  bits_byte \in Nat \ {0} /\ ptr_bytes \in Nat \ {0} /\ Ones(bits_byte) # 0

(* Bitwise and of two numbers of w bits. *)
And(a, b, w) ==
  LET and[i \in 0 .. w] ==
        IF i = 0 THEN 0
        ELSE and[i - 1] + (IF (a \div 2 ^ (i - 1)) % 2 = 1 /\ (b \div 2 ^ (i - 1)) % 2 = 1
                           THEN 2 ^ (i - 1) ELSE 0)
  IN  and[w]

-----------------------------------------------------------------------------
(* Pointers: a logical one is a block and an offset, a physical one only   *)
(* an address.                                                             *)

Logical(local, bid, off, attrs) ==
  [log |-> TRUE, local |-> local, bid |-> bid,
   off |-> Trunc(off, bits_for_offset), addr |-> 0, attrs |-> attrs]

mkPhysical(addr, attrs) ==
  [log |-> FALSE, local |-> FALSE, bid |-> 0, off |-> 0,
   addr |-> Trunc(addr, bits_ptr_address), attrs |-> attrs]

PtrTyped(p) ==
  DOMAIN p = {"log", "local", "bid", "off", "addr", "attrs"} /\ p.local \in BOOLEAN /\ p.bid \in Nat

mkNullPointer == Logical(FALSE, 0, 0, {})

BlockOf(p) == <<p.local, p.bid>>

getLogAddress(base, p) ==
  Trunc(base[BlockOf(p)] + Signed(p.off, bits_for_offset), bits_ptr_address)

getAddress(base, p) == IF p.log THEN getLogAddress(base, p) ELSE p.addr

isNull(base, p) == getAddress(base, p) = 0

reprWithoutAttrs(p) == [p EXCEPT !.attrs = {}]

(* Pointer + bytes. *)
Plus(p, bytes) ==
  IF p.log THEN [p EXCEPT !.off = Trunc(@ + bytes, bits_for_offset)]
           ELSE [p EXCEPT !.addr = Trunc(@ + bytes, bits_ptr_address)]

maskOffset(base, p, mask) ==
  IF p.log
  THEN [p EXCEPT !.off = Trunc(And(getLogAddress(base, p), mask, bits_ptr_address)
                                 - base[BlockOf(p)], bits_for_offset)]
  ELSE [p EXCEPT !.addr = And(@, mask, bits_ptr_address)]

isInbounds(p, size, strict) ==
  LET off == Signed(p.off, bits_for_offset)
  IN  off >= 0 /\ (IF strict THEN off < size ELSE off <= size)

(* The address falls in block blk. *)
isOfBlock(base, size, addr, blk, bytes) ==
  /\ bytes <= size
  /\ IF bytes = size THEN addr = base[blk]
     ELSE addr >= base[blk] /\ addr < base[blk] + size

isInboundsOf(base, size, addr, blk, bytes) ==
  /\ bytes <= size
  /\ IF bytes = size THEN addr = base[blk]
     ELSE /\ addr >= base[blk]
          /\ addr + bytes < 2 ^ bits_ptr_address
          /\ addr + bytes <= base[blk] + size

(* The offsets of a logical pointer that an access of that many bytes may  *)
(* have in a block of that size.                                           *)
FitsInBlock(p, bytes, size) ==
  LET off == Signed(p.off, bits_for_offset)
  IN  bytes <= size /\ off >= 0 /\ off + bytes <= size

Disjoint(b1, len1, b2, len2) == b1 >= b2 + len2 \/ b2 >= b1 + len1

isDisjointOrEqual(p1, len1, p2, len2) ==
  \/ BlockOf(p1) # BlockOf(p2)
  \/ p1.off = p2.off
  \/ Disjoint(Signed(p1.off, bits_for_offset), len1, Signed(p2.off, bits_for_offset), len2)

(* Pointer::refined.  i1 and i2 describe the block of each pointer: its    *)
(* size, its kind and whether it is alive.                                 *)
PtrRefined(base, p1, i1, p2, i2) ==
  IF isNull(base, p1) THEN isNull(base, p2)
  ELSE IF p1.log /\ ~p2.log /\ BlockOf(p1) = <<FALSE, 0>>
       THEN getAddress(base, p1) = getAddress(base, p2)
  ELSE IF p1.log /\ p1.local
       THEN /\ p2.log /\ p2.local
            /\ i1.kind = i2.kind /\ i1.size = i2.size /\ p1.off = p2.off
            /\ i1.alive => i2.alive
  ELSE reprWithoutAttrs(p1) = reprWithoutAttrs(p2)

(* at_least_same_offseting: the callee can do with p2 what it can with p1. *)
at_least_same_offseting(p1, i1, p2, i2) ==
  LET o1 == Signed(p1.off, bits_for_offset)
      o2 == Signed(p2.off, bits_for_offset)
  IN  IF i1.kind = "malloc"
      THEN i1.kind = i2.kind /\ o1 = o2 /\ i1.size = i2.size
      ELSE IF o1 < 0 THEN o1 = o2 /\ i2.size >= i1.size
      ELSE IF o1 <= i1.size
           THEN o2 >= 0 /\ o2 <= i2.size /\ o2 >= o1 /\ i2.size - o2 >= i1.size - o1
           ELSE o2 > i2.size /\ o1 = o2 /\ i2.size >= i1.size

fninputRefined(base, p1, i1, p2, i2) ==
  IF isNull(base, p1) THEN isNull(base, p2)
  ELSE IF p1.log /\ p1.local
       THEN p2.log /\ p2.local /\ at_least_same_offseting(p1, i1, p2, i2)
  ELSE reprWithoutAttrs(p1) = reprWithoutAttrs(p2)

-----------------------------------------------------------------------------
(* Bytes.  sh is the symbolic shape of a stored pointer (the leaves of its *)
(* expression), which the value of the byte does not depend on.            *)

IntByte(val, np, nbits, bnum) ==
  [ptr |-> FALSE, val |-> val, np |-> np, nbits |-> nbits, bnum |-> bnum]

PtrByte(p, pnp, i, sh) == [ptr |-> TRUE, p |-> p, pnp |-> pnp, i |-> i, sh |-> sh]

mkPoisonByte == IntByte(0, 0, 0, 1)

NoShape(b) == IF b.ptr THEN [b EXCEPT !.sh = {}] ELSE b

castPtrToInt(base, b) ==
  Trunc(getAddress(base, b.p) \div 2 ^ (b.i * bits_byte), bits_byte)

(* TypedByte: ty is the over-approximation of what the block holds.  A     *)
(* pointer byte read as a non-pointer one gives bits of the pointer, which *)
(* stand here as a value of whole bits.                                    *)
isPtr(b, ty) == "ptr" \in ty /\ b.ptr

NonPtr(b) == IF b.ptr THEN IntByte(0, Ones(bits_byte), 0, 0) ELSE b

forceCastToInt(base, b, ty) ==
  CASE ty = {}          -> 0
    [] ty = {"int"}     -> NonPtr(b).val
    [] OTHER            -> IF b.ptr THEN castPtrToInt(base, b) ELSE b.val

(* The non-poison mask of a byte read with the type of its block. *)
nonPoison(b, ty) ==
  CASE ty = {}      -> 0
    [] ty = {"int"} -> NonPtr(b).np
    [] OTHER        -> IF b.ptr THEN (IF b.pnp THEN Ones(bits_byte) ELSE 0) ELSE b.np

isPoison(b, ty) == nonPoison(b, ty) # Ones(bits_byte)

(* TypedByte::refined. info1 and info2 describe the blocks of either side. *)
ByteRefined(base, b1, t1, info1, b2, t2, info2) ==
  IF isPtr(b1, t1)
  THEN b1.pnp =>
         IF isPtr(b2, t2)
         THEN b2.pnp /\ b1.i = b2.i /\
              PtrRefined(base, b1.p, info1[BlockOf(b1.p)], b2.p, info2[BlockOf(b2.p)])
         ELSE /\ NonPtr(b2).np = Ones(bits_byte)
              /\ b1.p.log => BlockOf(b1.p) = <<FALSE, 0>>
              /\ Trunc(getAddress(base, b1.p), bits_byte) = NonPtr(b2).val
  ELSE LET n1  == NonPtr(b1)
           np2 == nonPoison(b2, t2)
           v2  == forceCastToInt(base, b2, t2)
       IN  /\ n1.np = 0 \/ (n1.nbits = NonPtr(b2).nbits /\ n1.bnum = NonPtr(b2).bnum)
           /\ And(np2, n1.np, bits_byte) = n1.np
           /\ And(n1.val, n1.np, bits_byte) = And(v2, n1.np, bits_byte)

-----------------------------------------------------------------------------
(* Values in memory.  A type is its number of bits, 0 for a pointer.       *)

PtrTy == 0

getStoreByteSize(ty) ==
  IF ty = PtrTy THEN ptr_bytes ELSE (ty + bits_byte - 1) \div bits_byte

(* The number of stored bits that a byte records: 0 for whole bytes. *)
SubBits(ty) == IF ty % bits_byte = 0 THEN 0 ELSE ty

(* valueToBytes: pad fills the bits between the value and the next byte;   *)
(* the byte fields on sub-byte accesses exist only if the program has one. *)
valueToBytes(val, ty, sh, pad, subbyte) ==
  LET n     == getStoreByteSize(ty)
      full  == val.v + (IF n * bits_byte > ty THEN pad * 2 ^ ty ELSE 0)
      np    == (IF val.np THEN Ones(ty) ELSE 0)
                 + (IF n * bits_byte > ty THEN pad * 2 ^ ty ELSE 0)
      At(x, i) == Trunc(x \div 2 ^ (i * bits_byte), bits_byte)
  IN  [i \in 0 .. n - 1 |->
         IF ty = PtrTy THEN PtrByte(val.v, val.np, i, sh)
         ELSE IntByte(At(full, i), At(np, i), IF subbyte THEN SubBits(ty) ELSE 0,
                      IF subbyte THEN i ELSE 0)]

(* bytesToValue. bs is a function from 0..n-1 to bytes, ts to their types. *)
PtrOfBytes(base, bs, ts) ==
  LET n   == Cardinality(DOMAIN bs)
      all == \A i \in DOMAIN bs : isPtr(bs[i], ts[i])
      cast[i \in 0 .. n] ==
        IF i = 0 THEN 0
        ELSE cast[i - 1] + forceCastToInt(base, bs[i - 1], ts[i - 1]) * 2 ^ ((i - 1) * bits_byte)
  IN  [v  |-> IF all THEN bs[0].p ELSE Logical(FALSE, 0, cast[n], {}),
       np |-> /\ \A i \in DOMAIN bs : ~isPoison(bs[i], ts[i])
              /\ all => \A i \in DOMAIN bs : bs[i].i = i /\ bs[i].p = bs[0].p]

IntOfBytes(base, bs, ts, ty, subbyte) ==
  LET n  == Cardinality(DOMAIN bs)
      np(i) == LET b == bs[i] IN
        IF isPtr(b, ts[i]) THEN IF b.pnp /\ SubBits(ty) = 0 THEN Ones(bits_byte) ELSE 0
        ELSE IF subbyte /\ (NonPtr(b).nbits # SubBits(ty) \/ NonPtr(b).bnum # i) THEN 0
        ELSE NonPtr(b).np
      cat[i \in 0 .. n] ==
        IF i = 0 THEN [v |-> 0, np |-> 0]
        ELSE [v  |-> cat[i - 1].v
                      + forceCastToInt(base, bs[i - 1], ts[i - 1]) * 2 ^ ((i - 1) * bits_byte),
              np |-> cat[i - 1].np + np(i - 1) * 2 ^ ((i - 1) * bits_byte)]
  IN  [v |-> Trunc(cat[n].v, ty), np |-> Trunc(cat[n].np, ty) = Ones(ty)]

bytesToValue(base, bs, ts, ty, subbyte) ==
  IF ty = PtrTy THEN PtrOfBytes(base, bs, ts) ELSE IntOfBytes(base, bs, ts, ty, subbyte)
=============================================================================
